------------------------------ MODULE AgentRun ------------------------------
(***************************************************************************)
(* The turn loop of agent-service: Agent.run and the Session objects it    *)
(* works on (agent.py, session.py), behind POST /sessions, DELETE          *)
(* /sessions/{id}, POST /sessions/{id}/queue-message and POST /chat        *)
(* (router.py).                                                            *)
(*                                                                         *)
(* FastAPI runs these synchronous handlers in a pool of threads, so a run  *)
(* interleaves with queue-message, with the creation and deletion of its   *)
(* session and with other runs, wherever it holds no lock.  Session._lock  *)
(* guards the queue and the context for one short critical section at a    *)
(* time, SessionRegistry._lock the dictionary: each section is one action. *)
(* What a run does to its own staged and pending messages is invisible to  *)
(* other threads and joins the neighbouring section.                       *)
(*                                                                         *)
(* A message of the history is an entry [kind, n]:                         *)
(*   turn n      the system marker <turn index="n"/>                       *)
(*   user m      a user message                                            *)
(*   call n      an assistant message with n tool calls                    *)
(*   tool n      a tool result, n more of the same assistant to follow     *)
(*   answer n    an assistant message as the model wrote it, for another   *)
(*               finish reason than "tool_calls", with n tool calls        *)
(*   reply n     an assistant message with a converged <reply>, n as above *)
(*   fallback    the fixed fallback <reply>                                *)
(* The two system messages every context begins with never change and are  *)
(* left out.                                                               *)
(*                                                                         *)
(* Faulty... operators are wrong variants of the definition below them,    *)
(* used by no action.                                                      *)
(***************************************************************************)
EXTENDS Integers, Sequences, FiniteSets

CONSTANTS
    Ids,            \* session ids
    Sessions,       \* identities of Session objects (bound: how many are created)
    Chats,          \* threads that serve /chat
    MaxTurns,       \* max_turns
    MaxMessages,    \* bound: user messages posted to /chat and /queue-message
    MaxCalls,       \* bound: tool calls in one assistant message
    None

ASSUME TurnAssumption == MaxTurns \in Nat \ {0} /\ MaxMessages \in Nat /\ MaxCalls \in Nat
ASSUME NoneAssumption == None \notin Sessions

Messages == 1..MaxMessages

VARIABLES
    registry,   \* SessionRegistry._sessions
    created,    \* the Session objects created so far
    context,    \* Session._context.messages
    queued,     \* Session._queued_user_messages
    pc,         \* where the run of a thread is
    session,    \* its Session object
    staged,     \* staged_messages
    pending,    \* pending_user_messages
    turn,       \* turns begun
    calls,      \* tool calls of the last assistant message not yet run
    arrived     \* user messages accepted so far

sessionVars == << registry, created, context, queued >>
runVars == << pc, session, staged, pending, turn, calls >>
vars == << sessionVars, runVars, arrived >>

Entry(kind, n) == [kind |-> kind, n |-> n]

Entries ==
    { Entry("turn", n) : n \in 1..MaxTurns } \cup { Entry("user", m) : m \in Messages }
    \cup [kind : {"call", "tool", "answer", "reply"}, n : 0..MaxCalls]
    \cup { Entry("fallback", 0) }

\* _stage_user_messages
UserEntries(messages) == [i \in DOMAIN messages |-> Entry("user", messages[i])]

Init ==
    /\ registry = [id \in Ids |-> None]
    /\ created = {}
    /\ context = [s \in Sessions |-> << >>]
    /\ queued = [s \in Sessions |-> << >>]
    /\ pc = [c \in Chats |-> "idle"]
    /\ session = [c \in Chats |-> None]
    /\ staged = [c \in Chats |-> << >>]
    /\ pending = [c \in Chats |-> << >>]
    /\ turn = [c \in Chats |-> 0]
    /\ calls = [c \in Chats |-> 0]
    /\ arrived = 0

-----------------------------------------------------------------------------
(* The session endpoints *)

\* POST /sessions: a new Session takes the id, whether or not one had it.
CreateSession(id) ==
    \E s \in Sessions \ created :
        /\ registry' = [registry EXCEPT ![id] = s]
        /\ created' = created \cup {s}
        /\ UNCHANGED << context, queued, runVars, arrived >>

\* DELETE /sessions/{id}: a run that works on the Session keeps it.
DeleteSession(id) ==
    /\ registry[id] # None
    /\ registry' = [registry EXCEPT ![id] = None]
    /\ UNCHANGED << created, context, queued, runVars, arrived >>

\* POST /sessions/{id}/queue-message, unless 404.
QueueMessage(id) ==
    /\ registry[id] # None /\ arrived < MaxMessages
    /\ queued' = [queued EXCEPT ![registry[id]] = Append(@, arrived + 1)]
    /\ arrived' = arrived + 1
    /\ UNCHANGED << registry, created, context, runVars >>

\* POST /chat, unless 404: the thread looks the Session up and starts Agent.run.
Chat(c, id) ==
    /\ pc[c] = "idle" /\ registry[id] # None /\ arrived < MaxMessages
    /\ session' = [session EXCEPT ![c] = registry[id]]
    /\ staged' = [staged EXCEPT ![c] = << >>]
    /\ pending' = [pending EXCEPT ![c] = << arrived + 1 >>]
    /\ turn' = [turn EXCEPT ![c] = 0]
    /\ calls' = [calls EXCEPT ![c] = 0]
    /\ pc' = [pc EXCEPT ![c] = "turn"]
    /\ arrived' = arrived + 1
    /\ UNCHANGED sessionVars

-----------------------------------------------------------------------------
(* Agent.run *)

FaultyTurnsLeft(c) == turn[c] <= MaxTurns     \* one turn too many

\* range(max_turns)
TurnsLeft(c) == turn[c] < MaxTurns

\* The head of the turn loop: the marker and the pending users are staged, the model
\* is called with the context and everything staged.
BeginTurn(c) ==
    /\ pc[c] = "turn" /\ TurnsLeft(c)
    /\ turn' = [turn EXCEPT ![c] = @ + 1]
    /\ staged' = [staged EXCEPT
                    ![c] = @ \o << Entry("turn", turn[c] + 1) >> \o UserEntries(pending[c])]
    /\ pending' = [pending EXCEPT ![c] = << >>]
    /\ pc' = [pc EXCEPT ![c] = "llm"]
    /\ UNCHANGED << session, calls, sessionVars, arrived >>

\* The model answers with the finish reason that leads to next.  The answer is staged
\* with its tool calls, whatever the reason.
Answers(c, entry, next) ==
    /\ pc[c] = "llm"
    /\ staged' = [staged EXCEPT ![c] = Append(@, entry)]
    /\ pc' = [pc EXCEPT ![c] = next]
    /\ UNCHANGED << session, pending, turn, sessionVars, arrived >>

AnswersStop(c) ==
    /\ \E n \in 0..MaxCalls : Answers(c, Entry("answer", n), "stop")
    /\ UNCHANGED calls

AnswersCalls(c) ==
    \E n \in 0..MaxCalls :
        /\ Answers(c, Entry("call", n), "tools")
        /\ calls' = [calls EXCEPT ![c] = n]

\* length, content_filter, ...: the run fails.
AnswersOther(c) ==
    /\ \E n \in 0..MaxCalls : Answers(c, Entry("answer", n), "fail")
    /\ UNCHANGED calls

\* The call of the model raises.
ModelFails(c) ==
    /\ pc[c] = "llm"
    /\ pc' = [pc EXCEPT ![c] = "fail"]
    /\ UNCHANGED << session, staged, pending, turn, calls, sessionVars, arrived >>

FaultyDrainKeeps(c) ==       \* copy() without clear()
    /\ pending' = [pending EXCEPT ![c] = queued[session[c]]]
    /\ UNCHANGED queued

FaultyDrainForgets(c) ==     \* the result of the drain is not used
    /\ queued' = [queued EXCEPT ![session[c]] = << >>]
    /\ UNCHANGED pending

\* _drain_queued_user_messages: the queue becomes the pending messages of the next turn.
Drain(c) ==
    /\ pending' = [pending EXCEPT ![c] = queued[session[c]]]
    /\ queued' = [queued EXCEPT ![session[c]] = << >>]

Answer(c) == staged[c][Len(staged[c])]
WithoutAnswer(c) == SubSeq(staged[c], 1, Len(staged[c]) - 1)

\* finish_reason "stop" with messages queued meanwhile: the loop continues with them.
ContinueWithQueued(c) ==
    /\ pc[c] = "stop" /\ queued[session[c]] # << >>
    /\ Drain(c)
    /\ staged' = [staged EXCEPT ![c] = WithoutAnswer(c)]
    /\ pc' = [pc EXCEPT ![c] = "turn"]
    /\ UNCHANGED << session, turn, calls, registry, created, context, arrived >>

\* finish_reason "stop" and nothing queued: the content of the answer converges to a
\* <reply> (_parse_agent_reply wraps whatever is not one), its tool calls stay.
Conclude(c) ==
    /\ pc[c] = "stop" /\ queued[session[c]] = << >>
    /\ staged' = [staged EXCEPT ![c] = Append(WithoutAnswer(c), Entry("reply", Answer(c).n))]
    /\ pc' = [pc EXCEPT ![c] = "commit"]
    /\ UNCHANGED << session, pending, turn, calls, sessionVars, arrived >>

FaultyCommitStaged(c, messages) ==   \* the Session is looked up again
    /\ \E id \in Ids :
          /\ registry[id] # None
          /\ context' = [context EXCEPT ![registry[id]] = @ \o messages]
    /\ pc' = [pc EXCEPT ![c] = "idle"]
    /\ session' = [session EXCEPT ![c] = None]
    /\ staged' = [staged EXCEPT ![c] = << >>]
    /\ pending' = [pending EXCEPT ![c] = << >>]
    /\ turn' = [turn EXCEPT ![c] = 0]
    /\ calls' = [calls EXCEPT ![c] = 0]
    /\ UNCHANGED << registry, created, queued, arrived >>

\* The staged messages join the context in one critical section, the run returns.
CommitStaged(c, messages) ==
    /\ context' = [context EXCEPT ![session[c]] = @ \o messages]
    /\ pc' = [pc EXCEPT ![c] = "idle"]
    /\ session' = [session EXCEPT ![c] = None]
    /\ staged' = [staged EXCEPT ![c] = << >>]
    /\ pending' = [pending EXCEPT ![c] = << >>]
    /\ turn' = [turn EXCEPT ![c] = 0]
    /\ calls' = [calls EXCEPT ![c] = 0]
    /\ UNCHANGED << registry, created, queued, arrived >>

Commit(c) == pc[c] = "commit" /\ CommitStaged(c, staged[c])

FaultyRunTool(c) ==      \* the queue is drained between two tool results
    /\ pc[c] = "tools" /\ calls[c] > 0
    /\ staged' = [staged EXCEPT ![c] = Append(@, Entry("tool", calls[c] - 1))
                                         \o UserEntries(queued[session[c]])]
    /\ queued' = [queued EXCEPT ![session[c]] = << >>]
    /\ calls' = [calls EXCEPT ![c] = @ - 1]
    /\ UNCHANGED << pc, session, pending, turn, registry, created, context, arrived >>

\* A tool call returns or fails: a result is staged either way.
RunTool(c) ==
    /\ pc[c] = "tools" /\ calls[c] > 0
    /\ staged' = [staged EXCEPT ![c] = Append(@, Entry("tool", calls[c] - 1))]
    /\ calls' = [calls EXCEPT ![c] = @ - 1]
    /\ UNCHANGED << pc, session, pending, turn, sessionVars, arrived >>

\* All tool results are staged: the queue is drained for the next turn.
DrainAfterTools(c) ==
    /\ pc[c] = "tools" /\ calls[c] = 0
    /\ Drain(c)
    /\ pc' = [pc EXCEPT ![c] = "turn"]
    /\ UNCHANGED << session, staged, turn, calls, registry, created, context, arrived >>

FaultyFallback(c) ==     \* the loop ends without an error when no turn is left
    /\ pc[c] = "fail"
    /\ CommitStaged(c, Append(staged[c], Entry("fallback", 0)))

\* The except branch: a failure of the model, an odd finish reason or no turn left.
Fallback(c) ==
    /\ pc[c] = "fail" \/ (pc[c] = "turn" /\ ~TurnsLeft(c))
    /\ CommitStaged(c, Append(staged[c], Entry("fallback", 0)))

\* What a run does on its own, the answer of the model included.
OwnStep(c) ==
    \/ BeginTurn(c)
    \/ AnswersStop(c) \/ AnswersCalls(c) \/ AnswersOther(c) \/ ModelFails(c)
    \/ ContinueWithQueued(c) \/ Conclude(c) \/ Commit(c)
    \/ DrainAfterTools(c)
    \/ Fallback(c)

RunStep(c) == OwnStep(c) \/ RunTool(c)

Next ==
    \/ \E id \in Ids : CreateSession(id) \/ DeleteSession(id) \/ QueueMessage(id)
    \/ \E c \in Chats, id \in Ids : Chat(c, id)
    \/ \E c \in Chats : RunStep(c)

Spec == Init /\ [][Next]_vars

\* A thread runs, and a call of the model ends: its client has a timeout (llm_timeout).
\* Nothing obliges a tool call to return, since mcp_gateway.py calls it without a timeout,
\* nor a request to come.
Fairness == \A c \in Chats : WF_vars(OwnStep(c))

FairSpec == Spec /\ Fairness

-----------------------------------------------------------------------------
(* Properties *)

\* Every variable keeps its type.
TypeOK ==
    /\ registry \in [Ids -> Sessions \cup {None}]
    /\ created \subseteq Sessions
    /\ context \in [Sessions -> Seq(Entries)]
    /\ queued \in [Sessions -> Seq(Messages)]
    /\ pc \in [Chats -> {"idle", "turn", "llm", "stop", "tools", "commit", "fail"}]
    /\ session \in [Chats -> Sessions \cup {None}]
    /\ staged \in [Chats -> Seq(Entries)]
    /\ pending \in [Chats -> Seq(Messages)]
    /\ turn \in [Chats -> 0..MaxTurns]
    /\ calls \in [Chats -> 0..MaxCalls]
    /\ arrived \in 0..MaxMessages

\* What may follow what in a history.
Follows(a, b) ==
    CASE a.kind \in {"reply", "fallback"} -> b = Entry("turn", 1)
      [] a.kind \in {"call", "tool"} /\ a.n > 0 -> b = Entry("tool", a.n - 1)
      [] a.kind = "tool" /\ a.n = 0 -> b.kind \in {"turn", "fallback"}
      [] a.kind = "answer" -> b.kind = "fallback"
      [] a.kind = "user" /\ b.kind = "user" -> a.n < b.n
      [] a.kind = "user" /\ b.kind # "user" -> b.kind # "tool"
      [] OTHER -> b.kind # "tool"

\* The last turn marker at or before position i.
TurnAt(h, i) ==
    LET marks == { j \in 1..i : h[j].kind = "turn" }
    IN  IF marks = {} THEN 0
        ELSE h[CHOOSE j \in marks : \A k \in marks : k <= j].n

WellFormed(h) ==
    /\ h # << >> => h[1] = Entry("turn", 1)
    /\ \A i \in 1..(Len(h) - 1) :
          /\ Follows(h[i], h[i + 1])
          /\ h[i + 1].kind = "turn" /\ h[i].kind \notin {"reply", "fallback"}
                => h[i + 1].n = TurnAt(h, i) + 1

\* What the model is given, and what a run leaves behind, is a sequence of whole runs:
\* markers count from 1 in each; an assistant message that ends with "tool_calls" is
\* followed at once by the results of all its calls, no message slips between them; users
\* come in the order they were accepted; an answer for any other reason is the last of its
\* run, or the last before the fallback; and concurrent runs of one session never mix
\* (docs/agent-service.md:156-159).
HistoryWellFormed ==
    /\ \A s \in Sessions :
          /\ WellFormed(context[s])
          /\ context[s] # << >> =>
                context[s][Len(context[s])].kind \in {"reply", "fallback"}
    /\ \A c \in Chats : pc[c] = "llm" => WellFormed(context[session[c]] \o staged[c])

UserPositions(h, m) == { i \in DOMAIN h : h[i] = Entry("user", m) }
Positions(q, m) == { i \in DOMAIN q : q[i] = m }

\* A Session that the registry has dropped is kept as long as a run works on it; the
\* object is freed with all it holds when the last reference goes.
Live == { s \in Sessions : \/ \E id \in Ids : registry[id] = s
                           \/ \E c \in Chats : session[c] = s }

\* Every place a user message can be: a run, or the history or queue of a live Session.
Places(m) ==
    (UNION { { << "context", s, i >> : i \in UserPositions(context[s], m) } : s \in Live })
    \cup (UNION { { << "staged", c, i >> : i \in UserPositions(staged[c], m) } : c \in Chats })
    \cup (UNION { { << "pending", c, i >> : i \in Positions(pending[c], m) } : c \in Chats })
    \cup (UNION { { << "queued", s, i >> : i \in Positions(queued[s], m) } : s \in Live })

Holds(s, m) == UserPositions(context[s], m) # {} \/ Positions(queued[s], m) # {}

\* The model is never shown a message twice: it is in at most one place, whichever
\* thread drains it and whatever becomes of the run.
NeverTwice == \A m \in Messages : Cardinality(Places(m)) <= 1

\* A message that was accepted disappears only two ways: drained for a next turn by a run
\* that has no turn left, or with its Session, when that is deleted or replaced while no
\* run works on it, or when the last run that works on it ends after that.  A failure
\* of the model or of a tool, or a deletion under a run, loses none.
LostAtLimitOrFreed ==
    [][\A m \in 1..arrived :
         Places(m) # {} /\ Places(m)' = {} =>
             \/ \E c \in Chats : turn[c] = MaxTurns /\ m \in { pending[c][i] : i \in DOMAIN pending[c] }
             \/ \E s \in Live : s \notin Live' /\ Holds(s, m)']_vars

\* The Session a place belongs to.
Home(place) ==
    IF place[1] \in {"context", "queued"} THEN place[2] ELSE session[place[2]]

\* A message stays with the Session that accepted it, though its id may name another one
\* before the run ends: no conversation that was deleted leaks into the one that took
\* its place.
MessagesStayHome ==
    [][\A m \in Messages : \A p \in Places(m) : \A q \in Places(m)' : Home(p) = Home(q)']_vars

\* No accepted message disappears but with a Session that is freed: a run that fails still
\* commits its user messages (docs/agent-service.md:160).  The code does not ensure it for
\* messages drained when the last turn is over.
NothingLost ==
    \A m \in 1..arrived : Places(m) # {} \/ \E s \in Sessions \ Live : Holds(s, m)

\* The results of every tool call follow it at once in the history (agent.py:181-182).
\* The code does not ensure it for calls that come with another finish reason than
\* "tool_calls": they are staged and committed, and never run.
CallsAreAnswered ==
    \A s \in Sessions : \A i \in DOMAIN context[s] :
        LET e == context[s][i] IN
        e.kind \in {"call", "answer", "reply"} /\ e.n > 0 =>
            i < Len(context[s]) /\ context[s][i + 1] = Entry("tool", e.n - 1)

AwaitsTool(c) == pc[c] = "tools" /\ calls[c] > 0

\* Every run ends, unless it waits for ever for a tool, however many tool calls the model
\* makes and however many messages are queued meanwhile: each of them costs a turn.
EveryChatEnds == \A c \in Chats : []<>(pc[c] = "idle") \/ <>[]AwaitsTool(c)

=============================================================================

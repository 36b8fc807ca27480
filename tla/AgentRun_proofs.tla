--------------------------- MODULE AgentRun_proofs ---------------------------
(***************************************************************************)
(* Proofs about AgentRun, for every number of sessions, chats, turns,      *)
(* messages and tool calls: an accepted user message is in one place, is   *)
(* dropped only when the last turn is over or its Session is freed, stays  *)
(* with its Session until then, and every history is a sequence of whole   *)
(* runs, however runs of one session interleave.                           *)
(***************************************************************************)
EXTENDS AgentRun, SequenceTheorems, FiniteSetTheorems, TLAPS

\* A thread has a Session exactly while it runs, nothing staged before, and messages
\* pending for the next turn only at the head of the turn loop.
RunInv ==
    \A c \in Chats :
        /\ pc[c] = "idle" <=> session[c] = None
        /\ pc[c] = "idle" => staged[c] = << >>
        /\ pc[c] # "turn" => pending[c] = << >>

TypedRun == TypeOK /\ RunInv

EndOf(h) == h[Len(h)]
\* An assistant message with any number of tool calls.
Of(e, kind) == \E n \in 0..MaxCalls : e = Entry(kind, n)

Said(e) == e.kind \in {"turn", "user"}
Settled(e) == Said(e) \/ (e.kind \in {"call", "tool"} /\ e.n = 0)

\* What a run with n tool calls to make has staged last, by where it is.
EndsAs(h, at, n) ==
    /\ at = "turn" => h = << >> \/ Settled(EndOf(h))
    /\ at \notin {"idle", "turn"} => h # << >>
    /\ at = "llm" => Said(EndOf(h))
    /\ at = "stop" => Len(h) > 1 /\ Of(EndOf(h), "answer") /\ Said(h[Len(h) - 1])
    /\ at = "tools" => EndOf(h).kind \in {"call", "tool"} /\ EndOf(h).n = n
    /\ at = "commit" => Of(EndOf(h), "reply")
    /\ at = "fail" => EndOf(h).kind \in {"turn", "user", "answer"}

EndInv == \A c \in Chats : EndsAs(staged[c], pc[c], calls[c])

StagedRun == TypedRun /\ EndInv

-----------------------------------------------------------------------------
(* Types *)

\* The entries a run can stage.
LEMMA EntryTypes ==
    /\ \A n \in 1..MaxTurns : Entry("turn", n) \in Entries
    /\ \A m \in Messages : Entry("user", m) \in Entries
    /\ \A n \in 0..MaxCalls, kind \in {"call", "tool", "answer", "reply"} : Entry(kind, n) \in Entries
    /\ Entry("fallback", 0) \in Entries
BY DEF Entry, Entries

\* What an entry is.
LEMMA EntryFields ==
    \A kind, n : Entry(kind, n).kind = kind /\ Entry(kind, n).n = n
BY DEF Entry

\* Staging user messages keeps their number and order.
LEMMA UserEntriesType ==
    ASSUME NEW q \in Seq(Messages)
    PROVE  /\ UserEntries(q) \in Seq(Entries)
           /\ Len(UserEntries(q)) = Len(q)
           /\ \A i \in 1..Len(q) : UserEntries(q)[i] = Entry("user", q[i])
<1>1. Len(q) \in Nat /\ DOMAIN q = 1..Len(q) /\ q \in [1..Len(q) -> Messages]
    BY LenProperties
<1>2. UserEntries(q) = [i \in 1..Len(q) |-> Entry("user", q[i])]
    BY <1>1 DEF UserEntries
<1>3. UserEntries(q) \in [1..Len(q) -> Entries]
    BY <1>1, <1>2, EntryTypes
<1>4. UserEntries(q) \in Seq(Entries)
    BY <1>1, <1>3
<1>5. DOMAIN UserEntries(q) = 1..Len(UserEntries(q)) /\ Len(UserEntries(q)) \in Nat
    BY <1>4, LenProperties
<1>6. Len(UserEntries(q)) = Len(q)
    BY <1>1, <1>2, <1>5
<1>7. QED
    BY <1>2, <1>4, <1>6

\* Before any request.
LEMMA InitTyped == Init => TypedRun
<1> SUFFICES ASSUME Init PROVE TypedRun
    OBVIOUS
<1>1. << >> \in Seq(Entries) /\ << >> \in Seq(Messages)
    BY EmptySeq
<1>2. TypeOK
    BY <1>1, TurnAssumption DEF Init, TypeOK
<1>3. RunInv
    BY DEF Init, RunInv
<1>4. QED
    BY <1>2, <1>3 DEF TypedRun

\* The session endpoints.
LEMMA EndpointTyped ==
    ASSUME TypedRun, NEW id \in Ids, CreateSession(id) \/ DeleteSession(id) \/ QueueMessage(id)
    PROVE  TypedRun'
<1> USE DEF TypedRun, runVars
<1>1. CASE CreateSession(id)
    BY <1>1 DEF CreateSession, TypeOK, RunInv
<1>2. CASE DeleteSession(id)
    BY <1>2 DEF DeleteSession, TypeOK, RunInv
<1>3. CASE QueueMessage(id)
    <2>1. registry[id] \in Sessions /\ arrived + 1 \in Messages /\ arrived + 1 \in 0..MaxMessages
        BY <1>3, TurnAssumption DEF QueueMessage, TypeOK, Messages
    <2>2. Append(queued[registry[id]], arrived + 1) \in Seq(Messages)
        BY <2>1, AppendProperties DEF TypeOK
    <2>3. queued' \in [Sessions -> Seq(Messages)]
        BY <1>3, <2>1, <2>2 DEF QueueMessage, TypeOK
    <2>4. QED
        BY <1>3, <2>1, <2>3 DEF QueueMessage, TypeOK, RunInv
<1>4. QED
    BY <1>1, <1>2, <1>3

\* /chat.
LEMMA ChatTyped ==
    ASSUME TypedRun, NEW c \in Chats, NEW id \in Ids, Chat(c, id)
    PROVE  TypedRun'
<1> USE DEF TypedRun, sessionVars
<1>1. registry[id] \in Sessions /\ arrived + 1 \in Messages /\ arrived + 1 \in 0..MaxMessages
    BY TurnAssumption DEF Chat, TypeOK, Messages
<1>2. << arrived + 1 >> \in Seq(Messages) /\ << >> \in Seq(Entries)
    BY <1>1, EmptySeq
<1>3. TypeOK'
    BY <1>1, <1>2, TurnAssumption DEF Chat, TypeOK
<1>4. RunInv'
    BY <1>1, NoneAssumption DEF Chat, RunInv, TypeOK
<1>5. QED
    BY <1>3, <1>4

\* A run that takes a step has a Session.
LEMMA SessionOfRun ==
    ASSUME TypedRun, NEW c \in Chats, pc[c] # "idle"
    PROVE  session[c] \in Sessions
BY DEF TypedRun, TypeOK, RunInv

\* The head of the loop and the answers of the model.
LEMMA TurnTyped ==
    ASSUME TypedRun, NEW c \in Chats,
           BeginTurn(c) \/ AnswersStop(c) \/ AnswersCalls(c) \/ AnswersOther(c) \/ ModelFails(c)
    PROVE  TypedRun'
<1> USE DEF TypedRun, sessionVars
<1>1. staged[c] \in Seq(Entries) /\ pending[c] \in Seq(Messages)
    BY DEF TypeOK
<1>2. CASE BeginTurn(c)
    <2>1. turn[c] + 1 \in 1..MaxTurns
        BY <1>2, TurnAssumption DEF BeginTurn, TurnsLeft, TypeOK
    <2>2. << Entry("turn", turn[c] + 1) >> \in Seq(Entries) /\ UserEntries(pending[c]) \in Seq(Entries)
        BY <1>1, <2>1, EntryTypes, UserEntriesType
    <2>3. staged[c] \o << Entry("turn", turn[c] + 1) >> \o UserEntries(pending[c]) \in Seq(Entries)
        BY <1>1, <2>2, ConcatProperties
    <2>4. staged' \in [Chats -> Seq(Entries)]
        BY <1>2, <2>3 DEF BeginTurn, TypeOK
    <2>5. << >> \in Seq(Messages)
        BY EmptySeq
    <2>6. TypeOK'
        BY <1>2, <2>1, <2>4, <2>5 DEF BeginTurn, TypeOK
    <2>7. RunInv'
        BY <1>2 DEF BeginTurn, RunInv, TypeOK
    <2>8. QED
        BY <2>6, <2>7
<1>3. ASSUME NEW e \in Entries, NEW next \in {"stop", "tools", "fail"}, Answers(c, e, next),
             calls' \in [Chats -> 0..MaxCalls]
      PROVE  TypedRun'
    <2>1. Append(staged[c], e) \in Seq(Entries)
        BY <1>1, AppendProperties
    <2>2. staged' \in [Chats -> Seq(Entries)] /\ pc' \in [Chats -> {"idle", "turn", "llm", "stop", "tools", "commit", "fail"}]
        BY <1>3, <2>1 DEF Answers, TypeOK
    <2>3. TypeOK'
        BY <1>3, <2>2 DEF Answers, TypeOK
    <2>4. RunInv'
        BY <1>3 DEF Answers, RunInv, TypeOK
    <2>5. QED
        BY <2>3, <2>4
<1>4. CASE AnswersStop(c)
    <2>1. PICK n \in 0..MaxCalls : Answers(c, Entry("answer", n), "stop") /\ calls' = calls
        BY <1>4 DEF AnswersStop
    <2>2. calls' \in [Chats -> 0..MaxCalls] /\ Entry("answer", n) \in Entries
        BY <2>1, EntryTypes DEF TypeOK
    <2>3. QED
        BY <1>3, <2>1, <2>2
<1>5. CASE AnswersCalls(c)
    <2>1. PICK n \in 0..MaxCalls : Answers(c, Entry("call", n), "tools") /\ calls' = [calls EXCEPT ![c] = n]
        BY <1>5 DEF AnswersCalls
    <2>2. calls' \in [Chats -> 0..MaxCalls] /\ Entry("call", n) \in Entries
        BY <2>1, EntryTypes DEF TypeOK
    <2>3. QED
        BY <1>3, <2>1, <2>2
<1>6. CASE AnswersOther(c)
    <2>1. PICK n \in 0..MaxCalls : Answers(c, Entry("answer", n), "fail") /\ calls' = calls
        BY <1>6 DEF AnswersOther
    <2>2. calls' \in [Chats -> 0..MaxCalls] /\ Entry("answer", n) \in Entries
        BY <2>1, EntryTypes DEF TypeOK
    <2>3. QED
        BY <1>3, <2>1, <2>2
<1>7. CASE ModelFails(c)
    BY <1>7 DEF ModelFails, TypeOK, RunInv
<1>8. QED
    BY <1>2, <1>4, <1>5, <1>6, <1>7

\* The answer that ends the run.
LEMMA AnswerIs ==
    ASSUME StagedRun, NEW c \in Chats, pc[c] = "stop"
    PROVE  Answer(c).kind = "answer" /\ Answer(c).n \in 0..MaxCalls
<1>1. Of(EndOf(staged[c]), "answer")
    BY DEF StagedRun, EndInv, EndsAs
<1>2. PICK n \in 0..MaxCalls : Answer(c) = Entry("answer", n)
    BY <1>1 DEF Of, EndOf, Answer
<1>3. QED
    BY <1>2, EntryFields

\* What is staged without the last answer.
LEMMA WithoutAnswerType ==
    ASSUME TypedRun, NEW c \in Chats
    PROVE  WithoutAnswer(c) \in Seq(Entries)
<1>1. staged[c] \in Seq(Entries)
    BY DEF TypedRun, TypeOK
<1>2. Len(staged[c]) \in Nat /\ staged[c] \in [1..Len(staged[c]) -> Entries]
    BY <1>1, LenProperties
<1>3. \A i \in 1..(Len(staged[c]) - 1) : staged[c][i] \in Entries
    BY <1>2
<1>4. QED
    BY <1>2, <1>3, SubSeqProperties DEF WithoutAnswer

\* The steps of a run between two calls of the model.
LEMMA LoopTyped ==
    ASSUME StagedRun, NEW c \in Chats,
           ContinueWithQueued(c) \/ Conclude(c) \/ RunTool(c) \/ DrainAfterTools(c)
    PROVE  TypedRun'
<1> USE DEF StagedRun, TypedRun, sessionVars
<1>1. session[c] \in Sessions
    BY SessionOfRun DEF ContinueWithQueued, Conclude, RunTool, DrainAfterTools
<1>2. /\ staged[c] \in Seq(Entries) /\ WithoutAnswer(c) \in Seq(Entries)
      /\ queued[session[c]] \in Seq(Messages) /\ << >> \in Seq(Messages)
    BY <1>1, WithoutAnswerType, EmptySeq DEF TypeOK
<1>3. CASE ContinueWithQueued(c)
    <2>1. TypeOK'
        BY <1>1, <1>2, <1>3 DEF ContinueWithQueued, Drain, TypeOK
    <2>2. RunInv'
        BY <1>3 DEF ContinueWithQueued, Drain, RunInv, TypeOK
    <2>3. QED
        BY <2>1, <2>2
<1>4. CASE Conclude(c)
    <2>1. Append(WithoutAnswer(c), Entry("reply", Answer(c).n)) \in Seq(Entries)
        <3>1. Entry("reply", Answer(c).n) \in Entries
            BY <1>4, AnswerIs, EntryTypes DEF Conclude
        <3>2. QED
            BY <1>2, <3>1, AppendProperties
    <2>2. TypeOK'
        BY <1>4, <2>1 DEF Conclude, TypeOK
    <2>3. RunInv'
        BY <1>4 DEF Conclude, RunInv, TypeOK
    <2>4. QED
        BY <2>2, <2>3
<1>5. CASE RunTool(c)
    <2>1. calls[c] - 1 \in 0..MaxCalls
        BY <1>5, TurnAssumption DEF RunTool, TypeOK
    <2>2. Append(staged[c], Entry("tool", calls[c] - 1)) \in Seq(Entries)
        BY <1>2, <2>1, EntryTypes, AppendProperties
    <2>3. TypeOK'
        BY <1>5, <2>1, <2>2 DEF RunTool, TypeOK
    <2>4. RunInv'
        BY <1>5 DEF RunTool, RunInv, TypeOK
    <2>5. QED
        BY <2>3, <2>4
<1>6. CASE DrainAfterTools(c)
    <2>1. TypeOK'
        BY <1>1, <1>2, <1>6 DEF DrainAfterTools, Drain, TypeOK
    <2>2. RunInv'
        BY <1>6 DEF DrainAfterTools, Drain, RunInv, TypeOK
    <2>3. QED
        BY <2>1, <2>2
<1>7. QED
    BY <1>3, <1>4, <1>5, <1>6

\* The end of a run.
LEMMA CommitTyped ==
    ASSUME TypedRun, NEW c \in Chats, pc[c] # "idle", NEW h \in Seq(Entries), CommitStaged(c, h)
    PROVE  TypedRun'
<1> USE DEF TypedRun
<1>1. session[c] \in Sessions
    BY SessionOfRun
<1>2. context[session[c]] \o h \in Seq(Entries) /\ << >> \in Seq(Entries) /\ << >> \in Seq(Messages)
    BY <1>1, ConcatProperties, EmptySeq DEF TypeOK
<1>3. context' \in [Sessions -> Seq(Entries)]
    BY <1>1, <1>2 DEF CommitStaged, TypeOK
<1>4. TypeOK'
    BY <1>2, <1>3, TurnAssumption DEF CommitStaged, TypeOK
<1>5. RunInv'
    BY DEF CommitStaged, RunInv, TypeOK
<1>6. QED
    BY <1>4, <1>5

\* What a run that ends adds to the context.
LEMMA EndTyped ==
    ASSUME TypedRun, NEW c \in Chats, Commit(c) \/ Fallback(c)
    PROVE  /\ pc[c] # "idle" /\ session[c] \in Sessions
           /\ Append(staged[c], Entry("fallback", 0)) \in Seq(Entries)
           /\ TypedRun'
<1>1. pc[c] # "idle"
    BY DEF Commit, Fallback
<1>2. staged[c] \in Seq(Entries)
    BY DEF TypedRun, TypeOK
<1>3. Append(staged[c], Entry("fallback", 0)) \in Seq(Entries)
    BY <1>2, EntryTypes, AppendProperties
<1>4. QED
    BY <1>1, <1>2, <1>3, SessionOfRun, CommitTyped DEF Commit, Fallback

\* Every step keeps the types.
LEMMA NextTyped == StagedRun /\ [Next]_vars => TypedRun'
<1> SUFFICES ASSUME StagedRun, TypedRun, [Next]_vars PROVE TypedRun'
    BY DEF StagedRun
<1>1. ASSUME NEW id \in Ids, CreateSession(id) \/ DeleteSession(id) \/ QueueMessage(id)
      PROVE  TypedRun'
    BY <1>1, EndpointTyped
<1>2. ASSUME NEW c \in Chats, NEW id \in Ids, Chat(c, id) PROVE TypedRun'
    BY <1>2, ChatTyped
<1>3. ASSUME NEW c \in Chats, RunStep(c) PROVE TypedRun'
    BY <1>3, TurnTyped, LoopTyped, EndTyped DEF RunStep, OwnStep
<1>4. CASE UNCHANGED vars
    BY <1>4 DEF vars, sessionVars, runVars, TypedRun, TypeOK, RunInv
<1>5. QED
    BY <1>1, <1>2, <1>3, <1>4 DEF Next

-----------------------------------------------------------------------------
(* How what is staged ends *)

\* The end of a sequence that grows by one.
LEMMA EndOfAppend ==
    ASSUME NEW S, NEW h \in Seq(S), NEW e \in S
    PROVE  /\ Append(h, e) \in Seq(S) /\ Append(h, e) # << >>
           /\ Len(Append(h, e)) = Len(h) + 1 /\ Len(h) \in Nat
           /\ EndOf(Append(h, e)) = e
           /\ \A i \in 1..Len(h) : Append(h, e)[i] = h[i]
BY AppendProperties, LenProperties DEF EndOf

\* The end of what is staged without the last answer.
LEMMA EndOfWithout ==
    ASSUME NEW h \in Seq(Entries), Len(h) > 1
    PROVE  LET g == SubSeq(h, 1, Len(h) - 1)
           IN  /\ g \in Seq(Entries) /\ g # << >> /\ Len(g) = Len(h) - 1
               /\ EndOf(g) = h[Len(h) - 1]
               /\ \A i \in 1..(Len(h) - 1) : g[i] = h[i]
<1> DEFINE g == SubSeq(h, 1, Len(h) - 1)
<1>1. Len(h) \in Nat /\ h \in [1..Len(h) -> Entries]
    BY LenProperties
<1>2. \A i \in 1..(Len(h) - 1) : h[i] \in Entries
    BY <1>1
<1>3. /\ g \in Seq(Entries) /\ Len(g) = Len(h) - 1
      /\ \A i \in 1..(Len(h) - 1) : g[i] = h[i]
    BY <1>1, <1>2, SubSeqProperties
<1> HIDE DEF g
<1>4. g # << >>
    <2>1. Len(g) # 0
        BY <1>1, <1>3
    <2>2. QED
        BY <2>1, EmptySeq
<1>5. EndOf(g) = h[Len(h) - 1]
    BY <1>1, <1>3 DEF EndOf
<1>6. QED
    BY <1>3, <1>4, <1>5 DEF g

\* The marker and the user messages of a turn are staged.
LEMMA TurnStaged ==
    ASSUME NEW h \in Seq(Entries), NEW n \in 1..MaxTurns, NEW q \in Seq(Messages)
    PROVE  LET g == h \o << Entry("turn", n) >> \o UserEntries(q)
           IN  /\ g \in Seq(Entries) /\ g # << >> /\ Said(EndOf(g))
               /\ Len(g) = Len(h) + 1 + Len(q) /\ Len(h) \in Nat /\ Len(q) \in Nat
               /\ \A i \in 1..Len(h) : g[i] = h[i]
               /\ g[Len(h) + 1] = Entry("turn", n)
               /\ \A i \in 1..Len(q) : g[Len(h) + 1 + i] = Entry("user", q[i])
<1> DEFINE g == h \o << Entry("turn", n) >> \o UserEntries(q)
<1> DEFINE f == Append(h, Entry("turn", n))
<1>1. /\ f \in Seq(Entries) /\ Len(f) = Len(h) + 1 /\ f[Len(h) + 1] = Entry("turn", n)
      /\ \A i \in 1..Len(h) : f[i] = h[i]
    BY EntryTypes, AppendProperties
<1>2. h \o << Entry("turn", n) >> = f
    BY EntryTypes, AppendIsConcat
<1>3. g = f \o UserEntries(q)
    BY <1>2
<1> HIDE DEF g, f
<1>4. /\ UserEntries(q) \in Seq(Entries) /\ Len(UserEntries(q)) = Len(q)
      /\ \A i \in 1..Len(q) : UserEntries(q)[i] = Entry("user", q[i])
    BY UserEntriesType
<1>5. Len(h) \in Nat /\ Len(q) \in Nat
    BY LenProperties
<1>6. /\ g \in Seq(Entries) /\ Len(g) = Len(h) + 1 + Len(q)
      /\ \A i \in 1..(Len(h) + 1 + Len(q)) :
            g[i] = IF i <= Len(h) + 1 THEN f[i] ELSE UserEntries(q)[i - (Len(h) + 1)]
    <2>1. PICK u \in Seq(Entries) : u = UserEntries(q)
        BY <1>4
    <2>2. /\ f \o u \in Seq(Entries) /\ Len(f \o u) = Len(f) + Len(u)
          /\ \A i \in 1..(Len(f) + Len(u)) :
                (f \o u)[i] = IF i <= Len(f) THEN f[i] ELSE u[i - Len(f)]
        BY <1>1, <2>1, ConcatProperties
    <2>3. g = f \o u /\ Len(u) = Len(q)
        BY <1>3, <1>4, <2>1
    <2>4. QED
        BY <1>1, <2>1, <2>2, <2>3
<1>7. /\ \A i \in 1..Len(h) : g[i] = h[i]
      /\ g[Len(h) + 1] = Entry("turn", n)
    <2>1. \A i \in 1..(Len(h) + 1) : i \in 1..(Len(h) + 1 + Len(q)) /\ i <= Len(h) + 1
        BY <1>5
    <2>2. \A i \in 1..(Len(h) + 1) : g[i] = f[i]
        BY <1>6, <2>1
    <2>3. Len(h) + 1 \in 1..(Len(h) + 1) /\ \A i \in 1..Len(h) : i \in 1..(Len(h) + 1)
        BY <1>5
    <2>4. QED
        BY <1>1, <2>2, <2>3
<1>8. ASSUME NEW i \in 1..Len(q) PROVE g[Len(h) + 1 + i] = Entry("user", q[i])
    <2>1. Len(h) + 1 + i \in 1..(Len(h) + 1 + Len(q)) /\ ~(Len(h) + 1 + i <= Len(h) + 1)
          /\ Len(h) + 1 + i - (Len(h) + 1) = i
        BY <1>5
    <2>2. g[Len(h) + 1 + i] = UserEntries(q)[i]
        BY <1>6, <2>1
    <2>3. QED
        BY <1>4, <2>2
<1>9. g # << >>
    BY <1>5, <1>6, EmptySeq
<1>10. Said(EndOf(g))
    <2>1. CASE Len(q) = 0
        <3>1. EndOf(g) = Entry("turn", n)
            BY <1>5, <1>6, <1>7, <2>1 DEF EndOf
        <3>2. QED
            BY <3>1, EntryFields DEF Said
    <2>2. CASE Len(q) # 0
        <3>1. Len(q) \in 1..Len(q)
            BY <1>5, <2>2
        <3>2. EndOf(g) = Entry("user", q[Len(q)])
            BY <1>6, <1>8, <3>1 DEF EndOf
        <3>3. QED
            BY <3>2, EntryFields DEF Said
    <2>3. QED
        BY <2>1, <2>2
<1>11. QED
    BY <1>5, <1>6, <1>7, <1>8, <1>9, <1>10 DEF g

\* A step of one run leaves what the others have staged.
LEMMA EndsOfOthers ==
    ASSUME StagedRun, NEW c \in Chats,
           \A d \in Chats \ {c} :
              staged'[d] = staged[d] /\ pc'[d] = pc[d] /\ calls'[d] = calls[d],
           EndsAs(staged'[c], pc'[c], calls'[c])
    PROVE  EndInv'
BY DEF StagedRun, EndInv

\* The head of the loop and the answers of the model.
LEMMA TurnEnds ==
    ASSUME StagedRun, NEW c \in Chats,
           BeginTurn(c) \/ AnswersStop(c) \/ AnswersCalls(c) \/ AnswersOther(c) \/ ModelFails(c)
    PROVE  EndInv'
<1>1. /\ staged[c] \in Seq(Entries) /\ pending[c] \in Seq(Messages)
      /\ EndsAs(staged[c], pc[c], calls[c]) /\ TypeOK
    BY DEF StagedRun, TypedRun, TypeOK, EndInv
<1>2. CASE BeginTurn(c)
    <2>1. turn[c] + 1 \in 1..MaxTurns
        BY <1>1, <1>2, TurnAssumption DEF BeginTurn, TurnsLeft, TypeOK
    <2>2. PICK g : g = staged[c] \o << Entry("turn", turn[c] + 1) >> \o UserEntries(pending[c])
        OBVIOUS
    <2>3. g # << >> /\ Said(EndOf(g))
        BY <1>1, <2>1, <2>2, TurnStaged
    <2>4. staged' = [staged EXCEPT ![c] = g] /\ pc' = [pc EXCEPT ![c] = "llm"] /\ calls' = calls
        BY <1>2, <2>2 DEF BeginTurn
    <2>5. EndsAs(g, "llm", calls[c])
        BY <2>3 DEF EndsAs
    <2>6. QED
        BY <1>1, <2>4, <2>5, EndsOfOthers DEF TypeOK
<1>3. ASSUME NEW e \in Entries, NEW next \in {"stop", "tools", "fail"}, Answers(c, e, next),
             NEW n, calls' = [calls EXCEPT ![c] = n],
             next = "stop" => Of(e, "answer"),
             next = "tools" => e = Entry("call", n),
             next = "fail" => e.kind = "answer"
      PROVE  EndInv'
    <2>1. PICK g : g = Append(staged[c], e)
        OBVIOUS
    <2>2. staged[c] # << >> /\ Said(EndOf(staged[c])) /\ Len(staged[c]) \in Nat \ {0}
        BY <1>1, <1>3, EmptySeq DEF Answers, EndsAs
    <2>3. /\ g # << >> /\ EndOf(g) = e /\ Len(g) = Len(staged[c]) + 1
          /\ g[Len(staged[c])] = EndOf(staged[c])
        BY <1>1, <2>1, <2>2, EndOfAppend DEF EndOf
    <2>4. Len(g) > 1 /\ Len(g) - 1 = Len(staged[c])
        BY <2>2, <2>3
    <2>5. EndsAs(g, next, n)
        BY <1>3, <2>2, <2>3, <2>4, EntryFields DEF EndsAs
    <2>6. staged' = [staged EXCEPT ![c] = g] /\ pc' = [pc EXCEPT ![c] = next]
        BY <1>3, <2>1 DEF Answers
    <2>7. QED
        BY <1>1, <1>3, <2>5, <2>6, EndsOfOthers DEF TypeOK
<1>4. calls = [calls EXCEPT ![c] = calls[c]]
    BY <1>1 DEF TypeOK
<1>5. CASE AnswersStop(c)
    <2>1. PICK n \in 0..MaxCalls : Answers(c, Entry("answer", n), "stop") /\ calls' = calls
        BY <1>5 DEF AnswersStop
    <2>2. /\ Entry("answer", n) \in Entries /\ Entry("answer", n).kind = "answer"
          /\ Of(Entry("answer", n), "answer")
        BY EntryTypes, EntryFields DEF Of
    <2>3. QED
        BY <1>3, <1>4, <2>1, <2>2
<1>6. CASE AnswersCalls(c)
    <2>1. PICK n \in 0..MaxCalls : Answers(c, Entry("call", n), "tools") /\ calls' = [calls EXCEPT ![c] = n]
        BY <1>6 DEF AnswersCalls
    <2>2. Entry("call", n) \in Entries
        BY EntryTypes
    <2>3. QED
        BY <1>3, <2>1, <2>2
<1>7. CASE AnswersOther(c)
    <2>1. PICK n \in 0..MaxCalls : Answers(c, Entry("answer", n), "fail") /\ calls' = calls
        BY <1>7 DEF AnswersOther
    <2>2. /\ Entry("answer", n) \in Entries /\ Entry("answer", n).kind = "answer"
          /\ Of(Entry("answer", n), "answer")
        BY EntryTypes, EntryFields DEF Of
    <2>3. QED
        BY <1>3, <1>4, <2>1, <2>2
<1>8. CASE ModelFails(c)
    <2>1. staged' = staged /\ pc' = [pc EXCEPT ![c] = "fail"] /\ calls' = calls /\ pc[c] = "llm"
        BY <1>8 DEF ModelFails
    <2>2. EndsAs(staged[c], "fail", calls[c])
        BY <1>1, <2>1 DEF EndsAs, Said
    <2>3. QED
        BY <1>1, <2>1, <2>2, EndsOfOthers DEF TypeOK
<1>9. QED
    BY <1>2, <1>5, <1>6, <1>7, <1>8

\* The steps of a run between two calls of the model.
LEMMA LoopEnds ==
    ASSUME StagedRun, NEW c \in Chats,
           ContinueWithQueued(c) \/ Conclude(c) \/ RunTool(c) \/ DrainAfterTools(c)
    PROVE  EndInv'
<1>1. /\ staged[c] \in Seq(Entries) /\ EndsAs(staged[c], pc[c], calls[c]) /\ TypeOK
    BY DEF StagedRun, TypedRun, TypeOK, EndInv
<1>2. ASSUME pc[c] = "stop"
      PROVE  /\ WithoutAnswer(c) \in Seq(Entries) /\ WithoutAnswer(c) # << >>
             /\ Said(EndOf(WithoutAnswer(c)))
    BY <1>1, <1>2, EndOfWithout DEF EndsAs, WithoutAnswer
<1>3. CASE ContinueWithQueued(c)
    <2>1. /\ staged' = [staged EXCEPT ![c] = WithoutAnswer(c)] /\ pc' = [pc EXCEPT ![c] = "turn"]
          /\ calls' = calls /\ pc[c] = "stop"
        BY <1>3 DEF ContinueWithQueued
    <2>2. EndsAs(WithoutAnswer(c), "turn", calls[c])
        BY <1>2, <2>1 DEF EndsAs, Settled
    <2>3. QED
        BY <1>1, <2>1, <2>2, EndsOfOthers DEF TypeOK
<1>4. CASE Conclude(c)
    <2>1. PICK g : g = Append(WithoutAnswer(c), Entry("reply", Answer(c).n))
        OBVIOUS
    <2>2. /\ staged' = [staged EXCEPT ![c] = g] /\ pc' = [pc EXCEPT ![c] = "commit"]
          /\ calls' = calls /\ pc[c] = "stop"
        BY <1>4, <2>1 DEF Conclude
    <2>3. g # << >> /\ Of(EndOf(g), "reply")
        <3>1. PICK n \in 0..MaxCalls : n = Answer(c).n
            BY <2>2, AnswerIs
        <3>2. Entry("reply", n) \in Entries
            BY EntryTypes
        <3>3. g # << >> /\ EndOf(g) = Entry("reply", n)
            BY <1>2, <2>1, <2>2, <3>1, <3>2, EndOfAppend
        <3>4. QED
            BY <3>3 DEF Of
    <2>4. EndsAs(g, "commit", calls[c])
        BY <2>3 DEF EndsAs
    <2>5. QED
        BY <1>1, <2>2, <2>4, EndsOfOthers DEF TypeOK
<1>5. CASE RunTool(c)
    <2>1. calls[c] - 1 \in 0..MaxCalls
        BY <1>1, <1>5, TurnAssumption DEF RunTool, TypeOK
    <2>2. PICK g : g = Append(staged[c], Entry("tool", calls[c] - 1))
        OBVIOUS
    <2>3. /\ staged' = [staged EXCEPT ![c] = g] /\ pc' = pc /\ pc[c] = "tools"
          /\ calls' = [calls EXCEPT ![c] = calls[c] - 1]
        BY <1>5, <2>2 DEF RunTool
    <2>4. g # << >> /\ EndOf(g) = Entry("tool", calls[c] - 1)
        BY <1>1, <2>1, <2>2, EndOfAppend, EntryTypes
    <2>5. EndsAs(g, "tools", calls[c] - 1)
        BY <2>4, EntryFields DEF EndsAs
    <2>6. QED
        BY <1>1, <2>3, <2>5, EndsOfOthers DEF TypeOK
<1>6. CASE DrainAfterTools(c)
    <2>1. /\ staged' = staged /\ pc' = [pc EXCEPT ![c] = "turn"] /\ calls' = calls
          /\ pc[c] = "tools" /\ calls[c] = 0
        BY <1>6 DEF DrainAfterTools
    <2>2. EndsAs(staged[c], "turn", calls[c])
        BY <1>1, <2>1 DEF EndsAs, Settled
    <2>3. QED
        BY <1>1, <2>1, <2>2, EndsOfOthers DEF TypeOK
<1>7. QED
    BY <1>3, <1>4, <1>5, <1>6

\* A run that starts or ends has nothing staged.
LEMMA EmptyEnds ==
    ASSUME StagedRun, NEW c \in Chats, NEW at \in {"idle", "turn"},
           staged' = [staged EXCEPT ![c] = << >>], pc' = [pc EXCEPT ![c] = at],
           calls' = [calls EXCEPT ![c] = 0]
    PROVE  EndInv'
<1>1. EndsAs(<< >>, at, 0)
    BY DEF EndsAs
<1>2. QED
    BY <1>1, EndsOfOthers DEF StagedRun, TypedRun, TypeOK

\* Every step keeps the ends.
LEMMA NextEnds == StagedRun /\ [Next]_vars => StagedRun'
<1> SUFFICES ASSUME StagedRun, [Next]_vars PROVE EndInv'
    BY NextTyped DEF StagedRun
<1>1. ASSUME NEW id \in Ids, CreateSession(id) \/ DeleteSession(id) \/ QueueMessage(id)
      PROVE  EndInv'
    BY <1>1 DEF CreateSession, DeleteSession, QueueMessage, runVars, StagedRun, EndInv
<1>2. ASSUME NEW c \in Chats, NEW id \in Ids, Chat(c, id) PROVE EndInv'
    BY <1>2, EmptyEnds DEF Chat
<1>3. ASSUME NEW c \in Chats, RunStep(c) PROVE EndInv'
    <2>1. CASE Commit(c) \/ Fallback(c)
        BY <2>1, EmptyEnds DEF Commit, Fallback, CommitStaged
    <2>2. QED
        BY <1>3, <2>1, TurnEnds, LoopEnds DEF RunStep, OwnStep
<1>4. CASE UNCHANGED vars
    BY <1>4 DEF vars, runVars, StagedRun, EndInv
<1>5. QED
    BY <1>1, <1>2, <1>3, <1>4 DEF Next

\* What a run has staged ends as its place in the loop says.
THEOREM RunsStageInOrder == Spec => []StagedRun
<1>1. Init => StagedRun
    BY InitTyped DEF StagedRun, Init, EndInv, EndsAs
<1>2. QED
    BY <1>1, NextEnds, PTL DEF Spec

\* Types, and what a run may hold where.
THEOREM RunsAreTyped == Spec => []TypedRun
<1>1. StagedRun => TypedRun
    BY DEF StagedRun
<1>2. QED
    BY <1>1, RunsStageInOrder, PTL

\* Every variable keeps its type: a run that takes a step always has its Session,
\* though the endpoints delete and replace it meanwhile.
THEOREM TypeCorrect == Spec => []TypeOK
<1>1. TypedRun => TypeOK
    BY DEF TypedRun
<1>2. QED
    BY <1>1, RunsAreTyped, PTL

-----------------------------------------------------------------------------
(* Every user message in one place *)

Has(q, e) == \E i \in DOMAIN q : q[i] = e
Once(q, e) == \A i, j \in DOMAIN q : q[i] = e /\ q[j] = e => i = j

Kinds == {"context", "staged", "pending", "queued"}
Holders == Sessions \cup Chats

\* Where message m is.
At(kind, x, m) ==
    \/ kind = "context" /\ x \in Sessions /\ Has(context[x], Entry("user", m))
    \/ kind = "staged" /\ x \in Chats /\ Has(staged[x], Entry("user", m))
    \/ kind = "pending" /\ x \in Chats /\ Has(pending[x], m)
    \/ kind = "queued" /\ x \in Sessions /\ Has(queued[x], m)

\* Only an accepted message is anywhere, and in no two sequences,
OnePlace ==
    \A m \in Messages, i, j \in Kinds, x, y \in Holders :
        /\ At(i, x, m) => m <= arrived
        /\ At(i, x, m) /\ At(j, y, m) => i = j /\ x = y

\* nor twice in one.
OnceInv ==
    \A m \in Messages :
        /\ \A s \in Sessions : Once(context[s], Entry("user", m)) /\ Once(queued[s], m)
        /\ \A c \in Chats : Once(staged[c], Entry("user", m)) /\ Once(pending[c], m)

PlaceInv == StagedRun /\ OnePlace /\ OnceInv

\* Nothing appears in a step but what x of kind i hands to y of kind j.
Moves(i, x, j, y) ==
    \A kind \in Kinds, z \in Holders, m \in Messages :
        At(kind, z, m)' => \/ At(kind, z, m) /\ ~(kind = i /\ z = x)
                           \/ kind = j /\ z = y /\ At(i, x, m)

\* Nothing disappears.
KeepsAll ==
    \A kind \in Kinds, z \in Holders, m \in Messages :
        At(kind, z, m) => \E k \in Kinds, w \in Holders : At(k, w, m)'

\* The Session that what x of kind holds belongs to.
HomeOf(kind, x) == IF kind \in {"context", "queued"} THEN x ELSE session[x]

\* A message stays with its Session.
HomesKept ==
    \A m \in Messages, k, l \in Kinds, x, y \in Holders :
        At(k, x, m) /\ At(l, y, m)' => HomeOf(k, x) = HomeOf(l, y)'

StepPlaces == OnePlace' /\ OnceInv' /\ HomesKept

\* A message that is handed on within a Session stays with it.
LEMMA MoveKeepsHome ==
    ASSUME OnePlace, NEW i \in Kinds, NEW x \in Holders, NEW j \in Kinds, NEW y \in Holders,
           Moves(i, x, j, y), HomeOf(i, x) = HomeOf(j, y)',
           \A k \in Kinds, z \in Holders, m \in Messages :
              At(k, z, m) /\ At(k, z, m)' => HomeOf(k, z) = HomeOf(k, z)'
    PROVE  HomesKept
<1> SUFFICES ASSUME NEW m \in Messages, NEW k \in Kinds, NEW l \in Kinds,
                    NEW u \in Holders, NEW v \in Holders, At(k, u, m), At(l, v, m)'
             PROVE  HomeOf(k, u) = HomeOf(l, v)'
    BY DEF HomesKept
<1>1. CASE At(l, v, m)
    <2>1. k = l /\ u = v
        BY <1>1 DEF OnePlace
    <2>2. HomeOf(l, v) = HomeOf(l, v)'
        BY <1>1
    <2>3. QED
        BY <2>1, <2>2
<1>2. CASE ~At(l, v, m)
    <2>1. l = j /\ v = y /\ At(i, x, m)
        BY <1>2 DEF Moves
    <2>2. k = i /\ u = x
        BY <2>1 DEF OnePlace
    <2>3. QED
        BY <2>1, <2>2
<1>3. QED
    BY <1>1, <1>2

\* A message that is accepted takes no other from its Session.
LEMMA ArrivalKeepsHome ==
    ASSUME OnePlace, arrived \in Nat,
           \A kind \in Kinds, z \in Holders, m \in Messages :
              /\ At(kind, z, m)' => At(kind, z, m) \/ m = arrived + 1
              /\ At(kind, z, m) /\ At(kind, z, m)' => HomeOf(kind, z) = HomeOf(kind, z)'
    PROVE  HomesKept
<1> SUFFICES ASSUME NEW m \in Messages, NEW k \in Kinds, NEW l \in Kinds,
                    NEW u \in Holders, NEW v \in Holders, At(k, u, m), At(l, v, m)'
             PROVE  HomeOf(k, u) = HomeOf(l, v)'
    BY DEF HomesKept
<1>1. m <= arrived
    BY DEF OnePlace
<1>2. At(l, v, m)
    BY <1>1
<1>3. k = l /\ u = v
    BY <1>2 DEF OnePlace
<1>4. HomeOf(l, v) = HomeOf(l, v)'
    BY <1>2
<1>5. QED
    BY <1>3, <1>4

\* What does not move stays with its Session.
LEMMA StillHome ==
    ASSUME OnePlace, UNCHANGED session,
           \A kind \in Kinds, z \in Holders, m \in Messages : At(kind, z, m)' => At(kind, z, m)
    PROVE  HomesKept
<1> SUFFICES ASSUME NEW m \in Messages, NEW k \in Kinds, NEW l \in Kinds,
                    NEW u \in Holders, NEW v \in Holders, At(k, u, m), At(l, v, m)'
             PROVE  HomeOf(k, u) = HomeOf(l, v)'
    BY DEF HomesKept
<1>1. k = l /\ u = v
    BY DEF OnePlace
<1>2. HomeOf(k, u)' = HomeOf(k, u)
    BY DEF HomeOf
<1>3. QED
    BY <1>1, <1>2

\* A message that only changes its place is still in one.
LEMMA MoveKeepsPlace ==
    ASSUME OnePlace, NEW i \in Kinds, NEW x \in Holders, NEW j \in Kinds, NEW y \in Holders,
           Moves(i, x, j, y), arrived \in Nat, arrived' \in Nat, arrived' >= arrived
    PROVE  OnePlace'
<1> SUFFICES ASSUME NEW m \in Messages, NEW k \in Kinds, NEW l \in Kinds,
                    NEW u \in Holders, NEW v \in Holders, At(k, u, m)'
             PROVE  m <= arrived' /\ (At(l, v, m)' => k = l /\ u = v)
    BY DEF OnePlace
<1>1. m \in Nat /\ (At(k, u, m) \/ At(i, x, m))
    BY TurnAssumption DEF Moves, Messages
<1>2. m <= arrived
    BY <1>1 DEF OnePlace
<1>3. \/ At(k, u, m) /\ ~(k = i /\ u = x)
      \/ k = j /\ u = y /\ At(i, x, m)
    BY DEF Moves
<1>4. At(l, v, m)' => \/ At(l, v, m) /\ ~(l = i /\ v = x)
                      \/ l = j /\ v = y /\ At(i, x, m)
    BY DEF Moves
<1>5. At(l, v, m)' => k = l /\ u = v
    BY <1>3, <1>4 DEF OnePlace
<1>6. m <= arrived'
    BY <1>1, <1>2
<1>7. QED
    BY <1>5, <1>6

\* A message that is accepted is in the one place where it is put.
LEMMA ArrivalKeepsPlace ==
    ASSUME OnePlace, NEW j \in Kinds, NEW y \in Holders,
           arrived \in Nat, arrived' = arrived + 1,
           \A kind \in Kinds, z \in Holders, m \in Messages :
              At(kind, z, m)' => At(kind, z, m) \/ (kind = j /\ z = y /\ m = arrived + 1)
    PROVE  OnePlace'
<1> SUFFICES ASSUME NEW m \in Messages, NEW k \in Kinds, NEW l \in Kinds,
                    NEW u \in Holders, NEW v \in Holders, At(k, u, m)'
             PROVE  m <= arrived' /\ (At(l, v, m)' => k = l /\ u = v)
    BY DEF OnePlace
<1>1. /\ At(k, u, m) \/ (k = j /\ u = y /\ m = arrived + 1)
      /\ At(l, v, m)' => At(l, v, m) \/ (l = j /\ v = y /\ m = arrived + 1)
    OBVIOUS
<1>2. /\ At(k, u, m) => m <= arrived
      /\ At(l, v, m) => m <= arrived
      /\ At(k, u, m) /\ At(l, v, m) => k = l /\ u = v
    BY DEF OnePlace
<1>3. m \in Nat
    BY TurnAssumption DEF Messages
<1>4. QED
    BY <1>1, <1>2, <1>3

\* What a sequence that grows has, and has once.
LEMMA HasConcat ==
    ASSUME NEW S, NEW a \in Seq(S), NEW b \in Seq(S), NEW e
    PROVE  /\ Has(a \o b, e) <=> Has(a, e) \/ Has(b, e)
           /\ Once(a, e) /\ Once(b, e) /\ ~(Has(a, e) /\ Has(b, e)) => Once(a \o b, e)
<1>1. /\ a \o b \in Seq(S) /\ Len(a \o b) = Len(a) + Len(b)
      /\ \A i \in 1..(Len(a) + Len(b)) :
            (a \o b)[i] = IF i <= Len(a) THEN a[i] ELSE b[i - Len(a)]
    BY ConcatProperties
<1>2. PICK c : c = a \o b
    OBVIOUS
<1>3. /\ DOMAIN a = 1..Len(a) /\ DOMAIN b = 1..Len(b) /\ Len(a) \in Nat /\ Len(b) \in Nat
      /\ DOMAIN c = 1..(Len(a) + Len(b))
    BY <1>1, <1>2, LenProperties
<1>4. \A i \in 1..Len(a) : i \in DOMAIN c /\ c[i] = a[i]
    BY <1>1, <1>2, <1>3
<1>5. \A i \in 1..Len(b) : Len(a) + i \in DOMAIN c /\ c[Len(a) + i] = b[i]
    <2>1. SUFFICES ASSUME NEW i \in 1..Len(b)
                   PROVE  Len(a) + i \in DOMAIN c /\ c[Len(a) + i] = b[i]
        OBVIOUS
    <2>2. Len(a) + i \in 1..(Len(a) + Len(b)) /\ ~(Len(a) + i <= Len(a)) /\ Len(a) + i - Len(a) = i
        BY <1>3
    <2>3. QED
        BY <1>1, <1>2, <1>3, <2>2
<1>6. \A i \in DOMAIN c : i \in 1..Len(a) \/ \E k \in 1..Len(b) : i = Len(a) + k
    <2>1. SUFFICES ASSUME NEW i \in DOMAIN c, i \notin 1..Len(a)
                   PROVE  \E k \in 1..Len(b) : i = Len(a) + k
        OBVIOUS
    <2>2. i - Len(a) \in 1..Len(b) /\ i = Len(a) + (i - Len(a))
        BY <1>3, <2>1
    <2>3. QED
        BY <2>2
<1>7. Has(c, e) <=> Has(a, e) \/ Has(b, e)
    BY <1>3, <1>4, <1>5, <1>6 DEF Has
<1>8. ASSUME Once(a, e), Once(b, e), ~(Has(a, e) /\ Has(b, e))
      PROVE  Once(c, e)
    <2>1. SUFFICES ASSUME NEW i \in DOMAIN c, NEW j \in DOMAIN c, c[i] = e, c[j] = e
                   PROVE  i = j
        BY DEF Once
    <2>2. CASE i \in 1..Len(a) /\ j \in 1..Len(a)
        BY <1>3, <1>4, <1>8, <2>1, <2>2 DEF Once
    <2>3. CASE i \notin 1..Len(a) /\ j \notin 1..Len(a)
        <3>1. PICK k \in 1..Len(b), l \in 1..Len(b) : i = Len(a) + k /\ j = Len(a) + l
            BY <1>6, <2>3
        <3>2. b[k] = e /\ b[l] = e
            BY <1>5, <2>1, <3>1
        <3>3. k = l
            BY <1>3, <1>8, <3>2 DEF Once
        <3>4. QED
            BY <3>1, <3>3
    <2>4. CASE ~(i \in 1..Len(a) <=> j \in 1..Len(a))
        <3>1. Has(a, e)
            BY <1>3, <1>4, <2>1, <2>4 DEF Has
        <3>2. PICK k \in DOMAIN c : k \notin 1..Len(a) /\ c[k] = e
            BY <2>1, <2>4
        <3>3. PICK l \in 1..Len(b) : k = Len(a) + l
            BY <1>6, <3>2
        <3>4. Has(b, e)
            BY <1>3, <1>5, <3>2, <3>3 DEF Has
        <3>5. QED
            BY <1>8, <3>1, <3>4
    <2>5. QED
        BY <2>2, <2>3, <2>4
<1>9. QED
    BY <1>2, <1>7, <1>8

\* The sequence of one element.
LEMMA HasOne ==
    ASSUME NEW x, NEW e
    PROVE  /\ Has(<< x >>, e) <=> x = e
           /\ Once(<< x >>, e)
           /\ ~Has(<< >>, e) /\ Once(<< >>, e)
BY DEF Has, Once

\* A sequence that grows by one.
LEMMA HasAppend ==
    ASSUME NEW S, NEW a \in Seq(S), NEW x \in S, NEW e
    PROVE  /\ Has(Append(a, x), e) <=> Has(a, e) \/ x = e
           /\ Once(a, e) /\ ~(Has(a, e) /\ x = e) => Once(Append(a, x), e)
<1>1. PICK b \in Seq(S) : b = << x >>
    <2>1. << x >> \in Seq(S)
        OBVIOUS
    <2>2. QED
        BY <2>1
<1>2. PICK c : c = a \o b /\ c = Append(a, x)
    BY <1>1, AppendIsConcat
<1>3. (Has(b, e) <=> x = e) /\ Once(b, e)
    BY <1>1, HasOne
<1>4. /\ Has(a \o b, e) <=> Has(a, e) \/ Has(b, e)
      /\ Once(a, e) /\ Once(b, e) /\ ~(Has(a, e) /\ Has(b, e)) => Once(a \o b, e)
    BY HasConcat
<1>5. /\ Has(c, e) <=> Has(a, e) \/ x = e
      /\ Once(a, e) /\ ~(Has(a, e) /\ x = e) => Once(c, e)
    BY <1>2, <1>3, <1>4
<1>6. QED
    BY <1>2, <1>5

\* User messages that are staged.
LEMMA HasUsers ==
    ASSUME NEW q \in Seq(Messages), NEW m \in Messages
    PROVE  /\ Has(UserEntries(q), Entry("user", m)) <=> Has(q, m)
           /\ Once(q, m) => Once(UserEntries(q), Entry("user", m))
<1>1. PICK u \in Seq(Entries) : u = UserEntries(q)
    BY UserEntriesType
<1>2. Len(u) = Len(q) /\ \A i \in 1..Len(q) : u[i] = Entry("user", q[i])
    BY <1>1, UserEntriesType
<1>3. DOMAIN u = 1..Len(q) /\ DOMAIN q = 1..Len(q)
    BY <1>2, LenProperties
<1>4. \A i \in 1..Len(q) : u[i] = Entry("user", m) <=> q[i] = m
    BY <1>2, EntryFields
<1>5. QED
    BY <1>1, <1>3, <1>4 DEF Has, Once

\* The users of a turn are staged.
LEMMA HasStaged ==
    ASSUME NEW h \in Seq(Entries), NEW n \in 1..MaxTurns, NEW q \in Seq(Messages),
           NEW m \in Messages
    PROVE  LET g == h \o << Entry("turn", n) >> \o UserEntries(q)
               e == Entry("user", m)
           IN  /\ Has(g, e) <=> Has(h, e) \/ Has(q, m)
               /\ Once(h, e) /\ Once(q, m) /\ ~(Has(h, e) /\ Has(q, m)) => Once(g, e)
<1> DEFINE e == Entry("user", m)
<1>1. PICK u \in Seq(Entries) : u = UserEntries(q)
    BY UserEntriesType
<1>2. PICK t \in Entries : t = Entry("turn", n)
    BY EntryTypes
<1>3. t # e
    BY <1>2, EntryFields
<1>4. << t >> \in Seq(Entries)
    OBVIOUS
<1>5. PICK f \in Seq(Entries) : f = h \o << t >>
    BY <1>4, ConcatProperties
<1>6. /\ Has(f, e) <=> Has(h, e)
      /\ Once(h, e) => Once(f, e)
    <2>1. f = Append(h, t)
        BY <1>5, AppendIsConcat
    <2>2. QED
        BY <1>3, <2>1, HasAppend
<1>7. /\ Has(u, e) <=> Has(q, m)
      /\ Once(q, m) => Once(u, e)
    BY <1>1, HasUsers
<1>8. /\ Has(f \o u, e) <=> Has(f, e) \/ Has(u, e)
      /\ Once(f, e) /\ Once(u, e) /\ ~(Has(f, e) /\ Has(u, e)) => Once(f \o u, e)
    BY HasConcat
<1>9. QED
    BY <1>1, <1>2, <1>5, <1>6, <1>7, <1>8

\* Without the last answer no user message is lost.
LEMMA HasWithout ==
    ASSUME NEW h \in Seq(Entries), Len(h) > 1, EndOf(h).kind = "answer", NEW m \in Messages
    PROVE  LET g == SubSeq(h, 1, Len(h) - 1)
               e == Entry("user", m)
           IN  (Has(g, e) <=> Has(h, e)) /\ (Once(h, e) => Once(g, e))
<1> DEFINE e == Entry("user", m)
<1>1. PICK g \in Seq(Entries) : g = SubSeq(h, 1, Len(h) - 1)
    BY EndOfWithout
<1>2. Len(g) = Len(h) - 1 /\ \A i \in 1..(Len(h) - 1) : g[i] = h[i]
    BY <1>1, EndOfWithout
<1>3. Len(h) \in Nat /\ DOMAIN h = 1..Len(h) /\ DOMAIN g = 1..(Len(h) - 1)
    BY <1>2, LenProperties
<1>4. h[Len(h)] # e
    BY EntryFields DEF EndOf
<1>5. \A i \in DOMAIN h : h[i] = e => i \in DOMAIN g
    BY <1>3, <1>4
<1>6. DOMAIN g \subseteq DOMAIN h /\ \A i \in DOMAIN g : g[i] = h[i]
    BY <1>2, <1>3
<1>7. (Has(g, e) <=> Has(h, e)) /\ (Once(h, e) => Once(g, e))
    BY <1>5, <1>6 DEF Has, Once
<1>8. QED
    BY <1>1, <1>7

\* A step that moves no message.
LEMMA StillPlaces ==
    ASSUME PlaceInv, UNCHANGED << context, queued, staged, pending, session, arrived >>
    PROVE  StepPlaces /\ KeepsAll
<1>1. \A kind \in Kinds, z \in Holders, m \in Messages : At(kind, z, m)' <=> At(kind, z, m)
    BY DEF At
<1>2. OnePlace'
    BY <1>1 DEF PlaceInv, OnePlace
<1>3. OnceInv'
    BY DEF PlaceInv, OnceInv
<1>4. HomesKept
    BY <1>1, StillHome DEF PlaceInv
<1>5. QED
    BY <1>1, <1>2, <1>3, <1>4 DEF KeepsAll, StepPlaces

\* A step that stages, or unstages, what is no user message.
LEMMA StagePlaces ==
    ASSUME PlaceInv, NEW c \in Chats, NEW h, staged' = [staged EXCEPT ![c] = h],
           \A m \in Messages :
              /\ Has(h, Entry("user", m)) <=> Has(staged[c], Entry("user", m))
              /\ Once(staged[c], Entry("user", m)) => Once(h, Entry("user", m)),
           UNCHANGED << context, queued, pending, session, arrived >>
    PROVE  StepPlaces /\ KeepsAll
<1>1. TypeOK
    BY DEF PlaceInv, StagedRun, TypedRun
<1>2. \A d \in Chats : staged'[d] = IF d = c THEN h ELSE staged[d]
    BY <1>1 DEF TypeOK
<1>3. \A kind \in Kinds, z \in Holders, m \in Messages : At(kind, z, m)' <=> At(kind, z, m)
    BY <1>2 DEF At
<1>4. OnePlace'
    BY <1>3 DEF PlaceInv, OnePlace
<1>5. OnceInv'
    BY <1>2 DEF PlaceInv, OnceInv
<1>6. HomesKept
    BY <1>3, StillHome DEF PlaceInv
<1>7. QED
    BY <1>3, <1>4, <1>5, <1>6 DEF KeepsAll, StepPlaces

\* A message arrives in a queue.
LEMMA QueuePlaces ==
    ASSUME PlaceInv, NEW id \in Ids, QueueMessage(id)
    PROVE  StepPlaces /\ KeepsAll
<1>1. TypeOK
    BY DEF PlaceInv, StagedRun, TypedRun
<1>2. PICK s \in Sessions : s = registry[id]
    BY <1>1 DEF QueueMessage, TypeOK
<1>3. /\ queued[s] \in Seq(Messages) /\ arrived + 1 \in Messages /\ arrived \in Nat
      /\ arrived' = arrived + 1 /\ UNCHANGED << context, staged, pending, session >>
    BY <1>1, TurnAssumption DEF QueueMessage, TypeOK, Messages, runVars
<1>4. PICK q : q = Append(queued[s], arrived + 1)
    OBVIOUS
<1>5. /\ \A m \in Messages : Has(q, m) <=> Has(queued[s], m) \/ arrived + 1 = m
      /\ \A m \in Messages : Once(queued[s], m) /\ ~(Has(queued[s], m) /\ arrived + 1 = m) => Once(q, m)
    BY <1>3, <1>4, HasAppend
<1>6. \A r \in Sessions : queued'[r] = IF r = s THEN q ELSE queued[r]
    BY <1>1, <1>2, <1>4 DEF QueueMessage, TypeOK
<1>7. "queued" \in Kinds /\ s \in Holders
    BY DEF Kinds, Holders
<1>8. \A kind \in Kinds, z \in Holders, m \in Messages :
          /\ At(kind, z, m)' => At(kind, z, m) \/ (kind = "queued" /\ z = s /\ m = arrived + 1)
          /\ At(kind, z, m) => At(kind, z, m)'
    BY <1>3, <1>5, <1>6 DEF At
<1>9. OnePlace'
    BY <1>3, <1>7, <1>8, ArrivalKeepsPlace DEF PlaceInv
<1>10. OnceInv'
    <2>1. ~Has(queued[s], arrived + 1)
        <3>1. ~At("queued", s, arrived + 1)
            BY <1>3, <1>7 DEF PlaceInv, OnePlace
        <3>2. QED
            BY <3>1 DEF At
    <2>2. \A m \in Messages : Once(q, m)
        BY <1>5, <2>1 DEF PlaceInv, OnceInv
    <2>3. QED
        BY <1>3, <1>6, <2>2 DEF PlaceInv, OnceInv
<1>11. HomesKept
    <2>1. \A kind \in Kinds, z \in Holders : HomeOf(kind, z) = HomeOf(kind, z)'
        BY <1>3 DEF HomeOf
    <2>2. QED
        BY <1>3, <1>8, <2>1, ArrivalKeepsHome DEF PlaceInv
<1>12. QED
    BY <1>8, <1>9, <1>10, <1>11 DEF KeepsAll, StepPlaces

\* A message arrives with /chat.
LEMMA ChatPlaces ==
    ASSUME PlaceInv, NEW c \in Chats, NEW id \in Ids, Chat(c, id)
    PROVE  StepPlaces /\ KeepsAll
<1>1. TypeOK /\ RunInv
    BY DEF PlaceInv, StagedRun, TypedRun
<1>2. /\ arrived + 1 \in Messages /\ arrived \in Nat
      /\ arrived' = arrived + 1 /\ UNCHANGED << context, queued >>
    BY <1>1, TurnAssumption DEF Chat, TypeOK, Messages, sessionVars
<1>3. staged[c] = << >> /\ pending[c] = << >>
    BY <1>1 DEF Chat, RunInv
<1>4. PICK q : q = << arrived + 1 >>
    OBVIOUS
<1>5. /\ \A m \in Messages : (Has(q, m) <=> arrived + 1 = m) /\ Once(q, m)
      /\ \A m : ~Has(<< >>, m)
    BY <1>4, HasOne
<1>6. \A d \in Chats : staged'[d] = staged[d] /\ pending'[d] = IF d = c THEN q ELSE pending[d]
    BY <1>1, <1>3, <1>4 DEF Chat, TypeOK
<1>7. "pending" \in Kinds /\ c \in Holders
    BY DEF Kinds, Holders
<1>8. \A kind \in Kinds, z \in Holders, m \in Messages :
          /\ At(kind, z, m)' => At(kind, z, m) \/ (kind = "pending" /\ z = c /\ m = arrived + 1)
          /\ At(kind, z, m) => At(kind, z, m)'
    BY <1>2, <1>3, <1>5, <1>6 DEF At
<1>9. OnePlace'
    BY <1>2, <1>7, <1>8, ArrivalKeepsPlace DEF PlaceInv
<1>10. OnceInv'
    BY <1>2, <1>5, <1>6 DEF PlaceInv, OnceInv
<1>11. HomesKept
    <2>1. \A d \in Chats : d # c => session'[d] = session[d]
        BY <1>1 DEF Chat, TypeOK
    <2>2. \A kind \in Kinds, z \in Holders, m \in Messages :
              At(kind, z, m) => kind \in {"context", "queued"} \/ (z \in Chats /\ z # c)
        BY <1>3, <1>5 DEF At
    <2>3. \A kind \in Kinds, z \in Holders, m \in Messages :
              At(kind, z, m) => HomeOf(kind, z) = HomeOf(kind, z)'
        BY <2>1, <2>2 DEF HomeOf
    <2>4. QED
        BY <1>2, <1>8, <2>3, ArrivalKeepsHome DEF PlaceInv
<1>12. QED
    BY <1>8, <1>9, <1>10, <1>11 DEF KeepsAll, StepPlaces

\* The pending messages are staged.
LEMMA BeginPlaces ==
    ASSUME PlaceInv, NEW c \in Chats, BeginTurn(c)
    PROVE  StepPlaces /\ KeepsAll
<1>1. TypeOK
    BY DEF PlaceInv, StagedRun, TypedRun
<1>2. /\ staged[c] \in Seq(Entries) /\ pending[c] \in Seq(Messages)
      /\ turn[c] + 1 \in 1..MaxTurns /\ arrived \in Nat
      /\ UNCHANGED << context, queued, session, arrived >>
    BY <1>1, TurnAssumption DEF BeginTurn, TurnsLeft, TypeOK, sessionVars
<1>3. PICK h : h = staged[c] \o << Entry("turn", turn[c] + 1) >> \o UserEntries(pending[c])
    OBVIOUS
<1>4. \A m \in Messages :
          /\ Has(h, Entry("user", m)) <=> Has(staged[c], Entry("user", m)) \/ Has(pending[c], m)
          /\ Once(staged[c], Entry("user", m)) /\ Once(pending[c], m)
             /\ ~(Has(staged[c], Entry("user", m)) /\ Has(pending[c], m)) => Once(h, Entry("user", m))
    BY <1>2, <1>3, HasStaged
<1>5. /\ \A d \in Chats : staged'[d] = IF d = c THEN h ELSE staged[d]
      /\ \A d \in Chats : pending'[d] = IF d = c THEN << >> ELSE pending[d]
    BY <1>1, <1>3 DEF BeginTurn, TypeOK
<1>6. \A m : ~Has(<< >>, m) /\ Once(<< >>, m)
    BY HasOne
<1>7. "pending" \in Kinds /\ "staged" \in Kinds /\ c \in Holders
    BY DEF Kinds, Holders
<1>8. Moves("pending", c, "staged", c)
    BY <1>2, <1>4, <1>5, <1>6 DEF At, Moves
<1>9. OnePlace'
    BY <1>2, <1>7, <1>8, MoveKeepsPlace DEF PlaceInv
<1>10. OnceInv'
    <2>1. \A m \in Messages : ~(Has(staged[c], Entry("user", m)) /\ Has(pending[c], m))
        <3>1. \A m \in Messages : ~(At("staged", c, m) /\ At("pending", c, m))
            BY <1>7 DEF PlaceInv, OnePlace
        <3>2. QED
            BY <3>1 DEF At
    <2>2. \A m \in Messages : Once(h, Entry("user", m))
        BY <1>4, <2>1 DEF PlaceInv, OnceInv
    <2>3. QED
        BY <1>2, <1>5, <1>6, <2>2 DEF PlaceInv, OnceInv
<1>11. ASSUME NEW kind \in Kinds, NEW z \in Holders, NEW m \in Messages, At(kind, z, m)
       PROVE  At(kind, z, m)' \/ At("staged", c, m)'
    BY <1>2, <1>4, <1>5, <1>11 DEF At
<1>12. HomesKept
    <2>1. \A kind \in Kinds, z \in Holders : HomeOf(kind, z) = HomeOf(kind, z)'
        BY <1>2 DEF HomeOf
    <2>2. HomeOf("pending", c) = HomeOf("staged", c)'
        BY <1>2 DEF HomeOf
    <2>3. QED
        BY <1>7, <1>8, <2>1, <2>2, MoveKeepsHome DEF PlaceInv
<1>13. QED
    BY <1>7, <1>9, <1>10, <1>11, <1>12 DEF KeepsAll, StepPlaces

\* The queue of the session is drained.
LEMMA DrainPlaces ==
    ASSUME PlaceInv, NEW c \in Chats, pc[c] \in {"stop", "tools"}, Drain(c),
           NEW h, staged' = [staged EXCEPT ![c] = h],
           \A m \in Messages :
              /\ Has(h, Entry("user", m)) <=> Has(staged[c], Entry("user", m))
              /\ Once(staged[c], Entry("user", m)) => Once(h, Entry("user", m)),
           UNCHANGED << context, session, arrived >>
    PROVE  StepPlaces /\ KeepsAll
<1>1. TypeOK /\ RunInv /\ TypedRun
    BY DEF PlaceInv, StagedRun, TypedRun
<1>2. pending[c] = << >> /\ arrived \in Nat
    BY <1>1, TurnAssumption DEF RunInv, TypeOK
<1>3. PICK s \in Sessions : s = session[c]
    BY <1>1, SessionOfRun
<1>4. /\ \A d \in Chats : staged'[d] = IF d = c THEN h ELSE staged[d]
      /\ \A d \in Chats : pending'[d] = IF d = c THEN queued[s] ELSE pending[d]
      /\ \A r \in Sessions : queued'[r] = IF r = s THEN << >> ELSE queued[r]
    BY <1>1, <1>3 DEF Drain, TypeOK
<1>5. \A m : ~Has(<< >>, m) /\ Once(<< >>, m)
    BY HasOne
<1>6. "queued" \in Kinds /\ "pending" \in Kinds /\ c \in Holders /\ s \in Holders
    BY DEF Kinds, Holders
<1>7. Moves("queued", s, "pending", c)
    BY <1>4, <1>5 DEF At, Moves
<1>8. OnePlace'
    BY <1>2, <1>6, <1>7, MoveKeepsPlace DEF PlaceInv
<1>9. OnceInv'
    BY <1>4, <1>5 DEF PlaceInv, OnceInv
<1>10. ASSUME NEW kind \in Kinds, NEW z \in Holders, NEW m \in Messages, At(kind, z, m)
       PROVE  At(kind, z, m)' \/ At("pending", c, m)'
    BY <1>2, <1>4, <1>5, <1>10 DEF At
<1>11. HomesKept
    <2>1. \A kind \in Kinds, z \in Holders : HomeOf(kind, z) = HomeOf(kind, z)'
        BY DEF HomeOf
    <2>2. HomeOf("queued", s) = HomeOf("pending", c)'
        BY <1>3 DEF HomeOf
    <2>3. QED
        BY <1>6, <1>7, <2>1, <2>2, MoveKeepsHome DEF PlaceInv
<1>12. QED
    BY <1>6, <1>8, <1>9, <1>10, <1>11 DEF KeepsAll, StepPlaces

\* What is staged joins the context; what is still pending goes.
LEMMA CommitPlaces ==
    ASSUME PlaceInv, NEW c \in Chats, pc[c] # "idle", NEW h \in Seq(Entries), CommitStaged(c, h),
           \A m \in Messages :
              /\ Has(h, Entry("user", m)) <=> Has(staged[c], Entry("user", m))
              /\ Once(staged[c], Entry("user", m)) => Once(h, Entry("user", m))
    PROVE  /\ StepPlaces
           /\ \A kind \in Kinds, z \in Holders, m \in Messages :
                 At(kind, z, m) => Has(pending[c], m) \/ \E k \in Kinds, w \in Holders : At(k, w, m)'
<1>1. TypeOK /\ TypedRun
    BY DEF PlaceInv, StagedRun, TypedRun
<1>2. PICK s \in Sessions : s = session[c]
    BY <1>1, SessionOfRun
<1>3. context[s] \in Seq(Entries) /\ arrived \in Nat /\ UNCHANGED << queued, arrived >>
    BY <1>1, TurnAssumption DEF CommitStaged, TypeOK
<1>4. PICK g : g = context[s] \o h
    OBVIOUS
<1>5. \A m \in Messages :
          /\ Has(g, Entry("user", m)) <=> Has(context[s], Entry("user", m)) \/ Has(h, Entry("user", m))
          /\ Once(context[s], Entry("user", m)) /\ Once(h, Entry("user", m))
             /\ ~(Has(context[s], Entry("user", m)) /\ Has(h, Entry("user", m)))
                => Once(g, Entry("user", m))
    BY <1>3, <1>4, HasConcat
<1>6. /\ \A r \in Sessions : context'[r] = IF r = s THEN g ELSE context[r]
      /\ \A d \in Chats : staged'[d] = IF d = c THEN << >> ELSE staged[d]
      /\ \A d \in Chats : pending'[d] = IF d = c THEN << >> ELSE pending[d]
    BY <1>1, <1>2, <1>4 DEF CommitStaged, TypeOK
<1>7. \A m : ~Has(<< >>, m) /\ Once(<< >>, m)
    BY HasOne
<1>8. "staged" \in Kinds /\ "context" \in Kinds /\ c \in Holders /\ s \in Holders
    BY DEF Kinds, Holders
<1>9. Moves("staged", c, "context", s)
    BY <1>3, <1>5, <1>6, <1>7 DEF At, Moves
<1>10. OnePlace'
    BY <1>3, <1>8, <1>9, MoveKeepsPlace DEF PlaceInv
<1>11. OnceInv'
    <2>1. \A m \in Messages : ~(Has(context[s], Entry("user", m)) /\ Has(staged[c], Entry("user", m)))
        <3>1. \A m \in Messages : ~(At("context", s, m) /\ At("staged", c, m))
            BY <1>8 DEF PlaceInv, OnePlace
        <3>2. QED
            BY <3>1 DEF At
    <2>2. \A m \in Messages : Once(g, Entry("user", m))
        BY <1>5, <2>1 DEF PlaceInv, OnceInv
    <2>3. QED
        BY <1>3, <1>6, <1>7, <2>2 DEF PlaceInv, OnceInv
<1>12. ASSUME NEW kind \in Kinds, NEW z \in Holders, NEW m \in Messages, At(kind, z, m)
       PROVE  Has(pending[c], m) \/ At(kind, z, m)' \/ At("context", s, m)'
    BY <1>3, <1>5, <1>6, <1>12 DEF At
<1>13. HomesKept
    <2>1. \A d \in Chats : d # c => session'[d] = session[d]
        BY <1>1 DEF CommitStaged, TypeOK
    <2>2. \A kind \in Kinds, z \in Holders, m \in Messages :
              At(kind, z, m)' => kind \in {"context", "queued"} \/ (z \in Chats /\ z # c)
        BY <1>6, <1>7 DEF At
    <2>3. \A kind \in Kinds, z \in Holders, m \in Messages :
              At(kind, z, m)' => HomeOf(kind, z) = HomeOf(kind, z)'
        BY <2>1, <2>2 DEF HomeOf
    <2>4. HomeOf("staged", c) = HomeOf("context", s)'
        BY <1>2 DEF HomeOf
    <2>5. QED
        BY <1>8, <1>9, <2>3, <2>4, MoveKeepsHome DEF PlaceInv
<1>14. QED
    BY <1>8, <1>10, <1>11, <1>12, <1>13 DEF StepPlaces

\* What disappears was pending when the last turn was over.
LosesAtLimit ==
    \A kind \in Kinds, z \in Holders, m \in Messages :
        At(kind, z, m) =>
            \/ \E k \in Kinds, w \in Holders : At(k, w, m)'
            \/ \E c \in Chats : turn[c] = MaxTurns /\ Has(pending[c], m)

\* What a run stages that is no user message moves none.
LEMMA HasOther ==
    ASSUME NEW h \in Seq(Entries), NEW e \in Entries, e.kind # "user", NEW m \in Messages
    PROVE  /\ Has(Append(h, e), Entry("user", m)) <=> Has(h, Entry("user", m))
           /\ Once(h, Entry("user", m)) => Once(Append(h, e), Entry("user", m))
<1>1. e # Entry("user", m)
    BY EntryFields
<1>2. QED
    BY <1>1, HasAppend

\* The answers of the model and the results of tools.
LEMMA AnswerPlaces ==
    ASSUME PlaceInv, NEW c \in Chats,
           AnswersStop(c) \/ AnswersCalls(c) \/ AnswersOther(c) \/ ModelFails(c) \/ RunTool(c)
    PROVE  StepPlaces /\ KeepsAll
<1>1. staged[c] \in Seq(Entries) /\ TypeOK
    BY DEF PlaceInv, StagedRun, TypedRun, TypeOK
<1>2. ASSUME NEW e \in Entries, e.kind # "user", staged' = [staged EXCEPT ![c] = Append(staged[c], e)],
             UNCHANGED << context, queued, pending, session, arrived >>
      PROVE  StepPlaces /\ KeepsAll
    <2>1. PICK h : h = Append(staged[c], e)
        OBVIOUS
    <2>2. \A m \in Messages :
              /\ Has(h, Entry("user", m)) <=> Has(staged[c], Entry("user", m))
              /\ Once(staged[c], Entry("user", m)) => Once(h, Entry("user", m))
        BY <1>1, <1>2, <2>1, HasOther
    <2>3. QED
        BY <1>2, <2>1, <2>2, StagePlaces
<1>3. CASE ModelFails(c)
    BY <1>3, StillPlaces DEF ModelFails, sessionVars
<1>4. CASE AnswersStop(c) \/ AnswersOther(c)
    <2>1. PICK n \in 0..MaxCalls : \E next : Answers(c, Entry("answer", n), next)
        BY <1>4 DEF AnswersStop, AnswersOther
    <2>2. Entry("answer", n) \in Entries /\ Entry("answer", n).kind # "user"
        BY EntryTypes, EntryFields
    <2>3. QED
        BY <1>2, <2>1, <2>2 DEF Answers, sessionVars
<1>5. CASE AnswersCalls(c)
    <2>1. PICK n \in 0..MaxCalls : Answers(c, Entry("call", n), "tools")
        BY <1>5 DEF AnswersCalls
    <2>2. Entry("call", n) \in Entries /\ Entry("call", n).kind # "user"
        BY EntryTypes, EntryFields
    <2>3. QED
        BY <1>2, <2>1, <2>2 DEF Answers, sessionVars
<1>6. CASE RunTool(c)
    <2>1. calls[c] - 1 \in 0..MaxCalls
        BY <1>1, <1>6, TurnAssumption DEF RunTool, TypeOK
    <2>2. Entry("tool", calls[c] - 1) \in Entries /\ Entry("tool", calls[c] - 1).kind # "user"
        BY <2>1, EntryTypes, EntryFields
    <2>3. QED
        BY <1>2, <1>6, <2>2 DEF RunTool, sessionVars
<1>7. QED
    BY <1>3, <1>4, <1>5, <1>6

\* What a run does after an answer or after the results.
LEMMA LoopPlaces ==
    ASSUME PlaceInv, NEW c \in Chats, ContinueWithQueued(c) \/ Conclude(c) \/ DrainAfterTools(c)
    PROVE  StepPlaces /\ KeepsAll
<1>1. /\ staged[c] \in Seq(Entries) /\ TypeOK /\ TypedRun
      /\ EndsAs(staged[c], pc[c], calls[c])
    BY DEF PlaceInv, StagedRun, TypedRun, TypeOK, EndInv
<1>2. ASSUME pc[c] = "stop", NEW m \in Messages
      PROVE  /\ Has(WithoutAnswer(c), Entry("user", m)) <=> Has(staged[c], Entry("user", m))
             /\ Once(staged[c], Entry("user", m)) => Once(WithoutAnswer(c), Entry("user", m))
    <2>1. Len(staged[c]) > 1 /\ EndOf(staged[c]).kind = "answer"
        BY <1>1, <1>2, EntryFields DEF EndsAs, Of
    <2>2. QED
        BY <1>1, <2>1, HasWithout DEF WithoutAnswer
<1>3. CASE ContinueWithQueued(c)
    <2>1. PICK h : h = WithoutAnswer(c)
        OBVIOUS
    <2>2. /\ pc[c] = "stop" /\ Drain(c) /\ staged' = [staged EXCEPT ![c] = h]
          /\ UNCHANGED << context, session, arrived >>
        BY <1>3, <2>1 DEF ContinueWithQueued
    <2>3. QED
        BY <1>2, <2>1, <2>2, DrainPlaces
<1>4. CASE Conclude(c)
    <2>0. PICK n \in 0..MaxCalls : n = Answer(c).n
        BY <1>4, AnswerIs DEF Conclude, PlaceInv
    <2>1. /\ pc[c] = "stop" /\ WithoutAnswer(c) \in Seq(Entries)
          /\ Entry("reply", n) \in Entries /\ Entry("reply", n).kind # "user"
        BY <1>1, <1>4, WithoutAnswerType, EntryTypes, EntryFields DEF Conclude
    <2>2. PICK h : h = Append(WithoutAnswer(c), Entry("reply", n))
        OBVIOUS
    <2>3. \A m \in Messages :
              /\ Has(h, Entry("user", m)) <=> Has(WithoutAnswer(c), Entry("user", m))
              /\ Once(WithoutAnswer(c), Entry("user", m)) => Once(h, Entry("user", m))
        BY <2>1, <2>2, HasOther
    <2>4. \A m \in Messages :
              /\ Has(h, Entry("user", m)) <=> Has(staged[c], Entry("user", m))
              /\ Once(staged[c], Entry("user", m)) => Once(h, Entry("user", m))
        BY <1>2, <2>1, <2>3
    <2>5. staged' = [staged EXCEPT ![c] = h] /\ UNCHANGED << context, queued, pending, session, arrived >>
        BY <1>4, <2>0, <2>2 DEF Conclude, sessionVars
    <2>6. QED
        BY <2>4, <2>5, StagePlaces
<1>5. CASE DrainAfterTools(c)
    <2>1. PICK h : h = staged[c]
        OBVIOUS
    <2>2. /\ pc[c] = "tools" /\ Drain(c) /\ staged' = [staged EXCEPT ![c] = h]
          /\ UNCHANGED << context, session, arrived >>
        BY <1>1, <1>5, <2>1 DEF DrainAfterTools, TypeOK
    <2>3. QED
        BY <2>1, <2>2, DrainPlaces
<1>6. QED
    BY <1>3, <1>4, <1>5

\* The end of a run.
LEMMA EndPlaces ==
    ASSUME PlaceInv, NEW c \in Chats, Commit(c) \/ Fallback(c)
    PROVE  StepPlaces /\ LosesAtLimit
<1>1. staged[c] \in Seq(Entries) /\ TypeOK /\ RunInv
    BY DEF PlaceInv, StagedRun, TypedRun, TypeOK
<1>2. \A m : ~Has(<< >>, m)
    BY HasOne
<1>3. pc[c] = "turn" /\ ~TurnsLeft(c) => turn[c] = MaxTurns
    BY <1>1, TurnAssumption DEF TurnsLeft, TypeOK
<1>4. pc[c] # "turn" => pending[c] = << >>
    BY <1>1 DEF RunInv
<1>5. PICK h \in Seq(Entries) :
          /\ CommitStaged(c, h)
          /\ \A m \in Messages :
                /\ Has(h, Entry("user", m)) <=> Has(staged[c], Entry("user", m))
                /\ Once(staged[c], Entry("user", m)) => Once(h, Entry("user", m))
    <2>1. CASE Commit(c)
        BY <1>1, <2>1 DEF Commit
    <2>2. CASE Fallback(c)
        <3>1. PICK h : h = Append(staged[c], Entry("fallback", 0))
            OBVIOUS
        <3>2. Entry("fallback", 0) \in Entries /\ Entry("fallback", 0).kind # "user"
            BY EntryTypes, EntryFields
        <3>3. h \in Seq(Entries)
            BY <1>1, <3>1, <3>2, AppendProperties
        <3>4. \A m \in Messages :
                  /\ Has(h, Entry("user", m)) <=> Has(staged[c], Entry("user", m))
                  /\ Once(staged[c], Entry("user", m)) => Once(h, Entry("user", m))
            BY <1>1, <3>1, <3>2, HasOther
        <3>5. QED
            BY <2>2, <3>1, <3>3, <3>4 DEF Fallback
    <2>3. QED
        BY <2>1, <2>2
<1>6. pc[c] # "idle"
    BY DEF Commit, Fallback
<1>7. /\ StepPlaces
      /\ \A kind \in Kinds, z \in Holders, m \in Messages :
            At(kind, z, m) => Has(pending[c], m) \/ \E k \in Kinds, w \in Holders : At(k, w, m)'
    BY <1>5, <1>6, CommitPlaces
<1>8. \A m : Has(pending[c], m) => turn[c] = MaxTurns
    BY <1>2, <1>3, <1>4 DEF Commit, Fallback
<1>9. QED
    BY <1>7, <1>8 DEF LosesAtLimit

\* Every step keeps each message in its one place.
LEMMA NextPlaces == PlaceInv /\ [Next]_vars => PlaceInv' /\ LosesAtLimit /\ HomesKept
<1> SUFFICES ASSUME PlaceInv, [Next]_vars PROVE StepPlaces /\ LosesAtLimit
    BY NextEnds DEF PlaceInv, StepPlaces
<1>1. ASSUME StepPlaces /\ KeepsAll
      PROVE  StepPlaces /\ LosesAtLimit
    BY <1>1 DEF KeepsAll, LosesAtLimit
<1>2. ASSUME NEW id \in Ids, CreateSession(id) \/ DeleteSession(id) \/ QueueMessage(id)
      PROVE  StepPlaces /\ LosesAtLimit
    BY <1>1, <1>2, QueuePlaces, StillPlaces DEF CreateSession, DeleteSession, runVars
<1>3. ASSUME NEW c \in Chats, NEW id \in Ids, Chat(c, id)
      PROVE  StepPlaces /\ LosesAtLimit
    BY <1>1, <1>3, ChatPlaces
<1>4. ASSUME NEW c \in Chats, RunStep(c)
      PROVE  StepPlaces /\ LosesAtLimit
    BY <1>1, <1>4, BeginPlaces, AnswerPlaces, LoopPlaces, EndPlaces DEF RunStep, OwnStep
<1>5. CASE UNCHANGED vars
    BY <1>1, <1>5, StillPlaces DEF vars, runVars, sessionVars
<1>6. QED
    BY <1>2, <1>3, <1>4, <1>5 DEF Next

\* Nothing is anywhere before the first request.
LEMMA InitPlaces == Init => PlaceInv
<1> SUFFICES ASSUME Init PROVE PlaceInv
    OBVIOUS
<1>1. StagedRun
    BY InitTyped DEF StagedRun, Init, EndInv, EndsAs
<1>2. \A m : ~Has(<< >>, m) /\ Once(<< >>, m)
    BY HasOne
<1>3. \A kind \in Kinds, z \in Holders, m \in Messages : ~At(kind, z, m)
    BY <1>2 DEF Init, At
<1>4. OnePlace
    BY <1>3 DEF OnePlace
<1>5. OnceInv
    BY <1>2 DEF Init, OnceInv
<1>6. QED
    BY <1>1, <1>4, <1>5 DEF PlaceInv

\* Each accepted message is in at most one place, at most once.
THEOREM MessagesHaveOnePlace == Spec => []PlaceInv
<1>1. QED
    BY InitPlaces, NextPlaces, PTL DEF Spec

\* The elements of Places.
LEMMA PlacesElements ==
    ASSUME NEW m \in Messages
    PROVE  \A p : p \in Places(m) <=>
              \/ \E s \in Live : \E i \in UserPositions(context[s], m) : p = << "context", s, i >>
              \/ \E c \in Chats : \E i \in UserPositions(staged[c], m) : p = << "staged", c, i >>
              \/ \E c \in Chats : \E i \in Positions(pending[c], m) : p = << "pending", c, i >>
              \/ \E s \in Live : \E i \in Positions(queued[s], m) : p = << "queued", s, i >>
<1>1. PICK a : a = UNION { { << "context", s, i >> : i \in UserPositions(context[s], m) } : s \in Live }
    OBVIOUS
<1>2. PICK b : b = UNION { { << "staged", c, i >> : i \in UserPositions(staged[c], m) } : c \in Chats }
    OBVIOUS
<1>3. PICK d : d = UNION { { << "pending", c, i >> : i \in Positions(pending[c], m) } : c \in Chats }
    OBVIOUS
<1>4. PICK e : e = UNION { { << "queued", s, i >> : i \in Positions(queued[s], m) } : s \in Live }
    OBVIOUS
<1>5. Places(m) = a \cup b \cup d \cup e
    BY <1>1, <1>2, <1>3, <1>4 DEF Places
<1>6. \A p : p \in a <=> \E s \in Live : \E i \in UserPositions(context[s], m) : p = << "context", s, i >>
    BY <1>1
<1>7. \A p : p \in b <=> \E c \in Chats : \E i \in UserPositions(staged[c], m) : p = << "staged", c, i >>
    BY <1>2
<1>8. \A p : p \in d <=> \E c \in Chats : \E i \in Positions(pending[c], m) : p = << "pending", c, i >>
    BY <1>3
<1>9. \A p : p \in e <=> \E s \in Live : \E i \in Positions(queued[s], m) : p = << "queued", s, i >>
    BY <1>4
<1>10. QED
    BY <1>5, <1>6, <1>7, <1>8, <1>9

\* What a freed Session holds is in no place.
Reachable(kind, x) == kind \in {"context", "queued"} => x \in Live

\* A message that a run or a live Session has is somewhere.
HeldArePlaced ==
    \A m \in Messages, kind \in Kinds, x \in Holders :
        At(kind, x, m) /\ Reachable(kind, x) => Places(m) # {}

\* No run and no live Session holds a message that Places does not show.
LEMMA HeldIsPlaced == HeldArePlaced
<1> SUFFICES ASSUME NEW m \in Messages, NEW kind \in Kinds, NEW x \in Holders, At(kind, x, m),
                    Reachable(kind, x)
             PROVE  Places(m) # {}
    BY DEF HeldArePlaced
<1>1. \/ x \in Live /\ \E i : i \in UserPositions(context[x], m)
      \/ x \in Chats /\ \E i : i \in UserPositions(staged[x], m)
      \/ x \in Chats /\ \E i : i \in Positions(pending[x], m)
      \/ x \in Live /\ \E i : i \in Positions(queued[x], m)
    BY DEF At, Has, UserPositions, Positions, Reachable
<1>2. \E p : p \in Places(m)
    BY <1>1, PlacesElements
<1>3. QED
    BY <1>2

\* A place is a position of a sequence that has the message.
LEMMA PlaceIsHeld ==
    ASSUME NEW m \in Messages, NEW p \in Places(m)
    PROVE  \E kind \in Kinds, x \in Holders :
              /\ At(kind, x, m) /\ Reachable(kind, x)
              /\ \E i : p = << kind, x, i >> /\
                    \/ kind = "context" /\ i \in UserPositions(context[x], m)
                    \/ kind = "staged" /\ i \in UserPositions(staged[x], m)
                    \/ kind = "pending" /\ i \in Positions(pending[x], m)
                    \/ kind = "queued" /\ i \in Positions(queued[x], m)
<1>1. /\ \A s \in Live : UserPositions(context[s], m) # {} => At("context", s, m)
      /\ \A s \in Live : Positions(queued[s], m) # {} => At("queued", s, m)
      /\ \A c \in Chats : UserPositions(staged[c], m) # {} => At("staged", c, m)
      /\ \A c \in Chats : Positions(pending[c], m) # {} => At("pending", c, m)
    BY DEF UserPositions, Positions, At, Has, Live
<1>2. /\ {"context", "staged", "pending", "queued"} = Kinds
      /\ Live \subseteq Holders /\ Chats \subseteq Holders
    BY DEF Kinds, Holders, Live
<1>3. /\ \A s \in Live, kind \in Kinds : Reachable(kind, s)
      /\ \A x : Reachable("staged", x) /\ Reachable("pending", x)
    BY DEF Reachable
<1>4. CASE \E s \in Live : \E i \in UserPositions(context[s], m) : p = << "context", s, i >>
    BY <1>1, <1>2, <1>3, <1>4
<1>5. CASE \E c \in Chats : \E i \in UserPositions(staged[c], m) : p = << "staged", c, i >>
    BY <1>1, <1>2, <1>3, <1>5
<1>6. CASE \E c \in Chats : \E i \in Positions(pending[c], m) : p = << "pending", c, i >>
    BY <1>1, <1>2, <1>3, <1>6
<1>7. CASE \E s \in Live : \E i \in Positions(queued[s], m) : p = << "queued", s, i >>
    BY <1>1, <1>2, <1>3, <1>7
<1>8. QED
    BY <1>4, <1>5, <1>6, <1>7, PlacesElements

\* The model is never shown a message twice.
THEOREM MessagesAreNeverDoubled == Spec => []NeverTwice
<1>1. ASSUME PlaceInv, NEW m \in Messages
      PROVE  Cardinality(Places(m)) <= 1
    <2>1. ASSUME NEW p \in Places(m), NEW q \in Places(m) PROVE p = q
        <3>1. PICK k, x, i :
                  /\ k \in Kinds /\ x \in Holders
                  /\ At(k, x, m) /\ p = << k, x, i >>
                  /\ \/ k = "context" /\ i \in UserPositions(context[x], m)
                     \/ k = "staged" /\ i \in UserPositions(staged[x], m)
                     \/ k = "pending" /\ i \in Positions(pending[x], m)
                     \/ k = "queued" /\ i \in Positions(queued[x], m)
            BY PlaceIsHeld
        <3>2. PICK l, y, j :
                  /\ l \in Kinds /\ y \in Holders
                  /\ At(l, y, m) /\ q = << l, y, j >>
                  /\ \/ l = "context" /\ j \in UserPositions(context[y], m)
                     \/ l = "staged" /\ j \in UserPositions(staged[y], m)
                     \/ l = "pending" /\ j \in Positions(pending[y], m)
                     \/ l = "queued" /\ j \in Positions(queued[y], m)
            BY PlaceIsHeld
        <3>3. k = l /\ x = y
            BY <1>1, <3>1, <3>2 DEF PlaceInv, OnePlace
        <3>4. i = j
            BY <1>1, <3>1, <3>2, <3>3
               DEF PlaceInv, OnceInv, Once, At, UserPositions, Positions
        <3>5. QED
            BY <3>1, <3>2, <3>3, <3>4
    <2>2. CASE Places(m) = {}
        BY <2>2, FS_EmptySet
    <2>3. CASE Places(m) # {}
        <3>1. PICK p : p \in Places(m)
            BY <2>3
        <3>2. Places(m) = {p}
            BY <2>1, <3>1
        <3>3. QED
            BY <3>2, FS_Singleton
    <2>4. QED
        BY <2>2, <2>3
<1>2. PlaceInv => NeverTwice
    BY <1>1 DEF NeverTwice
<1>3. QED
    BY <1>2, MessagesHaveOnePlace, PTL

\* Nothing reaches a Session that is freed.
LEMMA FreedIsUntouched ==
    ASSUME TypedRun, [Next]_vars, NEW s \in Sessions \ Live
    PROVE  context'[s] = context[s] /\ queued'[s] = queued[s]
<1>1. (\A id \in Ids : registry[id] # s) /\ (\A c \in Chats : session[c] # s)
    BY DEF Live
<1>2. TypeOK
    BY DEF TypedRun
<1>3. ASSUME NEW id \in Ids, CreateSession(id) \/ DeleteSession(id) \/ QueueMessage(id)
      PROVE  context'[s] = context[s] /\ queued'[s] = queued[s]
    BY <1>1, <1>2, <1>3 DEF CreateSession, DeleteSession, QueueMessage, TypeOK
<1>4. ASSUME NEW c \in Chats, NEW id \in Ids, Chat(c, id)
      PROVE  context'[s] = context[s] /\ queued'[s] = queued[s]
    BY <1>4 DEF Chat, sessionVars
<1>5. ASSUME NEW c \in Chats, RunStep(c)
      PROVE  context'[s] = context[s] /\ queued'[s] = queued[s]
    <2>1. CASE BeginTurn(c) \/ ModelFails(c) \/ Conclude(c) \/ RunTool(c)
        BY <2>1 DEF BeginTurn, ModelFails, Conclude, RunTool, sessionVars
    <2>2. CASE AnswersStop(c) \/ AnswersCalls(c) \/ AnswersOther(c)
        BY <2>2 DEF AnswersStop, AnswersCalls, AnswersOther, Answers, sessionVars
    <2>3. CASE ContinueWithQueued(c) \/ DrainAfterTools(c)
        BY <1>1, <1>2, <2>3 DEF ContinueWithQueued, DrainAfterTools, Drain, TypeOK
    <2>4. CASE Commit(c) \/ Fallback(c)
        BY <1>1, <1>2, <2>4 DEF Commit, Fallback, CommitStaged, TypeOK
    <2>5. QED
        BY <1>5, <2>1, <2>2, <2>3, <2>4 DEF RunStep, OwnStep
<1>6. CASE UNCHANGED vars
    BY <1>6 DEF vars, sessionVars
<1>7. QED
    BY <1>3, <1>4, <1>5, <1>6 DEF Next

\* What a Session has, it holds.
SessionsHold ==
    \A m \in Messages, s \in Sessions, kind \in {"context", "queued"} : At(kind, s, m) => Holds(s, m)

LEMMA SessionHolds == SessionsHold
BY DEF SessionsHold, At, Has, Holds, UserPositions, Positions

\* A message disappears only when a run that drained it has no turn left, or with a
\* Session that had it and is freed: no deletion takes a message from a run.
THEOREM MessagesAreLostAtLimitOrFreed == Spec => LostAtLimitOrFreed
<1>1. ASSUME PlaceInv, [Next]_vars, NEW m \in 1..arrived, Places(m) # {}, Places(m)' = {}
      PROVE  \/ \E c \in Chats : turn[c] = MaxTurns /\ m \in { pending[c][i] : i \in DOMAIN pending[c] }
             \/ \E s \in Live : s \notin Live' /\ Holds(s, m)'
    <2>1. m \in Messages /\ TypedRun
        BY <1>1, TurnAssumption DEF PlaceInv, StagedRun, TypedRun, TypeOK, Messages
    <2>2. PICK kind \in Kinds, x \in Holders : At(kind, x, m) /\ Reachable(kind, x)
        <3>1. PICK p : p \in Places(m)
            BY <1>1
        <3>2. QED
            BY <2>1, <3>1, PlaceIsHeld
    <2>3. CASE \E c \in Chats : turn[c] = MaxTurns /\ Has(pending[c], m)
        BY <2>3 DEF Has
    <2>4. CASE ~\E c \in Chats : turn[c] = MaxTurns /\ Has(pending[c], m)
        <3>1. PICK k \in Kinds, w \in Holders : At(k, w, m)'
            BY <1>1, <2>1, <2>2, <2>4, NextPlaces DEF LosesAtLimit
        <3>2. ~Reachable(k, w)'
            <4>1. HeldArePlaced'
                BY HeldIsPlaced, PTL
            <4>2. QED
                BY <1>1, <2>1, <3>1, <4>1 DEF HeldArePlaced
        <3>3. k \in {"context", "queued"} /\ w \in Sessions /\ w \notin Live'
            BY <3>1, <3>2 DEF Reachable, At
        <3>4. w \in Live
            <4>1. SUFFICES ASSUME w \notin Live PROVE FALSE
                OBVIOUS
            <4>2. context'[w] = context[w] /\ queued'[w] = queued[w]
                BY <1>1, <2>1, <3>3, <4>1, FreedIsUntouched
            <4>3. At(k, w, m)
                <5>1. CASE k = "context"
                    BY <3>1, <3>3, <4>2, <5>1 DEF At
                <5>2. CASE k = "queued"
                    BY <3>1, <3>3, <4>2, <5>2 DEF At
                <5>3. QED
                    BY <3>3, <5>1, <5>2
            <4>4. k = kind /\ w = x
                BY <1>1, <2>1, <2>2, <3>1, <4>3 DEF PlaceInv, OnePlace
            <4>5. QED
                BY <2>2, <3>3, <4>1, <4>4 DEF Reachable
        <3>5. SessionsHold'
            BY SessionHolds, PTL
        <3>6. Holds(w, m)'
            BY <2>1, <3>1, <3>3, <3>5 DEF SessionsHold
        <3>7. QED
            BY <3>3, <3>4, <3>6
    <2>5. QED
        BY <2>3, <2>4
<1>2. PlaceInv /\ [Next]_vars =>
          [\A m \in 1..arrived :
              Places(m) # {} /\ Places(m)' = {} =>
                  \/ \E c \in Chats : turn[c] = MaxTurns /\ m \in { pending[c][i] : i \in DOMAIN pending[c] }
                  \/ \E s \in Live : s \notin Live' /\ Holds(s, m)']_vars
    BY <1>1
<1>3. QED
    BY <1>2, MessagesHaveOnePlace, PTL DEF Spec, LostAtLimitOrFreed

\* A place is of the Session that what holds the message belongs to.
PlacesHaveHomes ==
    \A m \in Messages : \A p \in Places(m) :
        \E kind \in Kinds, x \in Holders : At(kind, x, m) /\ Home(p) = HomeOf(kind, x)

\* Home is HomeOf.
LEMMA PlaceHasHome == PlacesHaveHomes
<1> SUFFICES ASSUME NEW m \in Messages, NEW p \in Places(m)
             PROVE  \E kind \in Kinds, x \in Holders : At(kind, x, m) /\ Home(p) = HomeOf(kind, x)
    BY DEF PlacesHaveHomes
<1>1. PICK kind \in Kinds, x \in Holders : At(kind, x, m) /\ \E i : p = << kind, x, i >>
    BY PlaceIsHeld
<1>2. p[1] = kind /\ p[2] = x
    BY <1>1
<1>3. Home(p) = HomeOf(kind, x)
    BY <1>2 DEF Home, HomeOf
<1>4. QED
    BY <1>1, <1>3

\* A run shows and keeps what its own Session accepted, and nothing else, though the id may
\* name another Session before it ends.
THEOREM MessagesKeepTheirSession == Spec => MessagesStayHome
<1>1. ASSUME PlaceInv, [Next]_vars, NEW m \in Messages, NEW p \in Places(m), NEW q \in Places(m)'
      PROVE  Home(p) = Home(q)'
    <2>1. PICK k \in Kinds, x \in Holders : At(k, x, m) /\ Home(p) = HomeOf(k, x)
        BY PlaceHasHome DEF PlacesHaveHomes
    <2>2. PlacesHaveHomes'
        BY PlaceHasHome, PTL
    <2>3. PICK l \in Kinds, y \in Holders : At(l, y, m)' /\ Home(q)' = HomeOf(l, y)'
        BY <2>2 DEF PlacesHaveHomes
    <2>4. HomesKept
        BY <1>1, NextPlaces
    <2>5. QED
        BY <2>1, <2>3, <2>4 DEF HomesKept
<1>2. PlaceInv /\ [Next]_vars =>
          [\A m \in Messages : \A p \in Places(m) : \A q \in Places(m)' : Home(p) = Home(q)']_vars
    BY <1>1
<1>3. QED
    BY <1>2, MessagesHaveOnePlace, PTL DEF Spec, MessagesStayHome

-----------------------------------------------------------------------------
(* Every history is a sequence of whole runs *)

\* The last marker of h at or before i is at j.
IsMark(h, i, j) ==
    /\ j \in 1..i /\ h[j].kind = "turn"
    /\ \A k \in 1..i : h[k].kind = "turn" => k <= j

\* No entry comes before the first marker.
Marked(h) == \A i \in 1..Len(h) : \E j \in 1..i : IsMark(h, i, j)

Sound(h) == WellFormed(h) /\ Marked(h)

Ordered(q) == \A i \in 1..(Len(q) - 1) : q[i] < q[i + 1]

\* Contexts hold whole runs; what a run has staged is the beginning of one, in its
\* last turn; messages queue, and are drained, in the order they were accepted.
ShapeInv ==
    /\ \A s \in Sessions :
          /\ Sound(context[s]) /\ Ordered(queued[s])
          /\ context[s] # << >> => EndOf(context[s]).kind \in {"reply", "fallback"}
    /\ \A c \in Chats :
          /\ Sound(staged[c]) /\ Ordered(pending[c])
          /\ TurnAt(staged[c], Len(staged[c])) = turn[c]

HistoryInv == PlaceInv /\ ShapeInv

\* The turn at i is the number of the last marker.
LEMMA TurnAtMark ==
    ASSUME NEW h, NEW i \in Nat, NEW j, IsMark(h, i, j)
    PROVE  TurnAt(h, i) = h[j].n
<1> DEFINE marks == { k \in 1..i : h[k].kind = "turn" }
<1>1. j \in marks /\ \A k \in marks : k <= j
    BY DEF IsMark
<1>2. \A l \in marks : (\A k \in marks : k <= l) => l = j
    <2>1. SUFFICES ASSUME NEW l \in marks, \A k \in marks : k <= l PROVE l = j
        OBVIOUS
    <2>2. l <= j /\ j <= l /\ l \in Int /\ j \in Int
        BY <1>1, <2>1
    <2>3. QED
        BY <2>2
<1> HIDE DEF marks
<1>3. (CHOOSE l \in marks : \A k \in marks : k <= l) = j
    BY <1>1, <1>2
<1>4. marks # {}
    BY <1>1
<1>5. QED
    BY <1>3, <1>4 DEF TurnAt, marks

\* Without a marker no turn has begun.
LEMMA TurnAtNone == \A h : TurnAt(h, 0) = 0
<1> SUFFICES ASSUME NEW h PROVE TurnAt(h, 0) = 0
    OBVIOUS
<1>1. { k \in 1..0 : h[k].kind = "turn" } = {}
    OBVIOUS
<1>2. QED
    BY <1>1 DEF TurnAt

\* Histories that begin alike have the same marks and turns there.
LEMMA TurnAtAgree ==
    ASSUME NEW h, Marked(h), Len(h) \in Nat, NEW g, NEW n \in 0..Len(h), \A k \in 1..n : g[k] = h[k]
    PROVE  /\ TurnAt(g, n) = TurnAt(h, n)
           /\ \A i \in 1..n : TurnAt(g, i) = TurnAt(h, i) /\ \E j \in 1..i : IsMark(g, i, j)
<1>1. ASSUME NEW i \in 1..n
      PROVE  TurnAt(g, i) = TurnAt(h, i) /\ \E j \in 1..i : IsMark(g, i, j)
    <2>1. i \in 1..Len(h) /\ i \in Nat
        OBVIOUS
    <2>2. PICK j \in 1..i : IsMark(h, i, j)
        BY <2>1 DEF Marked
    <2>3. j \in 1..n /\ \A k \in 1..i : k \in 1..n
        BY <2>1
    <2>4. IsMark(g, i, j) /\ g[j] = h[j]
        BY <2>2, <2>3 DEF IsMark
    <2>5. QED
        BY <2>1, <2>2, <2>4, TurnAtMark
<1>2. CASE n = 0
    BY <1>1, <1>2, TurnAtNone
<1>3. CASE n # 0
    <2>1. n \in 1..n
        BY <1>3
    <2>2. QED
        BY <1>1, <2>1
<1>4. QED
    BY <1>2, <1>3

\* An entry that may follow is appended.
LEMMA GrowSound ==
    ASSUME NEW h \in Seq(Entries), NEW e \in Entries, Sound(h),
           h = << >> => e = Entry("turn", 1),
           h # << >> => Follows(EndOf(h), e),
           h # << >> /\ e.kind = "turn" /\ EndOf(h).kind \notin {"reply", "fallback"} =>
              e.n = TurnAt(h, Len(h)) + 1
    PROVE  LET g == Append(h, e)
           IN  Sound(g) /\ TurnAt(g, Len(g)) = IF e.kind = "turn" THEN e.n ELSE TurnAt(h, Len(h))
<1>1. PICK g : g = Append(h, e)
    OBVIOUS
<1>2. PICK n \in Nat : n = Len(h)
    BY LenProperties
<1>3. /\ g \in Seq(Entries) /\ g # << >> /\ Len(g) = n + 1 /\ g[n + 1] = e
      /\ \A i \in 1..n : g[i] = h[i]
    BY <1>1, <1>2, AppendProperties
<1>4. (h = << >> <=> n = 0) /\ (n > 0 => EndOf(h) = h[n])
    BY <1>2, EmptySeq DEF EndOf
<1>5. /\ TurnAt(g, n) = TurnAt(h, n)
      /\ \A i \in 1..n : TurnAt(g, i) = TurnAt(h, i) /\ \E j \in 1..i : IsMark(g, i, j)
    BY <1>2, <1>3, TurnAtAgree DEF Sound
<1>6. /\ \E j \in 1..(n + 1) : IsMark(g, n + 1, j)
      /\ TurnAt(g, n + 1) = IF e.kind = "turn" THEN e.n ELSE TurnAt(h, n)
    <2>1. CASE e.kind = "turn"
        <3>1. IsMark(g, n + 1, n + 1) /\ n + 1 \in 1..(n + 1)
            BY <1>3, <2>1 DEF IsMark
        <3>2. TurnAt(g, n + 1) = e.n
            BY <1>3, <3>1, TurnAtMark
        <3>3. QED
            BY <2>1, <3>1, <3>2
    <2>2. CASE e.kind # "turn"
        <3>1. n > 0 /\ n \in 1..n
            BY <1>4, <2>2, EntryFields
        <3>2. PICK j \in 1..n : IsMark(g, n, j)
            BY <1>5, <3>1
        <3>3. j \in 1..(n + 1) /\ \A k \in 1..(n + 1) : k \in 1..n \/ k = n + 1
            OBVIOUS
        <3>4. IsMark(g, n + 1, j)
            BY <1>3, <2>2, <3>2, <3>3 DEF IsMark
        <3>5. TurnAt(g, n + 1) = g[j].n /\ TurnAt(g, n) = g[j].n
            BY <3>2, <3>4, TurnAtMark
        <3>6. QED
            BY <1>5, <2>2, <3>3, <3>4, <3>5
    <2>3. QED
        BY <2>1, <2>2
<1>7. Marked(g)
    <2>1. \A i \in 1..Len(g) : i \in 1..n \/ i = n + 1
        BY <1>3
    <2>2. QED
        BY <1>5, <1>6, <2>1 DEF Marked
<1>8. g[1] = Entry("turn", 1)
    <2>1. CASE n = 0
        BY <1>3, <1>4, <2>1
    <2>2. CASE n # 0
        <3>1. 1 \in 1..n
            BY <2>2
        <3>2. QED
            BY <1>3, <1>4, <2>2, <3>1 DEF Sound, WellFormed
    <2>3. QED
        BY <2>1, <2>2
<1>9. ASSUME NEW i \in 1..(Len(g) - 1)
      PROVE  /\ Follows(g[i], g[i + 1])
             /\ g[i + 1].kind = "turn" /\ g[i].kind \notin {"reply", "fallback"}
                   => g[i + 1].n = TurnAt(g, i) + 1
    <2>1. i \in 1..n /\ n > 0
        BY <1>3
    <2>2. CASE i = n
        <3>1. g[i] = EndOf(h) /\ g[i + 1] = e /\ TurnAt(g, i) = TurnAt(h, n)
            BY <1>3, <1>4, <1>5, <2>1, <2>2
        <3>2. QED
            BY <1>2, <1>4, <2>1, <3>1
    <2>3. CASE i # n
        <3>1. i \in 1..(n - 1) /\ i + 1 \in 1..n
            BY <2>1, <2>3
        <3>2. g[i] = h[i] /\ g[i + 1] = h[i + 1] /\ TurnAt(g, i) = TurnAt(h, i)
            BY <1>3, <1>5, <2>1, <3>1
        <3>3. /\ Follows(h[i], h[i + 1])
              /\ h[i + 1].kind = "turn" /\ h[i].kind \notin {"reply", "fallback"}
                    => h[i + 1].n = TurnAt(h, i) + 1
            BY <1>2, <3>1 DEF Sound, WellFormed
        <3>4. QED
            BY <3>2, <3>3
    <2>4. QED
        BY <2>2, <2>3
<1>10. WellFormed(g)
    BY <1>8, <1>9 DEF WellFormed
<1>11. QED
    BY <1>1, <1>2, <1>3, <1>6, <1>7, <1>10 DEF Sound

\* A run follows whole runs.
LEMMA JoinSound ==
    ASSUME NEW a \in Seq(Entries), NEW b \in Seq(Entries), Sound(a), Sound(b),
           a # << >> => EndOf(a).kind \in {"reply", "fallback"}
    PROVE  Sound(a \o b)
<1>1. PICK c : c = a \o b
    OBVIOUS
<1>2. PICK n \in Nat, m \in Nat : n = Len(a) /\ m = Len(b)
    BY LenProperties
<1>3. /\ Len(c) = n + m
      /\ \A i \in 1..(n + m) : c[i] = IF i <= n THEN a[i] ELSE b[i - n]
    BY <1>1, <1>2, ConcatProperties
<1>4. \A i \in 1..n : c[i] = a[i]
    BY <1>3
<1>5. \A k \in 1..m : c[n + k] = b[k]
    <2>1. SUFFICES ASSUME NEW k \in 1..m PROVE c[n + k] = b[k]
        OBVIOUS
    <2>2. n + k \in 1..(n + m) /\ ~(n + k <= n) /\ n + k - n = k
        OBVIOUS
    <2>3. QED
        BY <1>3, <2>2
<1>6. \A i \in 1..n : TurnAt(c, i) = TurnAt(a, i) /\ \E j \in 1..i : IsMark(c, i, j)
    <2>1. Marked(a) /\ Len(a) \in Nat /\ n \in 0..Len(a)
        BY <1>2 DEF Sound
    <2>2. QED
        BY <1>4, <2>1, TurnAtAgree
<1>7. ASSUME NEW k \in 1..m
      PROVE  TurnAt(c, n + k) = TurnAt(b, k) /\ \E j \in 1..(n + k) : IsMark(c, n + k, j)
    <2>1. PICK j \in 1..k : IsMark(b, k, j)
        BY <1>2 DEF Sound, Marked
    <2>2. j \in 1..m /\ n + j \in 1..(n + k) /\ n + k \in Nat /\ k \in Nat
        OBVIOUS
    <2>3. c[n + j] = b[j]
        BY <1>5, <2>2
    <2>4. ASSUME NEW l \in 1..(n + k), c[l].kind = "turn" PROVE l <= n + j
        <3>1. CASE l <= n
            BY <2>2, <3>1
        <3>2. CASE ~(l <= n)
            <4>1. l - n \in 1..k /\ l - n \in 1..m /\ n + (l - n) = l
                BY <3>2
            <4>2. c[l] = b[l - n]
                BY <1>5, <4>1
            <4>3. l - n <= j
                BY <2>1, <2>4, <4>1, <4>2 DEF IsMark
            <4>4. QED
                BY <2>2, <4>3
        <3>3. QED
            BY <3>1, <3>2
    <2>5. IsMark(c, n + k, n + j)
        BY <2>1, <2>2, <2>3, <2>4 DEF IsMark
    <2>6. QED
        BY <2>1, <2>2, <2>3, <2>5, TurnAtMark
<1>8. \A i \in 1..(n + m) : i \in 1..n \/ \E k \in 1..m : i = n + k
    <2>1. SUFFICES ASSUME NEW i \in 1..(n + m), i \notin 1..n PROVE \E k \in 1..m : i = n + k
        OBVIOUS
    <2>2. i - n \in 1..m /\ i = n + (i - n)
        BY <2>1
    <2>3. QED
        BY <2>2
<1>9. Marked(c)
    BY <1>3, <1>6, <1>7, <1>8 DEF Marked
<1>10. /\ (a = << >> <=> n = 0) /\ (b = << >> <=> m = 0)
       /\ n > 0 => EndOf(a) = a[n]
    BY <1>2, EmptySeq DEF EndOf
<1>11. ASSUME c # << >> PROVE c[1] = Entry("turn", 1)
    <2>1. CASE n > 0
        <3>1. 1 \in 1..n
            BY <2>1
        <3>2. QED
            BY <1>4, <1>10, <2>1, <3>1 DEF Sound, WellFormed
    <2>2. CASE n = 0
        <3>1. m > 0
            BY <1>1, <1>10, <1>11, <2>2, ConcatEmptySeq
        <3>2. 1 \in 1..m /\ n + 1 = 1
            BY <2>2, <3>1
        <3>3. c[1] = b[1]
            BY <1>5, <3>2
        <3>4. QED
            BY <1>10, <3>1, <3>3 DEF Sound, WellFormed
    <2>3. QED
        BY <2>1, <2>2
<1>12. ASSUME NEW i \in 1..(Len(c) - 1)
       PROVE  /\ Follows(c[i], c[i + 1])
              /\ c[i + 1].kind = "turn" /\ c[i].kind \notin {"reply", "fallback"}
                    => c[i + 1].n = TurnAt(c, i) + 1
    <2>1. i \in 1..(n + m - 1)
        BY <1>3
    <2>2. CASE i < n
        <3>1. i \in 1..(n - 1) /\ i \in 1..n /\ i + 1 \in 1..n
            BY <2>1, <2>2
        <3>2. c[i] = a[i] /\ c[i + 1] = a[i + 1] /\ TurnAt(c, i) = TurnAt(a, i)
            BY <1>4, <1>6, <3>1
        <3>3. /\ Follows(a[i], a[i + 1])
              /\ a[i + 1].kind = "turn" /\ a[i].kind \notin {"reply", "fallback"}
                    => a[i + 1].n = TurnAt(a, i) + 1
            BY <1>2, <3>1 DEF Sound, WellFormed
        <3>4. QED
            BY <3>2, <3>3
    <2>3. CASE i = n
        <3>1. n > 0 /\ m > 0 /\ n \in 1..n /\ 1 \in 1..m
            BY <2>1, <2>3
        <3>2. c[i] = EndOf(a) /\ EndOf(a).kind \in {"reply", "fallback"}
            BY <1>4, <1>10, <2>3, <3>1
        <3>3. c[i + 1] = Entry("turn", 1)
            BY <1>5, <1>10, <2>3, <3>1 DEF Sound, WellFormed
        <3>4. QED
            BY <3>2, <3>3 DEF Follows
    <2>4. CASE i > n
        <3>1. PICK k \in 1..(m - 1) : i = n + k
            <4>1. i - n \in 1..(m - 1) /\ i = n + (i - n)
                BY <2>1, <2>4
            <4>2. QED
                BY <4>1
        <3>2. k \in 1..m /\ k + 1 \in 1..m /\ n + (k + 1) = i + 1
            BY <3>1
        <3>3. c[i] = b[k] /\ c[i + 1] = b[k + 1] /\ TurnAt(c, i) = TurnAt(b, k)
            <4>1. c[n + (k + 1)] = b[k + 1]
                BY <1>5, <3>2
            <4>2. QED
                BY <1>5, <1>7, <3>1, <3>2, <4>1
        <3>4. /\ Follows(b[k], b[k + 1])
              /\ b[k + 1].kind = "turn" /\ b[k].kind \notin {"reply", "fallback"}
                    => b[k + 1].n = TurnAt(b, k) + 1
            BY <1>2, <3>1 DEF Sound, WellFormed
        <3>5. QED
            BY <3>3, <3>4
    <2>5. QED
        BY <2>1, <2>2, <2>3, <2>4
<1>13. WellFormed(c)
    BY <1>11, <1>12 DEF WellFormed
<1>14. QED
    BY <1>1, <1>9, <1>13 DEF Sound

\* The user messages of a turn follow its marker.
LEMMA UsersSound ==
    ASSUME NEW f \in Seq(Entries), NEW q \in Seq(Messages), Sound(f), f # << >>,
           EndOf(f).kind = "turn", Ordered(q)
    PROVE  LET g == f \o UserEntries(q)
           IN  Sound(g) /\ TurnAt(g, Len(g)) = EndOf(f).n
<1>1. PICK u \in Seq(Entries) : u = UserEntries(q)
    BY UserEntriesType
<1>2. PICK g : g = f \o u
    OBVIOUS
<1>3. PICK n \in Nat, m \in Nat : n = Len(f) /\ m = Len(q)
    BY LenProperties
<1>4. Len(u) = m /\ \A i \in 1..m : u[i] = Entry("user", q[i])
    BY <1>1, <1>3, UserEntriesType
<1>5. /\ Len(g) = n + m
      /\ \A i \in 1..(n + m) : g[i] = IF i <= n THEN f[i] ELSE u[i - n]
    <2>1. /\ Len(f \o u) = Len(f) + Len(u)
          /\ \A i \in 1..(Len(f) + Len(u)) :
                (f \o u)[i] = IF i <= Len(f) THEN f[i] ELSE u[i - Len(f)]
        BY ConcatProperties
    <2>2. QED
        BY <1>2, <1>3, <1>4, <2>1
<1>6. \A i \in 1..n : g[i] = f[i]
    BY <1>5
<1>7. \A k \in 1..m : g[n + k] = Entry("user", q[k])
    <2>1. SUFFICES ASSUME NEW k \in 1..m PROVE g[n + k] = Entry("user", q[k])
        OBVIOUS
    <2>2. n + k \in 1..(n + m) /\ ~(n + k <= n) /\ n + k - n = k
        OBVIOUS
    <2>3. QED
        BY <1>4, <1>5, <2>2
<1>8. n > 0 /\ n \in 1..n /\ g[n] = EndOf(f) /\ f[n] = EndOf(f)
    <2>1. n # 0
        BY <1>3, EmptySeq
    <2>2. n > 0 /\ n \in 1..n /\ f[n] = EndOf(f)
        BY <1>3, <2>1 DEF EndOf
    <2>3. QED
        BY <1>6, <2>2
<1>9. \A i \in 1..n : TurnAt(g, i) = TurnAt(f, i) /\ \E j \in 1..i : IsMark(g, i, j)
    <2>1. Marked(f) /\ Len(f) \in Nat /\ n \in 0..Len(f)
        BY <1>3 DEF Sound
    <2>2. QED
        BY <1>6, <2>1, TurnAtAgree
<1>10. \A i \in (n + 1)..(n + m) : \E k \in 1..m : i = n + k
    <2>1. SUFFICES ASSUME NEW i \in (n + 1)..(n + m) PROVE \E k \in 1..m : i = n + k
        OBVIOUS
    <2>2. i - n \in 1..m /\ i = n + (i - n)
        BY <2>1
    <2>3. QED
        BY <2>2
<1>11. ASSUME NEW i \in n..(n + m)
       PROVE  IsMark(g, i, n) /\ TurnAt(g, i) = EndOf(f).n
    <2>1. n \in 1..i /\ i \in Nat
        BY <1>8
    <2>2. ASSUME NEW k \in 1..i, g[k].kind = "turn" PROVE k <= n
        <3>1. SUFFICES ASSUME k > n PROVE FALSE
            OBVIOUS
        <3>2. k \in (n + 1)..(n + m)
            BY <3>1
        <3>3. PICK l \in 1..m : k = n + l
            BY <1>10, <3>2
        <3>4. g[k] = Entry("user", q[l])
            BY <1>7, <3>3
        <3>5. g[k].kind = "user"
            BY <3>4, EntryFields
        <3>6. QED
            BY <2>2, <3>5
    <2>3. IsMark(g, i, n)
        BY <1>8, <2>1, <2>2 DEF IsMark
    <2>4. QED
        BY <1>8, <2>1, <2>3, TurnAtMark
<1>12. Marked(g)
    <2>1. SUFFICES ASSUME NEW i \in 1..(n + m) PROVE \E j \in 1..i : IsMark(g, i, j)
        BY <1>5 DEF Marked
    <2>2. CASE i <= n
        BY <1>9, <2>2
    <2>3. CASE ~(i <= n)
        <3>1. i \in n..(n + m) /\ n \in 1..i
            BY <1>8, <2>3
        <3>2. QED
            BY <1>11, <3>1
    <2>4. QED
        BY <2>2, <2>3
<1>13. g[1] = Entry("turn", 1)
    <2>1. 1 \in 1..n
        BY <1>8
    <2>2. QED
        BY <1>6, <2>1 DEF Sound, WellFormed
<1>14. ASSUME NEW i \in 1..(Len(g) - 1)
       PROVE  /\ Follows(g[i], g[i + 1])
              /\ g[i + 1].kind = "turn" /\ g[i].kind \notin {"reply", "fallback"}
                    => g[i + 1].n = TurnAt(g, i) + 1
    <2>1. i \in 1..(n + m - 1)
        BY <1>5
    <2>2. CASE i < n
        <3>1. i \in 1..(n - 1) /\ i \in 1..n /\ i + 1 \in 1..n
            BY <2>1, <2>2
        <3>2. g[i] = f[i] /\ g[i + 1] = f[i + 1] /\ TurnAt(g, i) = TurnAt(f, i)
            BY <1>6, <1>9, <3>1
        <3>3. /\ Follows(f[i], f[i + 1])
              /\ f[i + 1].kind = "turn" /\ f[i].kind \notin {"reply", "fallback"}
                    => f[i + 1].n = TurnAt(f, i) + 1
            BY <1>3, <3>1 DEF Sound, WellFormed
        <3>4. QED
            BY <3>2, <3>3
    <2>3. CASE i = n
        <3>1. 1 \in 1..m
            BY <2>1, <2>3
        <3>2. g[i].kind = "turn" /\ g[i + 1].kind = "user"
            BY <1>7, <1>8, <2>3, <3>1, EntryFields
        <3>3. QED
            BY <3>2 DEF Follows
    <2>4. CASE i > n
        <3>1. PICK k \in 1..(m - 1) : i = n + k
            <4>1. i - n \in 1..(m - 1) /\ i = n + (i - n)
                BY <2>1, <2>4
            <4>2. QED
                BY <4>1
        <3>2. k \in 1..m /\ k + 1 \in 1..m /\ n + (k + 1) = i + 1
            BY <3>1
        <3>3. g[i] = Entry("user", q[k]) /\ g[i + 1] = Entry("user", q[k + 1])
            <4>1. g[n + (k + 1)] = Entry("user", q[k + 1])
                BY <1>7, <3>2
            <4>2. QED
                BY <1>7, <3>1, <3>2, <4>1
        <3>4. q[k] < q[k + 1]
            BY <1>3, <3>1 DEF Ordered
        <3>5. /\ g[i].kind = "user" /\ g[i].n = q[k]
              /\ g[i + 1].kind = "user" /\ g[i + 1].n = q[k + 1]
            BY <3>3, EntryFields
        <3>6. QED
            BY <3>4, <3>5 DEF Follows
    <2>5. QED
        BY <2>2, <2>3, <2>4, <2>1
<1>15. WellFormed(g)
    BY <1>13, <1>14 DEF WellFormed
<1>16. TurnAt(g, Len(g)) = EndOf(f).n
    <2>1. Len(g) \in n..(n + m)
        BY <1>5
    <2>2. QED
        BY <1>11, <2>1
<1>17. QED
    BY <1>1, <1>2, <1>12, <1>15, <1>16 DEF Sound

\* What is staged without the last answer.
LEMMA WithoutSound ==
    ASSUME NEW h \in Seq(Entries), Sound(h), Len(h) > 1, EndOf(h).kind # "turn"
    PROVE  LET g == SubSeq(h, 1, Len(h) - 1)
           IN  Sound(g) /\ TurnAt(g, Len(g)) = TurnAt(h, Len(h))
<1>1. PICK g : g = SubSeq(h, 1, Len(h) - 1)
    OBVIOUS
<1>2. PICK n \in Nat : n = Len(h) - 1 /\ Len(h) = n + 1 /\ n > 0
    <2>1. Len(h) \in Nat
        BY LenProperties
    <2>2. Len(h) - 1 \in Nat
        BY <2>1
    <2>3. QED
        BY <2>1, <2>2
<1>3. g # << >> /\ Len(g) = n /\ \A i \in 1..n : g[i] = h[i]
    BY <1>1, <1>2, EndOfWithout
<1>4. /\ TurnAt(g, n) = TurnAt(h, n)
      /\ \A i \in 1..n : TurnAt(g, i) = TurnAt(h, i) /\ \E j \in 1..i : IsMark(g, i, j)
    <2>1. Marked(h) /\ Len(h) \in Nat /\ n \in 0..Len(h)
        BY <1>2 DEF Sound
    <2>2. QED
        BY <1>3, <2>1, TurnAtAgree
<1>5. Marked(g)
    BY <1>3, <1>4 DEF Marked
<1>6. WellFormed(g)
    <2>1. 1 \in 1..n /\ 1 \in 1..Len(h)
        BY <1>2
    <2>2. h # << >>
        BY <1>2, EmptySeq
    <2>3. g[1] = Entry("turn", 1)
        BY <1>3, <2>1, <2>2 DEF Sound, WellFormed
    <2>4. ASSUME NEW i \in 1..(n - 1)
          PROVE  /\ Follows(g[i], g[i + 1])
                 /\ g[i + 1].kind = "turn" /\ g[i].kind \notin {"reply", "fallback"}
                       => g[i + 1].n = TurnAt(g, i) + 1
        <3>1. i \in 1..n /\ i + 1 \in 1..n /\ i \in 1..(Len(h) - 1)
            BY <1>2
        <3>2. g[i] = h[i] /\ g[i + 1] = h[i + 1] /\ TurnAt(g, i) = TurnAt(h, i)
            BY <1>3, <1>4, <3>1
        <3>3. /\ Follows(h[i], h[i + 1])
              /\ h[i + 1].kind = "turn" /\ h[i].kind \notin {"reply", "fallback"}
                    => h[i + 1].n = TurnAt(h, i) + 1
            BY <3>1 DEF Sound, WellFormed
        <3>4. QED
            BY <3>2, <3>3
    <2>5. QED
        BY <1>3, <2>3, <2>4 DEF WellFormed
<1>7. TurnAt(h, n + 1) = TurnAt(h, n)
    <2>1. n \in 1..Len(h) /\ h[n + 1] = EndOf(h)
        BY <1>2 DEF EndOf
    <2>2. PICK j \in 1..n : IsMark(h, n, j)
        BY <2>1 DEF Sound, Marked
    <2>3. j \in 1..(n + 1) /\ \A k \in 1..(n + 1) : k \in 1..n \/ k = n + 1
        OBVIOUS
    <2>4. IsMark(h, n + 1, j)
        BY <2>1, <2>2, <2>3 DEF IsMark
    <2>5. QED
        BY <2>2, <2>4, TurnAtMark
<1>8. QED
    BY <1>1, <1>2, <1>3, <1>4, <1>5, <1>6, <1>7 DEF Sound

\* Nothing, and one message, are in order.
LEMMA OrderedOne ==
    /\ Ordered(<< >>) /\ \A x : Ordered(<< x >>)
BY DEF Ordered

\* A newer message keeps the order.
LEMMA OrderedAppend ==
    ASSUME NEW q \in Seq(Messages), NEW x \in Messages, Ordered(q), \A i \in DOMAIN q : q[i] < x
    PROVE  Ordered(Append(q, x))
<1>1. PICK g : g = Append(q, x)
    OBVIOUS
<1>2. PICK n \in Nat : n = Len(q) /\ DOMAIN q = 1..n
    BY LenProperties
<1>3. Len(g) = n + 1 /\ g[n + 1] = x /\ \A i \in 1..n : g[i] = q[i]
    BY <1>1, <1>2, AppendProperties
<1>4. ASSUME NEW i \in 1..n PROVE g[i] < g[i + 1]
    <2>1. CASE i = n
        BY <1>2, <1>3, <2>1
    <2>2. CASE i # n
        <3>1. i \in 1..(n - 1) /\ i + 1 \in 1..n
            BY <2>2
        <3>2. QED
            BY <1>2, <1>3, <3>1 DEF Ordered
    <2>3. QED
        BY <2>1, <2>2
<1>5. QED
    BY <1>1, <1>3, <1>4 DEF Ordered

\* The empty history.
LEMMA EmptySound == Sound(<< >>) /\ TurnAt(<< >>, Len(<< >>)) = 0
BY TurnAtNone DEF Sound, WellFormed, Marked

\* What may follow what a run has staged last.
LEMMA FollowsRules ==
    ASSUME NEW a, NEW b
    PROVE  /\ Said(a) /\ b.kind \in {"turn", "call", "answer", "reply", "fallback"} => Follows(a, b)
           /\ Settled(a) /\ b.kind \in {"turn", "fallback"} => Follows(a, b)
           /\ a.kind = "answer" /\ b.kind = "fallback" => Follows(a, b)
           /\ a.kind \in {"call", "tool"} /\ a.n > 0 /\ b = Entry("tool", a.n - 1) => Follows(a, b)
<1>1. Said(a) /\ b.kind \in {"turn", "call", "answer", "reply", "fallback"} => Follows(a, b)
    BY DEF Said, Follows
<1>2. Settled(a) /\ b.kind \in {"turn", "fallback"} => Follows(a, b)
    BY DEF Settled, Said, Follows
<1>3. a.kind = "answer" /\ b.kind = "fallback" => Follows(a, b)
    BY DEF Follows
<1>4. a.kind \in {"call", "tool"} /\ a.n > 0 /\ b = Entry("tool", a.n - 1) => Follows(a, b)
    BY DEF Follows
<1>5. QED
    BY <1>1, <1>2, <1>3, <1>4

\* The shape of what a run holds, and of what a session holds.
RunShape(h, q, n) == Sound(h) /\ Ordered(q) /\ TurnAt(h, Len(h)) = n
SessionShape(h, q) ==
    /\ Sound(h) /\ Ordered(q)
    /\ h # << >> => EndOf(h).kind \in {"reply", "fallback"}

\* The invariant, run by run and session by session.
LEMMA ShapesAre ==
    ShapeInv <=> /\ \A s \in Sessions : SessionShape(context[s], queued[s])
                 /\ \A c \in Chats : RunShape(staged[c], pending[c], turn[c])
BY DEF ShapeInv, SessionShape, RunShape

\* A step of one run that leaves the sessions in shape.
LEMMA OneRunShapes ==
    ASSUME ShapeInv, TypeOK, NEW c \in Chats, NEW h, NEW q, NEW n, RunShape(h, q, n),
           staged' = [staged EXCEPT ![c] = h], pending' = [pending EXCEPT ![c] = q],
           turn' = [turn EXCEPT ![c] = n],
           \A s \in Sessions : SessionShape(context'[s], queued'[s])
    PROVE  ShapeInv'
<1>1. \A d \in Chats : RunShape(staged[d], pending[d], turn[d])
    BY ShapesAre
<1>2. \A d \in Chats : RunShape(staged'[d], pending'[d], turn'[d])
    BY <1>1 DEF TypeOK
<1>3. QED
    BY <1>2 DEF ShapeInv, RunShape, SessionShape

\* The endpoints: a message is queued behind the older ones.
LEMMA EndpointShapes ==
    ASSUME HistoryInv, NEW id \in Ids, CreateSession(id) \/ DeleteSession(id) \/ QueueMessage(id)
    PROVE  ShapeInv'
<1>1. TypeOK /\ ShapeInv /\ OnePlace
    BY DEF HistoryInv, PlaceInv, StagedRun, TypedRun
<1>2. CASE CreateSession(id) \/ DeleteSession(id)
    BY <1>1, <1>2 DEF CreateSession, DeleteSession, runVars, ShapeInv
<1>3. CASE QueueMessage(id)
    <2>1. PICK s \in Sessions : s = registry[id]
        BY <1>1, <1>3 DEF QueueMessage, TypeOK
    <2>2. /\ queued[s] \in Seq(Messages) /\ arrived + 1 \in Messages /\ arrived \in Nat
          /\ UNCHANGED << context, staged, pending, turn >>
        BY <1>1, <1>3, TurnAssumption DEF QueueMessage, TypeOK, Messages, runVars
    <2>3. ASSUME NEW i \in DOMAIN queued[s] PROVE queued[s][i] < arrived + 1
        <3>1. PICK m \in Messages : m = queued[s][i]
            BY <2>2
        <3>2. Has(queued[s], m) /\ "queued" \in Kinds /\ s \in Holders
            BY <3>1 DEF Has, Kinds, Holders
        <3>3. m <= arrived
            BY <1>1, <3>2 DEF At, OnePlace
        <3>4. QED
            BY <2>2, <3>1, <3>3 DEF Messages
    <2>4. Ordered(Append(queued[s], arrived + 1))
        BY <1>1, <2>2, <2>3, OrderedAppend DEF ShapeInv
    <2>5. \A r \in Sessions : queued'[r] = IF r = s THEN Append(queued[s], arrived + 1) ELSE queued[r]
        BY <1>1, <1>3, <2>1 DEF QueueMessage, TypeOK
    <2>6. QED
        BY <1>1, <2>2, <2>4, <2>5 DEF ShapeInv
<1>4. QED
    BY <1>2, <1>3

\* A run that begins holds its first message.
LEMMA ChatShapes ==
    ASSUME HistoryInv, NEW c \in Chats, NEW id \in Ids, Chat(c, id)
    PROVE  ShapeInv'
<1>1. TypeOK /\ ShapeInv
    BY DEF HistoryInv, PlaceInv, StagedRun, TypedRun
<1>2. RunShape(<< >>, << arrived + 1 >>, 0)
    BY EmptySound, OrderedOne DEF RunShape
<1>3. \A s \in Sessions : SessionShape(context'[s], queued'[s])
    BY <1>1, ShapesAre DEF Chat, sessionVars
<1>4. QED
    BY <1>1, <1>2, <1>3, OneRunShapes DEF Chat

\* A turn begins with its marker and the pending messages.
LEMMA BeginShapes ==
    ASSUME HistoryInv, NEW c \in Chats, BeginTurn(c)
    PROVE  ShapeInv'
<1>1. /\ TypeOK /\ ShapeInv /\ staged[c] \in Seq(Entries) /\ pending[c] \in Seq(Messages)
      /\ EndsAs(staged[c], "turn", calls[c]) /\ turn[c] + 1 \in 1..MaxTurns
    BY TurnAssumption
       DEF HistoryInv, PlaceInv, StagedRun, TypedRun, TypeOK, EndInv, BeginTurn, TurnsLeft
<1>2. PICK h \in Seq(Entries) : h = staged[c]
    BY <1>1
<1>3. PICK n \in 1..MaxTurns : n = turn[c] + 1 /\ turn[c] \in Nat
    BY <1>1, TurnAssumption DEF TypeOK
<1>4. PICK e \in Entries : e = Entry("turn", n)
    BY EntryTypes
<1>5. /\ Sound(h) /\ TurnAt(h, Len(h)) = turn[c] /\ Ordered(pending[c])
      /\ h # << >> => Settled(EndOf(h))
    BY <1>1, <1>2 DEF ShapeInv, EndsAs
<1>6. e.kind = "turn" /\ e.n = n
    BY <1>4, EntryFields
<1>7. PICK f : f = Append(h, e)
    OBVIOUS
<1>8. f \in Seq(Entries) /\ f # << >> /\ EndOf(f) = e /\ f = h \o << e >>
    BY <1>7, EndOfAppend, AppendIsConcat
<1>9. Sound(f)
    <2>1. h = << >> => e = Entry("turn", 1)
        <3>1. SUFFICES ASSUME h = << >> PROVE n = 1
            BY <1>4
        <3>2. turn[c] = 0
            BY <1>5, <3>1, EmptySound
        <3>3. QED
            BY <1>3, <3>2
    <2>2. h # << >> => Follows(EndOf(h), e)
        BY <1>5, <1>6, FollowsRules
    <2>3. e.n = TurnAt(h, Len(h)) + 1
        BY <1>3, <1>5, <1>6
    <2>4. QED
        BY <1>5, <1>7, <2>1, <2>2, <2>3, GrowSound
<1>10. PICK g : g = f \o UserEntries(pending[c])
    OBVIOUS
<1>11. Sound(g) /\ TurnAt(g, Len(g)) = n
    BY <1>1, <1>5, <1>6, <1>8, <1>9, <1>10, UsersSound
<1>12. RunShape(g, << >>, turn[c] + 1)
    BY <1>3, <1>11, OrderedOne DEF RunShape
<1>13. /\ staged' = [staged EXCEPT ![c] = g] /\ pending' = [pending EXCEPT ![c] = << >>]
       /\ turn' = [turn EXCEPT ![c] = turn[c] + 1]
    BY <1>2, <1>3, <1>4, <1>8, <1>10 DEF BeginTurn
<1>14. \A s \in Sessions : SessionShape(context'[s], queued'[s])
    BY <1>1, ShapesAre DEF BeginTurn, sessionVars
<1>15. QED
    BY <1>1, <1>12, <1>13, <1>14, OneRunShapes

\* An answer or a result is staged.
LEMMA AnswerShapes ==
    ASSUME HistoryInv, NEW c \in Chats,
           AnswersStop(c) \/ AnswersCalls(c) \/ AnswersOther(c) \/ ModelFails(c) \/ RunTool(c)
    PROVE  ShapeInv'
<1>1. /\ TypeOK /\ ShapeInv /\ staged[c] \in Seq(Entries)
      /\ EndsAs(staged[c], pc[c], calls[c])
    BY DEF HistoryInv, PlaceInv, StagedRun, TypedRun, TypeOK, EndInv
<1>2. Sound(staged[c]) /\ TurnAt(staged[c], Len(staged[c])) = turn[c] /\ Ordered(pending[c])
    BY <1>1 DEF ShapeInv
<1>3. ASSUME NEW e \in Entries, e.kind \in {"call", "answer", "tool"}, staged[c] # << >>,
             Follows(EndOf(staged[c]), e), staged' = [staged EXCEPT ![c] = Append(staged[c], e)],
             UNCHANGED << context, queued, pending, turn >>
      PROVE  ShapeInv'
    <2>1. PICK g : g = Append(staged[c], e)
        OBVIOUS
    <2>2. Sound(g) /\ TurnAt(g, Len(g)) = turn[c]
        BY <1>1, <1>2, <1>3, <2>1, GrowSound
    <2>3. RunShape(g, pending[c], turn[c])
        BY <1>2, <2>2 DEF RunShape
    <2>4. pending' = [pending EXCEPT ![c] = pending[c]] /\ turn' = [turn EXCEPT ![c] = turn[c]]
        BY <1>1, <1>3 DEF TypeOK
    <2>5. \A s \in Sessions : SessionShape(context'[s], queued'[s])
        BY <1>1, <1>3, ShapesAre
    <2>6. staged' = [staged EXCEPT ![c] = g]
        BY <1>3, <2>1
    <2>7. QED
        BY <1>1, <2>3, <2>4, <2>5, <2>6, OneRunShapes
<1>4. CASE ModelFails(c)
    BY <1>1, <1>4 DEF ModelFails, sessionVars, ShapeInv
<1>5. CASE AnswersStop(c) \/ AnswersOther(c)
    <2>1. PICK n \in 0..MaxCalls : \E next : Answers(c, Entry("answer", n), next)
        BY <1>5 DEF AnswersStop, AnswersOther
    <2>2. /\ Entry("answer", n) \in Entries /\ Entry("answer", n).kind = "answer"
          /\ staged[c] # << >> /\ Said(EndOf(staged[c]))
        BY <1>1, <2>1, EntryTypes, EntryFields DEF Answers, EndsAs
    <2>3. Follows(EndOf(staged[c]), Entry("answer", n))
        BY <2>2, FollowsRules
    <2>4. QED
        BY <1>3, <2>1, <2>2, <2>3 DEF Answers, sessionVars
<1>6. CASE AnswersCalls(c)
    <2>1. PICK n \in 0..MaxCalls : Answers(c, Entry("call", n), "tools")
        BY <1>6 DEF AnswersCalls
    <2>2. /\ Entry("call", n) \in Entries /\ Entry("call", n).kind = "call"
          /\ staged[c] # << >> /\ Said(EndOf(staged[c]))
        BY <1>1, <2>1, EntryTypes, EntryFields DEF Answers, EndsAs
    <2>3. Follows(EndOf(staged[c]), Entry("call", n))
        BY <2>2, FollowsRules
    <2>4. QED
        BY <1>3, <2>1, <2>2, <2>3 DEF Answers, sessionVars
<1>7. CASE RunTool(c)
    <2>1. calls[c] - 1 \in 0..MaxCalls /\ calls[c] > 0
        BY <1>1, <1>7, TurnAssumption DEF RunTool, TypeOK
    <2>2. /\ Entry("tool", calls[c] - 1) \in Entries /\ Entry("tool", calls[c] - 1).kind = "tool"
          /\ staged[c] # << >> /\ EndOf(staged[c]).kind \in {"call", "tool"}
          /\ EndOf(staged[c]).n = calls[c]
        BY <1>1, <1>7, <2>1, EntryTypes, EntryFields DEF RunTool, EndsAs
    <2>3. Follows(EndOf(staged[c]), Entry("tool", calls[c] - 1))
        BY <2>1, <2>2, FollowsRules
    <2>4. QED
        BY <1>3, <1>7, <2>2, <2>3 DEF RunTool, sessionVars
<1>8. QED
    BY <1>4, <1>5, <1>6, <1>7

\* The answer is replaced or dropped; the queue is drained.
LEMMA LoopShapes ==
    ASSUME HistoryInv, NEW c \in Chats, ContinueWithQueued(c) \/ Conclude(c) \/ DrainAfterTools(c)
    PROVE  ShapeInv'
<1>1. /\ TypeOK /\ ShapeInv /\ TypedRun /\ staged[c] \in Seq(Entries)
      /\ EndsAs(staged[c], pc[c], calls[c])
    BY DEF HistoryInv, PlaceInv, StagedRun, TypedRun, TypeOK, EndInv
<1>2. Sound(staged[c]) /\ TurnAt(staged[c], Len(staged[c])) = turn[c] /\ Ordered(pending[c])
    BY <1>1 DEF ShapeInv
<1>3. PICK s \in Sessions : s = session[c]
    BY <1>1, SessionOfRun DEF ContinueWithQueued, Conclude, DrainAfterTools
<1>4. turn[c] \in Nat /\ turn = [turn EXCEPT ![c] = turn[c]]
    BY <1>1, TurnAssumption DEF TypeOK
<1>5. ASSUME Drain(c), UNCHANGED << context, turn >>, NEW h, staged' = [staged EXCEPT ![c] = h],
             Sound(h), TurnAt(h, Len(h)) = turn[c]
      PROVE  ShapeInv'
    <2>1. Ordered(queued[s])
        BY <1>1 DEF ShapeInv
    <2>2. RunShape(h, queued[s], turn[c])
        BY <1>5, <2>1 DEF RunShape
    <2>3. pending' = [pending EXCEPT ![c] = queued[s]] /\ queued' = [queued EXCEPT ![s] = << >>]
        BY <1>3, <1>5 DEF Drain
    <2>4. \A r \in Sessions : SessionShape(context'[r], queued'[r])
        BY <1>1, <1>5, <2>3, OrderedOne DEF TypeOK, SessionShape, ShapeInv
    <2>5. QED
        BY <1>1, <1>4, <1>5, <2>2, <2>3, <2>4, OneRunShapes
<1>6. ASSUME pc[c] = "stop"
      PROVE  /\ WithoutAnswer(c) \in Seq(Entries) /\ WithoutAnswer(c) # << >>
             /\ Said(EndOf(WithoutAnswer(c)))
             /\ Sound(WithoutAnswer(c))
             /\ TurnAt(WithoutAnswer(c), Len(WithoutAnswer(c))) = turn[c]
    <2>1. Len(staged[c]) > 1 /\ EndOf(staged[c]).kind # "turn" /\ Said(staged[c][Len(staged[c]) - 1])
        BY <1>1, <1>6, EntryFields DEF EndsAs, Of
    <2>2. QED
        BY <1>1, <1>2, <2>1, EndOfWithout, WithoutSound DEF WithoutAnswer
<1>7. CASE ContinueWithQueued(c)
    BY <1>5, <1>6, <1>7 DEF ContinueWithQueued
<1>8. CASE Conclude(c)
    <2>1. PICK h \in Seq(Entries) : h = WithoutAnswer(c)
        BY <1>6, <1>8 DEF Conclude
    <2>2. PICK e \in Entries : e = Entry("reply", Answer(c).n)
        BY <1>8, AnswerIs, EntryTypes DEF HistoryInv, PlaceInv, Conclude
    <2>3. /\ h # << >> /\ Said(EndOf(h)) /\ Sound(h) /\ TurnAt(h, Len(h)) = turn[c]
          /\ e.kind = "reply"
        BY <1>6, <1>8, <2>1, <2>2, EntryFields DEF Conclude
    <2>4. PICK g : g = Append(h, e)
        OBVIOUS
    <2>5. Follows(EndOf(h), e)
        BY <2>3, FollowsRules
    <2>6. Sound(g) /\ TurnAt(g, Len(g)) = turn[c]
        BY <2>3, <2>4, <2>5, GrowSound
    <2>7. RunShape(g, pending[c], turn[c])
        BY <1>2, <2>6 DEF RunShape
    <2>8. /\ staged' = [staged EXCEPT ![c] = g] /\ pending' = [pending EXCEPT ![c] = pending[c]]
          /\ turn' = [turn EXCEPT ![c] = turn[c]] /\ UNCHANGED << context, queued >>
        BY <1>1, <1>8, <2>1, <2>2, <2>4 DEF Conclude, sessionVars, TypeOK
    <2>9. \A r \in Sessions : SessionShape(context'[r], queued'[r])
        BY <1>1, <2>8, ShapesAre
    <2>10. QED
        BY <1>1, <2>7, <2>8, <2>9, OneRunShapes
<1>9. CASE DrainAfterTools(c)
    <2>1. staged' = [staged EXCEPT ![c] = staged[c]]
        BY <1>1, <1>9 DEF DrainAfterTools, TypeOK
    <2>2. QED
        BY <1>2, <1>5, <1>9, <2>1 DEF DrainAfterTools
<1>10. QED
    BY <1>7, <1>8, <1>9

\* A whole run joins the context.
LEMMA EndShapes ==
    ASSUME HistoryInv, NEW c \in Chats, Commit(c) \/ Fallback(c)
    PROVE  ShapeInv'
<1>1. /\ TypeOK /\ ShapeInv /\ TypedRun /\ staged[c] \in Seq(Entries)
      /\ EndsAs(staged[c], pc[c], calls[c])
    BY DEF HistoryInv, PlaceInv, StagedRun, TypedRun, TypeOK, EndInv
<1>2. Sound(staged[c]) /\ TurnAt(staged[c], Len(staged[c])) = turn[c]
    BY <1>1 DEF ShapeInv
<1>3. PICK s \in Sessions : s = session[c]
    BY <1>1, SessionOfRun DEF Commit, Fallback
<1>4. PICK h \in Seq(Entries) :
          /\ CommitStaged(c, h) /\ Sound(h) /\ h # << >>
          /\ EndOf(h).kind \in {"reply", "fallback"}
    <2>1. CASE Commit(c)
        <3>1. staged[c] # << >> /\ EndOf(staged[c]).kind = "reply"
            BY <1>1, <2>1, EntryFields DEF Commit, EndsAs, Of
        <3>2. QED
            BY <1>1, <1>2, <2>1, <3>1 DEF Commit
    <2>2. CASE Fallback(c)
        <3>1. PICK e \in Entries : e = Entry("fallback", 0) /\ e.kind = "fallback"
            BY EntryTypes, EntryFields
        <3>2. PICK h : h = Append(staged[c], e)
            OBVIOUS
        <3>3. h \in Seq(Entries) /\ h # << >> /\ EndOf(h) = e
            BY <1>1, <3>2, EndOfAppend
        <3>4. staged[c] # << >>
            <4>1. CASE pc[c] = "fail"
                BY <1>1, <4>1 DEF EndsAs
            <4>2. CASE ~TurnsLeft(c)
                <5>1. turn[c] # 0
                    BY <1>1, <4>2, TurnAssumption DEF TurnsLeft, TypeOK
                <5>2. QED
                    BY <1>2, <5>1, EmptySound
            <4>3. QED
                BY <2>2, <4>1, <4>2 DEF Fallback
        <3>5. EndOf(staged[c]).kind = "answer" \/ Settled(EndOf(staged[c]))
            BY <1>1, <2>2, <3>4 DEF Fallback, EndsAs, Settled, Said
        <3>6. Follows(EndOf(staged[c]), e)
            BY <3>1, <3>5, FollowsRules
        <3>7. Sound(h)
            BY <1>1, <1>2, <3>1, <3>2, <3>4, <3>6, GrowSound
        <3>8. QED
            BY <2>2, <3>1, <3>2, <3>3, <3>7 DEF Fallback
    <2>3. QED
        BY <2>1, <2>2
<1>5. PICK g : g = context[s] \o h
    OBVIOUS
<1>6. /\ context[s] \in Seq(Entries) /\ Sound(context[s])
      /\ context[s] # << >> => EndOf(context[s]).kind \in {"reply", "fallback"}
    BY <1>1 DEF TypeOK, ShapeInv
<1>7. Sound(g)
    BY <1>4, <1>5, <1>6, JoinSound
<1>8. EndOf(g) = EndOf(h)
    <2>1. PICK n \in Nat, m \in Nat : n = Len(context[s]) /\ m = Len(h)
        BY <1>6, LenProperties
    <2>2. m > 0
        BY <1>4, <2>1, EmptySeq
    <2>3. /\ Len(g) = n + m
          /\ \A i \in 1..(n + m) : g[i] = IF i <= n THEN context[s][i] ELSE h[i - n]
        <3>1. /\ Len(context[s] \o h) = Len(context[s]) + Len(h)
              /\ \A i \in 1..(Len(context[s]) + Len(h)) :
                    (context[s] \o h)[i] =
                        IF i <= Len(context[s]) THEN context[s][i] ELSE h[i - Len(context[s])]
            BY <1>6, ConcatProperties
        <3>2. QED
            BY <1>5, <2>1, <3>1
    <2>4. n + m \in 1..(n + m) /\ ~(n + m <= n) /\ n + m - n = m
        BY <2>2
    <2>5. g[n + m] = h[m]
        BY <2>3, <2>4
    <2>6. QED
        BY <2>1, <2>3, <2>5 DEF EndOf
<1>9. \A r \in Sessions : SessionShape(context'[r], queued'[r])
    <2>1. context' = [context EXCEPT ![s] = g] /\ queued' = queued
        BY <1>3, <1>4, <1>5 DEF CommitStaged
    <2>2. \A r \in Sessions : SessionShape(context[r], queued[r])
        BY <1>1, ShapesAre
    <2>3. SessionShape(g, queued[s])
        BY <1>4, <1>7, <1>8, <2>2 DEF SessionShape
    <2>4. QED
        BY <1>1, <2>1, <2>2, <2>3 DEF TypeOK
<1>10. RunShape(<< >>, << >>, 0)
    BY EmptySound, OrderedOne DEF RunShape
<1>11. QED
    BY <1>1, <1>4, <1>9, <1>10, OneRunShapes DEF CommitStaged

\* Every step keeps the shapes.
LEMMA NextShapes == HistoryInv /\ [Next]_vars => HistoryInv'
<1> SUFFICES ASSUME HistoryInv, [Next]_vars PROVE ShapeInv'
    BY NextPlaces DEF HistoryInv
<1>1. ASSUME NEW c \in Chats, RunStep(c) PROVE ShapeInv'
    BY <1>1, BeginShapes, AnswerShapes, LoopShapes, EndShapes DEF RunStep, OwnStep
<1>2. CASE UNCHANGED vars
    BY <1>2 DEF vars, runVars, sessionVars, HistoryInv, ShapeInv
<1>3. QED
    BY <1>1, <1>2, EndpointShapes, ChatShapes DEF Next

\* Contexts are whole runs, and what is staged the beginning of one.
THEOREM HistoriesKeepShape == Spec => []HistoryInv
<1>1. Init => ShapeInv
    BY EmptySound, OrderedOne DEF Init, ShapeInv
<1>2. QED
    BY <1>1, InitPlaces, NextShapes, PTL DEF Spec, HistoryInv

\* What the model is given, and what a run leaves behind, is a sequence of whole runs.
THEOREM HistoriesAreWholeRuns == Spec => []HistoryWellFormed
<1>1. ASSUME HistoryInv, NEW c \in Chats, pc[c] = "llm"
      PROVE  WellFormed(context[session[c]] \o staged[c])
    <2>1. TypedRun /\ TypeOK /\ ShapeInv
        BY <1>1 DEF HistoryInv, PlaceInv, StagedRun, TypedRun
    <2>2. PICK s \in Sessions : s = session[c]
        BY <1>1, <2>1, SessionOfRun
    <2>3. /\ context[s] \in Seq(Entries) /\ staged[c] \in Seq(Entries)
          /\ Sound(context[s]) /\ Sound(staged[c])
          /\ context[s] # << >> => EndOf(context[s]).kind \in {"reply", "fallback"}
        BY <2>1 DEF TypeOK, ShapeInv
    <2>4. Sound(context[s] \o staged[c])
        BY <2>3, JoinSound
    <2>5. QED
        BY <2>2, <2>4 DEF Sound
<1>2. ASSUME HistoryInv, NEW s \in Sessions
      PROVE  /\ WellFormed(context[s])
             /\ context[s] # << >> => context[s][Len(context[s])].kind \in {"reply", "fallback"}
    BY <1>2 DEF HistoryInv, ShapeInv, Sound, EndOf
<1>3. HistoryInv => HistoryWellFormed
    BY <1>1, <1>2 DEF HistoryWellFormed
<1>4. QED
    BY <1>3, HistoriesKeepShape, PTL

=============================================================================

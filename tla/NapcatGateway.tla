--------------------------- MODULE NapcatGateway ---------------------------
(***************************************************************************)
(* The reverse WebSocket of hub-service: NapcatWsGateway (napcat_ws.py),   *)
(* the connection reference (connection_state.py) and the resolution of    *)
(* file ids (napcat_file_resolver.py).                                     *)
(*                                                                         *)
(* One receive loop per connection reads messages one by one and awaits    *)
(* the whole handling of an event before it reads the next message.  It    *)
(* is also the only reader of the answers to send_action, so an action     *)
(* sent while an event is handled waits for its timeout unless another     *)
(* connection or a later read delivers the answer.  _pending_lock is never *)
(* held across an await that suspends: each critical section is part of    *)
(* an action.                                                              *)
(*                                                                         *)
(* Faulty... operators are wrong variants of the definition below them,    *)
(* used by no action.                                                      *)
(***************************************************************************)
EXTENDS Integers, Sequences, FiniteSets

CONSTANTS
    Conns,          \* WebSocket connections, in no particular order
    MaxEvents,      \* bound: events NapCat sends
    MaxActions,     \* bound: calls of send_action
    PromptLoop,     \* TRUE: a timeout is long enough for all that is ready to run first
    None

ASSUME BoundsAssumption == MaxEvents \in Nat /\ MaxActions \in Nat
ASSUME PromptAssumption == PromptLoop \in BOOLEAN
ASSUME NoneAssumption == None \notin Conns

Actions == 1..MaxActions     \* calls of send_action, in order: their echo

VARIABLES
    current,    \* NapcatConnectionState._websocket
    latest,     \* the connection that came last (history)
    loopPc,     \* where the receive loop of a connection is
    tries,      \* actions resolve_file_url has tried for the event it handles
    inbox,      \* messages of a connection not yet read
    broken,     \* connections NapCat has closed
    events,     \* events sent so far
    actions,    \* calls of send_action so far
    future,     \* _pending_actions: the future of an echo, "none" without one
    via,        \* the connection a request was sent on
    caller,     \* the receive loop that awaits the action, None for another task
    awaited     \* the actions still inside send_action

loopVars == << loopPc, tries >>
wireVars == << inbox, broken, events >>
actionVars == << actions, future, via, caller, awaited >>
vars == << current, latest, loopVars, wireVars, actionVars >>

Plain == [kind |-> "plain", echo |-> 0]     \* an event, converted without actions
File == [kind |-> "file", echo |-> 0]       \* an event with a file that has no url,
                                            \* converted by the loop (queue-message)
Answer(a) == [kind |-> "answer", echo |-> a]
Message == { Plain, File } \cup { Answer(a) : a \in Actions }

Init ==
    /\ current = None /\ latest = None
    /\ loopPc = [c \in Conns |-> "new"]
    /\ tries = [c \in Conns |-> 0]
    /\ inbox = [c \in Conns |-> << >>]
    /\ broken = {}
    /\ events = 0 /\ actions = 0
    /\ future = [a \in Actions |-> "none"]
    /\ via = [a \in Actions |-> None]
    /\ caller = [a \in Actions |-> None]
    /\ awaited = {}

-----------------------------------------------------------------------------
(* handle_connection *)

\* A new connection is the reference before it is accepted; accept does not raise here.
Connect(c) ==
    /\ loopPc[c] = "new"
    /\ current' = c /\ latest' = c
    /\ loopPc' = [loopPc EXCEPT ![c] = "receive"]
    /\ UNCHANGED << tries, wireVars, actionVars >>

FaultyCleared(c) == None     \* whoever leaves clears the reference

\* NapcatConnectionState.clear
Cleared(c) == IF current = c THEN None ELSE current

\* The handler ends: the disconnect is read after every message before it, or the
\* handling of an event raised.
HandlerEnds(c) ==
    /\ \/ loopPc[c] = "receive" /\ c \in broken /\ inbox[c] = << >>
       \/ loopPc[c] = "handle"
    /\ current' = Cleared(c)
    /\ loopPc' = [loopPc EXCEPT ![c] = "gone"]
    /\ broken' = broken \cup {c}
    /\ inbox' = [inbox EXCEPT ![c] = << >>]
    /\ UNCHANGED << latest, tries, events, actionVars >>

NextMessage(c) ==
    /\ loopPc[c] = "receive" /\ inbox[c] # << >>
    /\ inbox' = [inbox EXCEPT ![c] = Tail(@)]

ReceiveEvent(c) ==
    /\ NextMessage(c)
    /\ Head(inbox[c]).kind # "answer"
    /\ loopPc' = [loopPc EXCEPT
                    ![c] = IF Head(inbox[c]).kind = "file" THEN "resolve" ELSE "handle"]
    /\ tries' = [tries EXCEPT ![c] = 0]
    /\ UNCHANGED << current, latest, broken, events, actionVars >>

FaultyResolved(a) == "done"     \* an unknown echo gets a future

\* _resolve_action: an answer nobody waits for any more is ignored.
Resolved(a) == IF future[a] = "pending" THEN "done" ELSE future[a]

ReceiveAnswer(c) ==
    /\ NextMessage(c)
    /\ Head(inbox[c]).kind = "answer"
    /\ future' = [future EXCEPT ![Head(inbox[c]).echo] = Resolved(Head(inbox[c]).echo)]
    /\ UNCHANGED << current, latest, loopVars, broken, events, actions, via, caller, awaited >>

\* on_event returns: submit_event is done with the registry lock and its HTTP calls.
EventHandled(c) ==
    /\ loopPc[c] = "handle"
    /\ loopPc' = [loopPc EXCEPT ![c] = "receive"]
    /\ UNCHANGED << current, latest, tries, wireVars, actionVars >>

-----------------------------------------------------------------------------
(* send_action *)

FaultyNewEcho == actions     \* an echo used before

\* A uuid: different from every echo before.
NewEcho == actions + 1

\* Without a connection it raises; else its future is registered and the request sent.
\* Sending on a connection NapCat has closed may raise or be lost unnoticed.
SendAction(by) ==
    LET a == NewEcho IN
    /\ actions < MaxActions
    /\ \E sent \in IF current = None THEN {FALSE}
                   ELSE IF current \in broken THEN BOOLEAN ELSE {TRUE} :
          /\ actions' = a
          /\ caller' = [caller EXCEPT ![a] = by]
          /\ via' = [via EXCEPT ![a] = IF sent THEN current ELSE None]
          /\ future' = [future EXCEPT ![a] = IF sent THEN "pending" ELSE "none"]
          /\ awaited' = IF sent THEN awaited \cup {a} ELSE awaited

\* The receive loop c does not await an action.
Free(c) == \A a \in awaited : caller[a] # c

\* A reply of a run, or a request to the HTTP API.
CallAction ==
    /\ SendAction(None)
    /\ UNCHANGED << current, latest, loopVars, wireVars >>

\* resolve_file_url: get_private_file_url, then get_file; each is awaited.
TryFileAction(c) ==
    /\ loopPc[c] = "resolve" /\ tries[c] < 2
    /\ Free(c)
    /\ SendAction(c)
    /\ tries' = [tries EXCEPT ![c] = @ + 1]
    /\ UNCHANGED << current, latest, loopPc, wireVars >>

\* An action has brought a url, or none has and the file becomes <unsupported>.
FileResolved(c) ==
    /\ loopPc[c] = "resolve"
    /\ tries[c] > 0 \/ actions = MaxActions
    /\ Free(c)
    /\ loopPc' = [loopPc EXCEPT ![c] = "handle"]
    /\ tries' = [tries EXCEPT ![c] = 0]
    /\ UNCHANGED << current, latest, wireVars, actionVars >>

FaultyForgotten(a) == future    \* the echo is not popped

\* The finally block pops the echo.
Forgotten(a) == [future EXCEPT ![a] = "none"]

\* send_action returns or raises.
SendActionEnds(a) ==
    /\ awaited' = awaited \ {a}
    /\ caller' = [caller EXCEPT ![a] = None]
    /\ future' = Forgotten(a)
    /\ UNCHANGED << current, latest, loopVars, wireVars, actions, via >>

ActionAnswered(a) == a \in awaited /\ future[a] = "done" /\ SendActionEnds(a)

AnswerIsRead(a) ==
    \/ future[a] = "done"
    \/ \E c \in Conns : loopPc[c] = "receive" /\ \E i \in DOMAIN inbox[c] : inbox[c][i] = Answer(a)

FaultyTimesOut(a) ==     \* gives up only when the connection is gone
    a \in awaited /\ current = None /\ SendActionEnds(a)

\* wait_for cancels the future; a result set in the same instant is lost.
ActionTimesOut(a) ==
    /\ a \in awaited
    /\ PromptLoop => ~AnswerIsRead(a)
    /\ SendActionEnds(a)

-----------------------------------------------------------------------------
(* NapCat *)

NapcatSendsEvent(c) ==
    \E event \in { Plain, File } :
        /\ loopPc[c] \notin {"new", "gone"} /\ c \notin broken
        /\ events < MaxEvents
        /\ events' = events + 1
        /\ inbox' = [inbox EXCEPT ![c] = Append(@, event)]
        /\ UNCHANGED << current, latest, loopVars, broken, actionVars >>

\* The answers come in any order, late ones too, on the connection of the request.
NapcatAnswers(a) ==
    LET c == via[a] IN
    /\ c # None /\ c \notin broken
    /\ inbox' = [inbox EXCEPT ![c] = Append(@, Answer(a))]
    /\ via' = [via EXCEPT ![a] = None]
    /\ UNCHANGED << current, latest, loopVars, broken, events, actions, future, caller, awaited >>

NapcatCloses(c) ==
    /\ loopPc[c] \notin {"new", "gone"} /\ c \notin broken
    /\ broken' = broken \cup {c}
    /\ UNCHANGED << current, latest, loopVars, inbox, events, actionVars >>

LoopStep(c) ==
    \/ HandlerEnds(c) \/ ReceiveEvent(c) \/ ReceiveAnswer(c) \/ EventHandled(c)
    \/ TryFileAction(c) \/ FileResolved(c)

ActionEnds(a) == ActionAnswered(a) \/ ActionTimesOut(a)

Next ==
    \/ \E c \in Conns : Connect(c) \/ LoopStep(c) \/ NapcatSendsEvent(c) \/ NapcatCloses(c)
    \/ CallAction
    \/ \E a \in Actions : ActionEnds(a) \/ NapcatAnswers(a)

Spec == Init /\ [][Next]_vars

\* The event loop runs what is ready, and every timeout fires.
FairSpec ==
    /\ Spec
    /\ \A c \in Conns : WF_vars(LoopStep(c))
    /\ \A a \in Actions : WF_vars(ActionEnds(a))

-----------------------------------------------------------------------------
(* Properties *)

\* Every variable keeps its type.
TypeOK ==
    /\ current \in Conns \cup {None} /\ latest \in Conns \cup {None}
    /\ loopPc \in [Conns -> {"new", "receive", "handle", "resolve", "gone"}]
    /\ tries \in [Conns -> 0..2]
    /\ inbox \in [Conns -> Seq(Message)]
    /\ broken \subseteq Conns
    /\ events \in 0..MaxEvents /\ actions \in 0..MaxActions
    /\ future \in [Actions -> {"none", "pending", "done"}]
    /\ via \in [Actions -> Conns \cup {None}]
    /\ caller \in [Actions -> Conns \cup {None}]
    /\ awaited \subseteq 1..actions

\* While NapCat reconnects, two handlers overlap: the old one that ends late never takes
\* the reference away from the new one, and no ended handler keeps it.
CurrentIsLatest ==
    current = IF latest # None /\ loopPc[latest] # "gone" THEN latest ELSE None

\* _pending_actions holds exactly the actions somebody awaits: a late answer, a timeout,
\* a closed connection or a failed send leaves none behind.
NoForgottenAction == \A a \in Actions : future[a] # "none" <=> a \in awaited

\* Every action ends, also one whose answer its own caller would have to read, and no
\* receive loop is held up for ever by the actions of the event it handles.
LoopsKeepReading ==
    /\ \A a \in Actions : a \in awaited ~> a \notin awaited
    /\ \A c \in Conns : loopPc[c] = "resolve" ~> loopPc[c] # "resolve"

\* A file without a url gets the url NapCat answers (docs/hub-service.md:79, 100): its
\* action does not time out while the answer waits to be read.  The code does not ensure
\* it: the receive loop that converts the message is the one that would have to read it.
AnswerBeatsTimeout ==
    [][\A a \in Actions : caller[a] # None /\ future[a] = "pending" /\ a \notin awaited' =>
         \A c \in Conns : \A i \in DOMAIN inbox[c] : inbox[c][i] # Answer(a)]_vars

=============================================================================

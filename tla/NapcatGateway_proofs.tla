------------------------ MODULE NapcatGateway_proofs ------------------------
(***************************************************************************)
(* Proofs about NapcatGateway, for every set of connections and every      *)
(* number of events and actions.                                           *)
(***************************************************************************)
EXTENDS NapcatGateway, SequenceTheorems, TLAPS

IInv == TypeOK /\ CurrentIsLatest /\ NoForgottenAction

\* Reading a message leaves the rest of the inbox.
LEMMA InboxAfterRead ==
    ASSUME TypeOK, NEW c \in Conns, NextMessage(c)
    PROVE  /\ inbox' \in [Conns -> Seq(Message)]
           /\ Head(inbox[c]) \in Message
<1>1. inbox[c] \in Seq(Message) /\ inbox[c] # << >>
  BY DEF NextMessage, TypeOK
<1>2. Head(inbox[c]) \in Message /\ Tail(inbox[c]) \in Seq(Message)
  BY <1>1, HeadTailProperties
<1> QED BY <1>2 DEF NextMessage, TypeOK

\* A message that arrives is appended.
LEMMA InboxAfterArrival ==
    ASSUME TypeOK, NEW c \in Conns, NEW m \in Message
    PROVE  [inbox EXCEPT ![c] = Append(@, m)] \in [Conns -> Seq(Message)]
<1>1. inbox[c] \in Seq(Message)
  BY DEF TypeOK
<1>2. Append(inbox[c], m) \in Seq(Message)
  BY <1>1, AppendProperties
<1> QED BY <1>2 DEF TypeOK

\* It holds before NapCat connects.
LEMMA InitEstablishesIInv == Init => IInv
<1> SUFFICES ASSUME Init PROVE IInv
  OBVIOUS
<1>1. << >> \in Seq(Message)
  BY EmptySeq
<1>2. TypeOK
  BY <1>1, BoundsAssumption DEF Init, TypeOK
<1>3. CurrentIsLatest /\ NoForgottenAction
  BY DEF Init, CurrentIsLatest, NoForgottenAction
<1> QED BY <1>2, <1>3 DEF IInv

\* A new connection becomes the reference.
LEMMA ConnectKeepsIInv ==
    ASSUME IInv, NEW c \in Conns, Connect(c)
    PROVE  IInv'
<1> USE DEF IInv, Connect, wireVars, actionVars
<1>1. TypeOK'
  BY DEF TypeOK
<1>2. CurrentIsLatest'
  BY NoneAssumption DEF CurrentIsLatest, TypeOK
<1>3. NoForgottenAction'
  BY DEF NoForgottenAction
<1> QED BY <1>1, <1>2, <1>3

\* The end of a handler clears the reference only if it is its own.
LEMMA HandlerEndsKeepsIInv ==
    ASSUME IInv, NEW c \in Conns, HandlerEnds(c)
    PROVE  IInv'
<1> USE DEF IInv, HandlerEnds, actionVars
<1>1. << >> \in Seq(Message)
  BY EmptySeq
<1>2. TypeOK'
  BY <1>1 DEF TypeOK, Cleared
<1>3. CurrentIsLatest'
  <2>1. CASE c = latest
    BY <2>1 DEF CurrentIsLatest, Cleared, TypeOK
  <2>2. CASE c # latest
    <3>1. current # c
      BY <2>2, NoneAssumption DEF CurrentIsLatest
    <3>2. current' = current /\ latest' = latest
      BY <3>1 DEF Cleared
    <3>3. latest # None => loopPc'[latest] = loopPc[latest]
      BY <2>2 DEF TypeOK
    <3> QED BY <3>2, <3>3 DEF CurrentIsLatest
  <2> QED BY <2>1, <2>2
<1>4. NoForgottenAction'
  BY DEF NoForgottenAction
<1> QED BY <1>2, <1>3, <1>4

\* An answer completes a future that is awaited, and creates none.
LEMMA ReadKeepsIInv ==
    ASSUME IInv, NEW c \in Conns, ReceiveEvent(c) \/ ReceiveAnswer(c) \/ EventHandled(c)
    PROVE  IInv'
<1> USE DEF IInv, wireVars, actionVars, loopVars
<1>1. CASE ReceiveEvent(c)
  <2>1. inbox' \in [Conns -> Seq(Message)]
    BY <1>1, InboxAfterRead DEF ReceiveEvent
  <2>2. PICK at \in {"resolve", "handle"} : loopPc' = [loopPc EXCEPT ![c] = at]
    BY <1>1 DEF ReceiveEvent
  <2>3. TypeOK'
    <3>1. loopPc' \in [Conns -> {"new", "receive", "handle", "resolve", "gone"}]
      BY <2>2 DEF TypeOK
    <3>2. tries' = [tries EXCEPT ![c] = 0]
      BY <1>1 DEF ReceiveEvent
    <3>3. tries' \in [Conns -> 0..2]
      BY <3>2 DEF TypeOK
    <3> QED BY <1>1, <2>1, <3>1, <3>3 DEF ReceiveEvent, TypeOK
  <2>4. CurrentIsLatest' /\ NoForgottenAction'
    BY <1>1, <2>2 DEF ReceiveEvent, NextMessage, CurrentIsLatest, NoForgottenAction, TypeOK
  <2> QED BY <2>3, <2>4
<1>2. CASE ReceiveAnswer(c)
  <2> DEFINE a == Head(inbox[c]).echo
  <2>1. inbox' \in [Conns -> Seq(Message)] /\ Head(inbox[c]) \in Message
    BY <1>2, InboxAfterRead DEF ReceiveAnswer
  <2>2. a \in Actions
    BY <1>2, <2>1 DEF ReceiveAnswer, Message, Plain, File, Answer
  <2> HIDE DEF a
  <2>3. future' = [future EXCEPT ![a] = Resolved(a)]
    BY <1>2 DEF ReceiveAnswer, a
  <2>4. Resolved(a) \in {"none", "pending", "done"} /\ (Resolved(a) = "none" <=> future[a] = "none")
    BY <2>2 DEF Resolved, TypeOK
  <2>5. TypeOK'
    BY <1>2, <2>1, <2>3, <2>4 DEF ReceiveAnswer, TypeOK
  <2>6. CurrentIsLatest'
    BY <1>2 DEF ReceiveAnswer, CurrentIsLatest
  <2>7. NoForgottenAction'
    BY <1>2, <2>3, <2>4 DEF ReceiveAnswer, NoForgottenAction, TypeOK
  <2> QED BY <2>5, <2>6, <2>7
<1>3. CASE EventHandled(c)
  BY <1>3 DEF EventHandled, TypeOK, CurrentIsLatest, NoForgottenAction
<1> QED BY <1>1, <1>2, <1>3

\* A request that is sent is awaited, one that is not has no future.
LEMMA SendKeepsIInv ==
    ASSUME IInv, NEW by \in Conns \cup {None}, SendAction(by),
           UNCHANGED << current, latest, loopPc, wireVars >>, tries' \in [Conns -> 0..2]
    PROVE  IInv'
<1> USE DEF IInv, wireVars
<1>1. PICK sent \in BOOLEAN :
        /\ sent => current # None
        /\ actions < MaxActions
        /\ actions' = actions + 1
        /\ caller' = [caller EXCEPT ![actions + 1] = by]
        /\ via' = [via EXCEPT ![actions + 1] = IF sent THEN current ELSE None]
        /\ future' = [future EXCEPT ![actions + 1] = IF sent THEN "pending" ELSE "none"]
        /\ awaited' = IF sent THEN awaited \cup {actions + 1} ELSE awaited
  <2>1. CASE current = None
    BY <2>1 DEF SendAction, NewEcho
  <2>2. CASE current # None
    BY <2>2 DEF SendAction, NewEcho
  <2> QED BY <2>1, <2>2
<1>2. actions \in Nat /\ actions + 1 \in Actions /\ actions + 1 \notin awaited
  BY <1>1, BoundsAssumption DEF TypeOK, Actions
<1>3. TypeOK'
  BY <1>1, <1>2, BoundsAssumption DEF TypeOK
<1>4. CurrentIsLatest'
  BY DEF CurrentIsLatest
<1>5. NoForgottenAction'
  BY <1>1, <1>2 DEF NoForgottenAction, TypeOK
<1> QED BY <1>3, <1>4, <1>5

\* The calls of send_action, and the end of the resolution.
LEMMA CallsKeepIInv ==
    ASSUME IInv,
           CallAction \/ \E c \in Conns : TryFileAction(c) \/ FileResolved(c)
    PROVE  IInv'
<1> USE DEF wireVars, loopVars, actionVars
<1>1. CASE CallAction
  BY <1>1, SendKeepsIInv DEF CallAction, IInv, TypeOK
<1>2. ASSUME NEW c \in Conns, TryFileAction(c)
      PROVE  IInv'
  <2>1. tries' \in [Conns -> 0..2]
    <3>1. tries \in [Conns -> 0..2] /\ tries[c] < 2
      BY <1>2 DEF TryFileAction, IInv, TypeOK
    <3>2. tries[c] + 1 \in 0..2
      BY <3>1
    <3>3. tries' = [tries EXCEPT ![c] = tries[c] + 1]
      BY <1>2 DEF TryFileAction
    <3> QED BY <3>1, <3>2, <3>3
  <2> QED BY <1>2, <2>1, SendKeepsIInv DEF TryFileAction
<1>3. ASSUME NEW c \in Conns, FileResolved(c)
      PROVE  IInv'
  BY <1>3 DEF FileResolved, IInv, TypeOK, CurrentIsLatest, NoForgottenAction
<1> QED BY <1>1, <1>2, <1>3

\* However send_action ends, the echo is popped.
LEMMA ActionEndKeepsIInv ==
    ASSUME IInv, NEW a \in Actions, ActionEnds(a)
    PROVE  IInv'
<1> USE DEF IInv, wireVars, loopVars
<1>1. SendActionEnds(a)
  BY DEF ActionEnds, ActionAnswered, ActionTimesOut
<1>2. TypeOK'
  BY <1>1 DEF SendActionEnds, Forgotten, TypeOK
<1>3. CurrentIsLatest'
  BY <1>1 DEF SendActionEnds, CurrentIsLatest
<1>4. NoForgottenAction'
  BY <1>1 DEF SendActionEnds, Forgotten, NoForgottenAction, TypeOK
<1> QED BY <1>2, <1>3, <1>4

\* What NapCat does touches the wire only.
LEMMA NapcatKeepsIInv ==
    ASSUME IInv,
           \/ \E c \in Conns : NapcatSendsEvent(c) \/ NapcatCloses(c)
           \/ \E a \in Actions : NapcatAnswers(a)
    PROVE  IInv'
<1> USE DEF IInv, loopVars, actionVars
<1>1. ASSUME NEW c \in Conns, NapcatSendsEvent(c)
      PROVE  IInv'
  <2>1. PICK event \in { Plain, File } : inbox' = [inbox EXCEPT ![c] = Append(@, event)]
    BY <1>1 DEF NapcatSendsEvent
  <2>2. event \in Message
    BY DEF Message
  <2>3. inbox' \in [Conns -> Seq(Message)]
    BY <2>1, <2>2, InboxAfterArrival
  <2>4. TypeOK'
    BY <1>1, <2>3, BoundsAssumption DEF NapcatSendsEvent, TypeOK
  <2> QED BY <1>1, <2>4 DEF NapcatSendsEvent, CurrentIsLatest, NoForgottenAction
<1>2. ASSUME NEW a \in Actions, NapcatAnswers(a)
      PROVE  IInv'
  <2>1. via[a] \in Conns /\ inbox' = [inbox EXCEPT ![via[a]] = Append(@, Answer(a))]
    BY <1>2 DEF NapcatAnswers, TypeOK
  <2>2. inbox' \in [Conns -> Seq(Message)]
    BY <2>1, InboxAfterArrival DEF Message
  <2>3. TypeOK'
    BY <1>2, <2>2 DEF NapcatAnswers, TypeOK
  <2> QED BY <1>2, <2>3 DEF NapcatAnswers, CurrentIsLatest, NoForgottenAction
<1>3. ASSUME NEW c \in Conns, NapcatCloses(c)
      PROVE  IInv'
  BY <1>3 DEF NapcatCloses, TypeOK, CurrentIsLatest, NoForgottenAction
<1> QED BY <1>1, <1>2, <1>3

\* Every step keeps the invariant.
LEMMA NextKeepsIInv == IInv /\ [Next]_vars => IInv'
<1> SUFFICES ASSUME IInv, [Next]_vars
             PROVE  IInv'
  OBVIOUS
<1>1. ASSUME NEW c \in Conns, Connect(c) \/ LoopStep(c)
      PROVE  IInv'
  BY <1>1, ConnectKeepsIInv, HandlerEndsKeepsIInv, ReadKeepsIInv, CallsKeepIInv DEF LoopStep
<1>2. CASE CallAction
  BY <1>2, CallsKeepIInv
<1>3. ASSUME NEW a \in Actions, ActionEnds(a)
      PROVE  IInv'
  BY <1>3, ActionEndKeepsIInv
<1>4. CASE \/ \E c \in Conns : NapcatSendsEvent(c) \/ NapcatCloses(c)
           \/ \E a \in Actions : NapcatAnswers(a)
  BY <1>4, NapcatKeepsIInv
<1>5. CASE UNCHANGED vars
  BY <1>5 DEF vars, loopVars, wireVars, actionVars, IInv, TypeOK, CurrentIsLatest, NoForgottenAction
<1> QED BY <1>1, <1>2, <1>3, <1>4, <1>5 DEF Next

-----------------------------------------------------------------------------
(* The theorems *)

\* The invariant holds in every reachable state.
THEOREM Invariance == Spec => []IInv
BY InitEstablishesIInv, NextKeepsIInv, PTL DEF Spec

\* Every variable keeps its type.
THEOREM TypeCorrect == Spec => []TypeOK
<1>1. IInv => TypeOK
  BY DEF IInv
<1> QED BY <1>1, Invariance, PTL

\* However connections overlap, the reference is the latest one while it is open.
THEOREM LatestConnectionIsCurrent == Spec => []CurrentIsLatest
<1>1. IInv => CurrentIsLatest
  BY DEF IInv
<1> QED BY <1>1, Invariance, PTL

\* No future outlives the call of send_action that waits for it.
THEOREM NoFutureIsForgotten == Spec => []NoForgottenAction
<1>1. IInv => NoForgottenAction
  BY DEF IInv
<1> QED BY <1>1, Invariance, PTL

=============================================================================

--------------------------- MODULE HubOrder_proofs ---------------------------
(***************************************************************************)
(* Proofs about the order of events in HubSessions: the events of a        *)
(* session reach /chat in the order they arrived, however batches, runner  *)
(* objects and receive loops follow one another; a run starts after a      *)
(* whole quiet window.                                                     *)
(***************************************************************************)
EXTENDS HubSessions_proofs

Increasing(s) == \A i, j \in DOMAIN s : i < j => s[i] < s[j]
Before(s, e) == \A x \in Elements(s) : x < e
OfKey(s, k) == \A x \in Elements(s) : KeyOf[x] = k

\* A receive loop waits in the queue of the lock exactly while it submits an event,
\* and the loops wait in the order of their events: whoever submits next has the
\* oldest event.
QueueInv ==
    /\ \A i \in DOMAIN lockQueue :
          lockQueue[i] \in Loops => loopPc[lockQueue[i]] # "idle"
    /\ \A l \in Loops :
          loopPc[l] # "idle" => \E i \in DOMAIN lockQueue : lockQueue[i] = l
    /\ \A i, j \in DOMAIN lockQueue :
          i < j /\ lockQueue[i] \in Loops /\ lockQueue[j] \in Loops =>
              loopEvent[lockQueue[i]] < loopEvent[lockQueue[j]]
    /\ \A l \in Loops : loopEvent[l] <= arrived

\* Every event that has been submitted, and is pending, in a run or POSTed to /chat,
\* is older than e.
OlderThan(e) ==
    /\ \A r \in Runners : Before(pending[r], e)
    /\ \A t \in Tasks : pc[t] \in Serving => Before(batch[t], e)
    /\ \A k \in Keys : Before(sent[k], e) /\ newest[k] < e

\* What is still to be submitted is newer than all that has been.
FrontierInv ==
    /\ \A l \in Loops : loopPc[l] # "idle" => OlderThan(loopEvent[l])
    /\ OlderThan(arrived + 1)

\* Windows, batches and conversations are in order and hold their own session's events;
\* a run has something to serve.
SequenceInv ==
    /\ \A r \in Runners : Increasing(pending[r]) /\ OfKey(pending[r], key[r])
    /\ \A t \in Tasks : pc[t] \in Serving =>
          batch[t] # << >> /\ Increasing(batch[t]) /\ OfKey(batch[t], key[owner[t]])
    /\ \A k \in Keys : Increasing(sent[k]) /\ OfKey(sent[k], k)

\* What was POSTed to /chat is older than what the session still has in a window or in
\* a batch that is being converted.
AgentInv ==
    /\ \A r \in Runners : \A x \in Elements(pending[r]) : Before(sent[key[r]], x)
    /\ \A t \in Tasks : pc[t] = "convert" =>
          \A x \in Elements(batch[t]) : Before(sent[key[owner[t]]], x)

\* The window of a runner that has something pending is open for what is left of
\* debounce_seconds since its session's last event.
QuietInv ==
    \A r \in Runners :
        pending[r] # << >> => deadline[r] + quiet[key[r]] = DebounceTicks

OrderInv == QueueInv /\ FrontierInv /\ SequenceInv /\ AgentInv /\ QuietInv

-----------------------------------------------------------------------------
(* Sequences *)

\* Elements of a sequence that grows.
LEMMA ElementsOfConcat ==
    ASSUME NEW S, NEW a \in Seq(S), NEW b \in Seq(S)
    PROVE  Elements(a \o b) = Elements(a) \cup Elements(b)
<1>1. /\ a \o b \in Seq(S) /\ Len(a \o b) = Len(a) + Len(b)
      /\ \A i \in 1..(Len(a) + Len(b)) :
            (a \o b)[i] = IF i <= Len(a) THEN a[i] ELSE b[i - Len(a)]
    BY ConcatProperties
<1>2. /\ DOMAIN a = 1..Len(a) /\ DOMAIN b = 1..Len(b) /\ Len(a) \in Nat /\ Len(b) \in Nat
      /\ DOMAIN (a \o b) = 1..(Len(a) + Len(b))
    BY <1>1, LenProperties
<1>3. ASSUME NEW i \in DOMAIN a PROVE a[i] \in Elements(a \o b)
    <2>1. i \in 1..(Len(a) + Len(b)) /\ i <= Len(a)
        BY <1>2, <1>3
    <2>2. (a \o b)[i] = a[i]
        BY <1>1, <2>1
    <2>3. QED
        BY <1>2, <2>1, <2>2 DEF Elements
<1>4. ASSUME NEW i \in DOMAIN b PROVE b[i] \in Elements(a \o b)
    <2>1. /\ Len(a) + i \in 1..(Len(a) + Len(b)) /\ ~(Len(a) + i <= Len(a))
          /\ Len(a) + i - Len(a) = i
        BY <1>2, <1>4
    <2>2. (a \o b)[Len(a) + i] = b[i]
        BY <1>1, <2>1
    <2>3. QED
        BY <1>2, <2>1, <2>2 DEF Elements
<1>5. ASSUME NEW i \in DOMAIN (a \o b) PROVE (a \o b)[i] \in Elements(a) \cup Elements(b)
    <2>1. CASE i <= Len(a)
        <3>1. i \in DOMAIN a /\ (a \o b)[i] = a[i]
            BY <1>1, <1>2, <1>5, <2>1
        <3>2. QED
            BY <3>1 DEF Elements
    <2>2. CASE ~(i <= Len(a))
        <3>1. i - Len(a) \in DOMAIN b /\ (a \o b)[i] = b[i - Len(a)]
            BY <1>1, <1>2, <1>5, <2>2
        <3>2. QED
            BY <3>1 DEF Elements
    <2>3. QED
        BY <2>1, <2>2
<1>6. QED
    BY <1>3, <1>4, <1>5 DEF Elements

\* Elements of a sequence that gets one more.
LEMMA ElementsOfAppend ==
    ASSUME NEW S, NEW s \in Seq(S), NEW e \in S
    PROVE  Elements(Append(s, e)) = Elements(s) \cup {e}
<1>1. /\ Append(s, e) \in Seq(S) /\ Len(Append(s, e)) = Len(s) + 1
      /\ \A i \in 1..Len(s) : Append(s, e)[i] = s[i]
      /\ Append(s, e)[Len(s) + 1] = e
    BY AppendProperties
<1>2. /\ DOMAIN s = 1..Len(s) /\ Len(s) \in Nat
      /\ DOMAIN Append(s, e) = 1..(Len(s) + 1)
    BY <1>1, LenProperties
<1>3. ASSUME NEW i \in 1..(Len(s) + 1) PROVE i \in 1..Len(s) \/ i = Len(s) + 1
    BY <1>2
<1>4. Len(s) + 1 \in 1..(Len(s) + 1) /\ \A i \in 1..Len(s) : i \in 1..(Len(s) + 1)
    BY <1>2
<1>5. QED
    BY <1>1, <1>2, <1>3, <1>4 DEF Elements

\* The empty sequence has no element; a sequence of events has events.
LEMMA ElementsOfEvents ==
    /\ Elements(<< >>) = {}
    /\ \A s \in Seq(Events) : Elements(s) \subseteq Events
<1>1. DOMAIN << >> = {}
    BY EmptySeq, LenProperties
<1>2. ASSUME NEW s \in Seq(Events), NEW i \in DOMAIN s PROVE s[i] \in Events
    BY LenProperties, ElementOfSeq
<1>3. QED
    BY <1>1, <1>2 DEF Elements

\* An event newer than all before it keeps a sequence in order.
LEMMA AppendKeepsOrder ==
    ASSUME NEW s \in Seq(Events), NEW e \in Events, Increasing(s), Before(s, e)
    PROVE  Increasing(Append(s, e))
<1>1. /\ Append(s, e) \in Seq(Events) /\ Len(Append(s, e)) = Len(s) + 1
      /\ \A i \in 1..Len(s) : Append(s, e)[i] = s[i]
      /\ Append(s, e)[Len(s) + 1] = e
    BY AppendProperties
<1>2. /\ DOMAIN s = 1..Len(s) /\ Len(s) \in Nat
      /\ DOMAIN Append(s, e) = 1..(Len(s) + 1)
    BY <1>1, LenProperties
<1>3. SUFFICES ASSUME NEW i \in 1..(Len(s) + 1), NEW j \in 1..(Len(s) + 1), i < j
               PROVE  Append(s, e)[i] < Append(s, e)[j]
    BY <1>2 DEF Increasing
<1>4. i \in 1..Len(s) /\ (j \in 1..Len(s) \/ j = Len(s) + 1)
    BY <1>2, <1>3
<1>5. CASE j \in 1..Len(s)
    BY <1>1, <1>2, <1>3, <1>4, <1>5 DEF Increasing
<1>6. CASE j = Len(s) + 1
    BY <1>1, <1>2, <1>4, <1>6 DEF Before, Elements
<1>7. QED
    BY <1>4, <1>5, <1>6

\* A sequence that is newer than all before it keeps the whole in order.
LEMMA ConcatKeepsOrder ==
    ASSUME NEW a \in Seq(Events), NEW b \in Seq(Events), Increasing(a), Increasing(b),
           \A x \in Elements(b) : Before(a, x)
    PROVE  Increasing(a \o b)
<1>1. /\ a \o b \in Seq(Events) /\ Len(a \o b) = Len(a) + Len(b)
      /\ \A i \in 1..(Len(a) + Len(b)) :
            (a \o b)[i] = IF i <= Len(a) THEN a[i] ELSE b[i - Len(a)]
    BY ConcatProperties
<1>2. /\ DOMAIN a = 1..Len(a) /\ DOMAIN b = 1..Len(b) /\ Len(a) \in Nat /\ Len(b) \in Nat
      /\ DOMAIN (a \o b) = 1..(Len(a) + Len(b))
    BY <1>1, LenProperties
<1>3. SUFFICES ASSUME NEW i \in 1..(Len(a) + Len(b)), NEW j \in 1..(Len(a) + Len(b)), i < j
               PROVE  (a \o b)[i] < (a \o b)[j]
    BY <1>2 DEF Increasing
<1>4. CASE j <= Len(a)
    <2>1. /\ i \in 1..Len(a) /\ j \in 1..Len(a)
          /\ (a \o b)[i] = a[i] /\ (a \o b)[j] = a[j]
        BY <1>1, <1>2, <1>3, <1>4
    <2>2. QED
        BY <1>2, <1>3, <2>1 DEF Increasing
<1>5. CASE i <= Len(a) /\ ~(j <= Len(a))
    <2>1. /\ i \in 1..Len(a) /\ j - Len(a) \in 1..Len(b)
          /\ (a \o b)[i] = a[i] /\ (a \o b)[j] = b[j - Len(a)]
        BY <1>1, <1>2, <1>3, <1>5
    <2>2. a[i] \in Elements(a) /\ b[j - Len(a)] \in Elements(b)
        BY <1>2, <2>1 DEF Elements
    <2>3. QED
        BY <2>1, <2>2 DEF Before
<1>6. CASE ~(i <= Len(a))
    <2>1. /\ i - Len(a) \in 1..Len(b) /\ j - Len(a) \in 1..Len(b)
          /\ i - Len(a) < j - Len(a)
          /\ (a \o b)[i] = b[i - Len(a)] /\ (a \o b)[j] = b[j - Len(a)]
        BY <1>1, <1>2, <1>3, <1>6
    <2>2. QED
        BY <1>2, <2>1 DEF Increasing
<1>7. QED
    BY <1>4, <1>5, <1>6

-----------------------------------------------------------------------------
(* The queue of the registry lock *)

\* The queue with its head removed.
LEMMA ReleasedQueue ==
    ASSUME TypeOK, NEW p, Holds(p), Release
    PROVE  /\ lockQueue[1] = p /\ 1 \in DOMAIN lockQueue
           /\ \A i \in DOMAIN lockQueue' :
                 i + 1 \in DOMAIN lockQueue /\ lockQueue'[i] = lockQueue[i + 1] /\ i \in Nat
           /\ \A i \in DOMAIN lockQueue : i = 1 \/ (i - 1 \in DOMAIN lockQueue' /\ i \in Nat)
<1>1. /\ lockQueue \in Seq(Procs) /\ lockQueue # << >> /\ Head(lockQueue) = p
      /\ lockQueue' = Tail(lockQueue)
    BY DEF TypeOK, Holds, Release
<1>2. /\ Tail(lockQueue) \in Seq(Procs) /\ Len(Tail(lockQueue)) = Len(lockQueue) - 1
      /\ \A i \in 1..Len(Tail(lockQueue)) : Tail(lockQueue)[i] = lockQueue[i + 1]
    BY <1>1, HeadTailProperties
<1>3. /\ Len(lockQueue) \in Nat \ {0} /\ DOMAIN lockQueue = 1..Len(lockQueue)
      /\ DOMAIN Tail(lockQueue) = 1..(Len(lockQueue) - 1)
    BY <1>1, <1>2, LenProperties, EmptySeq
<1>4. lockQueue[1] = p
    BY <1>1
<1>5. QED
    BY <1>1, <1>2, <1>3, <1>4

\* The queue with one more waiter.
LEMMA AcquiredQueue ==
    ASSUME TypeOK, NEW p \in Procs, Acquire(p)
    PROVE  \E n \in DOMAIN lockQueue' :
              /\ lockQueue'[n] = p
              /\ DOMAIN lockQueue' = DOMAIN lockQueue \cup {n}
              /\ \A i \in DOMAIN lockQueue : i < n /\ ~(n < i) /\ lockQueue'[i] = lockQueue[i]
              /\ ~(n < n)
<1>1. lockQueue \in Seq(Procs) /\ lockQueue' = Append(lockQueue, p)
    BY DEF TypeOK, Acquire
<1>2. /\ Append(lockQueue, p) \in Seq(Procs)
      /\ Len(Append(lockQueue, p)) = Len(lockQueue) + 1
      /\ \A i \in 1..Len(lockQueue) : Append(lockQueue, p)[i] = lockQueue[i]
      /\ Append(lockQueue, p)[Len(lockQueue) + 1] = p
    BY <1>1, AppendProperties
<1>3. /\ Len(lockQueue) \in Nat /\ DOMAIN lockQueue = 1..Len(lockQueue)
      /\ DOMAIN Append(lockQueue, p) = 1..(Len(lockQueue) + 1)
    BY <1>1, <1>2, LenProperties
<1>4. 1..(Len(lockQueue) + 1) = 1..Len(lockQueue) \cup {Len(lockQueue) + 1}
    BY <1>3
<1> DEFINE n == Len(lockQueue) + 1
<1>5. /\ \A i \in DOMAIN lockQueue : i < n /\ ~(n < i)
      /\ n \in DOMAIN lockQueue' /\ ~(n < n)
    BY <1>1, <1>3
<1>6. /\ lockQueue'[n] = p /\ DOMAIN lockQueue' = DOMAIN lockQueue \cup {n}
      /\ \A i \in DOMAIN lockQueue : lockQueue'[i] = lockQueue[i]
    BY <1>1, <1>2, <1>3, <1>4
<1> HIDE DEF n
<1>7. QED
    BY <1>5, <1>6

\* The loop that holds the lock has the oldest event that is still to be submitted.
LEMMA HolderIsFirst ==
    ASSUME IInv, QueueInv, NEW l \in Loops, Holds(l),
           NEW m \in Loops, m # l, loopPc[m] # "idle"
    PROVE  loopEvent[l] < loopEvent[m]
<1>1. lockQueue \in Seq(Procs) /\ lockQueue # << >> /\ Head(lockQueue) = l
    BY DEF IInv, TypeOK, Holds
<1>2. lockQueue[1] = l /\ DOMAIN lockQueue = 1..Len(lockQueue) /\ Len(lockQueue) \in Nat \ {0}
    BY <1>1, LenProperties, EmptySeq
<1>3. PICK i \in DOMAIN lockQueue : lockQueue[i] = m
    BY DEF QueueInv
<1>4. 1 \in DOMAIN lockQueue /\ 1 < i
    BY <1>2, <1>3
<1>5. QED
    BY <1>2, <1>3, <1>4 DEF QueueInv

\* A task or the shutdown joins the queue, or leaves it.
LEMMA OthersKeepQueue ==
    ASSUME IInv, QueueInv, NEW p \in Tasks \cup {Shutdown},
           Acquire(p) \/ (Holds(p) /\ Release), UNCHANGED << loopVars, arrived >>
    PROVE  QueueInv'
<1>1. p \in Procs /\ p \notin Loops
    BY IdentityAssumption DEF Procs
<1>2. CASE Acquire(p)
    <2>1. PICK n \in DOMAIN lockQueue' :
              /\ lockQueue'[n] = p
              /\ DOMAIN lockQueue' = DOMAIN lockQueue \cup {n}
              /\ \A i \in DOMAIN lockQueue : i < n /\ ~(n < i) /\ lockQueue'[i] = lockQueue[i]
              /\ ~(n < n)
        BY <1>1, <1>2, AcquiredQueue DEF IInv
    <2>2. \A l \in Loops : loopPc[l] # "idle" => \E i \in DOMAIN lockQueue' : lockQueue'[i] = l
        BY <2>1 DEF QueueInv
    <2>3. \A i \in DOMAIN lockQueue' : lockQueue'[i] \in Loops =>
             i \in DOMAIN lockQueue /\ lockQueue'[i] = lockQueue[i]
        BY <1>1, <2>1
    <2>4. QED
        BY <2>2, <2>3 DEF QueueInv, loopVars
<1>3. CASE Holds(p) /\ Release
    <2>1. /\ lockQueue[1] = p /\ 1 \in DOMAIN lockQueue
          /\ \A i \in DOMAIN lockQueue' :
                i + 1 \in DOMAIN lockQueue /\ lockQueue'[i] = lockQueue[i + 1] /\ i \in Nat
          /\ \A i \in DOMAIN lockQueue : i = 1 \/ (i - 1 \in DOMAIN lockQueue' /\ i \in Nat)
        BY <1>3, ReleasedQueue DEF IInv
    <2>2. \A i \in DOMAIN lockQueue' : lockQueue'[i] \in Loops => loopPc[lockQueue'[i]] # "idle"
        BY <2>1 DEF QueueInv
    <2>3. ASSUME NEW l \in Loops, loopPc[l] # "idle"
          PROVE  \E i \in DOMAIN lockQueue' : lockQueue'[i] = l
        <3>1. PICK i \in DOMAIN lockQueue : lockQueue[i] = l
            BY <2>3 DEF QueueInv
        <3>2. i # 1 /\ i - 1 \in DOMAIN lockQueue' /\ i \in Nat
            BY <1>1, <2>1, <3>1
        <3>3. lockQueue'[i - 1] = lockQueue[i - 1 + 1] /\ i - 1 + 1 = i
            BY <2>1, <3>2
        <3>4. QED
            BY <3>1, <3>2, <3>3
    <2>4. ASSUME NEW i \in DOMAIN lockQueue', NEW j \in DOMAIN lockQueue', i < j,
                 lockQueue'[i] \in Loops, lockQueue'[j] \in Loops
          PROVE  loopEvent[lockQueue'[i]] < loopEvent[lockQueue'[j]]
        <3>1. i + 1 < j + 1
            BY <2>1, <2>4
        <3>2. QED
            BY <2>1, <2>4, <3>1 DEF QueueInv
    <2>5. QED
        BY <2>2, <2>3, <2>4 DEF QueueInv, loopVars
<1>4. QED
    BY <1>2, <1>3

\* A loop takes the next event and joins the queue: its event is the newest.
LEMMA ReceiveKeepsQueue ==
    ASSUME IInv, QueueInv, NEW l \in Loops, Receive(l)
    PROVE  QueueInv'
<1>1. /\ loopPc[l] = "idle" /\ Acquire(l) /\ arrived' = arrived + 1
      /\ loopEvent'[l] = arrived + 1 /\ loopPc'[l] = "lock"
      /\ \A m \in Loops \ {l} : loopEvent'[m] = loopEvent[m] /\ loopPc'[m] = loopPc[m]
    BY DEF Receive, IInv, TypeOK
<1>2. PICK n \in DOMAIN lockQueue' :
              /\ lockQueue'[n] = l
              /\ DOMAIN lockQueue' = DOMAIN lockQueue \cup {n}
              /\ \A i \in DOMAIN lockQueue : i < n /\ ~(n < i) /\ lockQueue'[i] = lockQueue[i]
              /\ ~(n < n)
    BY <1>1, AcquiredQueue DEF IInv, Procs
<1>3. /\ arrived \in Nat
      /\ \A m \in Loops : loopEvent[m] \in Int /\ loopEvent[m] <= arrived
    BY DEF IInv, TypeOK, QueueInv, Events, NoEvent
<1>4. \A i \in DOMAIN lockQueue : lockQueue[i] # l
    BY <1>1 DEF QueueInv
<1>5. \A i \in DOMAIN lockQueue' : lockQueue'[i] \in Loops => loopPc'[lockQueue'[i]] # "idle"
    BY <1>1, <1>2, <1>4 DEF QueueInv
<1>6. \A m \in Loops : loopPc'[m] # "idle" => \E i \in DOMAIN lockQueue' : lockQueue'[i] = m
    BY <1>1, <1>2 DEF QueueInv
<1>7. ASSUME NEW i \in DOMAIN lockQueue', NEW j \in DOMAIN lockQueue', i < j,
             lockQueue'[i] \in Loops, lockQueue'[j] \in Loops
      PROVE  loopEvent'[lockQueue'[i]] < loopEvent'[lockQueue'[j]]
    <2>1. i \in DOMAIN lockQueue /\ lockQueue'[i] = lockQueue[i]
        BY <1>2, <1>7
    <2>2. CASE j \in DOMAIN lockQueue
        BY <1>1, <1>2, <1>4, <1>7, <2>1, <2>2 DEF QueueInv
    <2>3. CASE j = n
        <3>1. loopEvent'[lockQueue'[i]] <= arrived /\ loopEvent'[lockQueue'[i]] \in Int
            BY <1>1, <1>3, <1>4, <1>7, <2>1
        <3>2. QED
            BY <1>1, <1>2, <1>3, <2>3, <3>1
    <2>4. QED
        BY <1>2, <1>7, <2>2, <2>3
<1>8. \A m \in Loops : loopEvent'[m] <= arrived'
    BY <1>1, <1>3
<1>9. QED
    BY <1>5, <1>6, <1>7, <1>8 DEF QueueInv

\* submit_event returns: the loop leaves the queue, whose order stays.
LEMMA ReturnKeepsQueue ==
    ASSUME IInv, QueueInv, NEW l \in Loops, Holds(l), LoopReturns(l), arrived' = arrived
    PROVE  QueueInv'
<1>1. /\ loopPc'[l] = "idle" /\ loopEvent'[l] = NoEvent
      /\ \A m \in Loops \ {l} : loopEvent'[m] = loopEvent[m] /\ loopPc'[m] = loopPc[m]
    BY DEF LoopReturns, IInv, TypeOK
<1>2. /\ lockQueue[1] = l /\ 1 \in DOMAIN lockQueue
      /\ \A i \in DOMAIN lockQueue' :
            i + 1 \in DOMAIN lockQueue /\ lockQueue'[i] = lockQueue[i + 1] /\ i \in Nat
      /\ \A i \in DOMAIN lockQueue : i = 1 \/ (i - 1 \in DOMAIN lockQueue' /\ i \in Nat)
    BY ReleasedQueue DEF IInv, LoopReturns
<1>3. \A m \in Loops : loopEvent[m] \in Nat
    BY DEF IInv, TypeOK, Events, NoEvent
<1>4. \A i \in DOMAIN lockQueue' : i \in Nat /\ 1 < i + 1
    <2>1. DOMAIN lockQueue' = 1..Len(lockQueue')
        BY LockQueueType, LenProperties DEF LoopReturns, IInv, Procs
    <2>2. QED
        BY <1>2, <2>1
<1>5. \A i \in DOMAIN lockQueue' : lockQueue'[i] # l
    <2>1. SUFFICES ASSUME NEW i \in DOMAIN lockQueue', lockQueue'[i] = l PROVE FALSE
        OBVIOUS
    <2>2. loopEvent[lockQueue[1]] < loopEvent[lockQueue[i + 1]]
        BY <1>2, <1>4, <2>1 DEF QueueInv
    <2>3. QED
        BY <1>2, <1>3, <2>1, <2>2
<1>6. \A i \in DOMAIN lockQueue' : lockQueue'[i] \in Loops => loopPc'[lockQueue'[i]] # "idle"
    BY <1>1, <1>2, <1>5 DEF QueueInv
<1>7. ASSUME NEW m \in Loops, loopPc'[m] # "idle"
      PROVE  \E i \in DOMAIN lockQueue' : lockQueue'[i] = m
    <2>1. m # l /\ loopPc[m] # "idle"
        BY <1>1, <1>7
    <2>2. PICK i \in DOMAIN lockQueue : lockQueue[i] = m
        BY <2>1 DEF QueueInv
    <2>3. i - 1 \in DOMAIN lockQueue' /\ i \in Nat
        BY <1>2, <2>1, <2>2
    <2>4. lockQueue'[i - 1] = lockQueue[i - 1 + 1] /\ i - 1 + 1 = i
        BY <1>2, <2>3
    <2>5. QED
        BY <2>2, <2>3, <2>4
<1>8. ASSUME NEW i \in DOMAIN lockQueue', NEW j \in DOMAIN lockQueue', i < j,
             lockQueue'[i] \in Loops, lockQueue'[j] \in Loops
      PROVE  loopEvent'[lockQueue'[i]] < loopEvent'[lockQueue'[j]]
    <2>1. i + 1 < j + 1
        BY <1>4, <1>8
    <2>2. loopEvent[lockQueue[i + 1]] < loopEvent[lockQueue[j + 1]]
        BY <1>2, <1>8, <2>1 DEF QueueInv
    <2>3. QED
        BY <1>1, <1>2, <1>5, <1>8, <2>2
<1>9. \A m \in Loops : loopEvent'[m] <= arrived'
    <2>1. NoEvent <= arrived
        BY BoundsAssumption DEF NoEvent, IInv, TypeOK
    <2>2. QED
        BY <1>1, <2>1 DEF QueueInv
<1>10. QED
    BY <1>6, <1>7, <1>8, <1>9 DEF QueueInv

-----------------------------------------------------------------------------
(* Windows, batches and conversations *)

\* At first there is no event.
LEMMA InitOrder == Init => OrderInv
<1> SUFFICES ASSUME Init PROVE OrderInv
    OBVIOUS
<1>1. Elements(<< >>) = {} /\ DOMAIN << >> = {}
    BY ElementsOfEvents, EmptySeq, LenProperties
<1>2. QueueInv
    BY <1>1 DEF Init, QueueInv, NoEvent
<1>3. FrontierInv
    BY <1>1 DEF Init, FrontierInv, OlderThan, Before, Serving, NoEvent
<1>4. SequenceInv /\ AgentInv
    BY <1>1 DEF Init, SequenceInv, AgentInv, Increasing, OfKey, Serving
<1>5. QuietInv
    BY DEF Init, QuietInv
<1>6. QED
    BY <1>2, <1>3, <1>4, <1>5 DEF OrderInv

\* A step that submits, batches and POSTs nothing.
LEMMA SteadyStep ==
    ASSUME FrontierInv, SequenceInv, AgentInv,
           UNCHANGED << pending, key, sent, newest, arrived >>,
           \A l \in Loops : loopPc'[l] # "idle" =>
              loopPc[l] # "idle" /\ loopEvent'[l] = loopEvent[l],
           \A t \in Tasks : pc'[t] \in Serving =>
              /\ pc[t] \in Serving /\ batch'[t] = batch[t] /\ owner'[t] = owner[t]
              /\ pc'[t] = "convert" => pc[t] = "convert"
    PROVE  FrontierInv' /\ SequenceInv' /\ AgentInv'
<1>1. FrontierInv'
    <2>1. \A e : OlderThan(e) => OlderThan(e)'
        BY DEF OlderThan, Before, Elements
    <2>2. QED
        BY <2>1 DEF FrontierInv, OlderThan, Before, Elements
<1>2. SequenceInv'
    BY DEF SequenceInv, Increasing, OfKey, Elements
<1>3. AgentInv'
    BY DEF AgentInv, Before, Elements, Serving
<1>4. QED
    BY <1>1, <1>2, <1>3

\* Everything that is pending, in a run or sent is an event, a number.
LEMMA NumbersOnly ==
    ASSUME IInv
    PROVE  /\ \A r \in Runners : pending[r] \in Seq(Events) /\ Elements(pending[r]) \subseteq Events
           /\ \A t \in Tasks : batch[t] \in Seq(Events) /\ Elements(batch[t]) \subseteq Events
           /\ \A k \in Keys : /\ sent[k] \in Seq(Events) /\ Elements(sent[k]) \subseteq Events
                              /\ newest[k] \in Nat
           /\ \A l \in Loops : loopEvent[l] \in Nat
           /\ arrived \in Nat /\ Events \subseteq Nat
BY ElementsOfEvents, BoundsAssumption DEF IInv, TypeOK, Events, NoEvent

\* The event that arrives is newer than all submitted ones, and older than the next.
LEMMA ReceiveKeepsOrder ==
    ASSUME IInv, FrontierInv, SequenceInv, AgentInv, NEW l \in Loops, Receive(l)
    PROVE  FrontierInv' /\ SequenceInv' /\ AgentInv'
<1>1. /\ arrived' = arrived + 1 /\ loopEvent'[l] = arrived + 1
      /\ \A m \in Loops \ {l} : loopEvent'[m] = loopEvent[m] /\ loopPc'[m] = loopPc[m]
      /\ UNCHANGED << pending, key, sent, newest, pc, batch, owner >>
    BY DEF Receive, IInv, TypeOK, runnerVars, taskVars
<1>2. OlderThan(arrived + 1) /\ OlderThan(arrived + 1 + 1)
    <2>1. \A x \in Nat : x < arrived + 1 => x < arrived + 1 + 1
        BY NumbersOnly
    <2>2. QED
        BY <2>1, NumbersOnly DEF FrontierInv, OlderThan, Before
<1>3. FrontierInv'
    BY <1>1, <1>2 DEF FrontierInv, OlderThan, Before, Elements
<1>4. SequenceInv' /\ AgentInv'
    BY <1>1 DEF SequenceInv, AgentInv, Increasing, OfKey, Before, Elements
<1>5. QED
    BY <1>3, <1>4

\* submit_message puts the event of l, the oldest still to be submitted, behind what r
\* has pending; r is the only runner of the session with anything pending.
LEMMA JoinKeepsOrder ==
    ASSUME IInv, QueueInv, FrontierInv, SequenceInv, AgentInv,
           NEW l \in Loops, NEW r \in Runners, Holds(l), loopPc[l] # "idle",
           JoinPending(l, r), key' = [key EXCEPT ![r] = EventKey(l)],
           key[r] = EventKey(l) \/ IsIdle(r), \A t \in Tasks : owner[t] = r => key[r] = EventKey(l)
    PROVE  FrontierInv' /\ SequenceInv' /\ AgentInv'
<1> DEFINE e == loopEvent[l]
<1>1. e \in Events /\ EventKey(l) = KeyOf[e] /\ EventKey(l) \in Keys
    BY KeyAssumption DEF IInv, LockInv, EventKey
<1>2. /\ pending'[r] = Append(pending[r], e) /\ key'[r] = EventKey(l)
      /\ \A q \in Runners \ {r} : pending'[q] = pending[q] /\ key'[q] = key[q]
      /\ newest'[EventKey(l)] = e
      /\ \A k \in Keys \ {EventKey(l)} : newest'[k] = newest[k]
      /\ sent' = sent /\ arrived' = arrived
    BY <1>1 DEF JoinPending, IInv, TypeOK
<1>3. \A m \in Loops : loopPc'[m] # "idle" =>
         loopPc[m] # "idle" /\ loopEvent'[m] = loopEvent[m] /\ e < loopEvent[m]
    <2>1. SUFFICES ASSUME NEW m \in Loops, loopPc'[m] # "idle"
                   PROVE  loopPc[m] # "idle" /\ loopEvent'[m] = loopEvent[m] /\ e < loopEvent[m]
        OBVIOUS
    <2>2. m # l /\ loopPc[m] # "idle" /\ loopEvent'[m] = loopEvent[m]
        BY <2>1, ReturningLoop DEF JoinPending
    <2>3. QED
        BY <2>2, HolderIsFirst
<1>4. e < arrived + 1
    BY NumbersOnly DEF QueueInv
<1>5. \A t \in Tasks : pc'[t] \in Serving =>
         /\ pc[t] \in Serving /\ pc'[t] = pc[t] /\ batch'[t] = batch[t]
         /\ owner'[t] = owner[t] /\ key'[owner[t]] = key[owner[t]]
    <2>1. \A t \in Tasks : pc'[t] \in Serving =>
             pc'[t] = pc[t] /\ batch'[t] = batch[t] /\ owner'[t] = owner[t]
        BY DEF JoinPending, ScheduleDebounce, Serving
    <2>2. \A t \in Tasks : pc[t] \in Serving => owner[t] \in Runners
        BY DEF IInv, TypeOK, OwnerInv, Serving
    <2>3. QED
        BY <1>2, <2>1, <2>2
<1>6. Elements(pending'[r]) = Elements(pending[r]) \cup {e}
    BY <1>1, <1>2, NumbersOnly, ElementsOfAppend
<1>7. OlderThan(e)
    BY DEF FrontierInv
<1>8. FrontierInv'
    <2>1. ASSUME NEW x \in Nat, \/ \E m \in Loops : loopPc'[m] # "idle" /\ x = loopEvent'[m]
                                \/ x = arrived' + 1
          PROVE  /\ \A q \in Runners : \A y \in Elements(pending'[q]) : y < x
                 /\ \A t \in Tasks : pc'[t] \in Serving => \A y \in Elements(batch'[t]) : y < x
                 /\ \A k \in Keys : newest'[k] < x /\ \A y \in Elements(sent'[k]) : y < x
        <3>1. OlderThan(x) /\ e < x
            BY <1>2, <1>3, <1>4, <2>1 DEF FrontierInv
        <3>2. \A q \in Runners : \A y \in Elements(pending'[q]) : y < x
            <4>1. \A q \in Runners : \A y \in Elements(pending[q]) : y < x
                BY <3>1 DEF OlderThan, Before
            <4>2. \A y \in Elements(pending'[r]) : y < x
                BY <1>6, <3>1, <4>1
            <4>3. \A q \in Runners \ {r} : \A y \in Elements(pending'[q]) : y < x
                BY <1>2, <4>1
            <4>4. QED
                BY <4>2, <4>3
        <3>3. \A t \in Tasks : pc'[t] \in Serving => \A y \in Elements(batch'[t]) : y < x
            BY <1>5, <3>1 DEF OlderThan, Before
        <3>4. \A k \in Keys : newest'[k] < x /\ \A y \in Elements(sent'[k]) : y < x
            BY <1>1, <1>2, <3>1 DEF OlderThan, Before
        <3>5. QED
            BY <3>2, <3>3, <3>4
    <2>2. \A m \in Loops : loopPc'[m] # "idle" => loopEvent'[m] \in Nat
        BY <1>3, NumbersOnly
    <2>3. arrived' + 1 \in Nat
        BY <1>2, NumbersOnly
    <2>4. QED
        BY <2>1, <2>2, <2>3 DEF FrontierInv, OlderThan, Before, Elements
<1>9. SequenceInv'
    <2>1. Increasing(pending'[r])
        BY <1>1, <1>2, <1>7, NumbersOnly, AppendKeepsOrder DEF SequenceInv, OlderThan
    <2>2. OfKey(pending'[r], key'[r])
        <3>1. \A x \in Elements(pending[r]) : KeyOf[x] = EventKey(l)
            BY ElementsOfEvents DEF SequenceInv, OfKey, IsIdle
        <3>2. QED
            BY <1>1, <1>2, <1>6, <3>1 DEF OfKey
    <2>3. \A q \in Runners : Increasing(pending'[q]) /\ OfKey(pending'[q], key'[q])
        <3>1. \A q \in Runners \ {r} : Increasing(pending'[q]) /\ OfKey(pending'[q], key'[q])
            BY <1>2 DEF SequenceInv
        <3>2. QED
            BY <2>1, <2>2, <3>1
    <2>4. \A t \in Tasks : pc'[t] \in Serving =>
             batch'[t] # << >> /\ Increasing(batch'[t]) /\ OfKey(batch'[t], key'[owner'[t]])
        BY <1>5 DEF SequenceInv
    <2>5. QED
        BY <1>2, <2>3, <2>4 DEF SequenceInv, Increasing, OfKey, Elements
<1>10. AgentInv'
    <2>1. \A x \in Elements(pending'[r]) : Before(sent[EventKey(l)], x)
        <3>1. \A x \in Elements(pending[r]) : Before(sent[EventKey(l)], x)
            BY ElementsOfEvents DEF AgentInv, IsIdle
        <3>2. Before(sent[EventKey(l)], e)
            BY <1>1, <1>7 DEF OlderThan
        <3>3. QED
            BY <1>6, <3>1, <3>2
    <2>2. \A q \in Runners : \A x \in Elements(pending'[q]) : Before(sent'[key'[q]], x)
        <3>1. \A q \in Runners \ {r} : \A x \in Elements(pending'[q]) : Before(sent'[key'[q]], x)
            BY <1>2 DEF AgentInv
        <3>2. QED
            BY <1>2, <2>1, <3>1
    <2>3. \A t \in Tasks : pc'[t] = "convert" =>
             \A x \in Elements(batch'[t]) : Before(sent'[key'[owner'[t]]], x)
        <3>1. \A t \in Tasks : pc'[t] = "convert" => pc'[t] \in Serving
            BY DEF Serving
        <3>2. QED
            BY <1>2, <1>5, <3>1 DEF AgentInv
    <2>4. QED
        BY <2>2, <2>3 DEF AgentInv, Before, Elements
<1>11. QED
    BY <1>8, <1>9, <1>10

\* The pending events become the batch of a run.
LEMMA TakeBatchKeepsOrder ==
    ASSUME IInv, FrontierInv, SequenceInv, AgentInv,
           NEW t \in Tasks, pc[t] \in Waiting, TakeBatch(t), pending[owner[t]] # << >>,
           UNCHANGED << loopVars, worldVars >>
    PROVE  FrontierInv' /\ SequenceInv' /\ AgentInv'
<1>1. PICK r \in Runners : owner[t] = r
    BY WaitingTask
<1>2. /\ batch'[t] = pending[r] /\ pc'[t] = "convert" /\ pending'[r] = << >>
      /\ \A u \in Tasks \ {t} : batch'[u] = batch[u] /\ pc'[u] = pc[u]
      /\ \A q \in Runners \ {r} : pending'[q] = pending[q]
      /\ UNCHANGED << key, owner, sent, newest, arrived, loopPc, loopEvent >>
    BY <1>1 DEF TakeBatch, IInv, TypeOK, loopVars, worldVars
<1>3. Elements(<< >>) = {} /\ DOMAIN << >> = {} /\ "convert" \in Serving
    BY ElementsOfEvents, EmptySeq, LenProperties DEF Serving
<1>4. FrontierInv'
    <2>1. ASSUME NEW x, OlderThan(x)
          PROVE  /\ \A q \in Runners : \A y \in Elements(pending'[q]) : y < x
                 /\ \A u \in Tasks : pc'[u] \in Serving => \A y \in Elements(batch'[u]) : y < x
                 /\ \A k \in Keys : newest'[k] < x /\ \A y \in Elements(sent'[k]) : y < x
        BY <1>2, <1>3, <2>1 DEF OlderThan, Before
    <2>2. QED
        BY <1>2, <2>1 DEF FrontierInv, OlderThan, Before, Elements
<1>5. SequenceInv'
    <2>1. pending[r] # << >> /\ Increasing(pending[r]) /\ OfKey(pending[r], key[r])
        BY <1>1 DEF SequenceInv
    <2>2. QED
        BY <1>1, <1>2, <1>3, <2>1 DEF SequenceInv, Increasing, OfKey, Elements
<1>6. AgentInv'
    <2>1. \A q \in Runners : \A x \in Elements(pending'[q]) : Before(sent'[key'[q]], x)
        BY <1>2, <1>3 DEF AgentInv
    <2>2. \A u \in Tasks : pc'[u] = "convert" =>
             \A x \in Elements(batch'[u]) : Before(sent'[key'[owner'[u]]], x)
        BY <1>1, <1>2 DEF AgentInv
    <2>3. QED
        BY <2>1, <2>2 DEF AgentInv, Before, Elements
<1>7. QED
    BY <1>4, <1>5, <1>6

\* POST /chat: the session has nothing older in a window or in another batch.
LEMMA CallAgentKeepsOrder ==
    ASSUME IInv, FrontierInv, SequenceInv, AgentInv, NEW t \in Tasks, CallAgent(t)
    PROVE  FrontierInv' /\ SequenceInv' /\ AgentInv'
<1> DEFINE k == key[owner[t]]
<1>1. /\ pc[t] \in Serving /\ pc[t] = "convert" /\ owner[t] \in Runners
      /\ running[owner[t]] /\ ~IsIdle(owner[t])
    BY DEF CallAgent, Serving, IInv, TypeOK, OwnerInv, RunInv, IsIdle
<1>2. /\ batch[t] # << >> /\ Increasing(batch[t]) /\ OfKey(batch[t], k)
      /\ batch[t] \in Seq(Events)
    BY <1>1, NumbersOnly DEF SequenceInv
<1>3. k \in Keys
    <2>1. PICK x \in Elements(batch[t]) : TRUE
        <3>1. Len(batch[t]) \in Nat \ {0} /\ DOMAIN batch[t] = 1..Len(batch[t])
            BY <1>2, EmptySeq, LenProperties
        <3>2. 1 \in DOMAIN batch[t]
            BY <3>1
        <3>3. batch[t][1] \in Elements(batch[t])
            BY <3>2 DEF Elements
        <3>4. QED
            BY <3>3
    <2>2. x \in Events /\ KeyOf[x] = k
        BY <1>2, <2>1, NumbersOnly DEF OfKey
    <2>3. QED
        BY <2>2, KeyAssumption
<1>4. /\ sent'[k] = sent[k] \o batch[t]
      /\ \A j \in Keys \ {k} : sent'[j] = sent[j]
      /\ pc'[t] = "chat" /\ \A u \in Tasks \ {t} : pc'[u] = pc[u]
      /\ UNCHANGED << pending, key, batch, owner, newest, arrived, loopPc, loopEvent >>
    <2> HIDE DEF k
    <2>1. sent' = [sent EXCEPT ![k] = @ \o batch[t]]
        BY DEF CallAgent, k
    <2>2. QED
        BY <1>3, <2>1 DEF CallAgent, IInv, TypeOK, runnerVars, loopVars
<1>5. sent[k] \in Seq(Events) /\ Elements(sent'[k]) = Elements(sent[k]) \cup Elements(batch[t])
    <2> HIDE DEF k
    <2>1. QED
        BY <1>2, <1>3, <1>4, NumbersOnly, ElementsOfConcat
<1>6. \A q \in Runners : key[q] = k => pending[q] = << >>
    BY <1>1 DEF IInv, BusyInv, RunInv, IsIdle
<1>7. \A u \in Tasks : pc'[u] = "convert" =>
         u # t /\ pc[u] = "convert" /\ key[owner[u]] # k
    <2>1. \A u \in Tasks : pc[u] = "convert" /\ key[owner[u]] = k => u = t
        BY <1>1, RunIsUnique, <1>3 DEF AtMostOneRun, RunsOf, Serving
    <2>2. QED
        BY <1>4, <2>1
<1> HIDE DEF k
<1>8. \A u \in Tasks : pc'[u] \in Serving => pc[u] \in Serving
    BY <1>1, <1>4
<1>9. FrontierInv'
    <2>1. ASSUME NEW x, OlderThan(x)
          PROVE  /\ \A q \in Runners : \A y \in Elements(pending'[q]) : y < x
                 /\ \A u \in Tasks : pc'[u] \in Serving => \A y \in Elements(batch'[u]) : y < x
                 /\ \A j \in Keys : newest'[j] < x /\ \A y \in Elements(sent'[j]) : y < x
        BY <1>1, <1>4, <1>5, <1>8, <2>1 DEF OlderThan, Before
    <2>2. QED
        BY <1>4, <2>1 DEF FrontierInv, OlderThan, Before, Elements
<1>10. SequenceInv'
    <2>1. \A x \in Elements(batch[t]) : Before(sent[k], x)
        BY <1>1 DEF AgentInv, k
    <2>2. Increasing(sent[k] \o batch[t])
        BY <1>2, <1>3, <1>5, <2>1, ConcatKeepsOrder DEF SequenceInv
    <2>3. OfKey(sent'[k], k)
        BY <1>2, <1>3, <1>5 DEF SequenceInv, OfKey
    <2>4. \A j \in Keys : Increasing(sent'[j]) /\ OfKey(sent'[j], j)
        BY <1>4, <2>2, <2>3 DEF SequenceInv
    <2>5. QED
        BY <1>4, <1>8, <2>4 DEF SequenceInv, Increasing, OfKey, Elements
<1>11. AgentInv'
    <2>1. \A q \in Runners : \A x \in Elements(pending[q]) : key[q] # k /\ key[q] \in Keys
        BY <1>6, ElementsOfEvents, NumbersOnly, KeyAssumption DEF SequenceInv, OfKey
    <2>2. \A u \in Tasks : pc'[u] = "convert" =>
             \A x \in Elements(batch[u]) : key[owner[u]] # k /\ key[owner[u]] \in Keys
        BY <1>7, NumbersOnly, KeyAssumption DEF SequenceInv, OfKey, Serving
    <2>3. \A q \in Runners : \A x \in Elements(pending[q]) : sent'[key[q]] = sent[key[q]]
        BY <1>4, <2>1
    <2>4. \A u \in Tasks : pc'[u] = "convert" =>
             \A x \in Elements(batch[u]) : sent'[key[owner[u]]] = sent[key[owner[u]]]
        BY <1>4, <2>2
    <2>5. \A q \in Runners : \A x \in Elements(pending'[q]) : Before(sent'[key'[q]], x)
        BY <1>4, <2>3 DEF AgentInv
    <2>6. \A u \in Tasks : pc'[u] = "convert" =>
             \A x \in Elements(batch'[u]) : Before(sent'[key'[owner'[u]]], x)
        BY <1>4, <1>7, <2>4 DEF AgentInv
    <2>7. QED
        BY <2>5, <2>6 DEF AgentInv, Before, Elements
<1>12. QED
    BY <1>9, <1>10, <1>11

-----------------------------------------------------------------------------
(* Every step *)

\* Windows that stay as they are stay open for as long.
LEMMA SameWindows ==
    ASSUME QuietInv, quiet' = quiet,
           \A r \in Runners : pending'[r] # << >> =>
              pending'[r] = pending[r] /\ deadline'[r] = deadline[r] /\ key'[r] = key[r]
    PROVE  QuietInv'
BY DEF QuietInv

\* A receive loop moves on without submitting anything.
LEMMA LoopKeepsOrder ==
    ASSUME IInv, OrderInv, NEW l \in Loops,
           \/ Receive(l) \/ SubmitRunning(l) \/ SubmitUnknown(l)
           \/ QueueMessage(l) \/ QueueMessageFails(l) \/ CreateSessionFails(l)
           \/ SubmitPending(l) /\ stopping[runners[EventKey(l)]]
    PROVE  OrderInv'
<1> USE DEF OrderInv
<1>1. UNCHANGED << pending, deadline, key, quiet, sent, newest, pc, batch, owner >>
    BY DEF Receive, SubmitRunning, SubmitUnknown, QueueMessage, QueueMessageFails,
           CreateSessionFails, SubmitPending, runnerVars, taskVars, worldVars
<1>2. QuietInv'
    BY <1>1, SameWindows
<1>3. CASE Receive(l)
    BY <1>2, <1>3, ReceiveKeepsQueue, ReceiveKeepsOrder
<1>4. CASE SubmitRunning(l) \/ SubmitUnknown(l)
    <2>1. /\ loopPc[l] # "idle" /\ UNCHANGED << lockQueue, loopEvent, arrived >>
          /\ \A m \in Loops : loopPc'[m] # "idle" <=> loopPc[m] # "idle"
        BY <1>4 DEF SubmitRunning, SubmitUnknown, worldVars, IInv, TypeOK
    <2>2. QueueInv'
        BY <2>1 DEF QueueInv
    <2>3. FrontierInv' /\ SequenceInv' /\ AgentInv'
        BY <1>1, <2>1, SteadyStep
    <2>4. QED
        BY <1>2, <2>2, <2>3
<1>5. CASE \/ QueueMessage(l) \/ QueueMessageFails(l) \/ CreateSessionFails(l)
           \/ SubmitPending(l) /\ stopping[runners[EventKey(l)]]
    <2>1. Holds(l) /\ LoopReturns(l) /\ arrived' = arrived
        BY <1>5 DEF QueueMessage, QueueMessageFails, CreateSessionFails, SubmitPending,
                    IInv, LockInv
    <2>2. QueueInv'
        BY <2>1, ReturnKeepsQueue
    <2>3. \A m \in Loops : loopPc'[m] # "idle" =>
             loopPc[m] # "idle" /\ loopEvent'[m] = loopEvent[m]
        BY <2>1, ReturningLoop
    <2>4. FrontierInv' /\ SequenceInv' /\ AgentInv'
        BY <1>1, <2>1, <2>3, SteadyStep
    <2>5. QED
        BY <1>2, <2>2, <2>4
<1>6. QED
    BY <1>3, <1>4, <1>5

\* The event joins a window, which is now open for the whole of debounce_seconds.
LEMMA JoinOrder ==
    ASSUME IInv, OrderInv, NEW l \in Loops, NEW r \in Runners,
           Holds(l), loopPc[l] # "idle",
           JoinPending(l, r), key' = [key EXCEPT ![r] = EventKey(l)],
           key[r] = EventKey(l) \/ IsIdle(r), \A t \in Tasks : owner[t] = r => key[r] = EventKey(l),
           \A q \in Runners : q # r /\ key[q] = EventKey(l) => IsIdle(q)
    PROVE  OrderInv'
<1> USE DEF OrderInv
<1>1. LoopReturns(l) /\ arrived' = arrived
    BY DEF JoinPending
<1>2. QueueInv'
    BY <1>1, ReturnKeepsQueue
<1>3. FrontierInv' /\ SequenceInv' /\ AgentInv'
    BY JoinKeepsOrder
<1>4. EventKey(l) \in Keys
    BY KeyAssumption DEF IInv, LockInv, EventKey
<1>5. /\ deadline'[r] = DebounceTicks /\ key'[r] = EventKey(l) /\ quiet'[EventKey(l)] = 0
      /\ \A q \in Runners \ {r} :
            pending'[q] = pending[q] /\ deadline'[q] = deadline[q] /\ key'[q] = key[q]
      /\ \A k \in Keys \ {EventKey(l)} : quiet'[k] = quiet[k]
    BY <1>4 DEF JoinPending, NewDeadline, IInv, TypeOK
<1>6. \A q \in Runners \ {r} : pending[q] # << >> => key[q] # EventKey(l)
    BY DEF IsIdle
<1>7. \A q \in Runners : pending[q] # << >> => key[q] \in Keys
    <2>1. \A q \in Runners : pending[q] # << >> => 1 \in DOMAIN pending[q]
        BY NumbersOnly, EmptySeq, LenProperties
    <2>2. \A q \in Runners : pending[q] # << >> =>
             pending[q][1] \in Events /\ KeyOf[pending[q][1]] = key[q]
        BY <2>1, NumbersOnly DEF SequenceInv, OfKey, Elements
    <2>3. QED
        BY <2>2, KeyAssumption
<1>8. DebounceTicks + 0 = DebounceTicks
    BY BoundsAssumption
<1>9. QuietInv'
    <2>1. \A q \in Runners \ {r} : pending'[q] # << >> =>
             deadline'[q] + quiet'[key'[q]] = DebounceTicks
        BY <1>5, <1>6, <1>7 DEF QuietInv
    <2>2. deadline'[r] + quiet'[key'[r]] = DebounceTicks
        BY <1>5, <1>8
    <2>3. QED
        BY <2>1, <2>2 DEF QuietInv
<1>10. QED
    BY <1>2, <1>3, <1>9

\* submit_message opens or restarts the window of the session's runner, old or new.
LEMMA SubmitKeepsOrder ==
    ASSUME IInv, OrderInv, NEW l \in Loops,
           \/ SubmitPending(l) /\ ~stopping[runners[EventKey(l)]]
           \/ SubmitNewRunner(l) \/ CreateSession(l)
    PROVE  OrderInv'
<1>1. EventKey(l) \in Keys /\ Holds(l) /\ loopPc[l] # "idle"
    BY KeyAssumption DEF SubmitPending, SubmitNewRunner, CreateSession, IInv, LockInv, EventKey
<1>2. CASE SubmitPending(l)
    <2> DEFINE r == runners[EventKey(l)]
    <2>1. r \in Runners /\ r # None /\ key[r] = EventKey(l) /\ JoinPending(l, r) /\ key' = key
        BY <1>1, <1>2 DEF SubmitPending, IInv, TypeOK, RegistryInv
    <2>2. key' = [key EXCEPT ![r] = EventKey(l)]
        BY <2>1 DEF IInv, TypeOK
    <2>3. \A q \in Runners : q # r /\ key[q] = EventKey(l) => IsIdle(q)
        BY <1>1, OtherRunnersIdle
    <2> HIDE DEF r
    <2>4. QED
        BY <1>1, <2>1, <2>2, <2>3, JoinOrder
<1>3. CASE SubmitNewRunner(l) \/ CreateSession(l)
    <2> DEFINE r == FreshRunner
    <2>1. NewRunner(l) /\ runners[EventKey(l)] = None
        BY <1>3 DEF SubmitNewRunner, CreateSession, IInv, LockInv
    <2>2. r \in Runners /\ Unused(r)
        BY <2>1, FreshRunnerIsUnused DEF NewRunner
    <2>3. JoinPending(l, r) /\ key' = [key EXCEPT ![r] = EventKey(l)]
        BY <2>1 DEF NewRunner
    <2>4. \A q \in Runners : q # r /\ key[q] = EventKey(l) => IsIdle(q)
        BY <1>1, <2>1, OtherRunnersIdle, IdentityAssumption
    <2>5. IsIdle(r) /\ \A t \in Tasks : owner[t] # r
        BY <1>1, <2>2 DEF Unused, IInv, StopInv, DroppedRunnerIsIdle
    <2> HIDE DEF r
    <2>6. QED
        BY <1>1, <2>2, <2>3, <2>4, <2>5, JoinOrder
<1>4. QED
    BY <1>2, <1>3

\* A task ends or reports an idle runner.
LEMMA NotifyKeepsOrder ==
    ASSUME IInv, OrderInv, NEW t \in Tasks, NEW idle, NotifyIdle(t, idle),
           pc[t] # "none",
           UNCHANGED << pending, deadline, key, quiet, sent, newest, arrived, loopVars >>
    PROVE  OrderInv'
<1> USE DEF OrderInv
<1>1. owner[t] \in Runners
    BY DEF IInv, TypeOK, OwnerInv
<1>2. /\ pc'[t] \in {"idle", "none"} /\ (lockQueue' = lockQueue \/ Acquire(t))
      /\ \A u \in Tasks : u # t => pc'[u] = pc[u] /\ owner'[u] = owner[u]
    BY <1>1, NotifyIdleEffect DEF IInv
<1>3. \A u \in Tasks : u # t => batch'[u] = batch[u]
    BY DEF NotifyIdle, TasksEnd, IInv, TypeOK
<1>4. QueueInv'
    <2>1. CASE Acquire(t)
        BY <2>1, OthersKeepQueue
    <2>2. CASE lockQueue' = lockQueue
        BY <2>2 DEF QueueInv, loopVars
    <2>3. QED
        BY <1>2, <2>1, <2>2
<1>5. FrontierInv' /\ SequenceInv' /\ AgentInv'
    <2>1. \A u \in Tasks : pc'[u] \in Serving => u # t
        BY <1>2 DEF Serving
    <2>2. QED
        BY <1>2, <1>3, <2>1, SteadyStep DEF loopVars
<1>6. QED
    BY <1>4, <1>5, SameWindows

\* A timer starts, or wakes.
LEMMA TimerKeepsOrder ==
    ASSUME IInv, OrderInv, NEW t \in Tasks, StartTimer(t) \/ WakeTimer(t)
    PROVE  OrderInv'
<1>1. pc[t] \in Waiting /\ pc[t] # "none" /\ UNCHANGED << loopVars, worldVars >>
    BY DEF StartTimer, WakeTimer, Waiting
<1>2. CASE GiveUp(t)
    BY <1>1, <1>2, NotifyKeepsOrder DEF GiveUp, worldVars
<1>3. CASE TakeBatch(t) /\ pending[owner[t]] # << >>
    <2>1. FrontierInv' /\ SequenceInv' /\ AgentInv'
        BY <1>1, <1>3, TakeBatchKeepsOrder DEF OrderInv
    <2>2. QueueInv'
        BY <1>1, <1>3 DEF TakeBatch, OrderInv, QueueInv, loopVars, worldVars
    <2>3. owner[t] \in Runners
        BY <1>1, WaitingTask
    <2>4. QuietInv'
        BY <1>1, <1>3, <2>3, SameWindows DEF TakeBatch, OrderInv, worldVars, IInv, TypeOK
    <2>5. QED
        BY <2>1, <2>2, <2>4 DEF OrderInv
<1>4. CASE /\ UNCHANGED << runnerVars, owner, batch, lockQueue >>
           /\ \E v \in {"done", "sleep"} : pc' = [pc EXCEPT ![t] = v]
    <2>1. FrontierInv' /\ SequenceInv' /\ AgentInv'
        BY <1>1, <1>4, SteadyStep DEF OrderInv, runnerVars, loopVars, worldVars, Serving
    <2>2. QueueInv'
        BY <1>1, <1>4 DEF OrderInv, QueueInv, loopVars, worldVars
    <2>3. QuietInv'
        BY <1>1, <1>4, SameWindows DEF OrderInv, runnerVars, worldVars
    <2>4. QED
        BY <2>1, <2>2, <2>3 DEF OrderInv
<1>5. QED
    BY <1>2, <1>3, <1>4 DEF StartTimer, WakeTimer, SleepUntilDeadline

\* A run makes its HTTP calls, and ends.
LEMMA RunKeepsOrder ==
    ASSUME IInv, OrderInv, NEW t \in Tasks, CallAgent(t) \/ AgentReplies(t) \/ RunEnds(t)
    PROVE  OrderInv'
<1>1. CASE CallAgent(t) \/ AgentReplies(t)
    <2>1. UNCHANGED << lockQueue, runnerVars, owner, batch, loopVars, arrived, quiet, newest >>
        BY <1>1 DEF CallAgent, AgentReplies, worldVars
    <2>2. ASSUME AgentReplies(t) PROVE FrontierInv' /\ SequenceInv' /\ AgentInv'
        <3>1. /\ UNCHANGED << pending, key, sent, newest, arrived, loopPc, loopEvent >>
              /\ pc[t] = "chat" /\ pc'[t] = "send" /\ \A u \in Tasks \ {t} : pc'[u] = pc[u]
            BY <2>1, <2>2 DEF AgentReplies, runnerVars, loopVars, worldVars, IInv, TypeOK
        <3>2. QED
            BY <2>1, <3>1, SteadyStep DEF OrderInv, Serving
    <2>3. FrontierInv' /\ SequenceInv' /\ AgentInv'
        BY <1>1, <2>2, CallAgentKeepsOrder DEF OrderInv
    <2>4. QueueInv' /\ QuietInv'
        BY <2>1, SameWindows DEF OrderInv, QueueInv, loopVars, runnerVars
    <2>5. QED
        BY <2>3, <2>4 DEF OrderInv
<1>2. CASE RunEnds(t)
    <2>1. PICK r \in Runners : owner[t] = r /\ running[r]
        BY <1>2 DEF RunEnds, Serving, IInv, TypeOK, OwnerInv, RunInv
    <2>2. pending[r] = << >> /\ pc[t] # "none"
        BY <1>2, <2>1 DEF RunEnds, IInv, RunInv
    <2>3. /\ NotifyIdle(t, pending[r] = << >> /\ ~TimerAlive(r))
          /\ UNCHANGED << deadline, key, pending, loopVars, worldVars >>
        BY <1>2, <2>1, <2>2 DEF RunEnds
    <2>4. QED
        BY <2>2, <2>3, NotifyKeepsOrder DEF worldVars
<1>3. QED
    BY <1>1, <1>2

\* The steps of the idle callback and of the shutdown touch no event.
LEMMA RegistryKeepsOrder ==
    ASSUME IInv, OrderInv,
           \/ \E t \in Tasks : OnRunnerIdle(t)
           \/ BeginShutdown \/ ClearRunners \/ \E r \in Runners : StopRunner(r)
    PROVE  OrderInv'
<1>1. UNCHANGED << pending, deadline, key, loopVars, worldVars >>
    BY DEF OnRunnerIdle, BeginShutdown, ClearRunners, StopRunner, runnerVars
<1>2. \A t \in Tasks : pc'[t] \in Serving =>
         pc'[t] = pc[t] /\ batch'[t] = batch[t] /\ owner'[t] = owner[t]
    <2>1. CASE \E t \in Tasks : OnRunnerIdle(t)
        BY <2>1 DEF OnRunnerIdle, TasksEnd, Serving
    <2>2. CASE BeginShutdown \/ ClearRunners
        BY <2>2 DEF BeginShutdown, ClearRunners, taskVars
    <2>3. CASE \E r \in Runners : StopRunner(r)
        BY <2>3 DEF StopRunner, Serving
    <2>4. QED
        BY <2>1, <2>2, <2>3
<1>3. FrontierInv' /\ SequenceInv' /\ AgentInv'
    BY <1>1, <1>2, SteadyStep DEF OrderInv, loopVars, worldVars
<1>4. QueueInv'
    <2>1. \/ lockQueue' = lockQueue
          \/ \E p \in Tasks \cup {Shutdown} : Acquire(p) \/ (Holds(p) /\ Release)
        BY DEF OnRunnerIdle, BeginShutdown, ClearRunners, StopRunner
    <2>2. CASE lockQueue' = lockQueue
        BY <1>1, <2>2 DEF OrderInv, QueueInv, loopVars, worldVars
    <2>3. QED
        BY <1>1, <2>1, <2>2, OthersKeepQueue DEF OrderInv, worldVars
<1>5. QuietInv'
    BY <1>1, SameWindows DEF OrderInv, worldVars
<1>6. QED
    BY <1>3, <1>4, <1>5 DEF OrderInv

\* The clock advances: an open window shrinks as its session stays quiet.
LEMMA TickKeepsOrder ==
    ASSUME IInv, OrderInv, Tick
    PROVE  OrderInv'
<1>1. UNCHANGED << pending, key, pc, owner, batch, loopVars, lockQueue, arrived, sent, newest >>
    BY DEF Tick
<1>2. FrontierInv' /\ SequenceInv' /\ AgentInv'
    BY <1>1, SteadyStep DEF OrderInv, loopVars
<1>3. QueueInv'
    BY <1>1 DEF OrderInv, QueueInv, loopVars
<1>4. QuietInv'
    <2>1. SUFFICES ASSUME NEW r \in Runners, pending[r] # << >>
                   PROVE  deadline'[r] + quiet'[key[r]] = DebounceTicks
        BY <1>1 DEF QuietInv
    <2>2. key[r] \in Keys
        <3>1. 1 \in DOMAIN pending[r]
            BY <2>1, NumbersOnly, EmptySeq, LenProperties
        <3>2. pending[r][1] \in Events /\ KeyOf[pending[r][1]] = key[r]
            BY <3>1, NumbersOnly DEF OrderInv, SequenceInv, OfKey, Elements
        <3>3. QED
            BY <3>2, KeyAssumption
    <2>3. /\ deadline[r] + quiet[key[r]] = DebounceTicks
          /\ deadline[r] \in NoDeadline..DebounceTicks /\ quiet[key[r]] \in 0..DebounceTicks
        BY <2>1, <2>2 DEF OrderInv, QuietInv, IInv, TypeOK
    <2>4. /\ deadline'[r] = IF deadline[r] > 0 THEN deadline[r] - 1 ELSE deadline[r]
          /\ quiet'[key[r]] = IF quiet[key[r]] < DebounceTicks THEN quiet[key[r]] + 1
                              ELSE quiet[key[r]]
        BY <2>2 DEF Tick, Countdown
    <2>5. QED
        BY <2>3, <2>4, BoundsAssumption DEF NoDeadline
<1>5. QED
    BY <1>2, <1>3, <1>4 DEF OrderInv

\* Every step of the scheduler keeps the order.
LEMMA NextOrder == IInv /\ OrderInv /\ [Next]_vars => OrderInv'
<1> SUFFICES ASSUME IInv, OrderInv, [Next]_vars PROVE OrderInv'
    OBVIOUS
<1>1. ASSUME NEW l \in Loops, Receive(l) \/ LoopStep(l) PROVE OrderInv'
    BY <1>1, LoopKeepsOrder, SubmitKeepsOrder DEF LoopStep
<1>2. ASSUME NEW t \in Tasks, TaskStep(t) PROVE OrderInv'
    BY <1>2, TimerKeepsOrder, RunKeepsOrder, RegistryKeepsOrder DEF TaskStep
<1>3. CASE BeginShutdown \/ ShutdownStep
    BY <1>3, RegistryKeepsOrder DEF ShutdownStep
<1>4. CASE Tick
    BY <1>4, TickKeepsOrder
<1>5. CASE Terminated \/ UNCHANGED vars
    <2>1. UNCHANGED vars
        BY <1>5 DEF Terminated
    <2>2. FrontierInv' /\ SequenceInv' /\ AgentInv'
        BY <2>1, SteadyStep DEF OrderInv, vars, runnerVars, taskVars, loopVars, worldVars
    <2>3. QueueInv' /\ QuietInv'
        BY <2>1 DEF OrderInv, QueueInv, QuietInv, vars, runnerVars, loopVars, worldVars
    <2>4. QED
        BY <2>2, <2>3 DEF OrderInv
<1>6. QED
    BY <1>1, <1>2, <1>3, <1>4, <1>5 DEF Next

-----------------------------------------------------------------------------
(* Theorems *)

\* The inductive invariant behind the order of events.
THEOREM OrderInvariance == Spec => [](IInv /\ OrderInv)
<1>1. Init => IInv /\ OrderInv
    BY InitIInv, InitOrder
<1>2. IInv /\ OrderInv /\ [Next]_vars => (IInv /\ OrderInv)'
    BY NextIInv, NextOrder
<1>3. QED
    BY <1>1, <1>2, PTL DEF Spec

\* The events of a session reach /chat in the order they arrived and once, across
\* batches, runner objects and overlapping receive loops, and only its own do.
THEOREM EventsReachAgentInOrder == Spec => []SentInOrder
<1>1. OrderInv => SentInOrder
    BY DEF OrderInv, SequenceInv, SentInOrder, Increasing, OfKey, Elements
<1>2. QED
    BY <1>1, OrderInvariance, PTL

\* A run goes on in the same runner, or begins when a timer takes the batch of a
\* window that has closed.
LEMMA RunsBegin ==
    ASSUME IInv, Next, NEW t \in Tasks, pc'[t] \in Serving
    PROVE  \/ /\ pc[t] \in Serving /\ owner[t] \in Runners
              /\ owner'[t] = owner[t] /\ key'[owner[t]] = key[owner[t]] /\ batch'[t] = batch[t]
           \/ /\ pc[t] \in Waiting /\ TakeBatch(t)
              /\ pending[owner[t]] # << >> /\ deadline[owner[t]] = 0
              /\ UNCHANGED << registryVars, loopVars, shutVars, worldVars >>
<1>1. pc[t] \in Serving => owner[t] \in Runners
    BY DEF IInv, TypeOK, OwnerInv, Serving
<1>2. CASE UNCHANGED << key, taskVars >>
    BY <1>1, <1>2 DEF taskVars
<1>3. ASSUME NEW l \in Loops, Receive(l) \/ LoopStep(l),
             NEW r \in Runners, JoinPending(l, r), key' = key \/ \E k \in Keys :
                Unused(r) /\ key' = [key EXCEPT ![r] = k]
      PROVE  /\ pc[t] \in Serving /\ owner'[t] = owner[t] /\ batch'[t] = batch[t]
             /\ key'[owner[t]] = key[owner[t]]
    <2>1. pc[t] \in Serving /\ owner'[t] = owner[t] /\ batch'[t] = batch[t]
        BY <1>3 DEF JoinPending, ScheduleDebounce, Serving
    <2>2. QED
        BY <1>1, <1>3, <2>1 DEF Unused, IInv, TypeOK
<1>4. ASSUME NEW l \in Loops, Receive(l) \/ LoopStep(l)
      PROVE  \/ UNCHANGED << key, taskVars >>
             \/ \E r \in Runners : JoinPending(l, r) /\
                   (key' = key \/ \E k \in Keys : Unused(r) /\ key' = [key EXCEPT ![r] = k])
    <2>1. CASE SubmitNewRunner(l) \/ CreateSession(l)
        <3>1. NewRunner(l) /\ EventKey(l) \in Keys
            BY <2>1, KeyAssumption DEF SubmitNewRunner, CreateSession, IInv, LockInv, EventKey
        <3>2. FreshRunner \in Runners /\ Unused(FreshRunner)
            BY <3>1, FreshRunnerIsUnused DEF NewRunner
        <3>3. QED
            BY <3>1, <3>2 DEF NewRunner
    <2>2. CASE SubmitPending(l)
        BY <2>2, KeyAssumption
        DEF SubmitPending, IInv, LockInv, TypeOK, EventKey, runnerVars
    <2>3. CASE \/ Receive(l) \/ SubmitRunning(l) \/ SubmitUnknown(l)
               \/ QueueMessage(l) \/ QueueMessageFails(l) \/ CreateSessionFails(l)
        BY <2>3 DEF Receive, SubmitRunning, SubmitUnknown, QueueMessage, QueueMessageFails,
                    CreateSessionFails, runnerVars
    <2>4. QED
        BY <1>4, <2>1, <2>2, <2>3 DEF LoopStep
<1>5. ASSUME NEW u \in Tasks, StartTimer(u) \/ WakeTimer(u)
      PROVE  \/ pc[t] \in Serving /\ owner'[t] = owner[t] /\ batch'[t] = batch[t] /\ key' = key
             \/ /\ u = t /\ pc[t] \in Waiting /\ TakeBatch(t)
                /\ pending[owner[t]] # << >> /\ deadline[owner[t]] = 0
                /\ UNCHANGED << registryVars, loopVars, shutVars, worldVars >>
    <2>1. /\ pc[u] \in Waiting /\ owner[u] \in Runners
          /\ UNCHANGED << registryVars, loopVars, shutVars, worldVars >>
        BY <1>5, WaitingTask DEF StartTimer, WakeTimer, Waiting
    <2>2. CASE GiveUp(u)
        <3>1. /\ pc'[u] \in {"idle", "none"}
              /\ \A v \in Tasks : v # u => pc'[v] = pc[v] /\ owner'[v] = owner[v]
            BY <2>1, <2>2, NotifyIdleEffect DEF GiveUp, IInv
        <3>2. \A v \in Tasks : v # u => batch'[v] = batch[v]
            BY <2>2 DEF GiveUp, NotifyIdle, TasksEnd, IInv, TypeOK
        <3>3. QED
            BY <2>2, <3>1, <3>2 DEF GiveUp, Serving
    <2>3. CASE WakeTimer(u) /\ TakeBatch(u) /\ pending[owner[u]] # << >>
                            /\ deadline[owner[u]] # NoDeadline /\ ~(deadline[owner[u]] > 0)
        <3>1. deadline[owner[u]] = 0
            BY <2>1, <2>3, BoundsAssumption DEF IInv, TypeOK, NoDeadline
        <3>2. CASE u = t
            BY <2>1, <2>3, <3>1, <3>2
        <3>3. CASE u # t
            BY <2>3, <3>3 DEF TakeBatch, IInv, TypeOK
        <3>4. QED
            BY <3>2, <3>3
    <2>4. CASE /\ UNCHANGED << runnerVars, owner, batch, lockQueue >>
               /\ \E v \in {"done", "sleep"} : pc' = [pc EXCEPT ![u] = v]
        BY <2>4 DEF runnerVars, Serving, IInv, TypeOK
    <2>5. QED
        BY <1>5, <2>2, <2>3, <2>4 DEF StartTimer, WakeTimer, SleepUntilDeadline
<1>6. ASSUME NEW u \in Tasks, TaskStep(u), ~StartTimer(u), ~WakeTimer(u)
      PROVE  pc[t] \in Serving /\ owner'[t] = owner[t] /\ batch'[t] = batch[t] /\ key' = key
    <2>1. CASE CallAgent(u) \/ AgentReplies(u)
        BY <2>1 DEF CallAgent, AgentReplies, runnerVars, Serving, IInv, TypeOK
    <2>2. CASE RunEnds(u)
        <3>1. PICK r \in Runners : owner[u] = r /\ running[r]
            BY <2>2 DEF RunEnds, Serving, IInv, TypeOK, OwnerInv, RunInv
        <3>2. pending[r] = << >> /\ key' = key
            BY <2>2, <3>1 DEF RunEnds, IInv, RunInv
        <3>3. NotifyIdle(u, pending[r] = << >> /\ ~TimerAlive(r))
            BY <2>2, <3>1, <3>2 DEF RunEnds
        <3>4. /\ pc'[u] \in {"idle", "none"}
              /\ \A v \in Tasks : v # u => pc'[v] = pc[v] /\ owner'[v] = owner[v]
            BY <3>1, <3>3, NotifyIdleEffect DEF IInv
        <3>5. \A v \in Tasks : v # u => batch'[v] = batch[v]
            BY <3>3 DEF NotifyIdle, TasksEnd, IInv, TypeOK
        <3>6. QED
            BY <3>2, <3>4, <3>5 DEF Serving
    <2>3. CASE OnRunnerIdle(u)
        BY <2>3 DEF OnRunnerIdle, TasksEnd, runnerVars, Serving
    <2>4. QED
        BY <1>6, <2>1, <2>2, <2>3 DEF TaskStep
<1>7. CASE BeginShutdown \/ ShutdownStep
    <2>1. CASE BeginShutdown \/ ClearRunners
        BY <1>2, <2>1 DEF BeginShutdown, ClearRunners, runnerVars
    <2>2. ASSUME NEW r \in Runners, StopRunner(r)
          PROVE  pc[t] \in Serving /\ UNCHANGED << owner, key, batch >>
        BY <2>2 DEF StopRunner, Serving
    <2>3. QED
        BY <1>1, <1>7, <2>1, <2>2 DEF ShutdownStep
<1>8. CASE Tick \/ Terminated
    BY <1>1, <1>8 DEF Tick, Terminated, vars, runnerVars, taskVars
<1>9. QED
    BY <1>1, <1>2, <1>3, <1>4, <1>5, <1>6, <1>7, <1>8 DEF Next

\* A run starts by taking the batch of a window that was open for the whole of
\* debounce_seconds.
LEMMA RunsStartQuiet ==
    IInv /\ OrderInv /\ [Next]_vars =>
        [\A k \in Keys : RunsOf(k) = {} /\ RunsOf(k)' # {} => quiet[k] = DebounceTicks]_vars
<1> SUFFICES ASSUME IInv, OrderInv, Next, NEW k \in Keys, RunsOf(k) = {},
                    NEW t \in Tasks, pc'[t] \in Serving, key'[owner'[t]] = k
             PROVE  quiet[k] = DebounceTicks
    BY DEF RunsOf
<1>1. ~(pc[t] \in Serving /\ key[owner[t]] = k)
    BY DEF RunsOf
<1>2. /\ pc[t] \in Waiting /\ TakeBatch(t)
      /\ pending[owner[t]] # << >> /\ deadline[owner[t]] = 0
    BY <1>1, RunsBegin
<1>3. owner[t] \in Runners /\ key[owner[t]] = k
    BY <1>2, WaitingTask DEF TakeBatch
<1>4. 0 + quiet[k] = DebounceTicks /\ quiet[k] \in Nat
    BY <1>2, <1>3 DEF OrderInv, QuietInv, IInv, TypeOK
<1>5. QED
    BY <1>4

\* A run starts only after a whole debounce window without a new message of its session.
THEOREM RunsWaitForQuiet == Spec => RunStartsQuiet
BY OrderInvariance, RunsStartQuiet, PTL DEF Spec, RunStartsQuiet

=============================================================================

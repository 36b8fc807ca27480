------------------------- MODULE HubSessions_proofs -------------------------
(***************************************************************************)
(* Proofs about HubSessions, for every set of sessions, loops, runners and *)
(* tasks, every number of events and every debounce window.                *)
(***************************************************************************)
EXTENDS HubSessions, SequenceTheorems, TLAPS

\* A registered runner belongs to its session and has not been stopped.
RegistryInv ==
    \A k \in Keys : runners[k] # None =>
        key[runners[k]] = k /\ ~stopping[runners[k]]

\* A task has an owner exactly while it exists.
OwnerInv == \A t \in Tasks : (pc[t] = "none") <=> (owner[t] = None)

\* A task in the debounce window is the timer of its runner, and a runner's timer is
\* such a task, or one that ended when the runner was stopped.
TimerInv ==
    /\ \A t \in Tasks : pc[t] \in Waiting => debounceTask[owner[t]] = t
    /\ \A r \in Runners : debounceTask[r] # None =>
          /\ owner[debounceTask[r]] = r
          /\ pc[debounceTask[r]] \in Waiting \cup {"done"}

\* A run marks its runner, there is one per runner, and while it lasts the runner has
\* no timer and nothing pending.
RunInv ==
    /\ \A t \in Tasks : pc[t] \in Serving => running[owner[t]]
    /\ \A t, u \in Tasks :
          pc[t] \in Serving /\ pc[u] \in Serving /\ owner[t] = owner[u] => t = u
    /\ \A r \in Runners : running[r] => pending[r] = << >> /\ ~TimerAlive(r)

\* At most one runner object of a session has work.
BusyInv ==
    \A r, q \in Runners : key[r] = key[q] /\ ~IsIdle(r) /\ ~IsIdle(q) => r = q

\* Once the shutdown has begun no event is being submitted; runners are stopped only
\* then, after the registry has let go of them.
StopInv ==
    /\ regStopping => \A l \in Loops : loopPc[l] = "idle"
    /\ regStopping <=> shutPc # "off"
    /\ toStop # {} => shutPc = "runners"
    /\ shutPc = "runners" => \A k \in Keys : runners[k] = None
    /\ \A r \in Runners : stopping[r] => regStopping

\* A loop that awaits create_session holds the lock and its session has no runner; a
\* loop that awaits queue_session_message holds the lock; a loop that is not idle has
\* an event.
LockInv ==
    /\ \A l \in Loops : loopPc[l] \in {"queue", "create"} => Holds(l)
    /\ \A l \in Loops : loopPc[l] = "create" => runners[EventKey(l)] = None
    /\ \A l \in Loops : loopPc[l] # "idle" => loopEvent[l] \in Events

IInv ==
    /\ TypeOK
    /\ RegistryInv
    /\ OwnerInv
    /\ TimerInv
    /\ RunInv
    /\ BusyInv
    /\ StopInv
    /\ LockInv
    /\ PendingHasTimer
    /\ DroppedRunnerIsIdle

-----------------------------------------------------------------------------
(* Facts about the helpers *)

\* The task _schedule_debounce_locked creates is a new object.
LEMMA FreshTaskIsFree ==
    ASSUME \E t \in Tasks : pc[t] = "none"
    PROVE  FreshTask \in Tasks /\ pc[FreshTask] = "none"
BY DEF FreshTask

\* The SessionRunner submit_event creates is a new object.
LEMMA FreshRunnerIsUnused ==
    ASSUME \E r \in Runners : Unused(r)
    PROVE  FreshRunner \in Runners /\ Unused(FreshRunner)
BY DEF FreshRunner

\* Waiters join behind the holder of the lock, who keeps it.
LEMMA AcquireKeepsHolder ==
    ASSUME TypeOK, NEW p, NEW q \in Procs, Acquire(q), Holds(p)
    PROVE  Holds(p)'
<1>1. lockQueue \in Seq(Procs)
    BY DEF TypeOK
<1>2. lockQueue' # << >> /\ Head(lockQueue') = Head(lockQueue)
    BY <1>1, AppendProperties, HeadTailAppend DEF Acquire, Holds
<1>3. QED
    BY <1>2 DEF Holds

\* Both ways of changing the queue keep its type.
LEMMA LockQueueType ==
    ASSUME TypeOK, NEW p \in Procs, Acquire(p) \/ (Release /\ Holds(p))
    PROVE  lockQueue' \in Seq(Procs)
<1>1. lockQueue \in Seq(Procs)
    BY DEF TypeOK
<1>2. CASE Acquire(p)
    BY <1>1, <1>2, AppendProperties DEF Acquire
<1>3. CASE Release /\ Holds(p)
    BY <1>1, <1>3, HeadTailProperties DEF Release, Holds
<1>4. QED
    BY <1>2, <1>3

-----------------------------------------------------------------------------
(* The initial state *)

\* No runner, task, lock holder or deadline exists at first.
LEMMA InitIInv == Init => IInv
<1> SUFFICES ASSUME Init PROVE IInv
    OBVIOUS
<1>1. TypeOK
    <2>1. /\ NoDeadline \in NoDeadline..DebounceTicks
          /\ 0 \in 0..DebounceTicks /\ DebounceTicks \in 0..DebounceTicks
          /\ 0 \in 0..MaxEvents /\ "none" \in TaskPcs
        BY BoundsAssumption DEF NoDeadline, TaskPcs
    <2>2. << >> \in Seq(Events) /\ << >> \in Seq(Procs)
        OBVIOUS
    <2>3. QED
        BY <2>1, <2>2 DEF Init, TypeOK
<1>2. RegistryInv /\ OwnerInv /\ TimerInv /\ RunInv /\ StopInv
    BY IdentityAssumption
    DEF Init, RegistryInv, OwnerInv, TimerInv, RunInv, StopInv, Waiting, Serving
<1>3. BusyInv /\ DroppedRunnerIsIdle
    BY DEF Init, BusyInv, DroppedRunnerIsIdle, IsIdle, TimerAlive
<1>4. LockInv /\ PendingHasTimer
    BY DEF Init, LockInv, PendingHasTimer
<1>5. QED
    BY <1>1, <1>2, <1>3, <1>4 DEF IInv

-----------------------------------------------------------------------------
(* Receive loops *)

\* An event arrives.
LEMMA ReceiveStep ==
    ASSUME IInv, NEW l \in Loops, Receive(l)
    PROVE  IInv'
<1> USE DEF IInv, Receive, registryVars, runnerVars, taskVars, shutVars
<1>1. TypeOK'
    <2>1. lockQueue' \in Seq(Procs)
        BY LockQueueType DEF Procs
    <2>2. arrived' \in 0..MaxEvents /\ arrived + 1 \in Events
        BY BoundsAssumption DEF TypeOK, Events
    <2>3. QED
        BY <2>1, <2>2 DEF TypeOK
<1>2. RegistryInv' /\ OwnerInv' /\ TimerInv' /\ RunInv'
    BY DEF RegistryInv, OwnerInv, TimerInv, RunInv, TimerAlive
<1>3. BusyInv' /\ DroppedRunnerIsIdle' /\ PendingHasTimer'
    BY DEF BusyInv, DroppedRunnerIsIdle, PendingHasTimer, IsIdle, TimerAlive
<1>4. StopInv'
    BY DEF StopInv
<1>5. LockInv'
    <2>1. \A m \in Loops : Holds(m) => Holds(m)'
        BY AcquireKeepsHolder DEF Procs
    <2>2. arrived + 1 \in Events
        BY BoundsAssumption DEF TypeOK, Events
    <2>3. QED
        BY <2>1, <2>2 DEF LockInv, TypeOK, EventKey
<1>6. QED
    BY <1>1, <1>2, <1>3, <1>4, <1>5

\* A loop that holds the lock starts to await an HTTP call.
LEMMA SubmitRunningStep ==
    ASSUME IInv, NEW l \in Loops, SubmitRunning(l)
    PROVE  IInv'
<1> USE DEF IInv, SubmitRunning, registryVars, runnerVars, taskVars, shutVars, worldVars
<1>1. TypeOK'
    BY DEF TypeOK
<1>2. RegistryInv' /\ OwnerInv' /\ TimerInv' /\ RunInv'
    BY DEF RegistryInv, OwnerInv, TimerInv, RunInv, TimerAlive
<1>3. BusyInv' /\ DroppedRunnerIsIdle' /\ PendingHasTimer'
    BY DEF BusyInv, DroppedRunnerIsIdle, PendingHasTimer, IsIdle, TimerAlive
<1>4. StopInv' /\ LockInv'
    BY DEF StopInv, LockInv, TypeOK, EventKey, Holds
<1>5. QED
    BY <1>1, <1>2, <1>3, <1>4

\* A loop that finds neither runner nor agent session starts to await create_session.
LEMMA SubmitUnknownStep ==
    ASSUME IInv, NEW l \in Loops, SubmitUnknown(l)
    PROVE  IInv'
<1> USE DEF IInv, SubmitUnknown, registryVars, runnerVars, taskVars, shutVars, worldVars
<1>1. TypeOK'
    BY DEF TypeOK
<1>2. RegistryInv' /\ OwnerInv' /\ TimerInv' /\ RunInv'
    BY DEF RegistryInv, OwnerInv, TimerInv, RunInv, TimerAlive
<1>3. BusyInv' /\ DroppedRunnerIsIdle' /\ PendingHasTimer'
    BY DEF BusyInv, DroppedRunnerIsIdle, PendingHasTimer, IsIdle, TimerAlive
<1>4. StopInv' /\ LockInv'
    BY DEF StopInv, LockInv, TypeOK, EventKey, Holds
<1>5. QED
    BY <1>1, <1>2, <1>3, <1>4

\* The holder of the lock is the only loop inside an HTTP call.
LEMMA ReturningLoop ==
    ASSUME IInv, NEW l \in Loops, Holds(l), LoopReturns(l),
           NEW m \in Loops, loopPc'[m] # "idle"
    PROVE  /\ m # l /\ loopPc[m] = loopPc'[m] /\ loopEvent'[m] = loopEvent[m]
           /\ loopPc[m] \notin {"queue", "create"}
BY DEF IInv, TypeOK, LoopReturns, LockInv, Holds

\* submit_event returns without touching a runner.
LEMMA LoopReturnsStep ==
    ASSUME IInv, NEW l \in Loops, Holds(l), LoopReturns(l),
           UNCHANGED << registryVars, runnerVars, taskVars, shutVars, arrived, sent,
                        quiet, newest >>,
           asked' \subseteq Events, lost' \subseteq Events
    PROVE  IInv'
<1> USE DEF IInv, registryVars, runnerVars, taskVars, shutVars
<1>1. TypeOK'
    <2>1. lockQueue' \in Seq(Procs)
        BY LockQueueType DEF Procs, LoopReturns
    <2>2. QED
        BY <2>1 DEF TypeOK, LoopReturns
<1>2. RegistryInv' /\ OwnerInv' /\ TimerInv' /\ RunInv'
    BY DEF RegistryInv, OwnerInv, TimerInv, RunInv, TimerAlive
<1>3. BusyInv' /\ DroppedRunnerIsIdle' /\ PendingHasTimer'
    BY DEF BusyInv, DroppedRunnerIsIdle, PendingHasTimer, IsIdle, TimerAlive
<1>4. StopInv'
    BY DEF StopInv, LoopReturns, TypeOK
<1>5. LockInv'
    BY ReturningLoop DEF LockInv
<1>6. QED
    BY <1>1, <1>2, <1>3, <1>4, <1>5

\* queue_session_message answers or fails: no runner is touched.
LEMMA QueueMessageStep ==
    ASSUME IInv, NEW l \in Loops,
           QueueMessage(l) \/ QueueMessageFails(l) \/ CreateSessionFails(l)
    PROVE  IInv'
<1>1. Holds(l) /\ LoopReturns(l) /\ loopEvent[l] \in Events
    BY DEF IInv, LockInv, QueueMessage, QueueMessageFails, CreateSessionFails
<1>2. asked' \subseteq Events /\ lost' \subseteq Events
    BY <1>1 DEF IInv, TypeOK, QueueMessage, QueueMessageFails, CreateSessionFails
<1>3. QED
    BY <1>1, <1>2, LoopReturnsStep DEF QueueMessage, QueueMessageFails, CreateSessionFails

\* submit_message puts the event of l in the window of r, which is, or becomes, the
\* runner of the event's session.
LEMMA JoinPendingStep ==
    ASSUME IInv, NEW l \in Loops, NEW r \in Runners,
           Holds(l), loopPc[l] \in {"lock", "create"}, JoinPending(l, r),
           runners' \in [Keys -> Runners \cup {None}],
           runners'[EventKey(l)] = r, runners[EventKey(l)] \in {r, None},
           \A k \in Keys \ {EventKey(l)} : runners'[k] = runners[k] /\ runners[k] # r,
           key' = [key EXCEPT ![r] = EventKey(l)],
           ~stopping[r], ~running[r],
           \A q \in Runners : q # r /\ key[q] = EventKey(l) => IsIdle(q),
           agentIds' \subseteq Keys
    PROVE  IInv'
<1> USE DEF IInv
<1>1. /\ loopEvent[l] \in Events /\ EventKey(l) \in Keys
      /\ r # None /\ ~regStopping
    BY KeyAssumption, IdentityAssumption DEF LockInv, StopInv, EventKey
<1>2. FreshTask \in Tasks /\ pc[FreshTask] = "none" /\ owner[FreshTask] = None
    BY FreshTaskIsFree DEF JoinPending, ScheduleDebounce, OwnerInv
<1>3. \A t \in Timer(r) : t \in Tasks /\ pc[t] \in Waiting /\ owner[t] = r
    BY DEF Timer, TimerAlive, TimerInv
<1>4. \A t \in Tasks :
        /\ pc'[t] = IF t = FreshTask THEN "start" ELSE IF t \in Timer(r) THEN "none" ELSE pc[t]
        /\ owner'[t] = IF t = FreshTask THEN r ELSE IF t \in Timer(r) THEN None ELSE owner[t]
    BY DEF JoinPending, ScheduleDebounce
<1>5. /\ pending' = [pending EXCEPT ![r] = Append(@, loopEvent[l])]
      /\ deadline' = [deadline EXCEPT ![r] = DebounceTicks]
      /\ debounceTask' = [debounceTask EXCEPT ![r] = FreshTask]
      /\ running' = running /\ stopping' = stopping /\ regStopping' = regStopping
      /\ shutPc' = shutPc /\ toStop' = toStop
    BY DEF JoinPending, ScheduleDebounce, NewDeadline, shutVars
<1>6. Append(pending[r], loopEvent[l]) \in Seq(Events)
      /\ Append(pending[r], loopEvent[l]) # << >>
    <2>1. pending[r] \in Seq(Events)
        BY DEF TypeOK
    <2>2. QED
        BY <1>1, <2>1, AppendProperties
<1>7. TypeOK'
    <2>1. lockQueue' \in Seq(Procs)
        BY LockQueueType DEF Procs, LoopReturns, JoinPending
    <2>2. DebounceTicks \in NoDeadline..DebounceTicks /\ 0 \in 0..DebounceTicks
        BY BoundsAssumption DEF NoDeadline
    <2>3. pending' \in [Runners -> Seq(Events)] /\ deadline' \in [Runners -> NoDeadline..DebounceTicks]
          /\ debounceTask' \in [Runners -> Tasks \cup {None}] /\ key' \in [Runners -> Keys \cup {None}]
        BY <1>1, <1>2, <1>5, <1>6, <2>2 DEF TypeOK
    <2>4. pc' \in [Tasks -> TaskPcs] /\ owner' \in [Tasks -> Runners \cup {None}]
        BY <1>1, <1>2 DEF TypeOK, JoinPending, ScheduleDebounce, TaskPcs, Waiting
    <2>5. left' \in [Tasks -> 0..DebounceTicks] /\ batch' \in [Tasks -> Seq(Events)]
        BY <2>2 DEF TypeOK, JoinPending, ScheduleDebounce
    <2>6. loopPc' \in [Loops -> {"idle", "lock", "queue", "create"}]
          /\ loopEvent' \in [Loops -> Events \cup {NoEvent}]
        BY DEF TypeOK, JoinPending, LoopReturns
    <2>7. quiet' \in [Keys -> 0..DebounceTicks] /\ newest' \in [Keys -> Events \cup {NoEvent}]
        BY <1>1, <2>2 DEF TypeOK, JoinPending
    <2>8. UNCHANGED << arrived, sent, asked, lost >>
        BY DEF JoinPending
    <2>9. QED
        BY <1>5, <2>1, <2>3, <2>4, <2>5, <2>6, <2>7, <2>8 DEF TypeOK
<1>8. \A q \in Runners : q # r => (TimerAlive(q)' <=> TimerAlive(q)) /\ (IsIdle(q)' <=> IsIdle(q))
    <2> SUFFICES ASSUME NEW q \in Runners, q # r
                   PROVE  (TimerAlive(q)' <=> TimerAlive(q)) /\ (IsIdle(q)' <=> IsIdle(q))
        OBVIOUS
    <2>2. /\ debounceTask'[q] = debounceTask[q] /\ pending'[q] = pending[q]
          /\ running'[q] = running[q]
        BY <1>5 DEF TypeOK
    <2>3. CASE debounceTask[q] = None
        BY <2>2, <2>3 DEF TimerAlive, IsIdle
    <2>4. CASE debounceTask[q] # None
        <3>1. debounceTask[q] \in Tasks
            BY <2>4 DEF TypeOK
        <3>2. owner[debounceTask[q]] = q /\ pc[debounceTask[q]] # "none"
            BY <2>4 DEF TimerInv, Waiting
        <3>3. pc'[debounceTask[q]] = pc[debounceTask[q]]
            BY <1>2, <1>3, <1>4, <3>1, <3>2
        <3>4. QED
            BY <2>2, <3>3 DEF TimerAlive, IsIdle
    <2>5. QED
        BY <2>3, <2>4
<1>9. RegistryInv'
    BY <1>1, <1>5 DEF RegistryInv, TypeOK
<1>10. OwnerInv'
    BY <1>1, <1>2, <1>3, <1>4 DEF OwnerInv
<1>11. TimerInv'
    <2>1. ASSUME NEW t \in Tasks, pc'[t] \in Waiting
          PROVE  debounceTask'[owner'[t]] = t
        <3>1. CASE t = FreshTask
            BY <1>2, <1>4, <1>5, <3>1 DEF TypeOK
        <3>2. CASE t # FreshTask
            <4>1. t \notin Timer(r) /\ pc[t] \in Waiting /\ owner'[t] = owner[t]
                BY <1>4, <2>1, <3>2 DEF Waiting
            <4>2. debounceTask[owner[t]] = t /\ owner[t] \in Runners
                BY <4>1 DEF TimerInv, OwnerInv, TypeOK, Waiting
            <4>3. owner[t] # r
                BY <4>1, <4>2, IdentityAssumption DEF Timer, TimerAlive, Waiting
            <4>4. QED
                BY <1>5, <4>1, <4>2, <4>3 DEF TypeOK
        <3>3. QED
            BY <3>1, <3>2
    <2>2. ASSUME NEW q \in Runners, debounceTask'[q] # None
          PROVE  owner'[debounceTask'[q]] = q /\ pc'[debounceTask'[q]] \in Waiting \cup {"done"}
        <3>1. CASE q = r
            BY <1>2, <1>4, <1>5, <3>1 DEF TypeOK, Waiting
        <3>2. CASE q # r
            BY <1>2, <1>3, <1>4, <1>5, <2>2, <3>2 DEF TypeOK, TimerInv, Waiting
        <3>3. QED
            BY <3>1, <3>2
    <2>3. QED
        BY <2>1, <2>2 DEF TimerInv
<1>12. RunInv'
    <2>1. \A t \in Tasks : pc'[t] \in Serving => pc[t] = pc'[t] /\ owner[t] = owner'[t]
        BY <1>4 DEF Serving
    <2>2. \A q \in Runners : running'[q] => q # r
        BY <1>5
    <2>3. \A q \in Runners : running'[q] => pending'[q] = << >> /\ ~TimerAlive(q)'
        BY <1>5, <1>8, <2>2 DEF RunInv, TypeOK
    <2>4. QED
        BY <1>5, <2>1, <2>3 DEF RunInv
<1>13. BusyInv'
    <2>1. \A q \in Runners : q # r => key'[q] = key[q]
        OBVIOUS
    <2>2. key'[r] = EventKey(l)
        BY DEF TypeOK
    <2>3. QED
        BY <1>8, <2>1, <2>2 DEF BusyInv
<1>14. StopInv'
    BY <1>1, <1>5 DEF StopInv
<1>15. LockInv'
    <2>1. ASSUME NEW m \in Loops, loopPc'[m] # "idle"
          PROVE  /\ loopPc'[m] \notin {"queue", "create"}
                 /\ loopEvent'[m] \in Events
        BY <2>1, ReturningLoop DEF LockInv, JoinPending
    <2>2. QED
        BY <2>1 DEF LockInv
<1>16. PendingHasTimer'
    BY <1>2, <1>3, <1>4, <1>5, BoundsAssumption, IdentityAssumption
    DEF PendingHasTimer, TypeOK, Waiting, NoDeadline
<1>17. DroppedRunnerIsIdle'
    <2>1. ASSUME NEW q \in Runners, \A k \in Keys : runners'[k] # q
          PROVE  q # r /\ \A k \in Keys : runners[k] # q
        BY <1>1, <2>1, IdentityAssumption
    <2>2. QED
        BY <1>5, <1>8, <2>1 DEF DroppedRunnerIsIdle
<1>18. QED
    BY <1>7, <1>9, <1>10, <1>11, <1>12, <1>13, <1>14, <1>15, <1>16, <1>17

\* While events are submitted, only the registered runner of a session may have work.
LEMMA OtherRunnersIdle ==
    ASSUME IInv, NEW l \in Loops, loopPc[l] # "idle",
           NEW k \in Keys, NEW q \in Runners, key[q] = k, runners[k] # q
    PROVE  IsIdle(q)
<1>1. ~regStopping
    BY DEF IInv, StopInv
<1>2. \A j \in Keys : runners[j] # q
    BY IdentityAssumption DEF IInv, RegistryInv
<1>3. QED
    BY <1>1, <1>2 DEF IInv, DroppedRunnerIsIdle

\* submit_message on a registered runner: the event joins its window, or is dropped.
LEMMA SubmitPendingStep ==
    ASSUME IInv, NEW l \in Loops, SubmitPending(l)
    PROVE  IInv'
<1> DEFINE r == runners[EventKey(l)]
<1>1. /\ EventKey(l) \in Keys /\ Holds(l) /\ loopPc[l] = "lock"
      /\ r \in Runners /\ r # None /\ key[r] = EventKey(l)
    BY KeyAssumption DEF IInv, TypeOK, LockInv, EventKey, SubmitPending, RegistryInv
<1>2. CASE stopping[r]
    <2>1. lost' \subseteq Events /\ asked' \subseteq Events
        BY <1>2 DEF IInv, TypeOK, LockInv, SubmitPending
    <2>2. QED
        BY <1>1, <1>2, <2>1, LoopReturnsStep
        DEF SubmitPending, registryVars, taskVars, shutVars
<1>3. CASE ~stopping[r]
    <2>1. JoinPending(l, r) /\ ~running[r] /\ UNCHANGED << key, runners, agentIds >>
        BY <1>3 DEF SubmitPending, JoinsOrDrops
    <2>2. key' = [key EXCEPT ![r] = EventKey(l)] /\ agentIds' \subseteq Keys
          /\ runners' \in [Keys -> Runners \cup {None}]
        BY <1>1, <2>1 DEF IInv, TypeOK
    <2>3. \A k \in Keys \ {EventKey(l)} : runners'[k] = runners[k] /\ runners[k] # r
        BY <1>1, <2>1 DEF IInv, RegistryInv
    <2>4. \A q \in Runners : q # r /\ key[q] = EventKey(l) => IsIdle(q)
        BY <1>1, OtherRunnersIdle
    <2>5. QED
        BY <1>1, <1>3, <2>1, <2>2, <2>3, <2>4, JoinPendingStep
<1>4. QED
    BY <1>2, <1>3

\* A session without a runner gets a new one.
LEMMA NewRunnerStep ==
    ASSUME IInv, NEW l \in Loops, Holds(l), loopPc[l] \in {"lock", "create"},
           runners[EventKey(l)] = None, NewRunner(l), agentIds' \subseteq Keys
    PROVE  IInv'
<1> DEFINE r == FreshRunner
<1>1. /\ r \in Runners /\ Unused(r)
    BY FreshRunnerIsUnused DEF NewRunner
<1>2. EventKey(l) \in Keys
    BY KeyAssumption DEF IInv, LockInv, EventKey
<1>3. ~stopping[r] /\ ~running[r]
    BY <1>1 DEF IInv, StopInv, Unused, DroppedRunnerIsIdle, IsIdle
<1>4. /\ runners' = [runners EXCEPT ![EventKey(l)] = r]
      /\ key' = [key EXCEPT ![r] = EventKey(l)]
      /\ JoinPending(l, r)
    BY DEF NewRunner
<1>5. /\ runners' \in [Keys -> Runners \cup {None}]
      /\ runners'[EventKey(l)] = r
      /\ \A k \in Keys \ {EventKey(l)} : runners'[k] = runners[k] /\ runners[k] # r
    BY <1>1, <1>2, <1>4 DEF IInv, TypeOK, Unused
<1>6. \A q \in Runners : q # r /\ key[q] = EventKey(l) => IsIdle(q)
    BY <1>2, OtherRunnersIdle, IdentityAssumption
<1>7. QED
    BY <1>1, <1>3, <1>4, <1>5, <1>6, JoinPendingStep

\* A session without a runner gets one, from a known or a new agent session.
LEMMA CreateStep ==
    ASSUME IInv, NEW l \in Loops, SubmitNewRunner(l) \/ CreateSession(l)
    PROVE  IInv'
<1>1. /\ Holds(l) /\ loopPc[l] \in {"lock", "create"}
      /\ runners[EventKey(l)] = None /\ NewRunner(l)
    BY DEF SubmitNewRunner, CreateSession, IInv, LockInv
<1>2. EventKey(l) \in Keys
    BY <1>1, KeyAssumption DEF IInv, LockInv, EventKey
<1>3. agentIds' \subseteq Keys
    BY <1>2 DEF SubmitNewRunner, CreateSession, IInv, TypeOK
<1>4. QED
    BY <1>1, <1>3, NewRunnerStep

-----------------------------------------------------------------------------
(* Tasks *)

\* The owner of a task in the window is the runner whose timer the task is.
LEMMA WaitingTask ==
    ASSUME IInv, NEW t \in Tasks, pc[t] \in Waiting
    PROVE  /\ owner[t] \in Runners /\ debounceTask[owner[t]] = t
           /\ TimerAlive(owner[t]) /\ ~running[owner[t]] /\ ~IsIdle(owner[t])
           /\ \A q \in Runners : debounceTask[q] = t => q = owner[t]
<1>1. owner[t] \in Runners
    BY DEF IInv, TypeOK, OwnerInv, Waiting
<1>2. debounceTask[owner[t]] = t /\ TimerAlive(owner[t])
    BY IdentityAssumption DEF IInv, TimerInv, TimerAlive, Waiting
<1>3. \A q \in Runners : debounceTask[q] = t => q = owner[t]
    BY IdentityAssumption DEF IInv, TimerInv
<1>4. QED
    BY <1>1, <1>2, <1>3 DEF IInv, RunInv, IsIdle

\* A task that is not a timer leaves every timer alone when it ends.
LEMMA OtherTask ==
    ASSUME IInv, NEW t \in Tasks, pc[t] \notin Waiting \cup {"done"}
    PROVE  \A q \in Runners : debounceTask[q] # t
BY IdentityAssumption DEF IInv, TimerInv

\* A task that ends either vanishes or waits for the registry lock.
LEMMA NotifyIdleEffect ==
    ASSUME TypeOK, NEW t \in Tasks, NEW r \in Runners, owner[t] = r,
           NEW idle, NotifyIdle(t, idle)
    PROVE  /\ pc'[t] \in {"idle", "none"}
           /\ owner'[t] = IF pc'[t] = "idle" THEN r ELSE None
           /\ \A u \in Tasks : u # t => pc'[u] = pc[u] /\ owner'[u] = owner[u]
           /\ pc' \in [Tasks -> TaskPcs] /\ owner' \in [Tasks -> Runners \cup {None}]
           /\ left' \in [Tasks -> 0..DebounceTicks] /\ batch' \in [Tasks -> Seq(Events)]
           /\ lockQueue' \in Seq(Procs)
           /\ lockQueue' = lockQueue \/ Acquire(t)
<1>1. 0 \in 0..DebounceTicks /\ << >> \in Seq(Events)
    BY BoundsAssumption
<1>2. "idle" \in TaskPcs /\ "none" \in TaskPcs
    BY DEF TaskPcs
<1>3. CASE idle /\ ~regStopping
    <2>1. /\ pc' = [pc EXCEPT ![t] = "idle"] /\ batch' = [batch EXCEPT ![t] = << >>]
          /\ left' = [left EXCEPT ![t] = 0] /\ Acquire(t) /\ owner' = owner
        BY <1>3 DEF NotifyIdle
    <2>2. lockQueue' \in Seq(Procs)
        BY <2>1, LockQueueType DEF Procs
    <2>3. QED
        BY <1>1, <1>2, <2>1, <2>2 DEF TypeOK
<1>4. CASE ~(idle /\ ~regStopping)
    <2>1. TasksEnd({t}) /\ lockQueue' = lockQueue
        BY <1>4 DEF NotifyIdle
    <2>2. QED
        BY <1>1, <1>2, <2>1 DEF TypeOK, TasksEnd
<1>5. QED
    BY <1>3, <1>4

\* The timer t of r forgets itself: r had nothing pending or was stopped.
LEMMA GiveUpStep ==
    ASSUME IInv, NEW t \in Tasks, pc[t] \in Waiting, GiveUp(t),
           NEW r \in Runners, owner[t] = r, pending[r] = << >> \/ stopping[r],
           UNCHANGED << registryVars, loopVars, shutVars, worldVars >>
    PROVE  IInv'
<1> USE DEF IInv, registryVars, loopVars, shutVars, worldVars
<1>1. /\ debounceTask[r] = t /\ TimerAlive(r) /\ ~running[r]
      /\ \A q \in Runners : debounceTask[q] = t => q = r
    BY WaitingTask
<1>2. /\ debounceTask' = [debounceTask EXCEPT ![r] = None]
      /\ UNCHANGED << key, pending, deadline, running, stopping >>
    BY DEF GiveUp
<1>3. /\ pc'[t] \in {"idle", "none"}
      /\ owner'[t] = IF pc'[t] = "idle" THEN r ELSE None
      /\ \A u \in Tasks : u # t => pc'[u] = pc[u] /\ owner'[u] = owner[u]
    BY NotifyIdleEffect DEF GiveUp
<1>4. /\ pc' \in [Tasks -> TaskPcs] /\ owner' \in [Tasks -> Runners \cup {None}]
      /\ left' \in [Tasks -> 0..DebounceTicks] /\ batch' \in [Tasks -> Seq(Events)]
      /\ lockQueue' \in Seq(Procs)
      /\ lockQueue' = lockQueue \/ Acquire(t)
    BY NotifyIdleEffect DEF GiveUp
<1>5. TypeOK'
    BY <1>1, <1>2, <1>3, <1>4 DEF TypeOK
<1>6. \A q \in Runners : q # r =>
         (TimerAlive(q)' <=> TimerAlive(q)) /\ (IsIdle(q)' <=> IsIdle(q))
    <2> SUFFICES ASSUME NEW q \in Runners, q # r
                 PROVE  (TimerAlive(q)' <=> TimerAlive(q)) /\ (IsIdle(q)' <=> IsIdle(q))
        OBVIOUS
    <2>1. debounceTask'[q] = debounceTask[q] /\ debounceTask[q] # t
        BY <1>1, <1>2 DEF TypeOK
    <2>2. debounceTask[q] # None => pc'[debounceTask[q]] = pc[debounceTask[q]]
        BY <1>3, <2>1 DEF TypeOK
    <2>3. QED
        BY <1>2, <2>1, <2>2 DEF TimerAlive, IsIdle
<1>7. ~IsIdle(r) /\ ~TimerAlive(r)'
    <2>1. ~IsIdle(r)
        BY <1>1 DEF IsIdle
    <2>2. debounceTask'[r] = None
        BY <1>2 DEF TypeOK
    <2>3. QED
        BY <2>1, <2>2 DEF TimerAlive
<1>8. RegistryInv' /\ StopInv'
    BY <1>2 DEF RegistryInv, StopInv
<1>9. OwnerInv'
    BY <1>1, <1>3, IdentityAssumption DEF OwnerInv
<1>10. TimerInv'
    <2>1. \A u \in Tasks : pc'[u] \in Waiting =>
             u # t /\ pc[u] \in Waiting /\ owner'[u] = owner[u] /\ owner[u] # r
        BY <1>1, <1>3 DEF TimerInv, Waiting
    <2>2. \A u \in Tasks : pc'[u] \in Waiting => debounceTask'[owner'[u]] = u
        BY <1>2, <2>1, WaitingTask DEF TypeOK
    <2>3. \A q \in Runners : debounceTask'[q] # None =>
             /\ q # r /\ debounceTask'[q] = debounceTask[q] /\ debounceTask[q] # t
             /\ debounceTask[q] \in Tasks
        BY <1>1, <1>2 DEF TypeOK
    <2>4. QED
        BY <1>3, <2>2, <2>3 DEF TimerInv
<1>11. RunInv'
    <2>1. \A u \in Tasks : pc'[u] \in Serving => pc[u] = pc'[u] /\ owner'[u] = owner[u]
        BY <1>3 DEF Serving
    <2>2. \A q \in Runners : running[q] => ~TimerAlive(q)'
        BY <1>1, <1>6 DEF RunInv
    <2>3. QED
        BY <1>2, <2>1, <2>2 DEF RunInv
<1>12. BusyInv'
    BY <1>2, <1>6, <1>7 DEF BusyInv
<1>13. LockInv'
    BY <1>4, AcquireKeepsHolder DEF LockInv, EventKey, Procs, Holds
<1>14. PendingHasTimer'
    <2>1. ASSUME NEW q \in Runners, pending'[q] # << >>, ~stopping'[q]
          PROVE  /\ q # r /\ debounceTask'[q] = debounceTask[q]
                 /\ debounceTask[q] \in Tasks /\ debounceTask[q] # t
        BY <1>1, <1>2, <2>1 DEF PendingHasTimer, TypeOK
    <2>2. QED
        BY <1>2, <1>3, <2>1 DEF PendingHasTimer
<1>15. DroppedRunnerIsIdle'
    BY <1>1, <1>6, <1>7 DEF DroppedRunnerIsIdle
<1>16. QED
    BY <1>5, <1>8, <1>9, <1>10, <1>11, <1>12, <1>13, <1>14, <1>15

\* The top of the loop of _debounce_then_run.
LEMMA SleepStep ==
    ASSUME IInv, NEW t \in Tasks, pc[t] \in Waiting, SleepUntilDeadline(t),
           UNCHANGED << registryVars, loopVars, shutVars, worldVars >>
    PROVE  IInv'
<1> USE DEF IInv
<1>1. PICK r \in Runners : owner[t] = r /\ debounceTask[r] = t /\ TimerAlive(r)
                           /\ \A q \in Runners : debounceTask[q] = t => q = r
    BY WaitingTask
<1>2. CASE ~stopping[r] /\ deadline[r] = NoDeadline
    BY <1>1, <1>2, GiveUpStep DEF SleepUntilDeadline, PendingHasTimer
<1>3. CASE stopping[r] \/ deadline[r] # NoDeadline
    <2> USE DEF registryVars, runnerVars, loopVars, shutVars, worldVars
    <2>1. /\ UNCHANGED << runnerVars, owner, batch, lockQueue >>
          /\ pc' = [pc EXCEPT ![t] = IF stopping[r] THEN "done" ELSE "sleep"]
          /\ left' = left \/ (deadline[r] # NoDeadline /\ left' = [left EXCEPT ![t] = deadline[r]])
        BY <1>1, <1>3 DEF SleepUntilDeadline
    <2>2. TypeOK'
        <3>1. deadline[r] # NoDeadline => deadline[r] \in 0..DebounceTicks
            BY BoundsAssumption DEF TypeOK, NoDeadline
        <3>2. left' \in [Tasks -> 0..DebounceTicks]
            BY <2>1, <3>1 DEF TypeOK
        <3>3. QED
            BY <2>1, <3>2 DEF TypeOK, TaskPcs, Waiting
    <2>3. \A u \in Tasks : u # t => pc'[u] = pc[u]
        BY <2>1 DEF TypeOK
    <2>4. pc'[t] = IF stopping[r] THEN "done" ELSE "sleep"
        BY <2>1 DEF TypeOK
    <2>5. \A q \in Runners :
            /\ TimerAlive(q)' => TimerAlive(q)
            /\ IsIdle(q) => IsIdle(q)'
        BY <1>1, <2>1, <2>3 DEF TimerAlive, IsIdle, TypeOK, Waiting
    <2>6. RegistryInv' /\ OwnerInv' /\ StopInv' /\ LockInv'
        BY <1>1, <2>1, <2>3, <2>4, IdentityAssumption
        DEF RegistryInv, OwnerInv, StopInv, LockInv, EventKey, Holds, Waiting
    <2>7. TimerInv'
        BY <1>1, <2>1, <2>3, <2>4 DEF TimerInv, Waiting, TypeOK
    <2>8. RunInv'
        BY <2>1, <2>3, <2>4, <2>5 DEF RunInv, Serving
    <2>9. BusyInv' /\ DroppedRunnerIsIdle'
        BY <2>1, <2>5 DEF BusyInv, DroppedRunnerIsIdle
    <2>10. PendingHasTimer'
        BY <1>1, <2>1, <2>3, <2>4 DEF PendingHasTimer, Waiting, TypeOK
    <2>11. QED
        BY <2>2, <2>6, <2>7, <2>8, <2>9, <2>10
<1>4. QED
    BY <1>2, <1>3

\* The pending events become the batch of a run: no other run of r is in progress,
\* because r still had a timer.
LEMMA TakeBatchStep ==
    ASSUME IInv, NEW t \in Tasks, pc[t] \in Waiting, TakeBatch(t),
           UNCHANGED << registryVars, loopVars, shutVars, worldVars >>
    PROVE  IInv'
<1> USE DEF IInv, registryVars, loopVars, shutVars, worldVars
<1>1. PICK r \in Runners : /\ owner[t] = r /\ debounceTask[r] = t /\ TimerAlive(r)
                           /\ ~running[r] /\ ~IsIdle(r)
                           /\ \A q \in Runners : debounceTask[q] = t => q = r
    BY WaitingTask
<1>2. /\ batch' = [batch EXCEPT ![t] = pending[r]]
      /\ pending' = [pending EXCEPT ![r] = << >>]
      /\ running' = [running EXCEPT ![r] = TRUE]
      /\ deadline' = [deadline EXCEPT ![r] = NoDeadline]
      /\ debounceTask' = [debounceTask EXCEPT ![r] = None]
      /\ pc' = [pc EXCEPT ![t] = "convert"]
      /\ UNCHANGED << key, stopping, owner, left, lockQueue >>
    BY <1>1 DEF TakeBatch
<1>3. TypeOK'
    <2>1. /\ pending[r] \in Seq(Events) /\ << >> \in Seq(Events)
          /\ NoDeadline \in NoDeadline..DebounceTicks /\ "convert" \in TaskPcs
        BY BoundsAssumption DEF TypeOK, NoDeadline, TaskPcs, Serving
    <2>2. QED
        BY <1>2, <2>1 DEF TypeOK
<1>4. /\ pc'[t] = "convert" /\ running'[r] /\ debounceTask'[r] = None /\ pending'[r] = << >>
      /\ \A u \in Tasks : u # t => pc'[u] = pc[u]
      /\ \A q \in Runners : q # r =>
            /\ running'[q] = running[q] /\ debounceTask'[q] = debounceTask[q]
            /\ pending'[q] = pending[q] /\ deadline'[q] = deadline[q]
    BY <1>2 DEF TypeOK
<1>5. \A q \in Runners : q # r =>
         (TimerAlive(q)' <=> TimerAlive(q)) /\ (IsIdle(q)' <=> IsIdle(q))
    BY <1>1, <1>4 DEF TimerAlive, IsIdle, TypeOK
<1>6. RegistryInv' /\ OwnerInv' /\ StopInv' /\ LockInv'
    BY <1>1, <1>2, <1>4, IdentityAssumption
    DEF RegistryInv, OwnerInv, StopInv, LockInv, EventKey, Holds, Waiting
<1>7. TimerInv'
    <2>1. \A u \in Tasks : pc'[u] \in Waiting => u # t /\ owner[u] # r
        BY <1>1, <1>4 DEF TimerInv, Waiting
    <2>2. \A u \in Tasks : pc'[u] \in Waiting => owner[u] \in Runners
        BY <2>1, <1>4, WaitingTask
    <2>3. QED
        BY <1>1, <1>2, <1>4, <2>1, <2>2 DEF TimerInv, TypeOK
<1>8. RunInv'
    <2>1. \A u \in Tasks : pc[u] \in Serving => owner[u] # r
        BY <1>1 DEF RunInv
    <2>2. \A u \in Tasks : pc[u] \in Serving => owner[u] \in Runners
        BY DEF TypeOK, OwnerInv, Serving
    <2>3. ~TimerAlive(r)'
        BY <1>4 DEF TimerAlive
    <2>4. QED
        BY <1>1, <1>2, <1>4, <1>5, <2>1, <2>2, <2>3 DEF RunInv
<1>9. BusyInv' /\ DroppedRunnerIsIdle'
    BY <1>1, <1>2, <1>5 DEF BusyInv, DroppedRunnerIsIdle
<1>10. PendingHasTimer'
    BY <1>1, <1>2, <1>4 DEF PendingHasTimer, TypeOK
<1>11. QED
    BY <1>3, <1>6, <1>7, <1>8, <1>9, <1>10

\* A timer starts, or wakes: it sleeps, gives up or takes the batch.
LEMMA TimerStep ==
    ASSUME IInv, NEW t \in Tasks, StartTimer(t) \/ WakeTimer(t)
    PROVE  IInv'
<1>1. pc[t] \in Waiting
    BY DEF StartTimer, WakeTimer, Waiting
<1>2. CASE SleepUntilDeadline(t)
    BY <1>1, <1>2, SleepStep DEF StartTimer, WakeTimer
<1>3. CASE TakeBatch(t)
    BY <1>1, <1>3, TakeBatchStep DEF StartTimer, WakeTimer
<1>4. CASE ~SleepUntilDeadline(t) /\ ~TakeBatch(t)
    <2>1. PICK r \in Runners : owner[t] = r
        BY <1>1, WaitingTask
    <2>2. GiveUp(t) /\ (deadline[r] = NoDeadline \/ pending[r] = << >>)
        BY <1>4, <2>1 DEF StartTimer, WakeTimer
    <2>3. pending[r] = << >> \/ stopping[r]
        BY <2>2 DEF IInv, PendingHasTimer
    <2>4. QED
        BY <1>1, <1>4, <2>1, <2>2, <2>3, GiveUpStep DEF StartTimer, WakeTimer
<1>5. QED
    BY <1>2, <1>3, <1>4

\* A run moves on to its next HTTP call.
LEMMA ProgressStep ==
    ASSUME IInv, NEW t \in Tasks, CallAgent(t) \/ AgentReplies(t)
    PROVE  IInv'
<1> USE DEF IInv, registryVars, runnerVars, loopVars, shutVars, worldVars
<1>1. PICK v \in {"chat", "send"} : pc' = [pc EXCEPT ![t] = v]
    BY DEF CallAgent, AgentReplies
<1>2. /\ UNCHANGED << registryVars, lockQueue, runnerVars, owner, left, batch, loopVars,
                      shutVars, arrived, asked, lost, quiet, newest >>
      /\ pc[t] \in Serving /\ pc'[t] = v
      /\ \A u \in Tasks : u # t => pc'[u] = pc[u]
    BY <1>1 DEF CallAgent, AgentReplies, Serving, TypeOK
<1>3. TypeOK'
    <2>1. sent' \in [Keys -> Seq(Events)]
        <3>1. batch[t] \in Seq(Events) /\ \A k \in Keys : sent[k] \in Seq(Events)
            BY DEF TypeOK
        <3>2. \A k \in Keys : sent[k] \o batch[t] \in Seq(Events)
            BY <3>1, ConcatProperties
        <3>3. CASE CallAgent(t)
            <4> DEFINE k0 == key[owner[t]]
            <4>1. sent' = [sent EXCEPT ![k0] = sent[k0] \o batch[t]]
                BY <3>3 DEF CallAgent
            <4>2. k0 \in Keys => sent[k0] \o batch[t] \in Seq(Events)
                BY <3>2
            <4> HIDE DEF k0
            <4>3. QED
                BY <4>1, <4>2 DEF TypeOK
        <3>4. CASE AgentReplies(t)
            BY <3>4 DEF TypeOK, AgentReplies
        <3>5. QED
            BY <3>3, <3>4
    <2>2. QED
        BY <1>1, <1>2, <2>1 DEF TypeOK, TaskPcs, Serving
<1>4. \A q \in Runners : (TimerAlive(q)' <=> TimerAlive(q)) /\ (IsIdle(q)' <=> IsIdle(q))
    <2>1. \A q \in Runners : debounceTask[q] # t
        BY <1>2, OtherTask DEF Serving, Waiting
    <2>2. QED
        BY <1>2, <2>1 DEF TimerAlive, IsIdle, TypeOK
<1>5. RegistryInv' /\ OwnerInv' /\ StopInv' /\ LockInv'
    BY <1>2 DEF RegistryInv, OwnerInv, StopInv, LockInv, EventKey, Holds, Serving
<1>6. \A q \in Runners : debounceTask[q] # None =>
         debounceTask[q] \in Tasks /\ debounceTask[q] # t
    BY <1>2, OtherTask DEF Serving, Waiting, TypeOK
<1>7. TimerInv'
    BY <1>2, <1>6 DEF TimerInv, Waiting, Serving
<1>8. RunInv'
    BY <1>2, <1>4 DEF RunInv, Serving
<1>9. BusyInv' /\ DroppedRunnerIsIdle'
    BY <1>2, <1>4 DEF BusyInv, DroppedRunnerIsIdle
<1>10. PendingHasTimer'
    BY <1>2, <1>6 DEF PendingHasTimer
<1>11. QED
    BY <1>3, <1>5, <1>7, <1>8, <1>9, <1>10

\* A run ends: nothing is pending in its runner, so no window is opened here.
LEMMA RunEndsStep ==
    ASSUME IInv, NEW t \in Tasks, RunEnds(t)
    PROVE  IInv'
<1> USE DEF IInv, registryVars, loopVars, shutVars, worldVars
<1>1. pc[t] \in Serving
    BY DEF RunEnds, Serving
<1>2. PICK r \in Runners : owner[t] = r
    BY <1>1 DEF TypeOK, OwnerInv, Serving
<1>3. running[r] /\ pending[r] = << >> /\ ~TimerAlive(r)
    BY <1>1, <1>2 DEF RunInv
<1>4. /\ NotifyIdle(t, pending[r] = << >> /\ ~TimerAlive(r))
      /\ running' = [running EXCEPT ![r] = FALSE]
      /\ UNCHANGED << registryVars, key, pending, deadline, debounceTask, stopping,
                      loopVars, shutVars, worldVars >>
    BY <1>2, <1>3 DEF RunEnds
<1>5. /\ pc'[t] \in {"idle", "none"}
      /\ owner'[t] = IF pc'[t] = "idle" THEN r ELSE None
      /\ \A u \in Tasks : u # t => pc'[u] = pc[u] /\ owner'[u] = owner[u]
    BY <1>2, <1>4, NotifyIdleEffect
<1>6. /\ pc' \in [Tasks -> TaskPcs] /\ owner' \in [Tasks -> Runners \cup {None}]
      /\ left' \in [Tasks -> 0..DebounceTicks] /\ batch' \in [Tasks -> Seq(Events)]
      /\ lockQueue' \in Seq(Procs)
      /\ lockQueue' = lockQueue \/ Acquire(t)
    BY <1>2, <1>4, NotifyIdleEffect
<1>7. TypeOK'
    BY <1>4, <1>6 DEF TypeOK
<1>8. \A q \in Runners :
        /\ debounceTask[q] # t /\ debounceTask[q] \in Tasks \cup {None}
        /\ TimerAlive(q)' <=> TimerAlive(q)
        /\ IsIdle(q) => IsIdle(q)'
        /\ q # r => running'[q] = running[q]
    <2>1. \A q \in Runners : debounceTask[q] # t
        BY <1>1, OtherTask DEF Serving, Waiting
    <2>2. QED
        BY <1>4, <1>5, <2>1 DEF TimerAlive, IsIdle, TypeOK
<1>9. RegistryInv' /\ OwnerInv' /\ StopInv'
    BY <1>4, <1>5, IdentityAssumption DEF RegistryInv, OwnerInv, StopInv
<1>10. LockInv'
    BY <1>4, <1>6, AcquireKeepsHolder DEF LockInv, EventKey, Procs, Holds
<1>11. TimerInv'
    <2>1. \A u \in Tasks : pc'[u] \in Waiting => u # t
        BY <1>5 DEF Waiting
    <2>2. \A u \in Tasks : pc'[u] \in Waiting => debounceTask'[owner'[u]] = u
        BY <1>4, <1>5, <2>1 DEF TimerInv
    <2>3. QED
        BY <1>4, <1>5, <1>8, <2>2 DEF TimerInv
<1>12. RunInv'
    <2>1. \A u \in Tasks : pc'[u] \in Serving => u # t /\ pc[u] \in Serving /\ owner[u] # r
        BY <1>1, <1>2, <1>5 DEF RunInv, Serving
    <2>2. \A u \in Tasks : pc'[u] \in Serving => owner[u] \in Runners
        BY <2>1 DEF TypeOK, OwnerInv, Serving
    <2>3. \A q \in Runners : running'[q] => running[q]
        BY <1>4 DEF TypeOK
    <2>4. \A u \in Tasks : pc'[u] \in Serving => running'[owner'[u]]
        BY <1>4, <1>5, <2>1, <2>2 DEF RunInv, TypeOK
    <2>5. \A u, w \in Tasks :
            pc'[u] \in Serving /\ pc'[w] \in Serving /\ owner'[u] = owner'[w] => u = w
        BY <1>5, <2>1 DEF RunInv
    <2>6. \A q \in Runners : running'[q] => pending'[q] = << >> /\ ~TimerAlive(q)'
        BY <1>4, <1>8, <2>3 DEF RunInv
    <2>7. QED
        BY <2>4, <2>5, <2>6 DEF RunInv
<1>13. BusyInv' /\ DroppedRunnerIsIdle'
    BY <1>4, <1>8 DEF BusyInv, DroppedRunnerIsIdle
<1>14. PendingHasTimer'
    BY <1>4, <1>5, <1>8 DEF PendingHasTimer
<1>15. QED
    BY <1>7, <1>9, <1>10, <1>11, <1>12, <1>13, <1>14

\* The idle callback, with the lock, drops a registered runner that is idle.
LEMMA OnRunnerIdleStep ==
    ASSUME IInv, NEW t \in Tasks, OnRunnerIdle(t)
    PROVE  IInv'
<1> USE DEF IInv, runnerVars, loopVars, shutVars, worldVars
<1>1. /\ pc[t] = "idle" /\ Holds(t) /\ Release /\ TasksEnd({t})
      /\ runners' = [k \in Keys |-> IF DropsEntry(owner[t], k) THEN None ELSE runners[k]]
      /\ UNCHANGED << agentIds, regStopping, runnerVars, loopVars, shutVars, worldVars >>
    BY DEF OnRunnerIdle
<1>2. /\ pc'[t] = "none" /\ owner'[t] = None
      /\ \A u \in Tasks : u # t => pc'[u] = pc[u] /\ owner'[u] = owner[u]
    BY <1>1 DEF TasksEnd
<1>3. \A k \in Keys : runners'[k] # runners[k] =>
         runners'[k] = None /\ IsIdle(runners[k]) /\ ~regStopping
    BY <1>1 DEF DropsEntry
<1>4. TypeOK'
    <2>1. lockQueue' \in Seq(Procs)
        BY <1>1, LockQueueType DEF Procs
    <2>2. << >> \in Seq(Events) /\ 0 \in 0..DebounceTicks /\ "none" \in TaskPcs
        BY BoundsAssumption DEF TaskPcs
    <2>3. /\ pc' \in [Tasks -> TaskPcs] /\ owner' \in [Tasks -> Runners \cup {None}]
          /\ left' \in [Tasks -> 0..DebounceTicks] /\ batch' \in [Tasks -> Seq(Events)]
        BY <1>1, <2>2 DEF TasksEnd, TypeOK
    <2>4. runners' \in [Keys -> Runners \cup {None}]
        BY <1>1 DEF TypeOK
    <2>5. QED
        BY <1>1, <2>1, <2>3, <2>4 DEF TypeOK
<1>5. \A q \in Runners :
        /\ debounceTask[q] # t /\ debounceTask[q] \in Tasks \cup {None}
        /\ TimerAlive(q)' <=> TimerAlive(q)
        /\ IsIdle(q)' <=> IsIdle(q)
    <2>1. \A q \in Runners : debounceTask[q] # t
        BY <1>1, OtherTask DEF Waiting
    <2>2. QED
        BY <1>1, <1>2, <2>1 DEF TimerAlive, IsIdle, TypeOK
<1>6. RegistryInv' /\ StopInv'
    BY <1>1, <1>3 DEF RegistryInv, StopInv
<1>7. OwnerInv'
    BY <1>2 DEF OwnerInv
<1>8. TimerInv'
    <2>1. \A u \in Tasks : pc'[u] \in Waiting => u # t
        BY <1>2 DEF Waiting
    <2>2. QED
        BY <1>1, <1>2, <1>5, <2>1 DEF TimerInv
<1>9. RunInv'
    <2>1. \A u \in Tasks : pc'[u] \in Serving => u # t
        BY <1>2 DEF Serving
    <2>2. QED
        BY <1>1, <1>2, <1>5, <2>1 DEF RunInv
<1>10. BusyInv'
    BY <1>1, <1>5 DEF BusyInv
<1>11. LockInv'
    <2>1. \A m \in Loops : loopPc[m] \notin {"queue", "create"}
        BY <1>1, IdentityAssumption DEF LockInv, Holds
    <2>2. QED
        BY <1>1, <2>1 DEF LockInv
<1>12. PendingHasTimer'
    BY <1>1, <1>2, <1>5 DEF PendingHasTimer
<1>13. DroppedRunnerIsIdle'
    BY <1>1, <1>3, <1>5, IdentityAssumption DEF DroppedRunnerIsIdle
<1>14. QED
    BY <1>4, <1>6, <1>7, <1>8, <1>9, <1>10, <1>11, <1>12, <1>13

-----------------------------------------------------------------------------
(* Shutdown and time *)

\* The shutdown hook sets _stopping when no event is being submitted.
LEMMA BeginShutdownStep ==
    ASSUME IInv, BeginShutdown
    PROVE  IInv'
<1> USE DEF IInv, BeginShutdown, runnerVars, taskVars, loopVars, worldVars
<1>1. TypeOK'
    <2>1. lockQueue' \in Seq(Procs)
        BY LockQueueType DEF Procs
    <2>2. QED
        BY <2>1 DEF TypeOK
<1>2. RegistryInv' /\ OwnerInv' /\ TimerInv' /\ RunInv'
    BY DEF RegistryInv, OwnerInv, TimerInv, RunInv, TimerAlive
<1>3. BusyInv' /\ DroppedRunnerIsIdle' /\ PendingHasTimer'
    BY DEF BusyInv, DroppedRunnerIsIdle, PendingHasTimer, IsIdle, TimerAlive
<1>4. StopInv' /\ LockInv'
    BY DEF StopInv, LockInv
<1>5. QED
    BY <1>1, <1>2, <1>3, <1>4

\* The shutdown empties the registry.
LEMMA ClearRunnersStep ==
    ASSUME IInv, ClearRunners
    PROVE  IInv'
<1> USE DEF IInv, ClearRunners, runnerVars, taskVars, loopVars, worldVars
<1>1. regStopping /\ regStopping' = regStopping
    BY DEF StopInv
<1>2. TypeOK'
    <2>1. lockQueue' \in Seq(Procs)
        BY LockQueueType DEF Procs
    <2>2. QED
        BY <2>1 DEF TypeOK
<1>3. RegistryInv' /\ OwnerInv' /\ TimerInv' /\ RunInv'
    BY DEF RegistryInv, OwnerInv, TimerInv, RunInv, TimerAlive
<1>4. BusyInv' /\ DroppedRunnerIsIdle' /\ PendingHasTimer'
    BY <1>1 DEF BusyInv, DroppedRunnerIsIdle, PendingHasTimer, IsIdle, TimerAlive
<1>5. StopInv' /\ LockInv'
    BY <1>1 DEF StopInv, LockInv
<1>6. QED
    BY <1>2, <1>3, <1>4, <1>5

\* The shutdown stops one runner and cancels its timer.
LEMMA StopRunnerStep ==
    ASSUME IInv, NEW r \in Runners, StopRunner(r)
    PROVE  IInv'
<1> USE DEF IInv, registryVars, loopVars, worldVars
<1>1. /\ stopping' = [stopping EXCEPT ![r] = TRUE]
      /\ pc' = [t \in Tasks |-> IF t \in Timer(r) THEN "done" ELSE pc[t]]
      /\ toStop' = toStop \ {r} /\ r \in toStop
      /\ UNCHANGED << registryVars, lockQueue, key, pending, deadline, debounceTask, running,
                      owner, left, batch, loopVars, shutPc, worldVars >>
    BY DEF StopRunner
<1>2. shutPc = "runners" /\ regStopping
    BY <1>1 DEF StopInv
<1>3. \A t \in Timer(r) : debounceTask[r] = t /\ pc[t] \in Waiting /\ owner[t] = r
    BY DEF Timer, TimerAlive, TimerInv
<1>4. \A t \in Tasks : pc'[t] = IF t \in Timer(r) THEN "done" ELSE pc[t]
    BY <1>1
<1>5. stopping'[r] /\ \A q \in Runners : q # r => stopping'[q] = stopping[q]
    BY <1>1 DEF TypeOK
<1>6. TypeOK'
    BY <1>1 DEF TypeOK, TaskPcs
<1>7. \A q \in Runners :
        /\ debounceTask[q] \in Tasks \cup {None}
        /\ TimerAlive(q)' => TimerAlive(q)
        /\ IsIdle(q) => IsIdle(q)'
    BY <1>1, <1>4 DEF TimerAlive, IsIdle, TypeOK
<1>8. RegistryInv' /\ StopInv' /\ LockInv'
    BY <1>1, <1>2, <1>5 DEF RegistryInv, StopInv, LockInv, EventKey, Holds
<1>9. OwnerInv'
    BY <1>1, <1>3, <1>4 DEF OwnerInv, Waiting
<1>10. TimerInv'
    <2>1. \A t \in Tasks : pc'[t] \in Waiting => pc[t] \in Waiting
        BY <1>4 DEF Waiting
    <2>2. QED
        BY <1>1, <1>4, <1>7, <2>1 DEF TimerInv
<1>11. RunInv'
    <2>1. \A t \in Tasks : pc'[t] \in Serving => pc[t] = pc'[t]
        BY <1>4 DEF Serving
    <2>2. QED
        BY <1>1, <1>7, <2>1 DEF RunInv
<1>12. BusyInv' /\ DroppedRunnerIsIdle'
    BY <1>1, <1>2, <1>7 DEF BusyInv, DroppedRunnerIsIdle
<1>13. PendingHasTimer'
    <2>1. ASSUME NEW q \in Runners, pending'[q] # << >>, ~stopping'[q]
          PROVE  /\ q # r /\ debounceTask[q] \in Tasks
                 /\ pc[debounceTask[q]] \in Waiting /\ owner[debounceTask[q]] = q
                 /\ debounceTask[q] # None /\ deadline[q] # NoDeadline
        BY <1>1, <1>5, <1>7, <2>1 DEF PendingHasTimer
    <2>2. \A q \in Runners : q # r /\ owner[debounceTask[q]] = q => debounceTask[q] \notin Timer(r)
        BY <1>3
    <2>3. QED
        BY <1>1, <1>4, <2>1, <2>2 DEF PendingHasTimer
<1>14. QED
    BY <1>6, <1>8, <1>9, <1>10, <1>11, <1>12, <1>13

\* A reached deadline stays a deadline: no clock tick makes it None.
LEMMA TickStep ==
    ASSUME IInv, Tick
    PROVE  IInv'
<1> USE DEF IInv, registryVars, loopVars, shutVars
<1>1. \A r \in Runners :
        /\ deadline'[r] \in NoDeadline..DebounceTicks
        /\ deadline[r] # NoDeadline => deadline'[r] # NoDeadline
    BY BoundsAssumption DEF Tick, TypeOK, Countdown, NoDeadline
<1>2. \A t \in Tasks : left'[t] \in 0..DebounceTicks
    BY BoundsAssumption DEF Tick, TypeOK, Countdown
<1>3. \A k \in Keys : quiet'[k] \in 0..DebounceTicks
    BY BoundsAssumption DEF Tick, TypeOK
<1>4. UNCHANGED << registryVars, lockQueue, key, pending, debounceTask, running, stopping,
                   pc, owner, batch, loopVars, shutVars, arrived, sent, asked, lost, newest >>
    BY DEF Tick
<1>5. TypeOK'
    <2>1. /\ deadline' \in [Runners -> NoDeadline..DebounceTicks]
          /\ left' \in [Tasks -> 0..DebounceTicks] /\ quiet' \in [Keys -> 0..DebounceTicks]
        BY <1>1, <1>2, <1>3 DEF Tick
    <2>2. QED
        BY <1>4, <2>1 DEF TypeOK
<1>6. RegistryInv' /\ OwnerInv' /\ TimerInv' /\ RunInv' /\ BusyInv' /\ DroppedRunnerIsIdle'
    BY <1>4 DEF RegistryInv, OwnerInv, TimerInv, RunInv, BusyInv, DroppedRunnerIsIdle,
                IsIdle, TimerAlive
<1>7. StopInv' /\ LockInv'
    BY <1>4 DEF StopInv, LockInv, EventKey, Holds
<1>8. PendingHasTimer'
    BY <1>1, <1>4 DEF PendingHasTimer
<1>9. QED
    BY <1>5, <1>6, <1>7, <1>8

\* A step that changes nothing.
LEMMA StutterStep ==
    ASSUME IInv, UNCHANGED vars
    PROVE  IInv'
<1> USE DEF IInv, vars, registryVars, runnerVars, taskVars, loopVars, shutVars, worldVars
<1>1. TypeOK'
    BY DEF TypeOK
<1>2. RegistryInv' /\ OwnerInv' /\ TimerInv' /\ RunInv'
    BY DEF RegistryInv, OwnerInv, TimerInv, RunInv, TimerAlive
<1>3. BusyInv' /\ DroppedRunnerIsIdle' /\ PendingHasTimer'
    BY DEF BusyInv, DroppedRunnerIsIdle, PendingHasTimer, IsIdle, TimerAlive
<1>4. StopInv' /\ LockInv'
    BY DEF StopInv, LockInv, EventKey, Holds
<1>5. QED
    BY <1>1, <1>2, <1>3, <1>4

-----------------------------------------------------------------------------
(* Theorems *)

\* Every step of the scheduler keeps the invariant.
LEMMA NextIInv == IInv /\ [Next]_vars => IInv'
<1> SUFFICES ASSUME IInv, [Next]_vars PROVE IInv'
    OBVIOUS
<1>1. ASSUME NEW l \in Loops, Receive(l) \/ LoopStep(l) PROVE IInv'
    BY <1>1, ReceiveStep, SubmitPendingStep, SubmitRunningStep, SubmitUnknownStep,
       QueueMessageStep, CreateStep
    DEF LoopStep
<1>2. ASSUME NEW t \in Tasks, TaskStep(t) PROVE IInv'
    BY <1>2, TimerStep, ProgressStep, RunEndsStep, OnRunnerIdleStep DEF TaskStep
<1>3. ASSUME BeginShutdown \/ ShutdownStep PROVE IInv'
    BY <1>3, BeginShutdownStep, ClearRunnersStep, StopRunnerStep DEF ShutdownStep
<1>4. CASE Tick
    BY <1>4, TickStep
<1>5. CASE Terminated \/ UNCHANGED vars
    BY <1>5, StutterStep DEF Terminated
<1>6. QED
    BY <1>1, <1>2, <1>3, <1>4, <1>5 DEF Next

\* The inductive invariant of the scheduler.
THEOREM Invariance == Spec => []IInv
BY InitIInv, NextIInv, PTL DEF Spec

\* Every variable keeps its type.
THEOREM TypeCorrect == Spec => []TypeOK
<1>1. IInv => TypeOK
    BY DEF IInv
<1>2. QED
    BY <1>1, Invariance, PTL

\* Two runs of one session would make two busy runner objects of that session, or two
\* runs in one object.
LEMMA RunIsUnique == IInv => AtMostOneRun
<1> SUFFICES ASSUME IInv, NEW k \in Keys, NEW t \in RunsOf(k), NEW u \in RunsOf(k)
             PROVE  t = u
    BY DEF AtMostOneRun
<1>1. /\ t \in Tasks /\ pc[t] \in Serving /\ owner[t] \in Runners /\ key[owner[t]] = k
      /\ u \in Tasks /\ pc[u] \in Serving /\ owner[u] \in Runners /\ key[owner[u]] = k
    BY DEF RunsOf, IInv, TypeOK, OwnerInv, Serving
<1>2. ~IsIdle(owner[t]) /\ ~IsIdle(owner[u])
    BY <1>1 DEF IInv, RunInv, IsIdle
<1>3. owner[t] = owner[u]
    BY <1>1, <1>2 DEF IInv, BusyInv
<1>4. QED
    BY <1>1, <1>3 DEF IInv, RunInv

\* A session has at most one run, and so at most one /chat, at any time, over all the
\* runner objects it has had.
THEOREM OneRunPerSession == Spec => []AtMostOneRun
BY Invariance, RunIsUnique, PTL

\* No wake-up is lost: messages that wait have a live timer.
THEOREM NoLostWakeup == Spec => []PendingHasTimer
<1>1. IInv => PendingHasTimer
    BY DEF IInv
<1>2. QED
    BY <1>1, Invariance, PTL

\* No work is stranded in a runner the registry has dropped.
THEOREM NoStrandedRunner == Spec => []DroppedRunnerIsIdle
<1>1. IInv => DroppedRunnerIsIdle
    BY DEF IInv
<1>2. QED
    BY <1>1, Invariance, PTL

\* A step that changes an entry of the registry fills an empty one, or empties it under
\* the idle callback's checks or at shutdown.
LEMMA EntryStep == IInv /\ [Next]_vars => [LetsGoOfIdle]_vars
<1> SUFFICES ASSUME IInv, Next PROVE LetsGoOfIdle
    OBVIOUS
<1>1. CASE runners' = runners
    BY <1>1 DEF LetsGoOfIdle
<1>2. ASSUME NEW l \in Loops, NewRunner(l), runners[EventKey(l)] = None
      PROVE  LetsGoOfIdle
    BY <1>2 DEF NewRunner, LetsGoOfIdle, IInv, TypeOK
<1>3. ASSUME NEW l \in Loops, Receive(l) \/ LoopStep(l) PROVE LetsGoOfIdle
    <2>1. CASE SubmitNewRunner(l)
        BY <1>2, <2>1 DEF SubmitNewRunner
    <2>2. CASE CreateSession(l)
        BY <1>2, <2>2 DEF CreateSession, IInv, LockInv
    <2>3. CASE Receive(l) \/ SubmitPending(l)
        BY <1>1, <2>3 DEF Receive, SubmitPending, registryVars
    <2>4. CASE SubmitRunning(l) \/ SubmitUnknown(l)
        BY <1>1, <2>4 DEF SubmitRunning, SubmitUnknown, registryVars
    <2>5. CASE QueueMessage(l) \/ QueueMessageFails(l) \/ CreateSessionFails(l)
        BY <1>1, <2>5 DEF QueueMessage, QueueMessageFails, CreateSessionFails, registryVars
    <2>6. QED
        BY <1>3, <2>1, <2>2, <2>3, <2>4, <2>5 DEF LoopStep
<1>4. ASSUME NEW t \in Tasks, TaskStep(t) PROVE LetsGoOfIdle
    <2>1. CASE OnRunnerIdle(t)
        BY <2>1 DEF OnRunnerIdle, DropsEntry, LetsGoOfIdle
    <2>2. CASE StartTimer(t) \/ WakeTimer(t)
        BY <1>1, <2>2 DEF StartTimer, WakeTimer, registryVars
    <2>3. CASE CallAgent(t) \/ AgentReplies(t) \/ RunEnds(t)
        BY <1>1, <2>3 DEF CallAgent, AgentReplies, RunEnds, registryVars
    <2>4. QED
        BY <1>4, <2>1, <2>2, <2>3 DEF TaskStep
<1>5. CASE ClearRunners
    BY <1>5 DEF ClearRunners, LetsGoOfIdle, IInv, StopInv
<1>6. CASE BeginShutdown \/ (\E r \in Runners : StopRunner(r)) \/ Tick \/ Terminated
    BY <1>1, <1>6 DEF BeginShutdown, StopRunner, Tick, Terminated, vars, registryVars
<1>7. QED
    BY <1>3, <1>4, <1>5, <1>6 DEF Next, ShutdownStep

\* The registry lets go of a runner only when it is idle or at shutdown, and never
\* swaps one runner for another.
THEOREM OnlyIdleRunnersAreDropped == Spec => RunnerDroppedIdle
BY Invariance, EntryStep, PTL DEF Spec, RunnerDroppedIdle

=============================================================================

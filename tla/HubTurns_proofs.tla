--------------------------- MODULE HubTurns_proofs ---------------------------
(***************************************************************************)
(* Proofs that the scheduler of HubSessions keeps the promise of           *)
(* SessionTurns: every step of its registry, runner objects, tasks and     *)
(* locks is a step of one orderly queue per session, or invisible; and     *)
(* that every event that arrived is in exactly one place.                  *)
(***************************************************************************)
EXTENDS HubOrder_proofs, FiniteSetTheorems

\* A stopped runner has no timer that could still take its pending events.
StoppedInv == \A r \in Runners : stopping[r] => ~TimerAlive(r)

\* What SessionTurns is told: the one runner with pending events, the one run.
ViewFacts ==
    \A k \in Keys :
        /\ \A r \in WaitingRunners(k) : WaitingIn(k) = pending[r]
        /\ WaitingRunners(k) = {} => WaitingIn(k) = << >>
        /\ \A t \in RunsOf(k) : ServingIn(k) = batch[t]
        /\ RunsOf(k) = {} => ServingIn(k) = << >>

TurnsInv == IInv /\ OrderInv /\ StoppedInv

\* A session has at most one runner with pending events and at most one run.
LEMMA ViewIsUnique == IInv => ViewFacts
<1> SUFFICES ASSUME IInv, NEW k \in Keys
             PROVE  /\ \A r \in WaitingRunners(k) : WaitingIn(k) = pending[r]
                    /\ WaitingRunners(k) = {} => WaitingIn(k) = << >>
                    /\ \A t \in RunsOf(k) : ServingIn(k) = batch[t]
                    /\ RunsOf(k) = {} => ServingIn(k) = << >>
    BY DEF ViewFacts
<1>1. \A r, q \in WaitingRunners(k) : r = q
    BY DEF WaitingRunners, IInv, BusyInv, IsIdle
<1>2. \A t, u \in RunsOf(k) : t = u
    BY RunIsUnique DEF AtMostOneRun
<1>3. QED
    BY <1>1, <1>2 DEF WaitingIn, ServingIn

\* A session whose pending runner stays the same looks the same.
LEMMA SameWaiting ==
    ASSUME ViewFacts, ViewFacts', NEW k \in Keys,
           WaitingRunners(k)' = WaitingRunners(k),
           \A r \in WaitingRunners(k) : pending'[r] = pending[r]
    PROVE  WaitingIn(k)' = WaitingIn(k)
BY DEF ViewFacts

\* A session whose run stays the same looks the same.
LEMMA SameServing ==
    ASSUME ViewFacts, ViewFacts', NEW k \in Keys,
           RunsOf(k)' = RunsOf(k), \A t \in RunsOf(k) : batch'[t] = batch[t]
    PROVE  ServingIn(k)' = ServingIn(k)
BY DEF ViewFacts

-----------------------------------------------------------------------------
(* Stopped runners *)

\* A timer that ended stays ended, and only a runner that is not stopped gets a new one.
LEMMA NextStopped == IInv /\ StoppedInv /\ [Next]_vars => StoppedInv'
<1> SUFFICES ASSUME IInv, StoppedInv, [Next]_vars PROVE StoppedInv'
    OBVIOUS
<1>1. ASSUME \A t \in Tasks : pc[t] = "done" => pc'[t] = "done",
             \A q \in Runners : stopping'[q] =>
                stopping[q] /\ debounceTask'[q] \in {debounceTask[q], None}
      PROVE  StoppedInv'
    BY <1>1 DEF StoppedInv, TimerAlive, IInv, TypeOK
<1>2. CASE UNCHANGED << stopping, debounceTask, pc >>
    BY <1>1, <1>2
<1>3. ASSUME NEW l \in Loops, NEW r \in Runners, JoinPending(l, r), ~stopping[r]
      PROVE  StoppedInv'
    <2>1. stopping' = stopping /\ debounceTask' = [debounceTask EXCEPT ![r] = FreshTask]
        BY <1>3 DEF JoinPending, ScheduleDebounce
    <2>2. FreshTask \in Tasks /\ pc[FreshTask] = "none"
        BY <1>3, FreshTaskIsFree DEF JoinPending, ScheduleDebounce
    <2>3. \A t \in Tasks : pc[t] = "done" => pc'[t] = "done"
        BY <1>3, <2>2 DEF JoinPending, ScheduleDebounce, Timer, TimerAlive
    <2>4. QED
        BY <1>1, <1>3, <2>1, <2>3 DEF IInv, TypeOK
<1>4. ASSUME NEW l \in Loops, Receive(l) \/ LoopStep(l) PROVE StoppedInv'
    <2>1. CASE SubmitNewRunner(l) \/ CreateSession(l)
        <3>1. NewRunner(l)
            BY <2>1 DEF SubmitNewRunner, CreateSession
        <3>2. FreshRunner \in Runners /\ Unused(FreshRunner) /\ JoinPending(l, FreshRunner)
            BY <3>1, FreshRunnerIsUnused DEF NewRunner
        <3>3. ~stopping[FreshRunner]
            BY <2>1, <3>2 DEF SubmitNewRunner, CreateSession, IInv, StopInv
        <3>4. QED
            BY <1>3, <3>2, <3>3
    <2>2. CASE SubmitPending(l) /\ ~stopping[runners[EventKey(l)]]
        BY <1>3, <2>2, KeyAssumption DEF SubmitPending, IInv, LockInv, TypeOK, EventKey
    <2>3. CASE \/ Receive(l) \/ SubmitRunning(l) \/ SubmitUnknown(l)
               \/ QueueMessage(l) \/ QueueMessageFails(l) \/ CreateSessionFails(l)
               \/ SubmitPending(l) /\ stopping[runners[EventKey(l)]]
        BY <1>2, <2>3 DEF Receive, SubmitRunning, SubmitUnknown, QueueMessage,
                          QueueMessageFails, CreateSessionFails, SubmitPending,
                          runnerVars, taskVars
    <2>4. QED
        BY <1>4, <2>1, <2>2, <2>3 DEF LoopStep
<1>5. ASSUME NEW t \in Tasks, TaskStep(t) PROVE StoppedInv'
    <2>1. CASE StartTimer(t) \/ WakeTimer(t)
        <3>1. pc[t] # "done" /\ owner[t] \in Runners
            BY <2>1, WaitingTask DEF StartTimer, WakeTimer, Waiting
        <3>2. /\ stopping' = stopping
              /\ debounceTask' = debounceTask
                 \/ debounceTask' = [debounceTask EXCEPT ![owner[t]] = None]
            BY <2>1 DEF StartTimer, WakeTimer, SleepUntilDeadline, GiveUp, TakeBatch, runnerVars
        <3>3. \A u \in Tasks : u # t => pc'[u] = pc[u]
            BY <2>1 DEF StartTimer, WakeTimer, SleepUntilDeadline, GiveUp, TakeBatch,
                        NotifyIdle, TasksEnd, IInv, TypeOK
        <3>4. QED
            BY <1>1, <3>1, <3>2, <3>3 DEF IInv, TypeOK
    <2>2. CASE CallAgent(t) \/ AgentReplies(t)
        BY <1>1, <2>2 DEF CallAgent, AgentReplies, runnerVars, IInv, TypeOK
    <2>3. CASE RunEnds(t)
        <3>1. PICK r \in Runners : owner[t] = r /\ running[r]
            BY <2>3 DEF RunEnds, Serving, IInv, TypeOK, OwnerInv, RunInv
        <3>2. pending[r] = << >> /\ pc[t] # "done"
            BY <2>3, <3>1 DEF RunEnds, IInv, RunInv
        <3>3. NotifyIdle(t, pending[r] = << >> /\ ~TimerAlive(r))
              /\ UNCHANGED << debounceTask, stopping >>
            BY <2>3, <3>1, <3>2 DEF RunEnds
        <3>4. \A u \in Tasks : u # t => pc'[u] = pc[u]
            BY <3>3 DEF NotifyIdle, TasksEnd, IInv, TypeOK
        <3>5. QED
            BY <1>1, <3>2, <3>3, <3>4
    <2>4. CASE OnRunnerIdle(t)
        BY <1>1, <2>4 DEF OnRunnerIdle, TasksEnd, runnerVars
    <2>5. QED
        BY <1>5, <2>1, <2>2, <2>3, <2>4 DEF TaskStep
<1>6. ASSUME NEW r \in Runners, StopRunner(r) PROVE StoppedInv'
    <2>1. /\ debounceTask' = debounceTask
          /\ \A t \in Tasks : pc'[t] = IF t \in Timer(r) THEN "done" ELSE pc[t]
          /\ \A q \in Runners \ {r} : stopping'[q] = stopping[q]
        BY <1>6 DEF StopRunner, IInv, TypeOK
    <2>2. ~TimerAlive(r)'
        BY <2>1 DEF TimerAlive, Timer, IInv, TypeOK
    <2>3. \A q \in Runners \ {r} : stopping'[q] => ~TimerAlive(q)'
        BY <2>1 DEF StoppedInv, TimerAlive, IInv, TypeOK
    <2>4. QED
        BY <2>2, <2>3 DEF StoppedInv
<1>7. CASE BeginShutdown \/ ClearRunners \/ Tick \/ Terminated \/ UNCHANGED vars
    BY <1>2, <1>7
    DEF BeginShutdown, ClearRunners, Tick, Terminated, vars, runnerVars, taskVars
<1>8. QED
    BY <1>4, <1>5, <1>6, <1>7 DEF Next, ShutdownStep

-----------------------------------------------------------------------------
(* The simulation *)

\* At first no session has anything waiting or in service.
LEMMA InitTurns == Init => Turns!TurnsInit
<1> SUFFICES ASSUME Init PROVE Turns!TurnsInit
    OBVIOUS
<1>1. \A k \in Keys : WaitingRunners(k) = {} /\ RunsOf(k) = {}
    BY DEF Init, WaitingRunners, RunsOf, Serving
<1>2. QED
    BY <1>1 DEF Init, Turns!TurnsInit, WaitingIn, ServingIn, NoEvent

\* A step that moves no event between a window and a run is invisible.
LEMMA InvisibleStep ==
    ASSUME IInv, IInv', newest' = newest,
           \A k \in Keys : WaitingRunners(k)' = WaitingRunners(k) /\ RunsOf(k)' = RunsOf(k),
           \A r \in Runners : pending'[r] = pending[r],
           \A t \in Tasks : pc[t] \in Serving => batch'[t] = batch[t]
    PROVE  UNCHANGED << [k \in Keys |-> WaitingIn(k)], [k \in Keys |-> ServingIn(k)], newest >>
<1>1. ViewFacts /\ ViewFacts'
    <2>1. ViewFacts
        BY ViewIsUnique
    <2>2. IInv' => ViewFacts'
        BY ViewIsUnique, PTL
    <2>3. QED
        BY <2>1, <2>2
<1>2. \A k \in Keys : WaitingIn(k)' = WaitingIn(k)
    BY <1>1, SameWaiting DEF WaitingRunners
<1>3. \A k \in Keys : ServingIn(k)' = ServingIn(k)
    BY <1>1, SameServing DEF RunsOf
<1>4. QED
    BY <1>2, <1>3

\* An event joins the window of its session: Accept.
LEMMA JoinIsAccept ==
    ASSUME TurnsInv, IInv', NEW l \in Loops, NEW r \in Runners,
           Holds(l), loopPc[l] # "idle",
           JoinPending(l, r), key' = [key EXCEPT ![r] = EventKey(l)],
           key[r] = EventKey(l) \/ IsIdle(r), \A t \in Tasks : owner[t] = r => key[r] = EventKey(l),
           \A q \in Runners : q # r /\ key[q] = EventKey(l) => IsIdle(q),
           ~stopping[r], ~running[r]
    PROVE  Turns!Accept(EventKey(l), loopEvent[l])
<1> USE DEF TurnsInv
<1>0. PICK k0 \in Keys, e \in Events : k0 = EventKey(l) /\ e = loopEvent[l]
    BY KeyAssumption DEF IInv, LockInv, EventKey
<1>1. KeyOf[e] = k0 /\ newest[k0] < e
    BY <1>0 DEF EventKey, OrderInv, FrontierInv, OlderThan
<1>2. ViewFacts /\ ViewFacts'
    <2>1. ViewFacts
        BY ViewIsUnique
    <2>2. IInv' => ViewFacts'
        BY ViewIsUnique, PTL
    <2>3. QED
        BY <2>1, <2>2
<1>3. /\ pending'[r] = Append(pending[r], e) /\ key'[r] = k0
      /\ \A q \in Runners \ {r} : pending'[q] = pending[q] /\ key'[q] = key[q]
      /\ newest' = [newest EXCEPT ![k0] = e] /\ stopping' = stopping
    BY <1>0 DEF JoinPending, IInv, TypeOK
<1>4. pending'[r] # << >>
    BY <1>0, <1>3, NumbersOnly, AppendProperties
<1>5. \A k \in Keys : RunsOf(k)' = RunsOf(k) /\ \A t \in RunsOf(k) : batch'[t] = batch[t]
    <2>1. \A t \in Tasks : pc'[t] \in Serving <=> pc[t] \in Serving
        BY FreshTaskIsFree
        DEF JoinPending, ScheduleDebounce, Serving, Timer, TimerAlive, IInv, TimerInv, Waiting
    <2>2. \A t \in Tasks : pc[t] \in Serving =>
             batch'[t] = batch[t] /\ owner'[t] = owner[t] /\ owner[t] \in Runners
        BY <2>1 DEF JoinPending, ScheduleDebounce, Serving, IInv, TypeOK, OwnerInv
    <2>3. \A t \in Tasks : pc[t] \in Serving => key'[owner[t]] = key[owner[t]]
        BY <1>3, <2>2
    <2>4. QED
        BY <2>1, <2>2, <2>3 DEF RunsOf
<1>6. \A k \in Keys : ServingIn(k)' = ServingIn(k)
    BY <1>2, <1>5, SameServing
<1>7. ServingIn(k0) = << >>
    <2>1. RunsOf(k0) = {}
        <3>1. SUFFICES ASSUME NEW t \in RunsOf(k0) PROVE FALSE
            OBVIOUS
        <3>2. t \in Tasks /\ owner[t] \in Runners /\ key[owner[t]] = k0 /\ running[owner[t]]
            BY <3>1 DEF RunsOf, IInv, TypeOK, OwnerInv, RunInv, Serving
        <3>3. QED
            BY <1>0, <3>2 DEF IsIdle
    <2>2. QED
        BY <1>1, <1>2, <2>1 DEF ViewFacts
<1>8. \A k \in Keys \ {k0} : WaitingIn(k)' = WaitingIn(k)
    <2>1. ASSUME NEW k \in Keys \ {k0} PROVE WaitingRunners(k)' = WaitingRunners(k)
        <3>1. r \notin WaitingRunners(k)
            BY <1>0, <2>1 DEF WaitingRunners, IsIdle
        <3>2. r \notin WaitingRunners(k)'
            BY <1>3, <2>1 DEF WaitingRunners
        <3>3. \A q \in Runners \ {r} : q \in WaitingRunners(k)' <=> q \in WaitingRunners(k)
            BY <1>3 DEF WaitingRunners
        <3>4. QED
            BY <3>1, <3>2, <3>3 DEF WaitingRunners
    <2>2. ASSUME NEW k \in Keys \ {k0}, NEW q \in WaitingRunners(k)
          PROVE  pending'[q] = pending[q]
        BY <1>0, <1>3, <2>2 DEF WaitingRunners, IsIdle
    <2>3. QED
        BY <1>2, <2>1, <2>2, SameWaiting
<1>9. WaitingIn(k0)' = Append(WaitingIn(k0), e)
    <2>1. r \in WaitingRunners(k0)'
        BY <1>3, <1>4 DEF WaitingRunners
    <2>2. WaitingIn(k0)' = pending'[r]
        BY <1>1, <1>2, <2>1 DEF ViewFacts
    <2>3. WaitingIn(k0) = pending[r]
        <3>1. CASE pending[r] = << >>
            <4>1. WaitingRunners(k0) = {}
                BY <1>0, <3>1 DEF WaitingRunners, IsIdle
            <4>2. QED
                BY <1>1, <1>2, <3>1, <4>1 DEF ViewFacts
        <3>2. CASE pending[r] # << >>
            <4>1. r \in WaitingRunners(k0)
                BY <1>0, <3>2 DEF WaitingRunners, IsIdle
            <4>2. QED
                BY <1>1, <1>2, <4>1 DEF ViewFacts
        <3>3. QED
            BY <3>1, <3>2
    <2>4. QED
        BY <1>3, <2>2, <2>3
<1>10. Turns!Accept(k0, e)
    BY <1>1, <1>3, <1>6, <1>7, <1>8, <1>9 DEF Turns!Accept
<1>11. QED
    BY <1>0, <1>10

\* The timer takes the batch: Begin.
LEMMA TakeBatchIsBegin ==
    ASSUME TurnsInv, IInv', NEW t \in Tasks, pc[t] \in Waiting, TakeBatch(t),
           pending[owner[t]] # << >>, UNCHANGED worldVars
    PROVE  \E k \in Keys : Turns!Begin(k)
<1> USE DEF TurnsInv
<1>1. PICK r \in Runners : owner[t] = r /\ TimerAlive(r) /\ ~running[r] /\ ~IsIdle(r)
    BY WaitingTask
<1>2. PICK k0 \in Keys : key[r] = k0
    <2>1. 1 \in DOMAIN pending[r]
        BY <1>1, NumbersOnly, EmptySeq, LenProperties
    <2>2. pending[r][1] \in Events /\ KeyOf[pending[r][1]] = key[r]
        BY <1>1, <2>1, NumbersOnly DEF OrderInv, SequenceInv, OfKey, Elements
    <2>3. QED
        BY <2>2, KeyAssumption
<1>3. ~stopping[r]
    BY <1>1 DEF StoppedInv
<1>4. ViewFacts /\ ViewFacts'
    <2>1. ViewFacts
        BY ViewIsUnique
    <2>2. IInv' => ViewFacts'
        BY ViewIsUnique, PTL
    <2>3. QED
        BY <2>1, <2>2
<1>5. /\ batch'[t] = pending[r] /\ pc'[t] = "convert" /\ pending'[r] = << >>
      /\ \A u \in Tasks \ {t} : batch'[u] = batch[u] /\ pc'[u] = pc[u]
      /\ \A q \in Runners \ {r} : pending'[q] = pending[q]
      /\ UNCHANGED << key, owner, stopping, newest >>
    BY <1>1 DEF TakeBatch, IInv, TypeOK, worldVars
<1>6. WaitingRunners(k0) = {r} /\ WaitingRunners(k0)' = {} /\ RunsOf(k0) = {}
    <2>1. r \in WaitingRunners(k0)
        BY <1>1, <1>2, <1>3 DEF WaitingRunners
    <2>2. \A q \in Runners : key[q] = k0 /\ ~IsIdle(q) => q = r
        BY <1>1, <1>2 DEF IInv, BusyInv
    <2>3. \A q \in WaitingRunners(k0) : q = r
        BY <2>2 DEF WaitingRunners, IsIdle
    <2>4. WaitingRunners(k0)' = {}
        BY <1>5, <2>3 DEF WaitingRunners
    <2>5. RunsOf(k0) = {}
        <3>1. SUFFICES ASSUME NEW u \in RunsOf(k0) PROVE FALSE
            OBVIOUS
        <3>2. owner[u] \in Runners /\ key[owner[u]] = k0 /\ running[owner[u]]
            BY <3>1 DEF RunsOf, IInv, TypeOK, OwnerInv, RunInv, Serving
        <3>3. QED
            BY <1>1, <2>2, <3>2 DEF IsIdle
    <2>6. QED
        BY <2>1, <2>3, <2>4, <2>5
<1>7. t \in RunsOf(k0)'
    BY <1>1, <1>2, <1>5 DEF RunsOf, Serving
<1>8. /\ WaitingIn(k0) = pending[r] /\ WaitingIn(k0)' = << >>
      /\ ServingIn(k0) = << >> /\ ServingIn(k0)' = pending[r]
    BY <1>4, <1>5, <1>6, <1>7 DEF ViewFacts
<1>9. \A k \in Keys \ {k0} : WaitingIn(k)' = WaitingIn(k)
    <2>1. \A k \in Keys \ {k0} : WaitingRunners(k)' = WaitingRunners(k)
        BY <1>2, <1>5 DEF WaitingRunners
    <2>2. \A k \in Keys \ {k0} : \A q \in WaitingRunners(k) : pending'[q] = pending[q]
        BY <1>2, <1>5 DEF WaitingRunners
    <2>3. QED
        BY <1>4, <2>1, <2>2, SameWaiting
<1>10. \A k \in Keys \ {k0} : ServingIn(k)' = ServingIn(k)
    <2>1. \A k \in Keys \ {k0} : t \notin RunsOf(k) /\ t \notin RunsOf(k)'
        BY <1>1, <1>2, <1>5 DEF RunsOf
    <2>2. \A k \in Keys \ {k0} : RunsOf(k)' = RunsOf(k)
        BY <1>5, <2>1 DEF RunsOf
    <2>3. \A k \in Keys \ {k0} : \A u \in RunsOf(k) : batch'[u] = batch[u]
        BY <1>5, <2>1 DEF RunsOf
    <2>4. QED
        BY <1>4, <2>2, <2>3, SameServing
<1>11. Turns!Begin(k0)
    BY <1>1, <1>5, <1>8, <1>9, <1>10 DEF Turns!Begin
<1>12. QED
    BY <1>11

\* The run ends: End.
LEMMA RunEndsIsEnd ==
    ASSUME TurnsInv, IInv', NEW t \in Tasks, RunEnds(t)
    PROVE  \E k \in Keys : Turns!End(k)
<1> USE DEF TurnsInv
<1>1. PICK r \in Runners : owner[t] = r /\ running[r] /\ pending[r] = << >> /\ pc[t] \in Serving
    BY DEF RunEnds, Serving, IInv, TypeOK, OwnerInv, RunInv
<1>2. batch[t] # << >>
    BY <1>1 DEF OrderInv, SequenceInv
<1>3. PICK k0 \in Keys : key[r] = k0
    <2>1. 1 \in DOMAIN batch[t]
        BY <1>2, NumbersOnly, EmptySeq, LenProperties
    <2>2. batch[t][1] \in Events /\ KeyOf[batch[t][1]] = key[r]
        BY <1>1, <2>1, NumbersOnly DEF OrderInv, SequenceInv, OfKey, Elements
    <2>3. QED
        BY <2>2, KeyAssumption
<1>4. ViewFacts /\ ViewFacts'
    <2>1. ViewFacts
        BY ViewIsUnique
    <2>2. IInv' => ViewFacts'
        BY ViewIsUnique, PTL
    <2>3. QED
        BY <2>1, <2>2
<1>5. /\ NotifyIdle(t, pending[r] = << >> /\ ~TimerAlive(r))
      /\ UNCHANGED << key, pending, stopping, newest >>
    BY <1>1 DEF RunEnds, worldVars
<1>6. /\ pc'[t] \in {"idle", "none"}
      /\ \A u \in Tasks : u # t => pc'[u] = pc[u] /\ owner'[u] = owner[u] /\ batch'[u] = batch[u]
    <2>1. \A u \in Tasks : u # t => batch'[u] = batch[u]
        BY <1>5 DEF NotifyIdle, TasksEnd, IInv, TypeOK
    <2>2. QED
        BY <1>1, <1>5, <2>1, NotifyIdleEffect DEF IInv
<1>7. RunsOf(k0) = {t} /\ RunsOf(k0)' = {}
    <2>1. RunsOf(k0) = {t}
        BY <1>1, <1>3, RunIsUnique DEF AtMostOneRun, RunsOf
    <2>2. QED
        BY <1>5, <1>6, <2>1 DEF RunsOf, Serving
<1>8. ServingIn(k0) # << >> /\ ServingIn(k0)' = << >>
    BY <1>2, <1>4, <1>7 DEF ViewFacts
<1>9. \A k \in Keys : WaitingIn(k)' = WaitingIn(k)
    BY <1>4, <1>5, SameWaiting DEF WaitingRunners
<1>10. \A k \in Keys \ {k0} : ServingIn(k)' = ServingIn(k)
    <2>1. \A k \in Keys \ {k0} : t \notin RunsOf(k) /\ t \notin RunsOf(k)'
        BY <1>1, <1>3, <1>6 DEF RunsOf, Serving
    <2>2. \A k \in Keys \ {k0} : RunsOf(k)' = RunsOf(k)
        BY <1>5, <1>6, <2>1 DEF RunsOf
    <2>3. \A k \in Keys \ {k0} : \A u \in RunsOf(k) : batch'[u] = batch[u]
        BY <1>6, <2>1 DEF RunsOf
    <2>4. QED
        BY <1>4, <2>2, <2>3, SameServing
<1>11. Turns!End(k0)
    BY <1>5, <1>8, <1>9, <1>10 DEF Turns!End
<1>12. QED
    BY <1>11

\* The shutdown stops a runner: Discard, if it still has something pending.
LEMMA StopIsDiscard ==
    ASSUME TurnsInv, IInv', NEW r \in Runners, StopRunner(r)
    PROVE  \/ \E k \in Keys : Turns!Discard(k)
           \/ UNCHANGED << [k \in Keys |-> WaitingIn(k)], [k \in Keys |-> ServingIn(k)], newest >>
<1> USE DEF TurnsInv
<1>1. /\ UNCHANGED << key, pending, owner, batch, newest >>
      /\ stopping'[r] /\ \A q \in Runners \ {r} : stopping'[q] = stopping[q]
      /\ \A t \in Tasks : pc'[t] \in Serving <=> pc[t] \in Serving
    <2>1. \A t \in Timer(r) : pc[t] \in Waiting
        BY DEF Timer, TimerAlive, IInv, TimerInv
    <2>2. QED
        BY <2>1 DEF StopRunner, IInv, TypeOK, Serving, Waiting, worldVars
<1>2. ViewFacts /\ ViewFacts'
    <2>1. ViewFacts
        BY ViewIsUnique
    <2>2. IInv' => ViewFacts'
        BY ViewIsUnique, PTL
    <2>3. QED
        BY <2>1, <2>2
<1>3. \A k \in Keys : ServingIn(k)' = ServingIn(k)
    BY <1>1, <1>2, SameServing DEF RunsOf
<1>4. CASE \A k \in Keys : r \notin WaitingRunners(k)
    <2>1. \A k \in Keys : WaitingRunners(k)' = WaitingRunners(k)
        BY <1>1, <1>4 DEF WaitingRunners
    <2>2. \A k \in Keys : WaitingIn(k)' = WaitingIn(k)
        BY <1>1, <1>2, <2>1, SameWaiting
    <2>3. QED
        BY <1>1, <1>3, <2>2
<1>5. ASSUME NEW k0 \in Keys, r \in WaitingRunners(k0) PROVE Turns!Discard(k0)
    <2>1. WaitingRunners(k0)' = {} /\ WaitingIn(k0) # << >>
        <3>1. \A q \in WaitingRunners(k0) : q = r
            BY <1>5 DEF WaitingRunners, IInv, BusyInv, IsIdle
        <3>2. WaitingRunners(k0)' = {}
            BY <1>1, <3>1 DEF WaitingRunners
        <3>3. QED
            BY <1>2, <1>5, <3>2 DEF ViewFacts, WaitingRunners
    <2>2. WaitingIn(k0)' = << >>
        BY <1>2, <2>1 DEF ViewFacts
    <2>3. \A k \in Keys \ {k0} : WaitingRunners(k)' = WaitingRunners(k)
        BY <1>1, <1>5 DEF WaitingRunners
    <2>4. \A k \in Keys \ {k0} : WaitingIn(k)' = WaitingIn(k)
        BY <1>1, <1>2, <2>3, SameWaiting
    <2>5. QED
        BY <1>1, <1>3, <2>1, <2>2, <2>4 DEF Turns!Discard
<1>6. QED
    BY <1>4, <1>5

\* A receive loop submits its event, or moves on invisibly.
LEMMA LoopIsTurn ==
    ASSUME TurnsInv, IInv', NEW l \in Loops, Receive(l) \/ LoopStep(l)
    PROVE  \/ \E k \in Keys : \E e \in Events : Turns!Accept(k, e)
           \/ UNCHANGED << [k \in Keys |-> WaitingIn(k)], [k \in Keys |-> ServingIn(k)], newest >>
<1> USE DEF TurnsInv
<1>1. loopPc[l] # "idle" => EventKey(l) \in Keys /\ loopEvent[l] \in Events
    BY KeyAssumption DEF IInv, LockInv, EventKey
<1>2. CASE SubmitNewRunner(l) \/ CreateSession(l)
    <2>1. /\ NewRunner(l) /\ Holds(l) /\ loopPc[l] # "idle" /\ runners[EventKey(l)] = None
        BY <1>2 DEF SubmitNewRunner, CreateSession, IInv, LockInv
    <2>2. PICK r \in Runners : r = FreshRunner /\ Unused(r)
        BY <2>1, FreshRunnerIsUnused DEF NewRunner
    <2>3. JoinPending(l, r) /\ key' = [key EXCEPT ![r] = EventKey(l)]
        BY <2>1, <2>2 DEF NewRunner
    <2>4. \A q \in Runners : q # r /\ key[q] = EventKey(l) => IsIdle(q)
        BY <1>1, <2>1, OtherRunnersIdle, IdentityAssumption
    <2>5. IsIdle(r) /\ ~stopping[r] /\ \A t \in Tasks : owner[t] # r
        BY <2>1, <2>2 DEF Unused, IInv, StopInv, DroppedRunnerIsIdle
    <2>6. Turns!Accept(EventKey(l), loopEvent[l])
        BY <2>1, <2>3, <2>4, <2>5, JoinIsAccept DEF IsIdle
    <2>7. QED
        BY <1>1, <2>1, <2>6
<1>3. CASE SubmitPending(l) /\ ~stopping[runners[EventKey(l)]]
    <2>1. loopPc[l] # "idle" /\ Holds(l)
        BY <1>3 DEF SubmitPending
    <2>2. PICK r \in Runners : r = runners[EventKey(l)] /\ r # None
        BY <1>1, <1>3, <2>1 DEF SubmitPending, IInv, TypeOK
    <2>3. JoinPending(l, r) /\ key' = key /\ ~running[r] /\ key[r] = EventKey(l)
        BY <1>1, <1>3, <2>1, <2>2 DEF SubmitPending, JoinsOrDrops, IInv, RegistryInv
    <2>4. key' = [key EXCEPT ![r] = EventKey(l)]
        BY <2>3 DEF IInv, TypeOK
    <2>5. \A q \in Runners : q # r /\ key[q] = EventKey(l) => IsIdle(q)
        BY <1>1, <2>1, <2>2, OtherRunnersIdle
    <2>6. Turns!Accept(EventKey(l), loopEvent[l])
        BY <1>3, <2>1, <2>2, <2>3, <2>4, <2>5, JoinIsAccept
    <2>7. QED
        BY <1>1, <2>1, <2>6
<1>4. CASE \/ Receive(l) \/ SubmitRunning(l) \/ SubmitUnknown(l)
           \/ QueueMessage(l) \/ QueueMessageFails(l) \/ CreateSessionFails(l)
           \/ SubmitPending(l) /\ stopping[runners[EventKey(l)]]
    <2>1. UNCHANGED << key, pending, stopping, pc, owner, batch, newest >>
        BY <1>4 DEF Receive, SubmitRunning, SubmitUnknown, QueueMessage, QueueMessageFails,
                    CreateSessionFails, SubmitPending, runnerVars, taskVars, worldVars
    <2>2. QED
        BY <2>1, InvisibleStep DEF WaitingRunners, RunsOf
<1>5. QED
    BY <1>2, <1>3, <1>4 DEF LoopStep

\* A task begins or ends a run, or moves on invisibly.
LEMMA TaskIsTurn ==
    ASSUME TurnsInv, IInv', NEW t \in Tasks, TaskStep(t)
    PROVE  \/ \E k \in Keys : Turns!Begin(k) \/ Turns!End(k)
           \/ UNCHANGED << [k \in Keys |-> WaitingIn(k)], [k \in Keys |-> ServingIn(k)], newest >>
<1> USE DEF TurnsInv
<1>1. ASSUME UNCHANGED << key, pending, stopping, newest >>,
             \A u \in Tasks : pc'[u] \in Serving <=> pc[u] \in Serving,
             \A u \in Tasks : pc[u] \in Serving => owner'[u] = owner[u] /\ batch'[u] = batch[u]
      PROVE  UNCHANGED << [k \in Keys |-> WaitingIn(k)], [k \in Keys |-> ServingIn(k)], newest >>
    <2>1. \A k \in Keys : WaitingRunners(k)' = WaitingRunners(k) /\ RunsOf(k)' = RunsOf(k)
        BY <1>1 DEF WaitingRunners, RunsOf
    <2>2. QED
        BY <1>1, <2>1, InvisibleStep
<1>2. CASE StartTimer(t) \/ WakeTimer(t)
    <2>1. pc[t] \in Waiting /\ owner[t] \in Runners /\ UNCHANGED worldVars
        BY <1>2, WaitingTask DEF StartTimer, WakeTimer, Waiting
    <2>2. CASE TakeBatch(t) /\ pending[owner[t]] # << >>
        BY <2>1, <2>2, TakeBatchIsBegin
    <2>3. CASE GiveUp(t)
        <3>1. /\ pc'[t] \in {"idle", "none"}
              /\ \A v \in Tasks : v # t => pc'[v] = pc[v] /\ owner'[v] = owner[v]
            BY <2>1, <2>3, NotifyIdleEffect DEF GiveUp, IInv
        <3>2. \A v \in Tasks : v # t => batch'[v] = batch[v]
            BY <2>3 DEF GiveUp, NotifyIdle, TasksEnd, IInv, TypeOK
        <3>3. UNCHANGED << key, pending, stopping, newest >>
            BY <2>1, <2>3 DEF GiveUp, worldVars
        <3>4. QED
            BY <1>1, <2>1, <3>1, <3>2, <3>3 DEF Serving, Waiting
    <2>4. CASE /\ UNCHANGED << runnerVars, owner, batch, lockQueue >>
               /\ \E v \in {"done", "sleep"} : pc' = [pc EXCEPT ![t] = v]
        BY <1>1, <2>1, <2>4 DEF runnerVars, worldVars, Serving, Waiting, IInv, TypeOK
    <2>5. QED
        BY <1>2, <2>2, <2>3, <2>4 DEF StartTimer, WakeTimer, SleepUntilDeadline
<1>3. CASE CallAgent(t) \/ AgentReplies(t)
    <2>1. /\ UNCHANGED << key, pending, stopping, newest, owner, batch >>
          /\ pc[t] \in Serving /\ pc'[t] \in Serving /\ \A u \in Tasks \ {t} : pc'[u] = pc[u]
        BY <1>3 DEF CallAgent, AgentReplies, runnerVars, worldVars, Serving, IInv, TypeOK
    <2>2. QED
        BY <1>1, <2>1
<1>4. CASE RunEnds(t)
    BY <1>4, RunEndsIsEnd
<1>5. CASE OnRunnerIdle(t)
    <2>1. /\ UNCHANGED << key, pending, stopping, newest >> /\ pc[t] = "idle" /\ pc'[t] = "none"
          /\ \A u \in Tasks \ {t} : pc'[u] = pc[u] /\ owner'[u] = owner[u] /\ batch'[u] = batch[u]
        BY <1>5 DEF OnRunnerIdle, TasksEnd, runnerVars, worldVars
    <2>2. QED
        BY <1>1, <2>1 DEF Serving
<1>6. QED
    BY <1>2, <1>3, <1>4, <1>5 DEF TaskStep

\* Every step of the scheduler is a turn of one session, or invisible.
LEMMA NextIsTurn ==
    TurnsInv /\ IInv' /\ [Next]_vars => [Turns!TurnsNext]_(Turns!turnVars)
<1> SUFFICES ASSUME TurnsInv, IInv', [Next]_vars
             PROVE  \/ Turns!TurnsNext
                    \/ UNCHANGED << [k \in Keys |-> WaitingIn(k)],
                                    [k \in Keys |-> ServingIn(k)], newest >>
    BY DEF Turns!turnVars
<1>1. ASSUME NEW l \in Loops, Receive(l) \/ LoopStep(l)
      PROVE  \/ Turns!TurnsNext
             \/ UNCHANGED << [k \in Keys |-> WaitingIn(k)], [k \in Keys |-> ServingIn(k)], newest >>
    BY <1>1, LoopIsTurn DEF Turns!TurnsNext
<1>2. ASSUME NEW t \in Tasks, TaskStep(t)
      PROVE  \/ Turns!TurnsNext
             \/ UNCHANGED << [k \in Keys |-> WaitingIn(k)], [k \in Keys |-> ServingIn(k)], newest >>
    BY <1>2, TaskIsTurn DEF Turns!TurnsNext
<1>3. ASSUME NEW r \in Runners, StopRunner(r)
      PROVE  \/ Turns!TurnsNext
             \/ UNCHANGED << [k \in Keys |-> WaitingIn(k)], [k \in Keys |-> ServingIn(k)], newest >>
    BY <1>3, StopIsDiscard DEF Turns!TurnsNext
<1>4. ASSUME BeginShutdown \/ ClearRunners \/ Tick \/ Terminated \/ UNCHANGED vars
      PROVE  UNCHANGED << [k \in Keys |-> WaitingIn(k)], [k \in Keys |-> ServingIn(k)], newest >>
    <2>1. UNCHANGED << key, pending, stopping, pc, owner, batch, newest >>
        BY <1>4 DEF BeginShutdown, ClearRunners, Tick, Terminated, vars, runnerVars,
                    taskVars, worldVars
    <2>2. QED
        BY <2>1, InvisibleStep DEF TurnsInv, WaitingRunners, RunsOf
<1>5. QED
    BY <1>1, <1>2, <1>3, <1>4 DEF Next, ShutdownStep

\* The invariant of the simulation.
LEMMA TurnsInvariance == Spec => []TurnsInv
<1>1. Init => TurnsInv
    BY InitIInv, InitOrder DEF Init, TurnsInv, StoppedInv
<1>2. TurnsInv /\ [Next]_vars => TurnsInv'
    BY NextIInv, NextOrder, NextStopped DEF TurnsInv
<1>3. QED
    BY <1>1, <1>2, PTL DEF Spec

\* The scheduler implements one orderly queue per session: what waits is served as one
\* batch, in order, one batch at a time, and nothing joins while a batch is served.
THEOREM SchedulerKeepsTurns == Spec => ImplementsTurns
<1>1. TurnsInv => IInv
    BY DEF TurnsInv
<1>2. QED
    BY <1>1, InitTurns, NextIsTurn, TurnsInvariance, PTL
    DEF Spec, ImplementsTurns, Turns!TurnsSpec

-----------------------------------------------------------------------------
(* Every event is in one place *)

Kinds == { "loop", "runner", "task", "agent", "asked", "lost" }
Holders == Loops \cup Runners \cup Tasks \cup Keys \cup {None}

\* Event e is in the place (kind, x).
At(kind, x, e) ==
    \/ kind = "loop" /\ x \in HeldByLoop(e)
    \/ kind = "runner" /\ x \in HeldByRunner(e)
    \/ kind = "task" /\ x \in HeldByTask(e)
    \/ kind = "agent" /\ x \in HeldByAgent(e)
    \/ kind = "asked" /\ x = None /\ e \in asked
    \/ kind = "lost" /\ x = None /\ e \in lost

\* An event is somewhere exactly if it has arrived, and never in two places.
OnePlace ==
    \A e \in Events :
        /\ e <= arrived <=> \E kind \in Kinds, x \in Holders : At(kind, x, e)
        /\ \A i, j \in Kinds, x, y \in Holders : At(i, x, e) /\ At(j, y, e) => i = j /\ x = y

\* A loop that submits no event has none.
IdleInv == \A l \in Loops : loopPc[l] = "idle" => loopEvent[l] = NoEvent

PlaceInv == IInv /\ OrderInv /\ IdleInv /\ OnePlace

\* A step moves the events in moved from place (i, x) to place (j, y), and no other event.
Moves(moved, i, x, j, y) ==
    /\ arrived' = arrived
    /\ \A e \in Events : e \in moved => At(i, x, e)
    /\ \A kind \in Kinds, z \in Holders, e \in Events :
          At(kind, z, e)' <=> \/ At(kind, z, e) /\ e \notin moved
                              \/ e \in moved /\ kind = j /\ z = y

\* Such a step keeps every event in one place.
LEMMA MoveKeepsPlace ==
    ASSUME OnePlace, NEW moved, NEW i \in Kinds, NEW x \in Holders, NEW j \in Kinds,
           NEW y \in Holders, Moves(moved, i, x, j, y)
    PROVE  OnePlace'
<1>1. SUFFICES ASSUME NEW e \in Events
               PROVE  /\ e <= arrived <=> \E kind \in Kinds, z \in Holders : At(kind, z, e)'
                      /\ \A a, b \in Kinds, u, v \in Holders :
                            At(a, u, e)' /\ At(b, v, e)' => a = b /\ u = v
    BY DEF OnePlace, Moves
<1>2. /\ e <= arrived <=> \E kind \in Kinds, z \in Holders : At(kind, z, e)
      /\ \A a, b \in Kinds, u, v \in Holders : At(a, u, e) /\ At(b, v, e) => a = b /\ u = v
    BY DEF OnePlace
<1>3. CASE e \in moved
    BY <1>2, <1>3 DEF Moves
<1>4. CASE e \notin moved
    BY <1>2, <1>4 DEF Moves
<1>5. QED
    BY <1>3, <1>4

\* A step that moves no event.
LEMMA SamePlaces ==
    ASSUME OnePlace, UNCHANGED << loopEvent, pending, sent, asked, lost, arrived >>,
           \A t \in Tasks : /\ pc'[t] = "convert" <=> pc[t] = "convert"
                            /\ pc[t] = "convert" => batch'[t] = batch[t]
    PROVE  OnePlace'
<1>1. \A e \in Events : /\ HeldByLoop(e)' = HeldByLoop(e) /\ HeldByRunner(e)' = HeldByRunner(e)
                        /\ HeldByTask(e)' = HeldByTask(e) /\ HeldByAgent(e)' = HeldByAgent(e)
    BY DEF HeldByLoop, HeldByRunner, HeldByTask, HeldByAgent, Elements
<1>2. \A kind \in Kinds, z \in Holders, e \in Events : At(kind, z, e)' <=> At(kind, z, e)
    BY <1>1 DEF At
<1>3. QED
    BY <1>2 DEF OnePlace

\* At first no event has arrived and none is anywhere.
LEMMA InitPlaces == Init => IdleInv /\ OnePlace
<1> SUFFICES ASSUME Init PROVE IdleInv /\ OnePlace
    OBVIOUS
<1>1. Elements(<< >>) = {}
    BY ElementsOfEvents
<1>2. \A e \in Events : ~(e <= arrived) /\ e # NoEvent
    BY BoundsAssumption DEF Init, Events, NoEvent
<1>3. \A e \in Events, kind \in Kinds, x \in Holders : ~At(kind, x, e)
    BY <1>1, <1>2
    DEF Init, At, HeldByLoop, HeldByRunner, HeldByTask, HeldByAgent
<1>4. QED
    BY <1>2, <1>3 DEF Init, IdleInv, OnePlace

\* A new event is in the loop that received it.
LEMMA ReceivePlaces ==
    ASSUME PlaceInv, NEW l \in Loops, Receive(l)
    PROVE  IdleInv' /\ OnePlace'
<1> USE DEF PlaceInv
<1>1. /\ arrived' = arrived + 1 /\ arrived + 1 \in Events /\ arrived \in Nat
      /\ loopEvent'[l] = arrived + 1 /\ loopEvent[l] = NoEvent /\ NoEvent \notin Events
      /\ \A m \in Loops \ {l} : loopEvent'[m] = loopEvent[m] /\ loopPc'[m] = loopPc[m]
      /\ loopPc'[l] = "lock" /\ UNCHANGED << pending, pc, batch, sent, asked, lost >>
    BY BoundsAssumption
    DEF Receive, IInv, TypeOK, IdleInv, Events, NoEvent, runnerVars, taskVars
<1>2. IdleInv'
    BY <1>1 DEF IdleInv
<1>3. \A kind \in Kinds, z \in Holders, e \in Events :
         At(kind, z, e)' <=> At(kind, z, e) \/ (e = arrived + 1 /\ kind = "loop" /\ z = l)
    <2>1. \A e \in Events : HeldByLoop(e)' = IF e = arrived + 1 THEN HeldByLoop(e) \cup {l}
                                             ELSE HeldByLoop(e)
        BY <1>1 DEF HeldByLoop
    <2>2. \A e \in Events : /\ HeldByRunner(e)' = HeldByRunner(e) /\ HeldByTask(e)' = HeldByTask(e)
                            /\ HeldByAgent(e)' = HeldByAgent(e)
        BY <1>1 DEF HeldByRunner, HeldByTask, HeldByAgent, Elements
    <2>3. QED
        BY <1>1, <2>1, <2>2 DEF At
<1>4. \A kind \in Kinds, z \in Holders : ~At(kind, z, arrived + 1)
    <2>1. ~(arrived + 1 <= arrived)
        BY <1>1
    <2>2. QED
        BY <1>1, <2>1 DEF OnePlace
<1>5. \A e \in Events : e <= arrived + 1 <=> e <= arrived \/ e = arrived + 1
    BY <1>1 DEF Events
<1>6. OnePlace'
    <2>1. SUFFICES ASSUME NEW e \in Events
                   PROVE  /\ e <= arrived + 1 <=> \E kind \in Kinds, z \in Holders : At(kind, z, e)'
                          /\ \A a, b \in Kinds, u, v \in Holders :
                                At(a, u, e)' /\ At(b, v, e)' => a = b /\ u = v
        BY <1>1 DEF OnePlace
    <2>2. /\ e <= arrived <=> \E kind \in Kinds, z \in Holders : At(kind, z, e)
          /\ \A a, b \in Kinds, u, v \in Holders : At(a, u, e) /\ At(b, v, e) => a = b /\ u = v
        BY DEF OnePlace
    <2>3. CASE e = arrived + 1
        <3>1. "loop" \in Kinds /\ l \in Holders
            BY DEF Kinds, Holders
        <3>2. QED
            BY <1>3, <1>4, <1>5, <2>3, <3>1
    <2>4. CASE e # arrived + 1
        BY <1>3, <1>5, <2>2, <2>4
    <2>5. QED
        BY <2>3, <2>4
<1>7. QED
    BY <1>2, <1>6

\* submit_event hands its event over and returns: the event leaves the loop.
LEMMA LoopLeaves ==
    ASSUME PlaceInv, NEW l \in Loops, loopPc[l] # "idle", LoopReturns(l)
    PROVE  /\ loopEvent[l] \in Events /\ IdleInv'
           /\ \A e \in Events : HeldByLoop(e)' = IF e = loopEvent[l] THEN {} ELSE HeldByLoop(e)
<1> USE DEF PlaceInv
<1>1. /\ loopEvent'[l] = NoEvent /\ loopPc'[l] = "idle" /\ loopEvent[l] \in Events
      /\ NoEvent \notin Events
      /\ \A m \in Loops \ {l} : loopEvent'[m] = loopEvent[m] /\ loopPc'[m] = loopPc[m]
    BY DEF LoopReturns, IInv, TypeOK, LockInv, NoEvent, Events
<1>2. IdleInv'
    BY <1>1 DEF IdleInv
<1>3. \A m \in Loops : loopEvent[m] = loopEvent[l] => m = l
    <2>1. ASSUME NEW m \in Loops PROVE loopEvent[m] = loopEvent[l] => At("loop", m, loopEvent[l])
        BY DEF At, HeldByLoop
    <2>2. "loop" \in Kinds /\ Loops \subseteq Holders
        BY DEF Kinds, Holders
    <2>3. QED
        BY <1>1, <2>1, <2>2 DEF OnePlace
<1>4. QED
    BY <1>1, <1>2, <1>3 DEF HeldByLoop

\* The event of a loop is given to the agent's queue, or lost to an error.
LEMMA QueuePlaces ==
    ASSUME PlaceInv, NEW l \in Loops, loopPc[l] # "idle", LoopReturns(l),
           UNCHANGED << pending, pc, batch, sent, arrived >>,
           \/ asked' = asked \cup {loopEvent[l]} /\ lost' = lost
           \/ lost' = lost \cup {loopEvent[l]} /\ asked' = asked
    PROVE  IdleInv' /\ OnePlace'
<1> USE DEF PlaceInv
<1>1. PICK e0 \in Events : e0 = loopEvent[l]
    BY LoopLeaves
<1>2. PICK j \in {"asked", "lost"} :
         /\ asked' = IF j = "asked" THEN asked \cup {e0} ELSE asked
         /\ lost' = IF j = "lost" THEN lost \cup {e0} ELSE lost
    BY <1>1
<1>3. \A e \in Events : /\ HeldByLoop(e)' = IF e = e0 THEN {} ELSE HeldByLoop(e)
                        /\ HeldByRunner(e)' = HeldByRunner(e) /\ HeldByTask(e)' = HeldByTask(e)
                        /\ HeldByAgent(e)' = HeldByAgent(e)
    BY <1>1, LoopLeaves DEF HeldByRunner, HeldByTask, HeldByAgent, Elements
<1>4. /\ "loop" \in Kinds /\ j \in Kinds /\ l \in Holders /\ None \in Holders
      /\ At("loop", l, e0)
    BY <1>1 DEF Kinds, Holders, At, HeldByLoop
<1>5. \A kind \in Kinds, z \in Holders : At(kind, z, e0) => kind = "loop" /\ z = l
    BY <1>4 DEF OnePlace
<1>6. \A kind \in Kinds, z \in Holders, e \in Events :
         At(kind, z, e)' <=> \/ At(kind, z, e) /\ e \notin {e0}
                             \/ e \in {e0} /\ kind = j /\ z = None
    <2>1. SUFFICES ASSUME NEW kind \in Kinds, NEW z \in Holders, NEW e \in Events
                   PROVE  At(kind, z, e)' <=> \/ At(kind, z, e) /\ e # e0
                                              \/ e = e0 /\ kind = j /\ z = None
        OBVIOUS
    <2>2. CASE e = e0
        BY <1>2, <1>3, <1>5, <2>2 DEF At, Kinds
    <2>3. CASE e # e0
        BY <1>2, <1>3, <2>3 DEF At
    <2>4. QED
        BY <2>2, <2>3
<1>7. OnePlace'
    <2>1. Moves({e0}, "loop", l, j, None)
        BY <1>4, <1>6 DEF Moves
    <2>2. QED
        BY <1>4, <2>1, MoveKeepsPlace
<1>8. QED
    BY <1>7, LoopLeaves

\* The event of a loop joins the window of a runner.
LEMMA JoinPlaces ==
    ASSUME PlaceInv, NEW l \in Loops, NEW r \in Runners, loopPc[l] # "idle", JoinPending(l, r)
    PROVE  IdleInv' /\ OnePlace'
<1> USE DEF PlaceInv
<1>1. PICK e0 \in Events : e0 = loopEvent[l]
    BY LoopLeaves DEF JoinPending
<1>2. /\ pending'[r] = Append(pending[r], e0) /\ pending[r] \in Seq(Events)
      /\ \A q \in Runners \ {r} : pending'[q] = pending[q]
      /\ UNCHANGED << sent, asked, lost, arrived >> /\ LoopReturns(l)
    BY <1>1 DEF JoinPending, IInv, TypeOK
<1>3. \A e \in Events : HeldByLoop(e)' = IF e = e0 THEN {} ELSE HeldByLoop(e)
    BY <1>1, <1>2, LoopLeaves
<1>4. \A e \in Events : HeldByRunner(e)' = IF e = e0 THEN HeldByRunner(e) \cup {r}
                                           ELSE HeldByRunner(e)
    <2>1. Elements(pending'[r]) = Elements(pending[r]) \cup {e0}
        BY <1>2, ElementsOfAppend
    <2>2. \A q \in Runners \ {r} : Elements(pending'[q]) = Elements(pending[q])
        BY <1>2
    <2>3. \A e \in Events : HeldByRunner(e)' = { q \in Runners : e \in Elements(pending'[q]) }
        BY DEF HeldByRunner, Elements
    <2>4. QED
        BY <2>1, <2>2, <2>3 DEF HeldByRunner
<1>5. \A e \in Events : HeldByTask(e)' = HeldByTask(e) /\ HeldByAgent(e)' = HeldByAgent(e)
    <2>1. \A t \in Tasks : /\ pc'[t] = "convert" <=> pc[t] = "convert"
                           /\ pc[t] = "convert" => batch'[t] = batch[t]
        BY FreshTaskIsFree
        DEF JoinPending, ScheduleDebounce, Timer, TimerAlive, IInv, TimerInv, TypeOK, Waiting
    <2>2. QED
        BY <1>2, <2>1 DEF HeldByTask, HeldByAgent, Elements
<1>6. /\ "loop" \in Kinds /\ "runner" \in Kinds /\ l \in Holders /\ r \in Holders
      /\ At("loop", l, e0)
    BY <1>1 DEF Kinds, Holders, At, HeldByLoop
<1>7. \A kind \in Kinds, z \in Holders : At(kind, z, e0) => kind = "loop" /\ z = l
    BY <1>6 DEF OnePlace
<1>8. \A kind \in Kinds, z \in Holders, e \in Events :
         At(kind, z, e)' <=> \/ At(kind, z, e) /\ e \notin {e0}
                             \/ e \in {e0} /\ kind = "runner" /\ z = r
    <2>1. SUFFICES ASSUME NEW kind \in Kinds, NEW z \in Holders, NEW e \in Events
                   PROVE  At(kind, z, e)' <=> \/ At(kind, z, e) /\ e # e0
                                              \/ e = e0 /\ kind = "runner" /\ z = r
        OBVIOUS
    <2>2. CASE e = e0
        BY <1>2, <1>3, <1>4, <1>5, <1>7, <2>2 DEF At, Kinds
    <2>3. CASE e # e0
        BY <1>2, <1>3, <1>4, <1>5, <2>3 DEF At
    <2>4. QED
        BY <2>2, <2>3
<1>9. OnePlace'
    <2>1. Moves({e0}, "loop", l, "runner", r)
        BY <1>2, <1>6, <1>8 DEF Moves
    <2>2. QED
        BY <1>6, <2>1, MoveKeepsPlace
<1>10. QED
    BY <1>2, <1>9, LoopLeaves

\* The pending events of a runner become the batch of its task.
LEMMA TakeBatchPlaces ==
    ASSUME PlaceInv, NEW t \in Tasks, pc[t] \in Waiting, TakeBatch(t), UNCHANGED worldVars,
           UNCHANGED loopVars
    PROVE  OnePlace'
<1> USE DEF PlaceInv
<1>1. PICK r \in Runners : owner[t] = r
    BY WaitingTask
<1>2. /\ pending'[r] = << >> /\ batch'[t] = pending[r]
      /\ pc[t] # "convert" /\ pc'[t] = "convert"
      /\ \A q \in Runners \ {r} : pending'[q] = pending[q]
      /\ \A u \in Tasks \ {t} : pc'[u] = pc[u] /\ batch'[u] = batch[u]
      /\ UNCHANGED << loopEvent, sent, asked, lost, arrived >>
    BY <1>1 DEF TakeBatch, IInv, TypeOK, Waiting, worldVars, loopVars
<1>3. PICK moved \in SUBSET Events : moved = Elements(pending[r])
    BY ElementsOfEvents DEF IInv, TypeOK
<1>4. Elements(pending'[r]) = {}
    BY <1>2, ElementsOfEvents
<1>5. \A e \in Events : HeldByRunner(e)' = IF e \in moved THEN HeldByRunner(e) \ {r}
                                           ELSE HeldByRunner(e)
    <2>1. \A q \in Runners \ {r} : Elements(pending'[q]) = Elements(pending[q])
        BY <1>2
    <2>2. \A e \in Events : HeldByRunner(e)' = { q \in Runners : e \in Elements(pending'[q]) }
        BY DEF HeldByRunner, Elements
    <2>3. QED
        BY <1>3, <1>4, <2>1, <2>2 DEF HeldByRunner
<1>6. \A e \in Events : HeldByTask(e)' = IF e \in moved THEN HeldByTask(e) \cup {t}
                                         ELSE HeldByTask(e)
    <2>1. Elements(batch'[t]) = moved
        BY <1>2, <1>3
    <2>2. \A u \in Tasks \ {t} : Elements(batch'[u]) = Elements(batch[u])
        BY <1>2
    <2>3. \A e \in Events : HeldByTask(e)' =
             { u \in Tasks : pc'[u] = "convert" /\ e \in Elements(batch'[u]) }
        BY DEF HeldByTask, Elements
    <2>4. QED
        BY <1>2, <2>1, <2>2, <2>3 DEF HeldByTask
<1>7. \A e \in Events : HeldByLoop(e)' = HeldByLoop(e) /\ HeldByAgent(e)' = HeldByAgent(e)
    BY <1>2 DEF HeldByLoop, HeldByAgent, Elements
<1>8. /\ "runner" \in Kinds /\ "task" \in Kinds /\ r \in Holders /\ t \in Holders
      /\ \A e \in moved : At("runner", r, e)
    BY <1>3 DEF Kinds, Holders, At, HeldByRunner
<1>9. \A kind \in Kinds, z \in Holders : \A e \in moved :
         At(kind, z, e) => kind = "runner" /\ z = r
    BY <1>8 DEF OnePlace
<1>10. \A kind \in Kinds, z \in Holders, e \in Events :
          At(kind, z, e)' <=> \/ At(kind, z, e) /\ e \notin moved
                              \/ e \in moved /\ kind = "task" /\ z = t
    <2>1. SUFFICES ASSUME NEW kind \in Kinds, NEW z \in Holders, NEW e \in Events
                   PROVE  At(kind, z, e)' <=> \/ At(kind, z, e) /\ e \notin moved
                                              \/ e \in moved /\ kind = "task" /\ z = t
        OBVIOUS
    <2>2. CASE e \in moved
        BY <1>2, <1>5, <1>6, <1>7, <1>8, <1>9, <2>2 DEF At, Kinds
    <2>3. CASE e \notin moved
        BY <1>2, <1>5, <1>6, <1>7, <2>3 DEF At
    <2>4. QED
        BY <2>2, <2>3
<1>11. Moves(moved, "runner", r, "task", t)
    BY <1>2, <1>8, <1>10 DEF Moves
<1>12. QED
    BY <1>8, <1>11, MoveKeepsPlace

\* The batch of a run is POSTed to /chat.
LEMMA CallAgentPlaces ==
    ASSUME PlaceInv, NEW t \in Tasks, CallAgent(t)
    PROVE  IdleInv' /\ OnePlace'
<1> USE DEF PlaceInv
<1>1. pc[t] = "convert" /\ batch[t] \in Seq(Events) /\ batch[t] # << >>
    BY DEF CallAgent, IInv, TypeOK, OrderInv, SequenceInv, Serving
<1>2. PICK k \in Keys : k = key[owner[t]]
    <2>1. 1 \in DOMAIN batch[t]
        BY <1>1, EmptySeq, LenProperties
    <2>2. batch[t][1] \in Events /\ KeyOf[batch[t][1]] = key[owner[t]]
        BY <1>1, <2>1, LenProperties, ElementOfSeq
        DEF OrderInv, SequenceInv, OfKey, Elements, Serving
    <2>3. QED
        BY <2>2, KeyAssumption
<1>3. /\ sent'[k] = sent[k] \o batch[t] /\ \A q \in Keys \ {k} : sent'[q] = sent[q]
      /\ pc'[t] = "chat" /\ \A u \in Tasks \ {t} : pc'[u] = pc[u]
      /\ UNCHANGED << loopEvent, loopPc, pending, batch, asked, lost, arrived >>
    BY <1>2 DEF CallAgent, IInv, TypeOK, runnerVars, loopVars
<1>4. IdleInv'
    BY <1>3 DEF IdleInv
<1>5. PICK moved \in SUBSET Events : moved = Elements(batch[t])
    BY <1>1, ElementsOfEvents
<1>6. \A e \in Events : HeldByAgent(e)' = IF e \in moved THEN HeldByAgent(e) \cup {k}
                                          ELSE HeldByAgent(e)
    <2>1. sent[k] \in Seq(Events)
        BY DEF IInv, TypeOK
    <2>2. Elements(sent'[k]) = Elements(sent[k]) \cup moved
        BY <1>1, <1>3, <1>5, <2>1, ElementsOfConcat
    <2>3. \A q \in Keys \ {k} : Elements(sent'[q]) = Elements(sent[q])
        BY <1>3
    <2>4. \A e \in Events : HeldByAgent(e)' = { q \in Keys : e \in Elements(sent'[q]) }
        BY DEF HeldByAgent, Elements
    <2>5. QED
        BY <2>2, <2>3, <2>4 DEF HeldByAgent
<1>7. \A e \in Events : HeldByTask(e)' = IF e \in moved THEN HeldByTask(e) \ {t}
                                         ELSE HeldByTask(e)
    BY <1>1, <1>3, <1>5 DEF HeldByTask, Elements
<1>8. \A e \in Events : HeldByLoop(e)' = HeldByLoop(e) /\ HeldByRunner(e)' = HeldByRunner(e)
    BY <1>3 DEF HeldByLoop, HeldByRunner, Elements
<1>9. /\ "task" \in Kinds /\ "agent" \in Kinds /\ t \in Holders /\ k \in Holders
      /\ \A e \in moved : At("task", t, e)
    BY <1>1, <1>5 DEF Kinds, Holders, At, HeldByTask
<1>10. \A kind \in Kinds, z \in Holders : \A e \in moved :
          At(kind, z, e) => kind = "task" /\ z = t
    BY <1>9 DEF OnePlace
<1>11. \A kind \in Kinds, z \in Holders, e \in Events :
          At(kind, z, e)' <=> \/ At(kind, z, e) /\ e \notin moved
                              \/ e \in moved /\ kind = "agent" /\ z = k
    <2>1. SUFFICES ASSUME NEW kind \in Kinds, NEW z \in Holders, NEW e \in Events
                   PROVE  At(kind, z, e)' <=> \/ At(kind, z, e) /\ e \notin moved
                                              \/ e \in moved /\ kind = "agent" /\ z = k
        OBVIOUS
    <2>2. CASE e \in moved
        BY <1>3, <1>6, <1>7, <1>8, <1>9, <1>10, <2>2 DEF At, Kinds
    <2>3. CASE e \notin moved
        BY <1>3, <1>6, <1>7, <1>8, <2>3 DEF At
    <2>4. QED
        BY <2>2, <2>3
<1>12. Moves(moved, "task", t, "agent", k)
    BY <1>3, <1>9, <1>11 DEF Moves
<1>13. QED
    BY <1>4, <1>9, <1>12, MoveKeepsPlace

\* A receive loop keeps every event in one place.
LEMMA LoopPlaces ==
    ASSUME PlaceInv, NEW l \in Loops, Receive(l) \/ LoopStep(l)
    PROVE  IdleInv' /\ OnePlace'
<1> USE DEF PlaceInv
<1>1. CASE Receive(l)
    BY <1>1, ReceivePlaces
<1>2. CASE QueueMessage(l) \/ QueueMessageFails(l) \/ CreateSessionFails(l)
    <2>1. /\ loopPc[l] # "idle" /\ LoopReturns(l)
          /\ UNCHANGED << pending, pc, batch, sent, arrived >>
          /\ \/ asked' = asked \cup {loopEvent[l]} /\ lost' = lost
             \/ lost' = lost \cup {loopEvent[l]} /\ asked' = asked
        BY <1>2 DEF QueueMessage, QueueMessageFails, CreateSessionFails, runnerVars, taskVars
    <2>2. QED
        BY <2>1, QueuePlaces
<1>3. CASE SubmitRunning(l) \/ SubmitUnknown(l)
    <2>1. /\ UNCHANGED << loopEvent, pending, sent, asked, lost, arrived, pc, batch >>
          /\ loopPc[l] # "idle" /\ \A m \in Loops \ {l} : loopPc'[m] = loopPc[m]
          /\ loopPc'[l] # "idle"
        BY <1>3 DEF SubmitRunning, SubmitUnknown, runnerVars, taskVars, worldVars, IInv, TypeOK
    <2>2. QED
        BY <2>1, SamePlaces DEF IdleInv
<1>4. CASE SubmitPending(l)
    <2>1. PICK k \in Keys : k = EventKey(l)
        BY <1>4, KeyAssumption DEF SubmitPending, EventKey, IInv, LockInv
    <2>2. PICK r \in Runners : r = runners[k] /\ loopPc[l] # "idle"
        BY <1>4, <2>1 DEF SubmitPending, IInv, TypeOK
    <2>3. CASE stopping[r]
        <3>1. /\ LoopReturns(l) /\ lost' = lost \cup {loopEvent[l]} /\ asked' = asked
              /\ UNCHANGED << pending, pc, batch, sent, arrived >>
            BY <1>4, <2>1, <2>2, <2>3 DEF SubmitPending, runnerVars, taskVars
        <3>2. QED
            BY <2>2, <3>1, QueuePlaces
    <2>4. CASE ~stopping[r]
        <3>1. JoinPending(l, r)
            BY <1>4, <2>1, <2>2, <2>4 DEF SubmitPending
        <3>2. QED
            BY <2>2, <3>1, JoinPlaces
    <2>5. QED
        BY <2>3, <2>4
<1>5. CASE SubmitNewRunner(l) \/ CreateSession(l)
    <2>1. NewRunner(l) /\ loopPc[l] # "idle"
        BY <1>5 DEF SubmitNewRunner, CreateSession
    <2>2. PICK r \in Runners : r = FreshRunner
        BY <2>1, FreshRunnerIsUnused DEF NewRunner
    <2>3. QED
        BY <2>1, <2>2, JoinPlaces DEF NewRunner
<1>6. QED
    BY <1>1, <1>2, <1>3, <1>4, <1>5 DEF LoopStep

\* A task keeps every event in one place.
LEMMA TaskPlaces ==
    ASSUME PlaceInv, NEW t \in Tasks, TaskStep(t)
    PROVE  IdleInv' /\ OnePlace'
<1> USE DEF PlaceInv
<1>1. ASSUME NotifyIdle(t, TRUE) \/ NotifyIdle(t, FALSE), pc[t] # "convert"
      PROVE  \A u \in Tasks : /\ pc'[u] = "convert" <=> pc[u] = "convert"
                              /\ pc[u] = "convert" => batch'[u] = batch[u]
    BY <1>1 DEF NotifyIdle, TasksEnd, IInv, TypeOK
<1>2. \A b : NotifyIdle(t, b) => NotifyIdle(t, TRUE) \/ NotifyIdle(t, FALSE)
    BY DEF NotifyIdle
<1>3. ASSUME NEW b, NotifyIdle(t, b), pc[t] # "convert"
      PROVE  \A u \in Tasks : /\ pc'[u] = "convert" <=> pc[u] = "convert"
                              /\ pc[u] = "convert" => batch'[u] = batch[u]
    BY <1>1, <1>2, <1>3
<1>4. CASE StartTimer(t) \/ WakeTimer(t)
    <2>1. pc[t] \in Waiting /\ UNCHANGED << worldVars, loopVars >>
        BY <1>4 DEF StartTimer, WakeTimer, Waiting
    <2>2. IdleInv'
        BY <2>1 DEF IdleInv, loopVars
    <2>3. CASE TakeBatch(t)
        BY <2>1, <2>2, <2>3, TakeBatchPlaces
    <2>4. CASE GiveUp(t)
        <3>1. pending' = pending /\ \E b : NotifyIdle(t, b)
            BY <2>4 DEF GiveUp
        <3>2. QED
            BY <1>3, <2>1, <2>2, <3>1, SamePlaces DEF worldVars, loopVars, Waiting
    <2>5. CASE /\ UNCHANGED << runnerVars, owner, batch, lockQueue >>
               /\ \E v \in {"done", "sleep"} : pc' = [pc EXCEPT ![t] = v]
        <3>1. pending' = pending /\ \A u \in Tasks : /\ pc'[u] = "convert" <=> pc[u] = "convert"
                                                     /\ batch'[u] = batch[u]
            BY <2>1, <2>5 DEF runnerVars, Waiting, IInv, TypeOK
        <3>2. QED
            BY <2>1, <2>2, <3>1, SamePlaces DEF worldVars, loopVars
    <2>6. QED
        BY <1>4, <2>3, <2>4, <2>5 DEF StartTimer, WakeTimer, SleepUntilDeadline
<1>5. CASE CallAgent(t)
    BY <1>5, CallAgentPlaces
<1>6. CASE AgentReplies(t)
    <2>1. /\ UNCHANGED << loopVars, pending, sent, asked, lost, arrived, batch >>
          /\ \A u \in Tasks : pc'[u] = "convert" <=> pc[u] = "convert"
        BY <1>6 DEF AgentReplies, runnerVars, worldVars, IInv, TypeOK
    <2>2. QED
        BY <2>1, SamePlaces DEF IdleInv, loopVars
<1>7. CASE RunEnds(t)
    <2>1. PICK r \in Runners : owner[t] = r /\ running[r]
        BY <1>7 DEF RunEnds, Serving, IInv, TypeOK, OwnerInv, RunInv
    <2>2. pending[r] = << >> /\ pc[t] # "convert"
        BY <1>7, <2>1 DEF RunEnds, IInv, RunInv
    <2>3. /\ UNCHANGED << loopVars, pending, worldVars >> /\ \E b : NotifyIdle(t, b)
        BY <1>7, <2>1, <2>2 DEF RunEnds
    <2>4. QED
        BY <1>3, <2>2, <2>3, SamePlaces DEF IdleInv, loopVars, worldVars
<1>8. CASE OnRunnerIdle(t)
    <2>1. /\ UNCHANGED << loopVars, runnerVars, worldVars >> /\ pc[t] = "idle" /\ TasksEnd({t})
        BY <1>8 DEF OnRunnerIdle
    <2>2. \A u \in Tasks : /\ pc'[u] = "convert" <=> pc[u] = "convert"
                           /\ pc[u] = "convert" => batch'[u] = batch[u]
        BY <2>1 DEF TasksEnd
    <2>3. QED
        BY <2>1, <2>2, SamePlaces DEF IdleInv, loopVars, runnerVars, worldVars
<1>9. QED
    BY <1>4, <1>5, <1>6, <1>7, <1>8 DEF TaskStep

\* So does every step.
LEMMA NextPlaces == PlaceInv /\ [Next]_vars => IdleInv' /\ OnePlace'
<1> SUFFICES ASSUME PlaceInv, [Next]_vars PROVE IdleInv' /\ OnePlace'
    OBVIOUS
<1>1. CASE \E r \in Runners : StopRunner(r)
    <2>1. PICK r \in Runners : StopRunner(r)
        BY <1>1
    <2>2. UNCHANGED << loopVars, pending, batch, worldVars >>
        BY <2>1 DEF StopRunner
    <2>3. \A u \in Tasks : pc'[u] = "convert" <=> pc[u] = "convert"
        BY <2>1 DEF StopRunner, Timer, TimerAlive, PlaceInv, IInv, TimerInv, Waiting
    <2>4. QED
        BY <2>2, <2>3, SamePlaces DEF PlaceInv, IdleInv, loopVars, worldVars
<1>2. CASE BeginShutdown \/ ClearRunners \/ Tick \/ Terminated \/ UNCHANGED vars
    <2>1. UNCHANGED << loopVars, pending, pc, batch, sent, asked, lost, arrived >>
        BY <1>2 DEF BeginShutdown, ClearRunners, Tick, Terminated, vars, runnerVars, taskVars,
                    worldVars
    <2>2. QED
        BY <2>1, SamePlaces DEF PlaceInv, IdleInv, loopVars
<1>3. QED
    BY <1>1, <1>2, LoopPlaces, TaskPlaces DEF Next, ShutdownStep

\* The inductive invariant of Conservation.
LEMMA PlaceInvariance == Spec => []PlaceInv
<1>1. Init => PlaceInv
    BY InitIInv, InitOrder, InitPlaces DEF PlaceInv
<1>2. PlaceInv /\ [Next]_vars => PlaceInv'
    BY NextIInv, NextOrder, NextPlaces DEF PlaceInv
<1>3. QED
    BY <1>1, <1>2, PTL DEF Spec

\* Six sets of holders with one member between them.
LEMMA OneHolder ==
    ASSUME PlaceInv, NEW e \in 1..arrived
    PROVE  Cardinality(HeldByLoop(e)) + Cardinality(HeldByRunner(e))
           + Cardinality(HeldByTask(e)) + Cardinality(HeldByAgent(e))
           + (IF e \in asked THEN 1 ELSE 0) + (IF e \in lost THEN 1 ELSE 0) = 1
<1>1. e \in Events /\ e <= arrived
    BY BoundsAssumption DEF PlaceInv, IInv, TypeOK, Events
<1>2. PICK kind \in Kinds, x \in Holders : At(kind, x, e)
    BY <1>1 DEF PlaceInv, OnePlace
<1>3. \A j \in Kinds, y \in Holders : At(j, y, e) => j = kind /\ y = x
    BY <1>1, <1>2 DEF PlaceInv, OnePlace
<1>4. /\ Loops \subseteq Holders /\ Runners \subseteq Holders /\ Tasks \subseteq Holders
      /\ Keys \subseteq Holders /\ None \in Holders
      /\ \A y \in Holders : \A j \in {"loop", "runner", "task", "agent", "asked", "lost"} :
            j \in Kinds
    BY DEF Holders, Kinds
<1>5. /\ HeldByLoop(e) = IF kind = "loop" THEN {x} ELSE {}
      /\ HeldByRunner(e) = IF kind = "runner" THEN {x} ELSE {}
    BY <1>2, <1>3, <1>4 DEF At, HeldByLoop, HeldByRunner
<1>6. /\ HeldByTask(e) = IF kind = "task" THEN {x} ELSE {}
      /\ HeldByAgent(e) = IF kind = "agent" THEN {x} ELSE {}
    BY <1>2, <1>3, <1>4 DEF At, HeldByTask, HeldByAgent
<1>7. (e \in asked <=> kind = "asked") /\ (e \in lost <=> kind = "lost")
    BY <1>2, <1>3, <1>4 DEF At
<1>8. Cardinality({x}) = 1 /\ Cardinality({}) = 0
    BY FS_Singleton, FS_EmptySet
<1>9. kind \in {"loop", "runner", "task", "agent", "asked", "lost"}
    BY DEF Kinds
<1>10. QED
    BY <1>5, <1>6, <1>7, <1>8, <1>9

\* An event that arrived is never in two places and never nowhere: no await between taking
\* it and handing it on duplicates or drops it.
THEOREM NoEventLostOrDoubled == Spec => []Conservation
<1>1. PlaceInv => Conservation
    BY OneHolder DEF Conservation
<1>2. QED
    BY <1>1, PlaceInvariance, PTL

=============================================================================

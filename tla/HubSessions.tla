----------------------------- MODULE HubSessions -----------------------------
(***************************************************************************)
(* The conversation scheduler of hub-service: SessionRegistry and the      *)
(* SessionRunner objects it creates (session_registry.py,                  *)
(* session_runner.py).                                                     *)
(*                                                                         *)
(* One asyncio event loop runs every coroutine, so the code between two    *)
(* awaits that really suspend is one atomic action.  SessionRunner._lock   *)
(* is never held across such an await, hence never contended, and each of  *)
(* its critical sections is part of an action.  SessionRegistry._lock IS   *)
(* held across awaits (create_session, queue_session_message), so it is    *)
(* modelled: a FIFO queue of processes whose head holds the lock.  Taking  *)
(* a free lock does not suspend in asyncio; the model lets other processes *)
(* run in between, which only adds interleavings.                          *)
(*                                                                         *)
(* Processes: the receive loops of the NapCat connections (Loops), the     *)
(* asyncio tasks a runner creates (Tasks), and the shutdown hook.          *)
(* Runners and Tasks are pools of object identities; an identity nobody    *)
(* refers to any more is reused, as Python frees the object.               *)
(*                                                                         *)
(* An operator named Faulty... is a plausible wrong variant of the         *)
(* definition below it.  No action uses one: it shows, put in the place of *)
(* that definition, that a property can fail.                              *)
(***************************************************************************)
EXTENDS Integers, Sequences, FiniteSets

CONSTANTS
    Keys,           \* session keys: private_<user_id>, group_<group_id>
    KeyOf,          \* the session key of each event: [Events -> Keys]
    MaxEvents,      \* bound: how many events arrive
    Loops,          \* receive loops (two overlap while NapCat reconnects)
    Runners,        \* identities of SessionRunner objects
    Tasks,          \* identities of asyncio tasks
    Shutdown,       \* the application's shutdown hook
    DebounceTicks,  \* debounce_seconds, in clock ticks
    None            \* Python's None

Events == 1..MaxEvents
Procs == Loops \cup Tasks \cup {Shutdown}

ASSUME BoundsAssumption == MaxEvents \in Nat /\ DebounceTicks \in Nat
ASSUME KeyAssumption == KeyOf \in [Events -> Keys]
ASSUME IdentityAssumption ==
    /\ None \notin Runners /\ None \notin Tasks
    /\ Loops \cap Tasks = {} /\ Shutdown \notin Loops \cup Tasks

VARIABLES
    \* SessionRegistry
    runners,        \* _runners: [Keys -> Runners \cup {None}]
    agentIds,       \* the keys of _agent_session_ids
    lockQueue,      \* _lock: its holder, then its waiters in order
    regStopping,    \* _stopping
    \* SessionRunner, per object
    key,            \* _session_key
    pending,        \* _pending_events
    deadline,       \* _debounce_deadline: ticks left, NoDeadline for None
    debounceTask,   \* _debounce_task
    running,        \* _running
    stopping,       \* _stopping
    \* asyncio tasks executing _debounce_then_run and _run_once
    pc,             \* where the task is suspended
    owner,          \* its runner
    left,           \* ticks left of its sleep
    batch,          \* batched_events
    \* receive loops inside submit_event
    loopPc, loopEvent,
    \* SessionRegistry.shutdown
    shutPc, toStop,
    \* what the outside world has seen (history)
    arrived,        \* events received from NapCat so far
    sent,           \* per key, the events POSTed to /chat, in order
    asked,          \* events POSTed to /sessions/{id}/queue-message
    lost,           \* events dropped on an error or a stopped runner
    quiet,          \* per key, ticks since the last event joined pending
    newest          \* per key, the last event that joined pending

registryVars == << runners, agentIds, regStopping >>
runnerVars == << key, pending, deadline, debounceTask, running, stopping >>
taskVars == << pc, owner, left, batch >>
loopVars == << loopPc, loopEvent >>
shutVars == << shutPc, toStop >>
worldVars == << arrived, sent, asked, lost, quiet, newest >>
vars == << registryVars, lockQueue, runnerVars, taskVars, loopVars, shutVars,
           worldVars >>

NoDeadline == -1
NoEvent == 0

Waiting == { "start", "sleep" }             \* the debounce window
Serving == { "convert", "chat", "send" }    \* inside _run_once
TaskPcs == { "none", "done", "idle" } \cup Waiting \cup Serving

Init ==
    /\ runners = [k \in Keys |-> None]
    /\ agentIds = {}
    /\ lockQueue = << >>
    /\ regStopping = FALSE
    /\ key = [r \in Runners |-> None]
    /\ pending = [r \in Runners |-> << >>]
    /\ deadline = [r \in Runners |-> NoDeadline]
    /\ debounceTask = [r \in Runners |-> None]
    /\ running = [r \in Runners |-> FALSE]
    /\ stopping = [r \in Runners |-> FALSE]
    /\ pc = [t \in Tasks |-> "none"]
    /\ owner = [t \in Tasks |-> None]
    /\ left = [t \in Tasks |-> 0]
    /\ batch = [t \in Tasks |-> << >>]
    /\ loopPc = [l \in Loops |-> "idle"]
    /\ loopEvent = [l \in Loops |-> NoEvent]
    /\ shutPc = "off"
    /\ toStop = {}
    /\ arrived = 0
    /\ sent = [k \in Keys |-> << >>]
    /\ asked = {}
    /\ lost = {}
    /\ quiet = [k \in Keys |-> DebounceTicks]
    /\ newest = [k \in Keys |-> NoEvent]

-----------------------------------------------------------------------------
(* Object identities and helpers *)

FreshTask == CHOOSE t \in Tasks : pc[t] = "none"

\* Nobody refers to r: neither the registry, nor a task, nor a shutdown.
Unused(r) == /\ \A k \in Keys : runners[k] # r
             /\ \A t \in Tasks : owner[t] # r
             /\ r \notin toStop

FreshRunner == CHOOSE r \in Runners : Unused(r)

\* asyncio.Lock is fair: the head of the queue owns the lock.
Holds(p) == lockQueue # << >> /\ Head(lockQueue) = p
Acquire(p) == lockQueue' = Append(lockQueue, p)
Release == lockQueue' = Tail(lockQueue)

\* _debounce_task is not None and not done()
TimerAlive(r) == debounceTask[r] # None /\ pc[debounceTask[r]] # "done"

\* _is_idle_locked
IsIdle(r) == ~running[r] /\ pending[r] = << >> /\ ~TimerAlive(r)

\* The tasks in gone end here; a task that is cancelled while it sleeps, or before
\* it first runs, executes nothing more, so cancellation is immediate.
TasksEnd(gone) ==
    /\ pc' = [t \in Tasks |-> IF t \in gone THEN "none" ELSE pc[t]]
    /\ owner' = [t \in Tasks |-> IF t \in gone THEN None ELSE owner[t]]
    /\ left' = [t \in Tasks |-> IF t \in gone THEN 0 ELSE left[t]]
    /\ batch' = [t \in Tasks |-> IF t \in gone THEN << >> ELSE batch[t]]

Timer(r) == { t \in Tasks : TimerAlive(r) /\ t = debounceTask[r] }

FaultyCancelOnly(r, gone) ==     \* cancels the timer and starts no other
    IF Timer(r) # {}
    THEN TasksEnd(gone \cup Timer(r)) /\ debounceTask' = [debounceTask EXCEPT ![r] = None]
    ELSE /\ \E t \in Tasks : pc[t] = "none"
         /\ debounceTask' = [debounceTask EXCEPT ![r] = FreshTask]
         /\ pc' = [t \in Tasks |-> IF t = FreshTask THEN "start"
                                   ELSE IF t \in gone THEN "none" ELSE pc[t]]
         /\ owner' = [t \in Tasks |-> IF t = FreshTask THEN r
                                      ELSE IF t \in gone THEN None ELSE owner[t]]
         /\ UNCHANGED << left, batch >>

\* _schedule_debounce_locked: cancel the timer of r if it is alive, start a new one.
\* The tasks in gone end in the same step.
ScheduleDebounce(r, gone) ==
    /\ \E t \in Tasks : pc[t] = "none"
    /\ debounceTask' = [debounceTask EXCEPT ![r] = FreshTask]
    /\ pc' = [t \in Tasks |-> IF t = FreshTask THEN "start"
                              ELSE IF t \in gone \cup Timer(r) THEN "none" ELSE pc[t]]
    /\ owner' = [t \in Tasks |-> IF t = FreshTask THEN r
                                 ELSE IF t \in gone \cup Timer(r) THEN None ELSE owner[t]]
    /\ left' = [t \in Tasks |-> IF t \in gone \cup Timer(r) THEN 0 ELSE left[t]]
    /\ batch' = [t \in Tasks |-> IF t \in gone \cup Timer(r) THEN << >> ELSE batch[t]]

-----------------------------------------------------------------------------
(* Receive loops: submit_event *)

\* The loop takes the next event from the connection and asks for the registry lock.
Receive(l) ==
    /\ loopPc[l] = "idle" /\ ~regStopping
    /\ arrived < MaxEvents
    /\ arrived' = arrived + 1
    /\ loopEvent' = [loopEvent EXCEPT ![l] = arrived + 1]
    /\ loopPc' = [loopPc EXCEPT ![l] = "lock"]
    /\ Acquire(l)
    /\ UNCHANGED << registryVars, runnerVars, taskVars, shutVars, sent, asked, lost, quiet, newest >>

\* submit_event returns or raises: the lock is released, the loop takes the next event.
LoopReturns(l) ==
    /\ loopPc' = [loopPc EXCEPT ![l] = "idle"]
    /\ loopEvent' = [loopEvent EXCEPT ![l] = NoEvent]
    /\ Release

EventKey(l) == KeyOf[loopEvent[l]]

FaultyFirstDeadline(r) == IF deadline[r] = NoDeadline THEN DebounceTicks ELSE deadline[r]

\* Each message restarts the window.
NewDeadline(r) == DebounceTicks

\* submit_message on a runner that is neither stopping nor running: the event joins
\* pending, the window restarts.
JoinPending(l, r) ==
    /\ pending' = [pending EXCEPT ![r] = Append(@, loopEvent[l])]
    /\ deadline' = [deadline EXCEPT ![r] = NewDeadline(r)]
    /\ ScheduleDebounce(r, {})
    /\ quiet' = [quiet EXCEPT ![EventKey(l)] = 0]
    /\ newest' = [newest EXCEPT ![EventKey(l)] = loopEvent[l]]
    /\ LoopReturns(l)
    /\ UNCHANGED << running, stopping, arrived, sent, asked, lost, shutVars, regStopping >>

FaultyAlwaysJoins(r) == TRUE

\* The branch of submit_message that does not hand the event to the agent's queue.
JoinsOrDrops(r) == stopping[r] \/ ~running[r]

\* The registry knows the session and its runner is not in a run.
SubmitPending(l) ==
    /\ loopPc[l] = "lock" /\ Holds(l)
    /\ LET r == runners[EventKey(l)] IN
        /\ r # None
        /\ JoinsOrDrops(r)
        /\ IF stopping[r]
           THEN /\ lost' = lost \cup { loopEvent[l] }
                /\ LoopReturns(l)
                /\ UNCHANGED << runnerVars, taskVars, shutVars, arrived, sent, asked,
                                quiet, newest, regStopping >>
           ELSE JoinPending(l, r) /\ UNCHANGED key
    /\ UNCHANGED << runners, agentIds >>

\* The runner is in a run: the event goes to the agent's queue.  The registry lock
\* stays held while the event is converted to XML and POSTed.
SubmitRunning(l) ==
    /\ loopPc[l] = "lock" /\ Holds(l)
    /\ LET r == runners[EventKey(l)] IN r # None /\ ~stopping[r] /\ running[r]
    /\ loopPc' = [loopPc EXCEPT ![l] = "queue"]
    /\ UNCHANGED << registryVars, lockQueue, runnerVars, taskVars, loopEvent, shutVars,
                    worldVars >>

QueueMessage(l) ==
    /\ loopPc[l] = "queue"
    /\ asked' = asked \cup { loopEvent[l] }
    /\ LoopReturns(l)
    /\ UNCHANGED << registryVars, runnerVars, taskVars, shutVars, arrived, sent, lost, quiet, newest >>

\* An HTTP error is swallowed, a transport error ends the connection: the event is
\* lost either way, and the lock is released either way.
QueueMessageFails(l) ==
    /\ loopPc[l] = "queue"
    /\ lost' = lost \cup { loopEvent[l] }
    /\ LoopReturns(l)
    /\ UNCHANGED << registryVars, runnerVars, taskVars, shutVars, arrived, sent, asked, quiet, newest >>

\* A new SessionRunner for the event's session, which gets the event.
NewRunner(l) ==
    /\ \E r \in Runners : Unused(r)
    /\ runners' = [runners EXCEPT ![EventKey(l)] = FreshRunner]
    /\ key' = [key EXCEPT ![FreshRunner] = EventKey(l)]
    /\ JoinPending(l, FreshRunner)

\* No runner, but the agent session is known: no await, so the lookup and the
\* creation are one step.
SubmitNewRunner(l) ==
    /\ loopPc[l] = "lock" /\ Holds(l)
    /\ runners[EventKey(l)] = None /\ EventKey(l) \in agentIds
    /\ NewRunner(l)
    /\ UNCHANGED agentIds

\* No runner and no agent session: the lookup is done, create_session is awaited
\* with the registry lock held.
SubmitUnknown(l) ==
    /\ loopPc[l] = "lock" /\ Holds(l)
    /\ runners[EventKey(l)] = None /\ EventKey(l) \notin agentIds
    /\ loopPc' = [loopPc EXCEPT ![l] = "create"]
    /\ UNCHANGED << registryVars, lockQueue, runnerVars, taskVars, loopEvent, shutVars,
                    worldVars >>

CreateSession(l) ==
    /\ loopPc[l] = "create"
    /\ agentIds' = agentIds \cup { EventKey(l) }
    /\ NewRunner(l)

FaultyCreateKeepsLock(l) ==     \* the lock is not released on the exception
    /\ loopPc[l] = "create"
    /\ lost' = lost \cup { loopEvent[l] }
    /\ loopPc' = [loopPc EXCEPT ![l] = "idle"]
    /\ loopEvent' = [loopEvent EXCEPT ![l] = NoEvent]
    /\ UNCHANGED << registryVars, lockQueue, runnerVars, taskVars, shutVars, arrived, sent,
                    asked, quiet, newest >>

\* create_session raises: nothing is registered, the exception ends the connection.
CreateSessionFails(l) ==
    /\ loopPc[l] = "create"
    /\ lost' = lost \cup { loopEvent[l] }
    /\ LoopReturns(l)
    /\ UNCHANGED << registryVars, runnerVars, taskVars, shutVars, arrived, sent, asked, quiet, newest >>

-----------------------------------------------------------------------------
(* Tasks: _debounce_then_run and _run_once *)

FaultyNeverNotifies(t, idle) == TasksEnd({t}) /\ UNCHANGED lockQueue

\* _on_idle up to the registry lock: the callback is awaited when the runner is idle.
NotifyIdle(t, idle) ==
    IF idle /\ ~regStopping
    THEN /\ pc' = [pc EXCEPT ![t] = "idle"]
         /\ batch' = [batch EXCEPT ![t] = << >>]
         /\ left' = [left EXCEPT ![t] = 0]
         /\ Acquire(t)
         /\ UNCHANGED owner
    ELSE TasksEnd({t}) /\ UNCHANGED lockQueue

\* The timer finds nothing to do: it forgets itself and reports an idle runner.
GiveUp(t) ==
    LET r == owner[t] IN
    /\ debounceTask' = [debounceTask EXCEPT ![r] = None]
    /\ NotifyIdle(t, ~running[r] /\ pending[r] = << >>)
    /\ UNCHANGED << key, pending, deadline, running, stopping >>

\* The top of the loop: stop, give up, or sleep until the deadline.
SleepUntilDeadline(t) ==
    LET r == owner[t] IN
    IF stopping[r]
    THEN /\ pc' = [pc EXCEPT ![t] = "done"]
         /\ UNCHANGED << runnerVars, owner, left, batch, lockQueue >>
    ELSE IF deadline[r] = NoDeadline
    THEN GiveUp(t)
    ELSE /\ left' = [left EXCEPT ![t] = deadline[r]]
         /\ pc' = [pc EXCEPT ![t] = "sleep"]
         /\ UNCHANGED << runnerVars, owner, batch, lockQueue >>

StartTimer(t) ==
    /\ pc[t] = "start"
    /\ SleepUntilDeadline(t)
    /\ UNCHANGED << registryVars, loopVars, shutVars, worldVars >>

FaultyKeepsPending(t) ==     \* copy() without clear()
    LET r == owner[t] IN
    /\ batch' = [batch EXCEPT ![t] = pending[r]]
    /\ running' = [running EXCEPT ![r] = TRUE]
    /\ deadline' = [deadline EXCEPT ![r] = NoDeadline]
    /\ debounceTask' = [debounceTask EXCEPT ![r] = None]
    /\ pc' = [pc EXCEPT ![t] = "convert"]
    /\ UNCHANGED << key, pending, stopping, owner, left, lockQueue >>

\* The pending events become the batch of a run.
TakeBatch(t) ==
    LET r == owner[t] IN
    /\ batch' = [batch EXCEPT ![t] = pending[r]]
    /\ pending' = [pending EXCEPT ![r] = << >>]
    /\ running' = [running EXCEPT ![r] = TRUE]
    /\ deadline' = [deadline EXCEPT ![r] = NoDeadline]
    /\ debounceTask' = [debounceTask EXCEPT ![r] = None]
    /\ pc' = [pc EXCEPT ![t] = "convert"]
    /\ UNCHANGED << key, stopping, owner, left, lockQueue >>

\* The sleep is over: the deadline is read again under the lock.
WakeTimer(t) ==
    LET r == owner[t] IN
    /\ pc[t] = "sleep" /\ left[t] = 0
    /\ IF deadline[r] = NoDeadline THEN GiveUp(t)
       ELSE IF deadline[r] > 0 THEN SleepUntilDeadline(t)
       ELSE IF pending[r] = << >> THEN GiveUp(t)
       ELSE TakeBatch(t)
    /\ UNCHANGED << registryVars, loopVars, shutVars, worldVars >>

\* The batch is XML, its media stored: POST /chat.
CallAgent(t) ==
    /\ pc[t] = "convert"
    /\ pc' = [pc EXCEPT ![t] = "chat"]
    /\ sent' = [sent EXCEPT ![key[owner[t]]] = @ \o batch[t]]
    /\ UNCHANGED << registryVars, lockQueue, runnerVars, owner, left, batch, loopVars,
                    shutVars, arrived, asked, lost, quiet, newest >>

\* /chat answered: send_reply starts.
AgentReplies(t) ==
    /\ pc[t] = "chat"
    /\ pc' = [pc EXCEPT ![t] = "send"]
    /\ UNCHANGED << registryVars, lockQueue, runnerVars, owner, left, batch, loopVars,
                    shutVars, worldVars >>

\* The end of _run_once, after the reply is sent or on an exception of call_session
\* or send_reply: the finally block.
RunEnds(t) ==
    LET r == owner[t] IN
    /\ pc[t] \in { "chat", "send" }
    /\ running' = [running EXCEPT ![r] = FALSE]
    /\ IF pending[r] # << >> /\ ~stopping[r]
       THEN /\ deadline' = [deadline EXCEPT ![r] = DebounceTicks]
            /\ ScheduleDebounce(r, {t})
            /\ UNCHANGED lockQueue
       ELSE /\ NotifyIdle(t, pending[r] = << >> /\ ~TimerAlive(r))
            /\ UNCHANGED << deadline, debounceTask >>
    /\ UNCHANGED << key, pending, stopping, registryVars, loopVars, shutVars, worldVars >>

FaultyNoRecheck(r, k) == k = key[r] /\ ~regStopping /\ runners[k] = r
FaultyNoIdentity(r, k) == k = key[r] /\ ~regStopping /\ IsIdle(r)
FaultyIgnoresPending(r, k) ==
    k = key[r] /\ ~regStopping /\ runners[k] = r /\ ~running[r]

\* The callback of runner r drops the entry of session k.
DropsEntry(r, k) == k = key[r] /\ ~regStopping /\ runners[k] = r /\ IsIdle(r)

FaultyForgetsSession(t) ==     \* pops the agent session id with the runner
    /\ pc[t] = "idle" /\ Holds(t)
    /\ runners' = [k \in Keys |-> IF DropsEntry(owner[t], k) THEN None ELSE runners[k]]
    /\ agentIds' = { k \in agentIds : ~DropsEntry(owner[t], k) }
    /\ TasksEnd({t})
    /\ Release
    /\ UNCHANGED << regStopping, runnerVars, loopVars, shutVars, worldVars >>

\* _on_runner_idle with the registry lock: drop the runner if it is still the
\* registered one and still idle.
OnRunnerIdle(t) ==
    /\ pc[t] = "idle" /\ Holds(t)
    /\ runners' = [k \in Keys |-> IF DropsEntry(owner[t], k) THEN None ELSE runners[k]]
    /\ TasksEnd({t})
    /\ Release
    /\ UNCHANGED << agentIds, regStopping, runnerVars, loopVars, shutVars, worldVars >>

-----------------------------------------------------------------------------
(* Shutdown and time *)

\* uvicorn runs the shutdown hook once every connection handler has returned.
BeginShutdown ==
    /\ shutPc = "off"
    /\ \A l \in Loops : loopPc[l] = "idle"
    /\ regStopping' = TRUE
    /\ shutPc' = "lock"
    /\ Acquire(Shutdown)
    /\ UNCHANGED << runners, agentIds, runnerVars, taskVars, loopVars, toStop, worldVars >>

ClearRunners ==
    /\ shutPc = "lock" /\ Holds(Shutdown)
    /\ toStop' = { r \in Runners : \E k \in Keys : runners[k] = r }
    /\ runners' = [k \in Keys |-> None]
    /\ shutPc' = "runners"
    /\ Release
    /\ UNCHANGED << agentIds, regStopping, runnerVars, taskVars, loopVars, worldVars >>

\* SessionRunner.shutdown, one per runner under gather: the timer is cancelled, a
\* run in flight is not.
StopRunner(r) ==
    /\ r \in toStop
    /\ stopping' = [stopping EXCEPT ![r] = TRUE]
    /\ pc' = [t \in Tasks |-> IF t \in Timer(r) THEN "done" ELSE pc[t]]
    /\ toStop' = toStop \ {r}
    /\ UNCHANGED << registryVars, lockQueue, key, pending, deadline, debounceTask, running,
                    owner, left, batch, loopVars, shutPc, worldVars >>

FaultyUnclamped(n) == IF n = NoDeadline THEN n ELSE n - 1

\* A reached deadline stays reached: max(0.0, deadline - now).
Countdown(n) == IF n > 0 THEN n - 1 ELSE n

\* The clock advances while someone waits for it.
Tick ==
    /\ \/ \E r \in Runners : deadline[r] > 0
       \/ \E t \in Tasks : left[t] > 0
    /\ deadline' = [r \in Runners |-> Countdown(deadline[r])]
    /\ left' = [t \in Tasks |-> Countdown(left[t])]
    /\ quiet' = [k \in Keys |-> IF quiet[k] < DebounceTicks THEN quiet[k] + 1 ELSE quiet[k]]
    /\ UNCHANGED << registryVars, lockQueue, key, pending, debounceTask, running, stopping,
                    pc, owner, batch, loopVars, shutVars, arrived, sent, asked, lost, newest >>

\* Every process has come to rest after the shutdown.
Terminated ==
    /\ shutPc = "runners" /\ toStop = {}
    /\ \A l \in Loops : loopPc[l] = "idle"
    /\ \A t \in Tasks : pc[t] \in { "none", "done" }
    /\ UNCHANGED vars

LoopStep(l) ==
    \/ SubmitPending(l) \/ SubmitRunning(l) \/ SubmitNewRunner(l) \/ SubmitUnknown(l)
    \/ QueueMessage(l) \/ QueueMessageFails(l)
    \/ CreateSession(l) \/ CreateSessionFails(l)

TaskStep(t) ==
    \/ StartTimer(t) \/ WakeTimer(t) \/ CallAgent(t) \/ AgentReplies(t) \/ RunEnds(t)
    \/ OnRunnerIdle(t)

ShutdownStep == ClearRunners \/ \E r \in Runners : StopRunner(r)

Next ==
    \/ \E l \in Loops : Receive(l) \/ LoopStep(l)
    \/ \E t \in Tasks : TaskStep(t)
    \/ BeginShutdown \/ ShutdownStep
    \/ Tick
    \/ Terminated

Spec == Init /\ [][Next]_vars

\* The event loop runs whatever is ready, and the HTTP calls end.  For /chat this is an
\* assumption: agent-service bounds its LLM calls (llm_timeout) and its turns, but its tool
\* calls have no timeout, nor has the hub's client.  Nothing obliges an event to arrive or
\* the application to stop.
Fairness ==
    /\ \A l \in Loops : WF_vars(LoopStep(l))
    /\ \A t \in Tasks : WF_vars(TaskStep(t))
    /\ WF_vars(ShutdownStep)
    /\ WF_vars(Tick)

FairSpec == Spec /\ Fairness

-----------------------------------------------------------------------------
(* Properties *)

\* Every variable keeps its type.
TypeOK ==
    /\ runners \in [Keys -> Runners \cup {None}]
    /\ agentIds \subseteq Keys
    /\ lockQueue \in Seq(Procs)
    /\ regStopping \in BOOLEAN
    /\ key \in [Runners -> Keys \cup {None}]
    /\ pending \in [Runners -> Seq(Events)]
    /\ deadline \in [Runners -> NoDeadline..DebounceTicks]
    /\ debounceTask \in [Runners -> Tasks \cup {None}]
    /\ running \in [Runners -> BOOLEAN]
    /\ stopping \in [Runners -> BOOLEAN]
    /\ pc \in [Tasks -> TaskPcs]
    /\ owner \in [Tasks -> Runners \cup {None}]
    /\ left \in [Tasks -> 0..DebounceTicks]
    /\ batch \in [Tasks -> Seq(Events)]
    /\ loopPc \in [Loops -> {"idle", "lock", "queue", "create"}]
    /\ loopEvent \in [Loops -> Events \cup {NoEvent}]
    /\ shutPc \in {"off", "lock", "runners"}
    /\ toStop \subseteq Runners
    /\ arrived \in 0..MaxEvents
    /\ sent \in [Keys -> Seq(Events)]
    /\ asked \subseteq Events
    /\ lost \subseteq Events
    /\ quiet \in [Keys -> 0..DebounceTicks]
    /\ newest \in [Keys -> Events \cup {NoEvent}]

RunsOf(k) == { t \in Tasks : pc[t] \in Serving /\ key[owner[t]] = k }

\* At most one run, hence at most one /chat call and one reply, is in progress for a
\* session, whichever runner objects the session has had: a runner is only replaced
\* once it is idle (session_registry.py, _on_runner_idle).
AtMostOneRun == \A k \in Keys : \A t, u \in RunsOf(k) : t = u

\* Messages that wait always have a live timer that will serve them: no wake-up is
\* lost between cancelling a timer, taking a batch and ending a run.
PendingHasTimer ==
    \A r \in Runners :
        pending[r] # << >> /\ ~stopping[r] =>
            /\ debounceTask[r] # None
            /\ pc[debounceTask[r]] \in Waiting
            /\ owner[debounceTask[r]] = r
            /\ deadline[r] # NoDeadline

\* A runner the registry has dropped holds nothing: no message, timer or run is
\* stranded in an object no new message can reach (shutdown aside).
DroppedRunnerIsIdle ==
    \A r \in Runners :
        (\A k \in Keys : runners[k] # r) /\ ~regStopping => IsIdle(r)

Elements(s) == { s[i] : i \in DOMAIN s }

HeldByLoop(e) == { l \in Loops : loopEvent[l] = e }
HeldByRunner(e) == { r \in Runners : e \in Elements(pending[r]) }
HeldByTask(e) == { t \in Tasks : pc[t] = "convert" /\ e \in Elements(batch[t]) }
HeldByAgent(e) == { k \in Keys : e \in Elements(sent[k]) }

\* An event that arrived is in exactly one place: in a receive loop, pending in one
\* runner, in one batch, POSTed once to /chat for its own session, POSTed to
\* /queue-message, or lost to a reported error.
Conservation ==
    \A e \in 1..arrived :
        Cardinality(HeldByLoop(e)) + Cardinality(HeldByRunner(e))
        + Cardinality(HeldByTask(e)) + Cardinality(HeldByAgent(e))
        + (IF e \in asked THEN 1 ELSE 0) + (IF e \in lost THEN 1 ELSE 0) = 1

\* The events of one session reach /chat in the order they arrived, across batches
\* and across runner objects, and each only once.
SentInOrder ==
    \A k \in Keys :
        /\ \A i, j \in DOMAIN sent[k] : i < j => sent[k][i] < sent[k][j]
        /\ \A i \in DOMAIN sent[k] : KeyOf[sent[k][i]] = k

\* A run starts only after a whole debounce window without a new message for its
\* session: a message inside the window postpones the run and joins its batch.
RunStartsQuiet ==
    [][\A k \in Keys : RunsOf(k) = {} /\ RunsOf(k)' # {} => quiet[k] = DebounceTicks]_vars

LetsGoOfIdle ==
    \A k \in Keys :
        runners[k] # None /\ runners'[k] # runners[k] =>
            runners'[k] = None /\ (regStopping \/ IsIdle(runners[k]))

\* The registry lets go of a runner only when it is idle, or at shutdown; it never
\* swaps one runner for another in one step.
RunnerDroppedIdle == [][LetsGoOfIdle]_vars

\* A message POSTed to /queue-message reaches the agent while it still serves a /chat of
\* that session, whose turn loop will read it (docs/hub-service.md:35, 104).  The code
\* does not ensure it: the runner counts as running while it sends the reply, and the
\* run may end while the event is converted.
QueuedForOpenChat ==
    [][\A e \in asked' \ asked :
         \E t \in RunsOf(KeyOf[e]) : pc[t] \in {"convert", "chat"}]_vars

\* Every message that arrives is handed to the agent or lost to a reported error,
\* unless the application stops: no lock, timer or callback leaves it waiting.
Settled(e) == e \in asked \/ e \in lost \/ \E k \in Keys : e \in Elements(sent[k])
EveryEventSettles == \A e \in Events : arrived >= e ~> Settled(e) \/ regStopping

\* A runner is released when its session falls silent: a missed idle callback would
\* keep it (and its session's memory) for ever.
RunnersAreReleased == \A k \in Keys : runners[k] # None ~> runners[k] = None

-----------------------------------------------------------------------------
(* The scheduler implements SessionTurns *)

WaitingRunners(k) == { r \in Runners : key[r] = k /\ ~stopping[r] /\ pending[r] # << >> }

WaitingIn(k) == IF WaitingRunners(k) = {} THEN << >>
                ELSE pending[CHOOSE r \in WaitingRunners(k) : TRUE]

ServingIn(k) == IF RunsOf(k) = {} THEN << >> ELSE batch[CHOOSE t \in RunsOf(k) : TRUE]

Turns == INSTANCE SessionTurns WITH
            waiting <- [k \in Keys |-> WaitingIn(k)],
            serving <- [k \in Keys |-> ServingIn(k)],
            newest <- newest

\* The registry, its runner objects and their tasks implement one orderly queue per
\* session: see SessionTurns.
ImplementsTurns == Turns!TurnsSpec

=============================================================================

--------------------------- MODULE HubAgent_proofs ---------------------------
(***************************************************************************)
(* Proofs about HubAgent: with agent-service's side of the calls, its      *)
(* restarts and the closing of the client added, the scheduler still only  *)
(* takes the steps of HubSessions, so what is proved of it holds here; no  *)
(* Session that has forgotten part of its conversation answers; what was   *)
(* handed over is accounted for, and the model sees it in order but for    *)
(* what came too late for its run.                                         *)
(***************************************************************************)
EXTENDS HubAgent, HubTurns_proofs

-----------------------------------------------------------------------------
(* The composition takes the scheduler's steps *)

\* At first the scheduler is in its initial state.
LEMMA AgentInitIsInit == HubAgentInit => Init
BY DEF HubAgentInit

\* A step of the composition is a step of the scheduler, or leaves it alone.
LEMMA AgentNextIsNext == [HubAgentNext]_allVars => [Next]_vars
<1> SUFFICES ASSUME [HubAgentNext]_allVars PROVE [Next]_vars
    OBVIOUS
<1>1. ASSUME NEW l \in Loops,
             \/ Alone(Receive(l) \/ SubmitPending(l) \/ SubmitRunning(l) \/ SubmitNewRunner(l)
                      \/ SubmitUnknown(l) \/ QueueMessageFails(l) \/ CreateSessionFails(l))
             \/ CreatesSession(l) \/ QueuesMessage(l)
      PROVE  Next
    BY <1>1 DEF Alone, CreatesSession, QueuesMessage, Next, LoopStep
<1>2. ASSUME NEW t \in Tasks,
             \/ Alone(StartTimer(t) \/ WakeTimer(t) \/ OnRunnerIdle(t))
             \/ Chats(t) \/ ChatIsRefused(t) \/ ChatReplies(t) \/ ChatRepliesAtLimit(t)
             \/ ChatFails(t) \/ ReplyIsSent(t)
      PROVE  Next
    BY <1>2 DEF Alone, Chats, ChatIsRefused, ChatReplies, ChatRepliesAtLimit, ChatFails,
                ReplyIsSent, Next, TaskStep
<1>3. ASSUME NEW k \in Keys, AgentDrains(k) \/ AgentEndsAlone(k)
      PROVE  UNCHANGED vars
    BY <1>3 DEF AgentDrains, AgentEndsAlone
<1>4. CASE AgentRestart \/ CloseClient
    BY <1>4 DEF AgentRestart, CloseClient
<1>5. CASE Alone(BeginShutdown \/ ShutdownStep \/ Tick \/ Terminated)
    BY <1>5 DEF Alone, Next
<1>6. CASE UNCHANGED allVars
    BY <1>6 DEF allVars
<1>7. QED
    BY <1>1, <1>2, <1>3, <1>4, <1>5, <1>6 DEF HubAgentNext

\* Whatever agent-service does, the scheduler behaves as HubSessions says.
THEOREM ImplementsScheduler == HubAgentSpec => Spec
BY AgentInitIsInit, AgentNextIsNext, PTL DEF HubAgentSpec, Spec

\* The state invariants proved of the scheduler hold of the composition: each session
\* has one run, waiting messages have a timer, dropped runners hold nothing.
THEOREM SchedulerIsSafe ==
    HubAgentSpec => [](TypeOK /\ AtMostOneRun /\ PendingHasTimer /\ DroppedRunnerIsIdle)
BY ImplementsScheduler, TypeCorrect, OneRunPerSession, NoLostWakeup, NoStrandedRunner, PTL

\* The registry of the composition lets go of idle runners only, or at shutdown.
THEOREM RunnersAreDroppedIdle == HubAgentSpec => RunnerDroppedIdle
BY ImplementsScheduler, OnlyIdleRunnersAreDropped, PTL

\* In the composition, too, an event is in one place and /chat gets a session's events
\* in their order.
THEOREM SchedulerKeepsEvents == HubAgentSpec => [](SentInOrder /\ Conservation)
BY ImplementsScheduler, EventsReachAgentInOrder, NoEventLostOrDoubled, PTL

\* Runs of the composition start after a quiet window.
THEOREM ComposedRunsWait == HubAgentSpec => RunStartsQuiet
BY ImplementsScheduler, RunsWaitForQuiet, PTL

\* The composition, too, serves one orderly queue per session.
THEOREM CompositionKeepsTurns == HubAgentSpec => ImplementsTurns
BY ImplementsScheduler, SchedulerKeepsTurns, PTL

-----------------------------------------------------------------------------
(* A session that answers has seen its conversation *)

\* The hub knows the agent session of everything it holds for a session, so a loop
\* that creates one does it for a session of which nothing was POSTed to /chat.
KnownInv ==
    /\ \A k \in Keys : runners[k] # None => k \in agentIds
    /\ \A t \in Tasks : owner[t] # None => key[owner[t]] \in agentIds
    /\ \A k \in Keys : k \notin agentIds => sent[k] = << >>
    /\ \A l \in Loops : loopPc[l] = "create" => EventKey(l) \notin agentIds

\* A Session agent-service still has was shown all that reached it, and only such a
\* Session has a /chat in progress.
SeenInv ==
    /\ serving \subseteq live /\ live \subseteq Keys
    /\ context \in [Keys -> Seq(Events)] /\ agentQueue \in [Keys -> Seq(Events)]
    /\ \A k \in live : Elements(sent[k]) \subseteq Elements(context[k]) \cup undelivered

MemoryInv == IInv /\ KnownInv /\ SeenInv

\* At first nothing has been sent, and agent-service has no Session.
LEMMA InitMemory == HubAgentInit => MemoryInv
<1> SUFFICES ASSUME HubAgentInit PROVE MemoryInv
    OBVIOUS
<1>1. IInv
    BY AgentInitIsInit, InitIInv
<1>2. KnownInv
    BY DEF HubAgentInit, Init, KnownInv
<1>3. SeenInv
    BY DEF HubAgentInit, SeenInv
<1>4. QED
    BY <1>1, <1>2, <1>3 DEF MemoryInv

\* submit_message puts an event of a known session in the window of a runner.
LEMMA JoinKeepsKnown ==
    ASSUME IInv, KnownInv, NEW l \in Loops, NEW r \in Runners, JoinPending(l, r),
           key'[r] \in agentIds', agentIds \subseteq agentIds', loopPc[l] # "idle",
           \A k \in Keys : runners'[k] # None => k \in agentIds',
           \A q \in Runners : q # r => key'[q] = key[q],
           \A m \in Loops : m # l /\ loopPc[m] = "create" => EventKey(m) \notin agentIds'
    PROVE  KnownInv'
<1>1. sent' = sent
    BY DEF JoinPending
<1>2. ASSUME NEW t \in Tasks, owner'[t] # None
      PROVE  key'[owner'[t]] \in agentIds'
    <2>1. owner'[t] = r \/ owner'[t] = owner[t]
        BY <1>2 DEF JoinPending, ScheduleDebounce
    <2>2. owner'[t] \in Runners
        BY <1>2, <2>1 DEF IInv, TypeOK
    <2>3. QED
        BY <1>2, <2>1, <2>2 DEF KnownInv
<1>3. ASSUME NEW m \in Loops, loopPc'[m] = "create"
      PROVE  EventKey(m)' \notin agentIds'
    <2>1. m # l /\ loopPc[m] = "create" /\ loopEvent'[m] = loopEvent[m]
        BY <1>3 DEF JoinPending, LoopReturns, IInv, TypeOK
    <2>2. QED
        BY <2>1 DEF EventKey
<1>4. \A k \in Keys : k \notin agentIds' => sent'[k] = << >>
    BY <1>1 DEF KnownInv
<1>5. QED
    BY <1>2, <1>3, <1>4 DEF KnownInv

\* A new runner is only made for a session that is known, or just created by the
\* holder of the lock.
LEMMA NewRunnerKeepsKnown ==
    ASSUME IInv, KnownInv, NEW l \in Loops, Holds(l), loopPc[l] # "idle", NewRunner(l),
           agentIds' = agentIds \cup { EventKey(l) }
    PROVE  KnownInv'
<1>1. FreshRunner \in Runners /\ Unused(FreshRunner)
    BY FreshRunnerIsUnused DEF NewRunner
<1>2. EventKey(l) \in Keys
    BY KeyAssumption DEF IInv, LockInv, EventKey
<1>3. key'[FreshRunner] = EventKey(l) /\ \A q \in Runners : q # FreshRunner => key'[q] = key[q]
    BY <1>1 DEF NewRunner, IInv, TypeOK
<1>4. \A k \in Keys : runners'[k] # None => k \in agentIds'
    BY <1>2 DEF NewRunner, KnownInv, IInv, TypeOK
<1>5. ASSUME NEW m \in Loops, m # l, loopPc[m] = "create" PROVE FALSE
    BY <1>5 DEF IInv, LockInv, Holds
<1>6. JoinPending(l, FreshRunner)
    BY DEF NewRunner
<1>7. QED
    BY <1>1, <1>3, <1>4, <1>5, <1>6, JoinKeepsKnown

\* A receive loop's step keeps what the hub knows.
LEMMA LoopKeepsKnown ==
    ASSUME IInv, KnownInv, NEW l \in Loops, Receive(l) \/ LoopStep(l)
    PROVE  KnownInv'
<1> USE DEF registryVars, runnerVars, taskVars, loopVars, shutVars, worldVars
<1>1. CASE Receive(l)
    BY <1>1 DEF Receive, KnownInv, IInv, TypeOK, EventKey
<1>2. CASE SubmitPending(l)
    <2> DEFINE r == runners[EventKey(l)]
    <2>1. EventKey(l) \in Keys /\ r \in Runners /\ key[r] = EventKey(l) /\ EventKey(l) \in agentIds
        BY <1>2, KeyAssumption
        DEF SubmitPending, IInv, TypeOK, RegistryInv, KnownInv, LockInv, EventKey
    <2>2. CASE stopping[r]
        BY <1>2, <2>2 DEF SubmitPending, LoopReturns, KnownInv, IInv, TypeOK, EventKey
    <2>3. CASE ~stopping[r]
        <3>1. JoinPending(l, r) /\ key' = key /\ runners' = runners /\ agentIds' = agentIds
            BY <1>2, <2>3 DEF SubmitPending
        <3>2. loopPc[l] # "idle"
            BY <1>2 DEF SubmitPending
        <3>3. \A k \in Keys : runners'[k] # None => k \in agentIds'
            BY <3>1 DEF KnownInv
        <3>4. \A m \in Loops : loopPc[m] = "create" => EventKey(m) \notin agentIds'
            BY <3>1 DEF KnownInv
        <3> HIDE DEF r
        <3>5. QED
            BY <2>1, <3>1, <3>2, <3>3, <3>4, JoinKeepsKnown
    <2>4. QED
        BY <2>2, <2>3
<1>3. CASE SubmitNewRunner(l)
    <2>1. agentIds' = agentIds \cup { EventKey(l) }
        BY <1>3 DEF SubmitNewRunner
    <2>2. QED
        BY <1>3, <2>1, NewRunnerKeepsKnown DEF SubmitNewRunner
<1>4. CASE CreateSession(l)
    <2>1. Holds(l)
        BY <1>4 DEF CreateSession, IInv, LockInv
    <2>2. QED
        BY <1>4, <2>1, NewRunnerKeepsKnown DEF CreateSession
<1>5. CASE SubmitRunning(l) \/ SubmitUnknown(l)
    BY <1>5 DEF SubmitRunning, SubmitUnknown, KnownInv, IInv, TypeOK, EventKey
<1>6. CASE QueueMessage(l) \/ QueueMessageFails(l) \/ CreateSessionFails(l)
    BY <1>6 DEF QueueMessage, QueueMessageFails, CreateSessionFails, LoopReturns, KnownInv,
                IInv, TypeOK, EventKey
<1>7. QED
    BY <1>1, <1>2, <1>3, <1>4, <1>5, <1>6 DEF LoopStep

\* Tasks that end or start leave the other tasks their owners.
LEMMA TaskKeepsKnown ==
    ASSUME IInv, KnownInv, NEW t \in Tasks, TaskStep(t)
    PROVE  KnownInv'
<1> USE DEF registryVars, runnerVars, taskVars, loopVars, shutVars, worldVars
<1>1. /\ agentIds' = agentIds /\ key' = key
      /\ loopPc' = loopPc /\ loopEvent' = loopEvent
    BY DEF TaskStep, StartTimer, WakeTimer, CallAgent, AgentReplies, RunEnds, OnRunnerIdle,
           SleepUntilDeadline, GiveUp, TakeBatch
<1>2. \A k \in Keys : runners'[k] # None => k \in agentIds'
    BY <1>1 DEF TaskStep, StartTimer, WakeTimer, CallAgent, AgentReplies, RunEnds,
                OnRunnerIdle, KnownInv
<1>3. ASSUME NEW u \in Tasks, owner'[u] # None
      PROVE  owner'[u] = owner[u] \/ (pc[t] # "none" /\ owner'[u] = owner[t])
    <2>1. CASE StartTimer(t)
        BY <1>3, <2>1 DEF StartTimer, SleepUntilDeadline, GiveUp, NotifyIdle, TasksEnd
    <2>2. CASE WakeTimer(t)
        BY <1>3, <2>2
        DEF WakeTimer, SleepUntilDeadline, GiveUp, TakeBatch, NotifyIdle, TasksEnd
    <2>3. CASE CallAgent(t) \/ AgentReplies(t)
        BY <1>3, <2>3 DEF CallAgent, AgentReplies
    <2>4. CASE RunEnds(t)
        BY <1>3, <2>4 DEF RunEnds, ScheduleDebounce, NotifyIdle, TasksEnd
    <2>5. CASE OnRunnerIdle(t)
        BY <1>3, <2>5 DEF OnRunnerIdle, TasksEnd
    <2>6. QED
        BY <2>1, <2>2, <2>3, <2>4, <2>5 DEF TaskStep
<1>4. ASSUME NEW u \in Tasks, owner'[u] # None
      PROVE  key'[owner'[u]] \in agentIds'
    BY <1>1, <1>3, <1>4 DEF KnownInv, IInv, OwnerInv
<1>5. ASSUME NEW k \in Keys, k \notin agentIds
      PROVE  sent'[k] = << >>
    <2>1. CASE CallAgent(t)
        <3>1. owner[t] # None /\ key[owner[t]] \in agentIds
            BY <2>1 DEF CallAgent, IInv, OwnerInv, KnownInv
        <3>2. sent'[k] = sent[k]
            BY <1>5, <2>1, <3>1 DEF CallAgent, IInv, TypeOK
        <3>3. QED
            BY <1>5, <3>2 DEF KnownInv
    <2>2. CASE ~CallAgent(t)
        BY <1>5, <2>2
        DEF TaskStep, StartTimer, WakeTimer, AgentReplies, RunEnds, OnRunnerIdle, KnownInv
    <2>3. QED
        BY <2>1, <2>2
<1>6. \A l \in Loops : loopPc'[l] = "create" => EventKey(l)' \notin agentIds'
    BY <1>1 DEF KnownInv, EventKey
<1>7. QED
    BY <1>1, <1>2, <1>4, <1>5, <1>6 DEF KnownInv

\* So does every step of the scheduler.
LEMMA NextKeepsKnown ==
    ASSUME IInv, KnownInv, [Next]_vars
    PROVE  KnownInv'
<1> USE DEF registryVars, runnerVars, taskVars, loopVars, shutVars, worldVars
<1>1. CASE \E l \in Loops : Receive(l) \/ LoopStep(l)
    BY <1>1, LoopKeepsKnown
<1>2. CASE \E t \in Tasks : TaskStep(t)
    BY <1>2, TaskKeepsKnown
<1>3. CASE BeginShutdown \/ ClearRunners
    BY <1>3 DEF BeginShutdown, ClearRunners, KnownInv, EventKey
<1>4. CASE \E r \in Runners : StopRunner(r)
    BY <1>4 DEF StopRunner, KnownInv, EventKey
<1>5. CASE Tick
    BY <1>5 DEF Tick, KnownInv, EventKey
<1>6. CASE Terminated \/ UNCHANGED vars
    BY <1>6 DEF Terminated, vars, KnownInv, EventKey
<1>7. QED
    BY <1>1, <1>2, <1>3, <1>4, <1>5, <1>6 DEF Next, ShutdownStep

\* Only POST /chat adds to what was sent.
LEMMA SentByChatOnly ==
    ASSUME [HubAgentNext]_allVars, \A t \in Tasks : ~Chats(t) /\ ~ChatIsRefused(t)
    PROVE  sent' = sent
<1> USE DEF worldVars
<1>1. ASSUME NEW l \in Loops, Receive(l) \/ LoopStep(l) PROVE sent' = sent
    BY <1>1 DEF Receive, LoopStep, SubmitPending, SubmitRunning, SubmitNewRunner, SubmitUnknown,
                QueueMessage, QueueMessageFails, CreateSession, CreateSessionFails, NewRunner,
                JoinPending
<1>2. ASSUME NEW t \in Tasks,
             StartTimer(t) \/ WakeTimer(t) \/ OnRunnerIdle(t) \/ AgentReplies(t) \/ RunEnds(t)
      PROVE  sent' = sent
    BY <1>2 DEF StartTimer, WakeTimer, AgentReplies, RunEnds, OnRunnerIdle
<1>3. CASE BeginShutdown \/ ShutdownStep \/ Tick
    BY <1>3 DEF BeginShutdown, ShutdownStep, ClearRunners, StopRunner, Tick
<1>4. CASE Terminated \/ UNCHANGED vars
    BY <1>4 DEF Terminated, vars
<1>5. ASSUME NEW l \in Loops,
             \/ Alone(Receive(l) \/ SubmitPending(l) \/ SubmitRunning(l) \/ SubmitNewRunner(l)
                      \/ SubmitUnknown(l) \/ QueueMessageFails(l) \/ CreateSessionFails(l))
             \/ CreatesSession(l) \/ QueuesMessage(l)
      PROVE  sent' = sent
    BY <1>1, <1>5 DEF Alone, LoopStep, CreatesSession, QueuesMessage
<1>6. ASSUME NEW t \in Tasks,
             \/ Alone(StartTimer(t) \/ WakeTimer(t) \/ OnRunnerIdle(t))
             \/ ChatReplies(t) \/ ChatRepliesAtLimit(t) \/ ChatFails(t) \/ ReplyIsSent(t)
      PROVE  sent' = sent
    BY <1>2, <1>6 DEF Alone, ChatReplies, ChatRepliesAtLimit, ChatFails, ReplyIsSent
<1>7. ASSUME NEW k \in Keys, AgentDrains(k) \/ AgentEndsAlone(k)
      PROVE  sent' = sent
    BY <1>4, <1>7 DEF AgentDrains, AgentEndsAlone
<1>8. CASE AgentRestart \/ CloseClient
    BY <1>4, <1>8 DEF AgentRestart, CloseClient
<1>9. CASE Alone(BeginShutdown \/ ShutdownStep \/ Tick \/ Terminated) \/ UNCHANGED allVars
    BY <1>3, <1>4, <1>9 DEF Alone, allVars
<1>10. QED
    BY <1>5, <1>6, <1>7, <1>8, <1>9 DEF HubAgentNext

\* POST /chat shows the whole batch to a live Session, or gives it up.
LEMMA ChatKeepsSeen ==
    ASSUME MemoryInv, NEW t \in Tasks, Chats(t) \/ ChatIsRefused(t)
    PROVE  SeenInv'
<1> DEFINE k == key[owner[t]]
<1>1. /\ k \in agentIds /\ agentIds \subseteq Keys
      /\ batch[t] \in Seq(Events) /\ sent[k] \in Seq(Events)
      /\ sent' = [sent EXCEPT ![k] = @ \o batch[t]]
    BY DEF MemoryInv, IInv, TypeOK, OwnerInv, KnownInv, Chats, ChatIsRefused, CallAgent
<1>2. /\ Elements(sent'[k]) = Elements(sent[k]) \cup Elements(batch[t])
      /\ \A j \in Keys : j # k => sent'[j] = sent[j]
    <2>1. sent'[k] = sent[k] \o batch[t]
        BY <1>1 DEF MemoryInv, IInv, TypeOK
    <2>2. \A j \in Keys : j # k => sent'[j] = sent[j]
        BY <1>1 DEF MemoryInv, IInv, TypeOK
    <2>3. Elements(sent[k] \o batch[t]) = Elements(sent[k]) \cup Elements(batch[t])
        <3> HIDE DEF k
        <3>1. QED
            BY <1>1, ElementsOfConcat
    <2>4. QED
        BY <2>1, <2>2, <2>3
<1>3. live \subseteq Keys /\ live' = live /\ agentQueue' = agentQueue
    BY DEF MemoryInv, SeenInv, Chats, ChatIsRefused
<1>4. CASE Chats(t)
    <2>1. /\ k \in live /\ context' = [context EXCEPT ![k] = @ \o batch[t]]
          /\ undelivered' = undelivered /\ serving' = serving \cup {k}
          /\ context[k] \in Seq(Events) /\ context \in [Keys -> Seq(Events)]
        BY <1>1, <1>4 DEF Chats, MemoryInv, SeenInv
    <2> HIDE DEF k
    <2>2. /\ context'[k] = context[k] \o batch[t] /\ context' \in [Keys -> Seq(Events)]
          /\ \A j \in Keys : j # k => context'[j] = context[j]
        BY <1>1, <2>1, ConcatProperties
    <2>3. Elements(context'[k]) = Elements(context[k]) \cup Elements(batch[t])
        BY <1>1, <2>1, <2>2, ElementsOfConcat
    <2>4. QED
        BY <1>1, <1>2, <1>3, <2>1, <2>2, <2>3 DEF MemoryInv, SeenInv
<1>5. CASE ChatIsRefused(t)
    <2>1. /\ context' = context /\ serving' = serving
          /\ undelivered' = undelivered \cup Elements(batch[t])
        BY <1>5 DEF ChatIsRefused
    <2> HIDE DEF k
    <2>2. QED
        BY <1>1, <1>2, <1>3, <2>1 DEF MemoryInv, SeenInv
<1>6. QED
    BY <1>4, <1>5

\* A Session is only put in place for a conversation of which nothing was sent.
LEMMA CreateKeepsSeen ==
    ASSUME MemoryInv, NEW l \in Loops, CreatesSession(l), sent' = sent
    PROVE  SeenInv'
<1>1. EventKey(l) \in Keys /\ sent[EventKey(l)] = << >>
    BY KeyAssumption
    DEF MemoryInv, IInv, LockInv, KnownInv, CreatesSession, CreateSession, EventKey
<1>2. Elements(sent[EventKey(l)]) = {}
    BY <1>1 DEF Elements
<1>3. QED
    BY <1>1, <1>2 DEF MemoryInv, SeenInv, CreatesSession

\* The steps of agent-service by itself.
LEMMA AgentKeepsSeen ==
    ASSUME MemoryInv, sent' = sent,
           \/ \E k \in Keys : AgentDrains(k) \/ AgentEndsAlone(k)
           \/ AgentRestart \/ CloseClient
    PROVE  SeenInv'
<1>1. ASSUME NEW k \in Keys, AgentDrains(k) PROVE SeenInv'
    <2>1. context[k] \in Seq(Events) /\ agentQueue[k] \in Seq(Events)
        BY DEF MemoryInv, SeenInv
    <2>2. /\ context'[k] = context[k] \o agentQueue[k] /\ context' \in [Keys -> Seq(Events)]
          /\ \A j \in Keys : j # k => context'[j] = context[j]
          /\ agentQueue' \in [Keys -> Seq(Events)]
        BY <1>1, <2>1, ConcatProperties DEF MemoryInv, SeenInv, AgentDrains, DrainQueue
    <2>3. Elements(context'[k]) = Elements(context[k]) \cup Elements(agentQueue[k])
        BY <2>1, <2>2, ElementsOfConcat
    <2>4. QED
        BY <1>1, <2>2, <2>3 DEF MemoryInv, SeenInv, AgentDrains
<1>2. ASSUME NEW k \in Keys, AgentEndsAlone(k) PROVE SeenInv'
    BY <1>2 DEF MemoryInv, SeenInv, AgentEndsAlone
<1>3. CASE AgentRestart
    BY <1>3 DEF MemoryInv, SeenInv, AgentRestart
<1>4. CASE CloseClient
    BY <1>4 DEF MemoryInv, SeenInv, CloseClient
<1>5. QED
    BY <1>1, <1>2, <1>3, <1>4

\* An answer of /chat, or one that never comes, changes nothing of what a Session saw.
LEMMA AnswerKeepsSeen ==
    ASSUME MemoryInv, sent' = sent, NEW t \in Tasks,
           ChatReplies(t) \/ ChatRepliesAtLimit(t) \/ ChatFails(t) \/ ReplyIsSent(t)
    PROVE  SeenInv'
<1>1. CASE ChatReplies(t)
    BY <1>1 DEF MemoryInv, SeenInv, ChatReplies
<1>2. CASE ChatRepliesAtLimit(t)
    BY <1>2 DEF MemoryInv, SeenInv, ChatRepliesAtLimit
<1>3. CASE ChatFails(t) \/ ReplyIsSent(t)
    BY <1>3 DEF MemoryInv, SeenInv, ChatFails, ReplyIsSent, agentVars
<1>4. QED
    BY <1>1, <1>2, <1>3

\* A late message joins the queue of a Session.
LEMMA QueueKeepsSeen ==
    ASSUME MemoryInv, sent' = sent, NEW l \in Loops, QueuesMessage(l)
    PROVE  SeenInv'
<1>1. EventKey(l) \in Keys /\ loopEvent[l] \in Events
    BY KeyAssumption DEF MemoryInv, IInv, LockInv, QueuesMessage, QueueMessage, EventKey
<1>2. Append(agentQueue[EventKey(l)], loopEvent[l]) \in Seq(Events)
    BY <1>1, AppendProperties DEF MemoryInv, SeenInv
<1>3. QED
    BY <1>1, <1>2 DEF MemoryInv, SeenInv, QueuesMessage

\* Every step of the composition keeps the invariant.
LEMMA NextMemory == MemoryInv /\ [HubAgentNext]_allVars => MemoryInv'
<1> SUFFICES ASSUME MemoryInv, [HubAgentNext]_allVars PROVE MemoryInv'
    OBVIOUS
<1>1. IInv' /\ KnownInv'
    BY AgentNextIsNext, NextIInv, NextKeepsKnown DEF MemoryInv
<1>2. SeenInv'
    <2>1. CASE \E t \in Tasks : Chats(t) \/ ChatIsRefused(t)
        BY <2>1, ChatKeepsSeen
    <2>2. CASE ~(\E t \in Tasks : Chats(t) \/ ChatIsRefused(t))
        <3>1. sent' = sent
            BY <2>2, SentByChatOnly
        <3>2. UNCHANGED agentVars => SeenInv'
            BY <3>1 DEF MemoryInv, SeenInv, agentVars
        <3>3. QED
            BY <2>2, <3>1, <3>2, CreateKeepsSeen, QueueKeepsSeen, AnswerKeepsSeen,
               AgentKeepsSeen
            DEF HubAgentNext, Alone, allVars, ChatFails, ReplyIsSent
    <2>3. QED
        BY <2>1, <2>2
<1>3. QED
    BY <1>1, <1>2 DEF MemoryInv

\* Starting and ending tasks sends no reply.
LEMMA TimersSendNothing ==
    ASSUME pc \in [Tasks -> TaskPcs], NEW t \in Tasks, pc[t] # "send"
    PROVE  /\ \A r, gone : ScheduleDebounce(r, gone) => pc'[t] # "send"
           /\ \A gone : TasksEnd(gone) => pc'[t] # "send"
           /\ \A u \in Tasks, idle \in BOOLEAN : NotifyIdle(u, idle) => pc'[t] # "send"
<1>1. \A r, gone : ScheduleDebounce(r, gone) => pc'[t] # "send"
    BY DEF ScheduleDebounce
<1>2. \A gone : TasksEnd(gone) => pc'[t] # "send"
    BY DEF TasksEnd
<1>3. \A u \in Tasks, idle \in BOOLEAN : NotifyIdle(u, idle) => pc'[t] # "send"
    BY <1>2 DEF NotifyIdle
<1>4. QED
    BY <1>1, <1>2, <1>3

\* A run goes from /chat to its reply only when /chat answers.
LEMMA ReplyNeedsAnswer ==
    ASSUME IInv, [HubAgentNext]_allVars, NEW t \in Tasks, pc[t] = "chat", pc'[t] = "send"
    PROVE  ChatReplies(t) \/ ChatRepliesAtLimit(t)
<1> USE DEF registryVars, runnerVars, taskVars, loopVars, shutVars
<1> pc \in [Tasks -> TaskPcs]
    BY DEF IInv, TypeOK
<1>1. ASSUME NEW l \in Loops, Receive(l) \/ LoopStep(l) PROVE FALSE
    <2>1. CASE SubmitPending(l)
        BY <2>1, TimersSendNothing DEF SubmitPending, JoinPending
    <2>2. CASE SubmitNewRunner(l) \/ CreateSession(l)
        BY <2>2, TimersSendNothing DEF SubmitNewRunner, CreateSession, NewRunner, JoinPending
    <2>3. CASE Receive(l) \/ SubmitRunning(l) \/ SubmitUnknown(l)
        BY <2>3 DEF Receive, SubmitRunning, SubmitUnknown
    <2>4. CASE QueueMessage(l) \/ QueueMessageFails(l) \/ CreateSessionFails(l)
        BY <2>4 DEF QueueMessage, QueueMessageFails, CreateSessionFails
    <2>5. QED
        BY <1>1, <2>1, <2>2, <2>3, <2>4 DEF LoopStep
<1>2. ASSUME NEW u \in Tasks, TaskStep(u), ~AgentReplies(u) PROVE FALSE
    <2>1. GiveUp(u) => FALSE
        <3> SUFFICES ASSUME GiveUp(u) PROVE FALSE
            OBVIOUS
        <3>1. (~running[owner[u]] /\ pending[owner[u]] = << >>) \in BOOLEAN
            OBVIOUS
        <3>2. QED
            BY <3>1, TimersSendNothing DEF GiveUp
    <2>2. SleepUntilDeadline(u) => FALSE
        BY <2>1 DEF SleepUntilDeadline
    <2>3. CASE StartTimer(u) \/ WakeTimer(u)
        BY <2>1, <2>2, <2>3 DEF StartTimer, WakeTimer, TakeBatch
    <2>4. CASE CallAgent(u)
        BY <2>4 DEF CallAgent
    <2>5. CASE RunEnds(u)
        <3>1. (pending[owner[u]] = << >> /\ ~TimerAlive(owner[u])) \in BOOLEAN
            OBVIOUS
        <3>2. QED
            BY <2>5, <3>1, TimersSendNothing DEF RunEnds
    <2>6. CASE OnRunnerIdle(u)
        BY <2>6, TimersSendNothing DEF OnRunnerIdle
    <2>7. QED
        BY <1>2, <2>3, <2>4, <2>5, <2>6 DEF TaskStep
<1>3. ASSUME NEW u \in Tasks, AgentReplies(u) PROVE u = t
    BY <1>3 DEF AgentReplies, IInv, TypeOK
<1>4. CASE BeginShutdown \/ ShutdownStep \/ Tick
    BY <1>4 DEF BeginShutdown, ShutdownStep, ClearRunners, StopRunner, Tick
<1>5. CASE UNCHANGED vars
    BY <1>5 DEF vars
<1>6. ASSUME NEW l \in Loops,
             \/ Alone(Receive(l) \/ SubmitPending(l) \/ SubmitRunning(l) \/ SubmitNewRunner(l)
                      \/ SubmitUnknown(l) \/ QueueMessageFails(l) \/ CreateSessionFails(l))
             \/ CreatesSession(l) \/ QueuesMessage(l)
      PROVE  FALSE
    BY <1>1, <1>6 DEF Alone, LoopStep, CreatesSession, QueuesMessage
<1>7. ASSUME NEW u \in Tasks,
             \/ Alone(StartTimer(u) \/ WakeTimer(u) \/ OnRunnerIdle(u))
             \/ Chats(u) \/ ChatIsRefused(u) \/ ChatFails(u) \/ ReplyIsSent(u)
      PROVE  FALSE
    <2>1. TaskStep(u)
        BY <1>7 DEF Alone, TaskStep, Chats, ChatIsRefused, ChatFails, ReplyIsSent
    <2>2. ~AgentReplies(u)
        <3> SUFFICES ASSUME AgentReplies(u) PROVE FALSE
            OBVIOUS
        <3>1. pc[u] = "chat" /\ pc' = [pc EXCEPT ![u] = "send"]
            BY DEF AgentReplies
        <3>2. RunEnds(u)
            BY <1>7, <3>1 DEF Alone, StartTimer, WakeTimer, OnRunnerIdle, Chats, ChatIsRefused,
                              CallAgent, ChatFails, ReplyIsSent
        <3>3. running'[owner[u]] = FALSE /\ running' = running /\ running[owner[u]]
            BY <3>1, <3>2
            DEF RunEnds, AgentReplies, IInv, TypeOK, OwnerInv, RunInv, Serving
        <3>4. QED
            BY <3>3
    <2>3. QED
        BY <1>2, <2>1, <2>2
<1>8. ASSUME NEW u \in Tasks, ChatReplies(u) \/ ChatRepliesAtLimit(u)
      PROVE  ChatReplies(t) \/ ChatRepliesAtLimit(t)
    <2>1. u = t
        BY <1>3, <1>8 DEF ChatReplies, ChatRepliesAtLimit
    <2>2. QED
        BY <1>8, <2>1
<1>9. CASE (\E k \in Keys : AgentDrains(k) \/ AgentEndsAlone(k)) \/ AgentRestart \/ CloseClient
    BY <1>5, <1>9 DEF AgentDrains, AgentEndsAlone, AgentRestart, CloseClient
<1>10. CASE Alone(BeginShutdown \/ ShutdownStep \/ Tick \/ Terminated) \/ UNCHANGED allVars
    BY <1>4, <1>5, <1>10 DEF Alone, Terminated, allVars
<1>11. QED
    BY <1>6, <1>7, <1>8, <1>9, <1>10 DEF HubAgentNext

\* A reply comes only from a Session that has seen all that reached it: whatever
\* restarts, refusals and replaced runners there were.
THEOREM RepliesRemember == HubAgentSpec => MemoryIsContinuous
<1>1. MemoryInv /\ [HubAgentNext]_allVars =>
        [\A t \in Tasks : pc[t] = "chat" /\ pc'[t] = "send" =>
            LET k == key[owner[t]] IN
            Elements(sent[k]) \subseteq Elements(context[k]) \cup undelivered]_allVars
    <2> SUFFICES ASSUME MemoryInv, [HubAgentNext]_allVars,
                        NEW t \in Tasks, pc[t] = "chat", pc'[t] = "send"
                 PROVE  LET k == key[owner[t]] IN
                        Elements(sent[k]) \subseteq Elements(context[k]) \cup undelivered
        OBVIOUS
    <2>1. key[owner[t]] \in serving
        BY ReplyNeedsAnswer DEF MemoryInv, ChatReplies, ChatRepliesAtLimit
    <2>2. QED
        BY <2>1 DEF MemoryInv, SeenInv
<1>2. HubAgentSpec => []MemoryInv
    BY InitMemory, NextMemory, PTL DEF HubAgentSpec
<1>3. QED
    BY <1>1, <1>2, PTL DEF HubAgentSpec, MemoryIsContinuous

-----------------------------------------------------------------------------
(* What was POSTed to /queue-message *)

\* It was submitted before everything that is still to be submitted, and its session is
\* known; while it is being POSTed, and until the run ends, the session's runners have
\* nothing pending, so all that is pending later is newer.
AskedInv ==
    /\ \A x \in asked : x <= arrived /\ KeyOf[x] \in agentIds
    /\ \A l \in Loops : loopPc[l] # "idle" => \A x \in asked : x < loopEvent[l]
    /\ \A l \in Loops : loopPc[l] = "queue" =>
          /\ EventKey(l) \in agentIds
          /\ \A r \in Runners : key[r] = EventKey(l) => pending[r] = << >>
    /\ \A r \in Runners : \A x \in asked : KeyOf[x] = key[r] =>
          \A y \in Elements(pending[r]) : x < y

\* A step that queues and submits nothing.
LEMMA SteadyAsked ==
    ASSUME AskedInv, UNCHANGED << asked, arrived >>, agentIds \subseteq agentIds',
           \A r \in Runners : /\ key'[r] = key[r]
                              /\ pending'[r] = pending[r] \/ pending'[r] = << >>,
           \A l \in Loops : loopPc'[l] # "idle" =>
              /\ loopPc[l] # "idle" /\ loopEvent'[l] = loopEvent[l]
              /\ loopPc'[l] = "queue" => loopPc[l] = "queue"
    PROVE  AskedInv'
<1>1. Elements(<< >>) = {}
    BY ElementsOfEvents
<1>2. \A x \in asked' : x <= arrived' /\ KeyOf[x] \in agentIds'
    BY DEF AskedInv
<1>3. \A l \in Loops : loopPc'[l] # "idle" => \A x \in asked' : x < loopEvent'[l]
    BY DEF AskedInv
<1>4. \A l \in Loops : loopPc'[l] = "queue" =>
         /\ KeyOf[loopEvent'[l]] \in agentIds'
         /\ \A r \in Runners : key'[r] = KeyOf[loopEvent'[l]] => pending'[r] = << >>
    BY DEF AskedInv, EventKey
<1>5. \A r \in Runners : \A x \in asked' : KeyOf[x] = key'[r] =>
         \A y \in Elements(pending'[r]) : x < y
    BY <1>1 DEF AskedInv
<1>6. QED
    BY <1>2, <1>3, <1>4, <1>5 DEF AskedInv, EventKey, Elements

\* The event of the loop that holds the lock joins a window: it is newer than all that
\* was queued for the session.
LEMMA JoinKeepsAsked ==
    ASSUME IInv, QueueInv, AskedInv, NEW l \in Loops, NEW r \in Runners, Holds(l),
           loopPc[l] # "idle", JoinPending(l, r), agentIds \subseteq agentIds',
           key' = [key EXCEPT ![r] = EventKey(l)], key[r] = EventKey(l) \/ IsIdle(r)
    PROVE  AskedInv'
<1>1. PICK e \in Events : e = loopEvent[l]
    BY DEF IInv, LockInv
<1>2. /\ pending'[r] = Append(pending[r], e) /\ pending[r] \in Seq(Events)
      /\ \A q \in Runners \ {r} : pending'[q] = pending[q] /\ key'[q] = key[q]
      /\ key'[r] = KeyOf[e] /\ KeyOf[e] \in Keys
      /\ UNCHANGED << asked, arrived >> /\ LoopReturns(l)
    BY <1>1, KeyAssumption DEF JoinPending, EventKey, IInv, TypeOK
<1>3. \A m \in Loops : loopPc'[m] # "idle" =>
         m # l /\ loopPc[m] # "idle" /\ loopEvent'[m] = loopEvent[m] /\ loopPc'[m] = loopPc[m]
    BY <1>2, ReturningLoop DEF LoopReturns, IInv, TypeOK
<1>4. Elements(pending'[r]) = Elements(pending[r]) \cup {e}
    BY <1>2, ElementsOfAppend
<1>5. \A q \in Runners : \A x \in asked' : KeyOf[x] = key'[q] =>
         \A y \in Elements(pending'[q]) : x < y
    <2>1. ASSUME NEW x \in asked, KeyOf[x] = KeyOf[e], NEW y \in Elements(pending'[r])
          PROVE  x < y
        <3>1. CASE y = e
            BY <1>1, <3>1 DEF AskedInv
        <3>2. CASE y \in Elements(pending[r])
            <4>1. pending[r] # << >>
                BY <3>2, ElementsOfEvents
            <4>2. key[r] = KeyOf[e]
                BY <1>1, <4>1 DEF IsIdle, EventKey
            <4>3. QED
                BY <2>1, <3>2, <4>2 DEF AskedInv
        <3>3. QED
            BY <1>4, <2>1, <3>1, <3>2
    <2>2. ASSUME NEW q \in Runners \ {r}, NEW x \in asked, KeyOf[x] = key'[q],
                 NEW y \in Elements(pending'[q])
          PROVE  x < y
        BY <1>2, <2>2 DEF AskedInv
    <2>3. QED
        BY <1>2, <2>1, <2>2
<1>6. \A m \in Loops : loopPc'[m] # "queue"
    <2>1. SUFFICES ASSUME NEW m \in Loops, loopPc'[m] = "queue" PROVE FALSE
        OBVIOUS
    <2>2. m # l /\ loopPc[m] = "queue"
        BY <1>3, <2>1
    <2>3. QED
        BY <2>2 DEF IInv, LockInv, Holds
<1>7. \A m \in Loops : loopPc'[m] # "idle" => \A x \in asked' : x < loopEvent'[m]
    BY <1>2, <1>3 DEF AskedInv
<1>8. \A x \in asked' : x <= arrived' /\ KeyOf[x] \in agentIds'
    BY <1>2 DEF AskedInv
<1>9. QED
    BY <1>5, <1>6, <1>7, <1>8 DEF AskedInv, Elements

\* The event of the loop that holds the lock is queued: it is the oldest of those that
\* are still to be submitted.
LEMMA QueueKeepsAsked ==
    ASSUME IInv, QueueInv, AskedInv, NEW l \in Loops, QueueMessage(l)
    PROVE  AskedInv'
<1>1. PICK e \in Events : e = loopEvent[l]
    BY DEF IInv, LockInv, QueueMessage
<1>2. /\ loopPc[l] = "queue" /\ Holds(l) /\ LoopReturns(l)
      /\ UNCHANGED << key, pending, arrived, agentIds >> /\ asked' = asked \cup {e}
    BY <1>1 DEF QueueMessage, registryVars, runnerVars, IInv, LockInv
<1>3. \A m \in Loops : loopPc'[m] # "idle" =>
         /\ m # l /\ loopPc[m] # "idle" /\ loopEvent'[m] = loopEvent[m]
         /\ loopPc'[m] = loopPc[m] /\ e < loopEvent[m]
    BY <1>1, <1>2, ReturningLoop, HolderIsFirst DEF LoopReturns, IInv, TypeOK
<1>4. e <= arrived /\ KeyOf[e] \in agentIds
    BY <1>1, <1>2 DEF QueueInv, AskedInv, EventKey
<1>5. \A r \in Runners : KeyOf[e] = key[r] => Elements(pending[r]) = {}
    BY <1>1, <1>2, ElementsOfEvents DEF AskedInv, EventKey
<1>6. \A m \in Loops : loopPc'[m] # "queue"
    <2>1. SUFFICES ASSUME NEW m \in Loops, loopPc'[m] = "queue" PROVE FALSE
        OBVIOUS
    <2>2. m # l /\ loopPc[m] = "queue"
        BY <1>3, <2>1
    <2>3. QED
        BY <1>2, <2>2 DEF IInv, LockInv, Holds
<1>7. \A m \in Loops : loopPc'[m] # "idle" => \A x \in asked' : x < loopEvent'[m]
    BY <1>2, <1>3 DEF AskedInv
<1>8. \A x \in asked' : x <= arrived' /\ KeyOf[x] \in agentIds'
    BY <1>2, <1>4 DEF AskedInv
<1>9. \A r \in Runners : \A x \in asked' : KeyOf[x] = key'[r] =>
         \A y \in Elements(pending[r]) : x < y
    BY <1>2, <1>5 DEF AskedInv
<1>10. QED
    BY <1>2, <1>6, <1>7, <1>8, <1>9 DEF AskedInv, Elements

\* A receive loop keeps what is known of the queued messages.
LEMMA LoopKeepsAsked ==
    ASSUME IInv, OrderInv, KnownInv, AskedInv, NEW l \in Loops, Receive(l) \/ LoopStep(l)
    PROVE  AskedInv'
<1> USE DEF OrderInv
<1>1. CASE Receive(l)
    <2>1. /\ UNCHANGED << key, pending, asked, agentIds >> /\ arrived' = arrived + 1
          /\ arrived \in Nat /\ loopEvent'[l] = arrived + 1 /\ loopPc'[l] = "lock"
          /\ \A m \in Loops \ {l} : loopPc'[m] = loopPc[m] /\ loopEvent'[m] = loopEvent[m]
        BY <1>1, NumbersOnly DEF Receive, registryVars, runnerVars, IInv, TypeOK
    <2>2. \A x \in asked : x <= arrived /\ x \in Nat
        BY NumbersOnly DEF AskedInv, IInv, TypeOK
    <2>3. \A m \in Loops : loopPc'[m] # "idle" => \A x \in asked' : x < loopEvent'[m]
        BY <2>1, <2>2 DEF AskedInv
    <2>4. \A m \in Loops : loopPc'[m] = "queue" =>
             /\ KeyOf[loopEvent'[m]] \in agentIds'
             /\ \A r \in Runners : key'[r] = KeyOf[loopEvent'[m]] => pending'[r] = << >>
        BY <2>1 DEF AskedInv, EventKey
    <2>5. \A x \in asked' : x <= arrived' /\ KeyOf[x] \in agentIds'
        BY <2>1, <2>2 DEF AskedInv
    <2>6. QED
        BY <2>1, <2>3, <2>4, <2>5 DEF AskedInv, EventKey, Elements
<1>2. CASE QueueMessage(l)
    BY <1>2, QueueKeepsAsked
<1>3. CASE \/ QueueMessageFails(l) \/ CreateSessionFails(l)
           \/ SubmitPending(l) /\ stopping[runners[EventKey(l)]]
    <2>1. UNCHANGED << key, pending, asked, arrived, agentIds >> /\ LoopReturns(l)
        BY <1>3 DEF QueueMessageFails, CreateSessionFails, SubmitPending, registryVars, runnerVars
    <2>2. \A m \in Loops : loopPc'[m] # "idle" =>
             loopPc[m] # "idle" /\ loopEvent'[m] = loopEvent[m] /\ loopPc'[m] = loopPc[m]
        BY <2>1, ReturningLoop DEF LoopReturns, IInv, TypeOK
    <2>3. QED
        BY <2>1, <2>2, SteadyAsked
<1>4. CASE SubmitUnknown(l)
    <2>1. /\ UNCHANGED << key, pending, asked, arrived, agentIds, loopEvent >>
          /\ \A m \in Loops : loopPc'[m] # "idle" =>
                loopPc[m] # "idle" /\ (loopPc'[m] = "queue" => loopPc[m] = "queue")
        BY <1>4 DEF SubmitUnknown, registryVars, runnerVars, worldVars, IInv, TypeOK
    <2>2. QED
        BY <2>1, SteadyAsked
<1>5. CASE SubmitRunning(l)
    <2>1. PICK k \in Keys : k = EventKey(l)
        BY <1>5, KeyAssumption DEF SubmitRunning, EventKey, IInv, LockInv
    <2>2. PICK q \in Runners : q = runners[k] /\ q # None /\ running[q] /\ key[q] = k
        BY <1>5, <2>1 DEF SubmitRunning, IInv, TypeOK, RegistryInv
    <2>3. k \in agentIds
        BY <2>1, <2>2 DEF KnownInv
    <2>4. \A r \in Runners : key[r] = k => pending[r] = << >>
        BY <2>2 DEF IInv, RunInv, BusyInv, IsIdle
    <2>5. /\ UNCHANGED << key, pending, asked, arrived, agentIds, loopEvent >>
          /\ loopPc[l] # "idle" /\ loopPc'[l] = "queue"
          /\ \A m \in Loops \ {l} : loopPc'[m] = loopPc[m]
        BY <1>5 DEF SubmitRunning, registryVars, runnerVars, worldVars, IInv, TypeOK
    <2>6. \A m \in Loops : loopPc'[m] = "queue" =>
             /\ KeyOf[loopEvent[m]] \in agentIds
             /\ \A r \in Runners : key[r] = KeyOf[loopEvent[m]] => pending[r] = << >>
        BY <2>1, <2>3, <2>4, <2>5 DEF AskedInv, EventKey
    <2>7. \A m \in Loops : loopPc'[m] # "idle" => \A x \in asked : x < loopEvent[m]
        BY <2>5 DEF AskedInv
    <2>8. QED
        BY <2>5, <2>6, <2>7 DEF AskedInv, EventKey, Elements
<1>6. CASE SubmitPending(l) /\ ~stopping[runners[EventKey(l)]]
    <2>1. PICK k \in Keys : k = EventKey(l)
        BY <1>6, KeyAssumption DEF SubmitPending, EventKey, IInv, LockInv
    <2>2. PICK r \in Runners : r = runners[k] /\ r # None /\ key[r] = k
        BY <1>6, <2>1 DEF SubmitPending, IInv, TypeOK, RegistryInv
    <2>3. JoinPending(l, r) /\ key' = key /\ Holds(l) /\ loopPc[l] # "idle" /\ agentIds' = agentIds
        BY <1>6, <2>1, <2>2 DEF SubmitPending
    <2>4. key' = [key EXCEPT ![r] = EventKey(l)]
        BY <2>1, <2>2, <2>3 DEF IInv, TypeOK
    <2>5. QED
        BY <2>1, <2>2, <2>3, <2>4, JoinKeepsAsked
<1>7. CASE SubmitNewRunner(l) \/ CreateSession(l)
    <2>1. /\ NewRunner(l) /\ Holds(l) /\ loopPc[l] # "idle" /\ agentIds \subseteq agentIds'
        BY <1>7 DEF SubmitNewRunner, CreateSession, IInv, LockInv
    <2>2. PICK r \in Runners : r = FreshRunner /\ Unused(r)
        BY <2>1, FreshRunnerIsUnused DEF NewRunner
    <2>3. JoinPending(l, r) /\ key' = [key EXCEPT ![r] = EventKey(l)]
        BY <2>1, <2>2 DEF NewRunner
    <2>4. IsIdle(r)
        BY <2>1, <2>2 DEF Unused, IInv, StopInv, DroppedRunnerIsIdle
    <2>5. QED
        BY <2>1, <2>3, <2>4, JoinKeepsAsked
<1>8. QED
    BY <1>1, <1>2, <1>3, <1>4, <1>5, <1>6, <1>7 DEF LoopStep

\* So does every step of the scheduler.
LEMMA NextAsked ==
    IInv /\ OrderInv /\ KnownInv /\ AskedInv /\ [Next]_vars => AskedInv'
<1> SUFFICES ASSUME IInv, OrderInv, KnownInv, AskedInv, [Next]_vars PROVE AskedInv'
    OBVIOUS
<1>1. ASSUME NEW t \in Tasks, TaskStep(t) PROVE AskedInv'
    <2>1. UNCHANGED << asked, arrived, agentIds, key, loopVars >>
        BY <1>1 DEF TaskStep, StartTimer, WakeTimer, CallAgent, AgentReplies, RunEnds,
                    OnRunnerIdle, SleepUntilDeadline, GiveUp, TakeBatch, registryVars,
                    runnerVars, worldVars
    <2>2. \A r \in Runners : pending'[r] = pending[r] \/ pending'[r] = << >>
        <3>1. CASE StartTimer(t) \/ WakeTimer(t)
            BY <3>1 DEF StartTimer, WakeTimer, SleepUntilDeadline, GiveUp, TakeBatch,
                        runnerVars, IInv, TypeOK
        <3>2. CASE CallAgent(t) \/ AgentReplies(t) \/ RunEnds(t) \/ OnRunnerIdle(t)
            BY <3>2 DEF CallAgent, AgentReplies, RunEnds, OnRunnerIdle, runnerVars
        <3>3. QED
            BY <1>1, <3>1, <3>2 DEF TaskStep
    <2>3. QED
        BY <2>1, <2>2, SteadyAsked DEF loopVars
<1>2. CASE BeginShutdown \/ ShutdownStep \/ Tick \/ Terminated \/ UNCHANGED vars
    <2>1. UNCHANGED << asked, arrived, agentIds, key, pending, loopPc, loopEvent >>
        BY <1>2 DEF BeginShutdown, ShutdownStep, ClearRunners, StopRunner, Tick, Terminated,
                    vars, registryVars, runnerVars, loopVars, worldVars
    <2>2. QED
        BY <2>1, SteadyAsked
<1>3. QED
    BY <1>1, <1>2, LoopKeepsAsked DEF Next

-----------------------------------------------------------------------------
(* Every message is accounted for *)

Sets(f) == [k \in Keys |-> Elements(f[k])]

HandedOver == { e \in Events : e \in asked \/ \E k \in Keys : e \in Sets(sent)[k] }

\* C[k] was shown to the model of session k, Q[k] is in its queue, H was handed over, G is
\* given up: what was handed over is in one of the three, for its own session.
Accounted(C, Q, H, G) ==
    /\ \A k \in Keys : \A e \in C[k] \cup Q[k] :
          e \in Events /\ KeyOf[e] = k /\ e \in H /\ e \notin G
    /\ \A k \in Keys : C[k] \cap Q[k] = {}
    /\ \A e \in H : e \in G \/ e \in C[KeyOf[e]] \cup Q[KeyOf[e]]
    /\ G \subseteq H

AccountInv ==
    Accounted(Sets(context), Sets(agentQueue), HandedOver, forgotten \cup undelivered)

\* The invariant of the next state, with the primes on the variables.
LEMMA NextAccount ==
    ASSUME NEW C, NEW Q, NEW H, NEW G, Accounted(C, Q, H, G),
           C = Sets(context'), Q = Sets(agentQueue'), G = forgotten' \cup undelivered',
           H = { e \in Events : e \in asked' \/ \E k \in Keys : e \in Sets(sent')[k] }
    PROVE  AccountInv'
<1>1. Sets(context)' = Sets(context') /\ Sets(agentQueue)' = Sets(agentQueue')
    BY DEF Sets, Elements
<1>2. Sets(sent)' = Sets(sent')
    BY DEF Sets, Elements
<1>3. HandedOver' = { e \in Events : e \in asked' \/ \E k \in Keys : e \in Sets(sent')[k] }
    BY <1>2 DEF HandedOver
<1>4. QED
    BY <1>1, <1>3 DEF AccountInv

\* Whatever is handed over is an event of some session.
LEMMA HandedKeys == \A e \in HandedOver : e \in Events /\ KeyOf[e] \in Keys
BY KeyAssumption DEF HandedOver

\* At first nothing is anywhere.
LEMMA InitAccount == HubAgentInit => AskedInv /\ AccountInv
<1> SUFFICES ASSUME HubAgentInit PROVE AskedInv /\ AccountInv
    OBVIOUS
<1>1. Elements(<< >>) = {}
    BY ElementsOfEvents
<1>2. \A k \in Keys : Sets(context)[k] = {} /\ Sets(agentQueue)[k] = {} /\ Sets(sent)[k] = {}
    BY <1>1 DEF HubAgentInit, Init, Sets
<1>3. HandedOver = {} /\ forgotten \cup undelivered = {}
    BY <1>2 DEF HubAgentInit, Init, HandedOver
<1>4. AccountInv
    BY <1>2, <1>3 DEF AccountInv, Accounted
<1>5. AskedInv
    BY DEF HubAgentInit, Init, AskedInv
<1>6. QED
    BY <1>4, <1>5

\* A step that changes none of these variables.
LEMMA SteadyAccount ==
    ASSUME AccountInv, UNCHANGED << context, agentQueue, forgotten, undelivered, asked, sent >>
    PROVE  AccountInv'
<1>1. /\ Sets(context) = Sets(context') /\ Sets(agentQueue) = Sets(agentQueue')
      /\ HandedOver = { e \in Events : e \in asked' \/ \E k \in Keys : e \in Sets(sent')[k] }
    BY DEF HandedOver
<1>2. QED
    BY <1>1, NextAccount DEF AccountInv

\* What a batch holds has not been handed over.
LEMMA BatchIsNew ==
    ASSUME PlaceInv, KnownInv, NEW t \in Tasks, pc[t] = "convert"
    PROVE  /\ key[owner[t]] \in Keys /\ batch[t] \in Seq(Events)
           /\ Elements(batch[t]) \subseteq Events /\ Elements(batch[t]) \cap HandedOver = {}
           /\ \A e \in Elements(batch[t]) : KeyOf[e] = key[owner[t]] /\ e \notin asked
<1>1. /\ key[owner[t]] \in Keys /\ batch[t] \in Seq(Events)
      /\ Elements(batch[t]) \subseteq Events
    BY NumbersOnly DEF PlaceInv, KnownInv, IInv, TypeOK, OwnerInv
<1>2. \A e \in Elements(batch[t]) : KeyOf[e] = key[owner[t]]
    BY DEF PlaceInv, OrderInv, SequenceInv, OfKey, Serving
<1>3. \A e \in Elements(batch[t]) : At("task", t, e)
    BY DEF At, HeldByTask
<1>4. \A k \in Keys, e \in HandedOver : e \in Sets(sent)[k] => At("agent", k, e)
    BY DEF At, HeldByAgent, Sets
<1>5. \A e \in Events : e \in asked => At("asked", None, e)
    BY DEF At
<1>6. /\ "task" \in Kinds /\ "agent" \in Kinds /\ "asked" \in Kinds
      /\ t \in Holders /\ None \in Holders /\ Keys \subseteq Holders
    BY DEF Kinds, Holders
<1>7. \A e \in Elements(batch[t]) : e \notin asked /\ \A k \in Keys : e \notin Sets(sent)[k]
    <2>1. SUFFICES ASSUME NEW e \in Elements(batch[t])
                   PROVE  e \notin asked /\ \A k \in Keys : e \notin Sets(sent)[k]
        OBVIOUS
    <2>2. e \in Events /\ At("task", t, e)
        BY <1>1, <1>3
    <2>3. ~At("asked", None, e) /\ \A k \in Keys : ~At("agent", k, e)
        BY <1>6, <2>2 DEF PlaceInv, OnePlace
    <2>4. QED
        BY <1>4, <1>5, <2>2, <2>3 DEF HandedOver
<1>8. QED
    BY <1>1, <1>2, <1>7 DEF HandedOver

\* An event a loop submits has not been handed over.
LEMMA SubmittedIsNew ==
    ASSUME PlaceInv, NEW l \in Loops, loopPc[l] # "idle"
    PROVE  /\ loopEvent[l] \in Events /\ EventKey(l) \in Keys
           /\ loopEvent[l] \notin HandedOver /\ loopEvent[l] \notin asked
<1>1. PICK e \in Events : e = loopEvent[l]
    BY DEF PlaceInv, IInv, LockInv
<1>2. At("loop", l, e)
    BY <1>1 DEF At, HeldByLoop
<1>3. /\ "loop" \in Kinds /\ "agent" \in Kinds /\ "asked" \in Kinds
      /\ l \in Holders /\ None \in Holders /\ Keys \subseteq Holders
    BY DEF Kinds, Holders
<1>4. ~At("asked", None, e) /\ \A k \in Keys : ~At("agent", k, e)
    BY <1>2, <1>3 DEF PlaceInv, OnePlace
<1>5. e \notin asked /\ \A k \in Keys : e \notin Sets(sent)[k]
    BY <1>4 DEF At, HeldByAgent, Sets
<1>6. QED
    BY <1>1, <1>5, KeyAssumption DEF HandedOver, EventKey

\* POST /chat hands its batch over: to the model of its session, or to nobody.
LEMMA ChatKeepsAccount ==
    ASSUME PlaceInv, MemoryInv, AccountInv, NEW t \in Tasks, Chats(t) \/ ChatIsRefused(t)
    PROVE  AccountInv'
<1>1. PICK k \in Keys : k = key[owner[t]]
    BY BatchIsNew DEF MemoryInv, Chats, ChatIsRefused, CallAgent
<1>2. PICK M \in SUBSET Events : M = Elements(batch[t])
    BY BatchIsNew DEF MemoryInv, Chats, ChatIsRefused, CallAgent
<1>3. /\ M \cap HandedOver = {} /\ \A e \in M : KeyOf[e] = k
      /\ batch[t] \in Seq(Events)
    BY <1>1, <1>2, BatchIsNew DEF MemoryInv, Chats, ChatIsRefused, CallAgent
<1>4. /\ sent'[k] = sent[k] \o batch[t] /\ \A j \in Keys \ {k} : sent'[j] = sent[j]
      /\ asked' = asked /\ agentQueue' = agentQueue /\ sent[k] \in Seq(Events)
    BY <1>1 DEF Chats, ChatIsRefused, CallAgent, MemoryInv, IInv, TypeOK
<1>5. Sets(sent')[k] = Sets(sent)[k] \cup M /\ \A j \in Keys \ {k} : Sets(sent')[j] = Sets(sent)[j]
    <2>1. Elements(sent'[k]) = Elements(sent[k]) \cup M
        BY <1>2, <1>3, <1>4, ElementsOfConcat
    <2>2. QED
        BY <1>4, <2>1 DEF Sets
<1>6. { e \in Events : e \in asked' \/ \E j \in Keys : e \in Sets(sent')[j] } = HandedOver \cup M
    BY <1>4, <1>5 DEF HandedOver
<1>7. CASE Chats(t)
    <2>1. /\ context'[k] = context[k] \o batch[t] /\ context[k] \in Seq(Events)
          /\ \A j \in Keys \ {k} : context'[j] = context[j]
          /\ UNCHANGED << forgotten, undelivered >>
        BY <1>1, <1>7 DEF Chats, MemoryInv, SeenInv
    <2>2. /\ Sets(context')[k] = Sets(context)[k] \cup M
          /\ \A j \in Keys \ {k} : Sets(context')[j] = Sets(context)[j]
        <3>1. Elements(context'[k]) = Elements(context[k]) \cup M
            BY <1>2, <1>3, <2>1, ElementsOfConcat
        <3>2. QED
            BY <2>1, <3>1 DEF Sets
    <2>3. Accounted(Sets(context'), Sets(agentQueue'), HandedOver \cup M,
                    forgotten' \cup undelivered')
        <3> DEFINE C == Sets(context)  Q == Sets(agentQueue)  D == Sets(context')
        <3>1. /\ Accounted(C, Q, HandedOver, forgotten \cup undelivered)
              /\ D[k] = C[k] \cup M /\ \A j \in Keys \ {k} : D[j] = C[j]
            BY <2>2 DEF AccountInv
        <3> HIDE DEF C, Q, D
        <3>2. \A j \in Keys : \A e \in D[j] \cup Q[j] :
                 /\ e \in Events /\ KeyOf[e] = j /\ e \in HandedOver \cup M
                 /\ e \notin forgotten \cup undelivered
            BY <1>3, <3>1 DEF Accounted
        <3>3. \A j \in Keys : D[j] \cap Q[j] = {}
            BY <1>3, <3>1 DEF Accounted
        <3>4. \A e \in HandedOver \cup M :
                 e \in forgotten \cup undelivered \/ e \in D[KeyOf[e]] \cup Q[KeyOf[e]]
            BY <1>3, <3>1, HandedKeys DEF Accounted
        <3>5. Accounted(D, Q, HandedOver \cup M, forgotten \cup undelivered)
            BY <3>1, <3>2, <3>3, <3>4 DEF Accounted
        <3>6. QED
            BY <1>4, <2>1, <3>5 DEF C, Q, D
    <2>4. QED
        BY <1>6, <2>3, NextAccount
<1>8. CASE ChatIsRefused(t)
    <2>1. context' = context /\ forgotten' = forgotten /\ undelivered' = undelivered \cup M
        BY <1>2, <1>8 DEF ChatIsRefused
    <2>2. Accounted(Sets(context'), Sets(agentQueue'), HandedOver \cup M,
                    forgotten' \cup undelivered')
        BY <1>3, <1>4, <2>1 DEF AccountInv, Accounted
    <2>3. QED
        BY <1>6, <2>2, NextAccount
<1>9. QED
    BY <1>7, <1>8

\* POST /sessions/{id}/queue-message hands one event over, to the queue of its session.
LEMMA QueueKeepsAccount ==
    ASSUME PlaceInv, MemoryInv, AccountInv, NEW l \in Loops, QueuesMessage(l)
    PROVE  AccountInv'
<1>1. PICK e \in Events : e = loopEvent[l] /\ e \notin HandedOver
    BY SubmittedIsNew DEF QueuesMessage, QueueMessage
<1>2. PICK k \in Keys : k = EventKey(l) /\ k = KeyOf[e]
    BY <1>1, SubmittedIsNew DEF QueuesMessage, QueueMessage, EventKey
<1>3. /\ asked' = asked \cup {e}
      /\ UNCHANGED << sent, context, forgotten, undelivered >>
      /\ agentQueue[k] \in Seq(Events) /\ agentQueue'[k] = Append(agentQueue[k], e)
      /\ \A j \in Keys \ {k} : agentQueue'[j] = agentQueue[j]
    BY <1>1, <1>2 DEF QueuesMessage, QueueMessage, MemoryInv, SeenInv
<1>4. /\ Sets(agentQueue')[k] = Sets(agentQueue)[k] \cup {e}
      /\ \A j \in Keys \ {k} : Sets(agentQueue')[j] = Sets(agentQueue)[j]
    <2>1. Elements(agentQueue'[k]) = Elements(agentQueue[k]) \cup {e}
        BY <1>3, ElementsOfAppend
    <2>2. QED
        BY <1>3, <2>1 DEF Sets
<1>5. { x \in Events : x \in asked' \/ \E j \in Keys : x \in Sets(sent')[j] } = HandedOver \cup {e}
    BY <1>3 DEF HandedOver
<1>6. Accounted(Sets(context'), Sets(agentQueue'), HandedOver \cup {e},
                forgotten' \cup undelivered')
    BY <1>1, <1>2, <1>3, <1>4, HandedKeys DEF AccountInv, Accounted
<1>7. QED
    BY <1>5, <1>6, NextAccount

\* A Session is only put in place of one that has been shown, and has queued, nothing.
LEMMA CreateKeepsAccount ==
    ASSUME PlaceInv, MemoryInv, AskedInv, AccountInv, NEW l \in Loops, CreatesSession(l),
           sent' = sent
    PROVE  AccountInv'
<1>1. PICK k \in Keys : k = EventKey(l) /\ k \notin agentIds
    BY KeyAssumption
    DEF CreatesSession, CreateSession, MemoryInv, KnownInv, IInv, LockInv, EventKey
<1>2. \A e \in HandedOver : KeyOf[e] # k
    <2>1. \A e \in asked : KeyOf[e] # k
        BY <1>1 DEF AskedInv
    <2>2. Sets(sent)[k] = {}
        BY <1>1, ElementsOfEvents DEF MemoryInv, KnownInv, Sets
    <2>3. \A j \in Keys : \A e \in Sets(sent)[j] : KeyOf[e] = j
        BY DEF PlaceInv, OrderInv, SequenceInv, OfKey, Sets
    <2>4. QED
        BY <2>1, <2>2, <2>3 DEF HandedOver
<1>3. Sets(context)[k] = {} /\ Sets(agentQueue)[k] = {}
    BY <1>2 DEF AccountInv, Accounted
<1>4. /\ context'[k] = << >> /\ agentQueue'[k] = << >>
      /\ \A j \in Keys \ {k} : context'[j] = context[j] /\ agentQueue'[j] = agentQueue[j]
      /\ UNCHANGED << asked, forgotten, undelivered >>
    BY <1>1 DEF CreatesSession, CreateSession, NewRunner, JoinPending, MemoryInv, SeenInv
<1>5. \A j \in Keys : /\ Sets(context')[j] = Sets(context)[j]
                      /\ Sets(agentQueue')[j] = Sets(agentQueue)[j]
    BY <1>3, <1>4, ElementsOfEvents DEF Sets
<1>6. { x \in Events : x \in asked' \/ \E j \in Keys : x \in Sets(sent')[j] } = HandedOver
    BY <1>4 DEF HandedOver
<1>7. Accounted(Sets(context'), Sets(agentQueue'), HandedOver, forgotten' \cup undelivered')
    BY <1>4, <1>5, HandedKeys DEF AccountInv, Accounted
<1>8. QED
    BY <1>6, <1>7, NextAccount

\* The queue is shown to the model, or given up at the turn limit; a restart gives
\* everything up.
LEMMA AgentKeepsAccount ==
    ASSUME MemoryInv, AccountInv, UNCHANGED << sent, asked >>,
           \/ \E k \in Keys : AgentDrains(k)
           \/ \E t \in Tasks : ChatRepliesAtLimit(t)
           \/ AgentRestart
    PROVE  AccountInv'
<1>1. { e \in Events : e \in asked' \/ \E j \in Keys : e \in Sets(sent')[j] } = HandedOver
    BY DEF HandedOver
<1>2. ASSUME NEW k \in Keys, AgentDrains(k) PROVE AccountInv'
    <2>1. /\ context'[k] = context[k] \o agentQueue[k] /\ agentQueue'[k] = << >>
          /\ context[k] \in Seq(Events) /\ agentQueue[k] \in Seq(Events)
          /\ \A j \in Keys \ {k} : context'[j] = context[j] /\ agentQueue'[j] = agentQueue[j]
          /\ UNCHANGED << forgotten, undelivered >>
        BY <1>2 DEF AgentDrains, DrainQueue, MemoryInv, SeenInv
    <2>2. /\ Sets(context')[k] = Sets(context)[k] \cup Sets(agentQueue)[k]
          /\ Sets(agentQueue')[k] = {}
          /\ \A j \in Keys \ {k} : /\ Sets(context')[j] = Sets(context)[j]
                                   /\ Sets(agentQueue')[j] = Sets(agentQueue)[j]
        <3>1. /\ Elements(context'[k]) = Elements(context[k]) \cup Elements(agentQueue[k])
              /\ Elements(agentQueue'[k]) = {}
            BY <2>1, ElementsOfConcat, ElementsOfEvents
        <3>2. QED
            BY <2>1, <3>1 DEF Sets
    <2>3. Accounted(Sets(context'), Sets(agentQueue'), HandedOver, forgotten' \cup undelivered')
        BY <2>1, <2>2, HandedKeys DEF AccountInv, Accounted
    <2>4. QED
        BY <1>1, <2>3, NextAccount
<1>3. ASSUME NEW t \in Tasks, ChatRepliesAtLimit(t) PROVE AccountInv'
    <2>1. PICK k \in Keys : k = key[owner[t]]
        BY <1>3 DEF ChatRepliesAtLimit, MemoryInv, SeenInv
    <2>2. /\ agentQueue'[k] = << >> /\ \A j \in Keys \ {k} : agentQueue'[j] = agentQueue[j]
          /\ context' = context /\ undelivered' = undelivered
          /\ forgotten' = forgotten \cup Sets(agentQueue)[k]
        BY <1>3, <2>1 DEF ChatRepliesAtLimit, MemoryInv, SeenInv, Sets
    <2>3. /\ Sets(agentQueue')[k] = {}
          /\ \A j \in Keys \ {k} : Sets(agentQueue')[j] = Sets(agentQueue)[j]
        BY <2>2, ElementsOfEvents DEF Sets
    <2>4. Accounted(Sets(context'), Sets(agentQueue'), HandedOver, forgotten' \cup undelivered')
        BY <2>2, <2>3, HandedKeys DEF AccountInv, Accounted
    <2>5. QED
        BY <1>1, <2>4, NextAccount
<1>4. ASSUME AgentRestart PROVE AccountInv'
    <2>1. /\ undelivered' = undelivered
          /\ forgotten' = forgotten \cup
                UNION { Sets(context)[k] \cup Sets(agentQueue)[k] : k \in Keys }
          /\ \A k \in Keys : context'[k] = << >> /\ agentQueue'[k] = << >>
        BY <1>4 DEF AgentRestart, Kept, Sets
    <2>2. \A k \in Keys : Sets(context')[k] = {} /\ Sets(agentQueue')[k] = {}
        BY <2>1, ElementsOfEvents DEF Sets
    <2>3. Accounted(Sets(context'), Sets(agentQueue'), HandedOver, forgotten' \cup undelivered')
        BY <2>1, <2>2, HandedKeys DEF AccountInv, Accounted
    <2>4. QED
        BY <1>1, <2>3, NextAccount
<1>5. QED
    BY <1>2, <1>3, <1>4

\* Only POST /queue-message adds to what was asked.
LEMMA AskedByQueueOnly ==
    ASSUME [HubAgentNext]_allVars, \A l \in Loops : ~QueuesMessage(l)
    PROVE  asked' = asked
<1> USE DEF worldVars
<1>1. ASSUME NEW l \in Loops,
             \/ Receive(l) \/ SubmitPending(l) \/ SubmitRunning(l) \/ SubmitNewRunner(l)
             \/ SubmitUnknown(l) \/ QueueMessageFails(l) \/ CreateSession(l)
             \/ CreateSessionFails(l)
      PROVE  asked' = asked
    BY <1>1 DEF Receive, SubmitPending, SubmitRunning, SubmitNewRunner, SubmitUnknown,
                QueueMessageFails, CreateSession, CreateSessionFails, NewRunner, JoinPending
<1>2. ASSUME NEW t \in Tasks, TaskStep(t) PROVE asked' = asked
    BY <1>2 DEF TaskStep, StartTimer, WakeTimer, CallAgent, AgentReplies, RunEnds, OnRunnerIdle
<1>3. CASE BeginShutdown \/ ShutdownStep \/ Tick
    BY <1>3 DEF BeginShutdown, ShutdownStep, ClearRunners, StopRunner, Tick
<1>4. CASE Terminated \/ UNCHANGED vars
    BY <1>4 DEF Terminated, vars
<1>5. ASSUME NEW l \in Loops,
             \/ Alone(Receive(l) \/ SubmitPending(l) \/ SubmitRunning(l) \/ SubmitNewRunner(l)
                      \/ SubmitUnknown(l) \/ QueueMessageFails(l) \/ CreateSessionFails(l))
             \/ CreatesSession(l)
      PROVE  asked' = asked
    BY <1>1, <1>5 DEF Alone, CreatesSession
<1>6. ASSUME NEW t \in Tasks,
             \/ Alone(StartTimer(t) \/ WakeTimer(t) \/ OnRunnerIdle(t))
             \/ Chats(t) \/ ChatIsRefused(t) \/ ChatReplies(t) \/ ChatRepliesAtLimit(t)
             \/ ChatFails(t) \/ ReplyIsSent(t)
      PROVE  asked' = asked
    BY <1>2, <1>6 DEF Alone, Chats, ChatIsRefused, ChatReplies, ChatRepliesAtLimit, ChatFails,
                      ReplyIsSent, TaskStep
<1>7. ASSUME NEW k \in Keys, AgentDrains(k) \/ AgentEndsAlone(k)
      PROVE  asked' = asked
    BY <1>4, <1>7 DEF AgentDrains, AgentEndsAlone
<1>8. CASE AgentRestart \/ CloseClient
    BY <1>4, <1>8 DEF AgentRestart, CloseClient
<1>9. CASE Alone(BeginShutdown \/ ShutdownStep \/ Tick \/ Terminated) \/ UNCHANGED allVars
    BY <1>3, <1>4, <1>9 DEF Alone, allVars
<1>10. QED
    BY <1>5, <1>6, <1>7, <1>8, <1>9 DEF HubAgentNext

HandInv == PlaceInv /\ MemoryInv /\ AskedInv /\ AccountInv

\* Every step of the composition keeps the accounts.
LEMMA NextHand == HandInv /\ [HubAgentNext]_allVars => HandInv'
<1> SUFFICES ASSUME HandInv, [HubAgentNext]_allVars PROVE HandInv'
    OBVIOUS
<1> USE DEF HandInv
<1>1. [Next]_vars
    BY AgentNextIsNext
<1>2. PlaceInv'
    BY <1>1, NextIInv, NextOrder, NextPlaces DEF PlaceInv
<1>3. MemoryInv' /\ AskedInv'
    BY <1>1, NextMemory, NextAsked DEF MemoryInv, PlaceInv
<1>4. AccountInv'
    <2>1. CASE \E t \in Tasks : Chats(t) \/ ChatIsRefused(t)
        BY <2>1, ChatKeepsAccount
    <2>2. CASE \E l \in Loops : QueuesMessage(l)
        BY <2>2, QueueKeepsAccount
    <2>3. CASE /\ ~\E t \in Tasks : Chats(t) \/ ChatIsRefused(t)
               /\ ~\E l \in Loops : QueuesMessage(l)
        <3>1. UNCHANGED << sent, asked >>
            BY <2>3, SentByChatOnly, AskedByQueueOnly
        <3>2. CASE \E l \in Loops : CreatesSession(l)
            BY <3>1, <3>2, CreateKeepsAccount
        <3>3. CASE \/ \E k \in Keys : AgentDrains(k)
                   \/ \E t \in Tasks : ChatRepliesAtLimit(t)
                   \/ AgentRestart
            BY <3>1, <3>3, AgentKeepsAccount
        <3>4. CASE /\ ~\E l \in Loops : CreatesSession(l)
                   /\ ~\E k \in Keys : AgentDrains(k)
                   /\ ~\E t \in Tasks : ChatRepliesAtLimit(t)
                   /\ ~AgentRestart
            <4>1. UNCHANGED << context, agentQueue, forgotten, undelivered >>
                BY <2>3, <3>4
                DEF HubAgentNext, Alone, ChatReplies, ChatFails, ReplyIsSent, AgentEndsAlone,
                    CloseClient, agentVars, allVars
            <4>2. QED
                BY <3>1, <4>1, SteadyAccount
        <3>5. QED
            BY <3>2, <3>3, <3>4
    <2>4. QED
        BY <2>1, <2>2, <2>3
<1>5. QED
    BY <1>2, <1>3, <1>4

\* The invariant of the accounts.
LEMMA HandInvariance == HubAgentSpec => []HandInv
<1>1. HubAgentInit => HandInv
    BY AgentInitIsInit, InitIInv, InitOrder, InitPlaces, InitMemory, InitAccount
    DEF HandInv, PlaceInv
<1>2. QED
    BY <1>1, NextHand, PTL DEF HubAgentSpec

\* One event, one account.
LEMMA OneAccount ==
    ASSUME HandInv, NEW e \in asked \cup UNION { Elements(sent[k]) : k \in Keys }
    PROVE  /\ Cardinality(Where(e)) + (IF e \in forgotten \cup undelivered THEN 1 ELSE 0) = 1
           /\ \A w \in Where(e) : w[2] = KeyOf[e]
<1>1. e \in HandedOver /\ KeyOf[e] \in Keys
    BY NumbersOnly, KeyAssumption
    DEF HandInv, PlaceInv, IInv, TypeOK, HandedOver, Sets
<1>2. \A k \in Keys : /\ Sets(context)[k] = Elements(context[k])
                      /\ Sets(agentQueue)[k] = Elements(agentQueue[k])
    BY DEF Sets
<1>3. \A k \in Keys : /\ << "shown", k >> \in Where(e) <=> e \in Sets(context)[k]
                      /\ << "queued", k >> \in Where(e) <=> e \in Sets(agentQueue)[k]
    BY <1>2 DEF Where
<1>4. \A w \in Where(e) : \E k \in Keys :
         \/ w = << "shown", k >> /\ e \in Sets(context)[k]
         \/ w = << "queued", k >> /\ e \in Sets(agentQueue)[k]
    <2>1. SUFFICES ASSUME NEW w \in Where(e)
                   PROVE  \E k \in Keys : \/ w = << "shown", k >> /\ e \in Sets(context)[k]
                                          \/ w = << "queued", k >> /\ e \in Sets(agentQueue)[k]
        OBVIOUS
    <2>2. w \in {"shown", "queued"} \X Keys
        BY DEF Where
    <2>3. PICK p \in {"shown", "queued"}, k \in Keys : w = << p, k >>
        BY <2>2
    <2>4. QED
        BY <1>3, <2>3
<1>5. \A k \in Keys : e \in Sets(context)[k] \cup Sets(agentQueue)[k] =>
         k = KeyOf[e] /\ e \notin forgotten \cup undelivered
    BY DEF HandInv, AccountInv, Accounted
<1>6. CASE e \in forgotten \cup undelivered
    <2>1. Where(e) = {}
        BY <1>4, <1>5, <1>6
    <2>2. QED
        BY <1>6, <2>1, FS_EmptySet
<1>7. CASE e \notin forgotten \cup undelivered
    <2>1. \/ e \in Sets(context)[KeyOf[e]] /\ e \notin Sets(agentQueue)[KeyOf[e]]
          \/ e \notin Sets(context)[KeyOf[e]] /\ e \in Sets(agentQueue)[KeyOf[e]]
        BY <1>1, <1>7 DEF HandInv, AccountInv, Accounted
    <2>2. \E w \in Where(e) : Where(e) = {w} /\ w[2] = KeyOf[e]
        <3>1. PICK k \in Keys : k = KeyOf[e]
            BY <1>1
        <3>2. \A j \in Keys \ {k} : e \notin Sets(context)[j] /\ e \notin Sets(agentQueue)[j]
            BY <1>5, <3>1
        <3>3. CASE e \in Sets(context)[k] /\ e \notin Sets(agentQueue)[k]
            <4>1. << "shown", k >> \in Where(e) /\ \A w \in Where(e) : w = << "shown", k >>
                BY <1>3, <1>4, <3>2, <3>3
            <4>2. << "shown", k >>[2] = KeyOf[e]
                BY <3>1
            <4>3. QED
                BY <4>1, <4>2
        <3>4. CASE e \notin Sets(context)[k] /\ e \in Sets(agentQueue)[k]
            <4>1. << "queued", k >> \in Where(e) /\ \A w \in Where(e) : w = << "queued", k >>
                BY <1>3, <1>4, <3>2, <3>4
            <4>2. << "queued", k >>[2] = KeyOf[e]
                BY <3>1
            <4>3. QED
                BY <4>1, <4>2
        <3>5. QED
            BY <2>1, <3>1, <3>3, <3>4
    <2>3. PICK w \in Where(e) : Where(e) = {w} /\ w[2] = KeyOf[e]
        BY <2>2
    <2>4. Cardinality(Where(e)) = 1
        BY <2>3, FS_Singleton
    <2>5. QED
        BY <1>7, <2>3, <2>4
<1>8. QED
    BY <1>6, <1>7

\* Whatever fails, restarts or closes, a message the hub handed over is shown to the model
\* of its session, or queued there, or given up: never twice, nowhere or elsewhere.
THEOREM MessagesAreAccounted == HubAgentSpec => []EveryMessageAccounted
<1>1. HandInv => EveryMessageAccounted
    BY OneAccount DEF EveryMessageAccounted
<1>2. QED
    BY <1>1, HandInvariance, PTL

-----------------------------------------------------------------------------
(* The order in which the model sees the messages *)

\* Out of its order in s is only an element of A, behind elements of S.
LateOnly(s, A, S) == \A i, j \in DOMAIN s : i < j /\ s[i] > s[j] => s[j] \in A /\ s[i] \in S

\* The queue is in order and newer than the queued messages the model has been shown.
LateInv ==
    \A k \in Keys :
        /\ LateOnly(context[k], asked, Elements(sent[k]))
        /\ Increasing(agentQueue[k]) /\ Elements(agentQueue[k]) \subseteq asked
        /\ \A x \in asked \cap Elements(context[k]) : \A y \in Elements(agentQueue[k]) : x < y

\* Until the client is closed, agent-service serves a /chat of the run that waits for its
\* answer, and a batch on its way to /chat is newer than the queued messages the model
\* has been shown: no drain can come between.
ServedInv ==
    ~closed =>
        /\ \A k \in serving : \E t \in Tasks : pc[t] = "chat" /\ key[owner[t]] = k
        /\ \A t \in Tasks : pc[t] = "convert" =>
              \A x \in asked \cap Elements(context[key[owner[t]]]) :
                 \A y \in Elements(batch[t]) : x < y

\* The runs that convert their batch or wait for /chat, except t's, go on as they were.
RunsKept(T) ==
    \A u \in Tasks \ T :
        /\ pc'[u] \in {"convert", "chat"} <=> pc[u] \in {"convert", "chat"}
        /\ pc[u] \in {"convert", "chat"} =>
              /\ pc'[u] = pc[u] /\ owner'[u] = owner[u] /\ batch'[u] = batch[u]
              /\ key'[owner'[u]] = key[owner[u]]

\* More may be late in a longer history.
LEMMA LateGrows ==
    ASSUME NEW s, NEW A, NEW S, NEW B, NEW U, LateOnly(s, A, S), A \subseteq B, S \subseteq U
    PROVE  LateOnly(s, B, U)
BY DEF LateOnly

\* Appending in order, or behind what may be passed.
LEMMA LateConcat ==
    ASSUME NEW a \in Seq(Events), NEW b \in Seq(Events), NEW A, NEW S,
           LateOnly(a, A, S), Increasing(b),
           \A x \in Elements(a), y \in Elements(b) : x < y \/ (y \in A /\ x \in S)
    PROVE  LateOnly(a \o b, A, S)
<1>1. /\ a \o b \in Seq(Events) /\ Len(a \o b) = Len(a) + Len(b)
      /\ \A i \in 1..(Len(a) + Len(b)) :
            (a \o b)[i] = IF i <= Len(a) THEN a[i] ELSE b[i - Len(a)]
    BY ConcatProperties
<1>2. /\ DOMAIN a = 1..Len(a) /\ DOMAIN b = 1..Len(b) /\ Len(a) \in Nat /\ Len(b) \in Nat
      /\ DOMAIN (a \o b) = 1..(Len(a) + Len(b))
    BY <1>1, LenProperties
<1>3. Events \subseteq Nat
    BY BoundsAssumption DEF Events
<1>4. SUFFICES ASSUME NEW i \in DOMAIN (a \o b), NEW j \in DOMAIN (a \o b), i < j,
                      (a \o b)[i] > (a \o b)[j]
               PROVE  (a \o b)[j] \in A /\ (a \o b)[i] \in S
    BY DEF LateOnly
<1>5. CASE j <= Len(a)
    <2>1. i \in DOMAIN a /\ j \in DOMAIN a /\ (a \o b)[i] = a[i] /\ (a \o b)[j] = a[j]
        BY <1>1, <1>2, <1>4, <1>5
    <2>2. QED
        BY <1>4, <2>1 DEF LateOnly
<1>6. CASE i <= Len(a) /\ ~(j <= Len(a))
    <2>1. /\ i \in DOMAIN a /\ j - Len(a) \in DOMAIN b
          /\ (a \o b)[i] = a[i] /\ (a \o b)[j] = b[j - Len(a)]
        BY <1>1, <1>2, <1>4, <1>6
    <2>2. (a \o b)[i] \in Elements(a) /\ (a \o b)[j] \in Elements(b)
        BY <2>1 DEF Elements
    <2>3. (a \o b)[i] \in Nat /\ (a \o b)[j] \in Nat
        BY <1>3, <2>2, ElementsOfEvents
    <2>4. QED
        BY <1>4, <2>2, <2>3
<1>7. CASE ~(i <= Len(a))
    <2>1. /\ i - Len(a) \in DOMAIN b /\ j - Len(a) \in DOMAIN b /\ i - Len(a) < j - Len(a)
          /\ (a \o b)[i] = b[i - Len(a)] /\ (a \o b)[j] = b[j - Len(a)]
        BY <1>1, <1>2, <1>4, <1>7
    <2>2. (a \o b)[i] < (a \o b)[j]
        BY <2>1 DEF Increasing
    <2>3. b[i - Len(a)] \in Elements(b) /\ b[j - Len(a)] \in Elements(b)
        BY <2>1 DEF Elements
    <2>4. (a \o b)[i] \in Nat /\ (a \o b)[j] \in Nat
        BY <1>3, <2>1, <2>3, ElementsOfEvents
    <2>5. QED
        BY <1>4, <2>2, <2>4
<1>8. QED
    BY <1>5, <1>6, <1>7

\* The invariant of the next state, with the primes on the variables.
LEMMA NextLate ==
    ASSUME \A k \in Keys :
              /\ LateOnly(context'[k], asked', Elements(sent'[k]))
              /\ Increasing(agentQueue'[k]) /\ Elements(agentQueue'[k]) \subseteq asked'
              /\ \A x \in asked' \cap Elements(context'[k]) :
                    \A y \in Elements(agentQueue'[k]) : x < y
    PROVE  LateInv'
BY DEF LateInv, LateOnly, Increasing, Elements

\* The same for a session of which the messages shown and queued stay, or go.
LEMMA LateStays ==
    ASSUME LateInv, NEW k \in Keys, asked \subseteq asked',
           Elements(sent[k]) \subseteq Elements(sent'[k]),
           context'[k] = context[k] \/ context'[k] = << >>,
           agentQueue'[k] = agentQueue[k] \/ agentQueue'[k] = << >>,
           \A x \in asked' : x \in Elements(context[k]) => x \in asked
    PROVE  /\ LateOnly(context'[k], asked', Elements(sent'[k]))
           /\ Increasing(agentQueue'[k]) /\ Elements(agentQueue'[k]) \subseteq asked'
           /\ \A x \in asked' \cap Elements(context'[k]) :
                 \A y \in Elements(agentQueue'[k]) : x < y
<1>1. DOMAIN << >> = {} /\ Elements(<< >>) = {}
    BY ElementsOfEvents, EmptySeq, LenProperties
<1>2. Increasing(<< >>) /\ LateOnly(<< >>, asked', Elements(sent'[k]))
    BY <1>1 DEF Increasing, LateOnly
<1>3. LateOnly(context[k], asked', Elements(sent'[k]))
    BY LateGrows DEF LateInv
<1>4. QED
    BY <1>1, <1>2, <1>3 DEF LateInv

\* A step that hands nothing over and shows nothing.
LEMMA SteadyLate ==
    ASSUME LateInv, UNCHANGED << asked, sent, context >>,
           \A k \in Keys : agentQueue'[k] = agentQueue[k] \/ agentQueue'[k] = << >>
    PROVE  LateInv'
BY LateStays, NextLate

\* Everything the model of a session was shown was POSTed to /chat or queued for it.
LEMMA ShownWasHanded ==
    ASSUME HandInv, NEW k \in Keys, NEW x \in Elements(context[k])
    PROVE  x \in Events /\ KeyOf[x] = k /\ (x \in asked \/ x \in Elements(sent[k]))
<1>1. x \in Sets(context)[k]
    BY DEF Sets
<1>2. x \in Events /\ KeyOf[x] = k /\ x \in HandedOver
    BY <1>1 DEF HandInv, AccountInv, Accounted
<1>3. \A j \in Keys : x \in Sets(sent)[j] => j = k /\ x \in Elements(sent[k])
    BY <1>2 DEF Sets, HandInv, PlaceInv, OrderInv, SequenceInv, OfKey
<1>4. QED
    BY <1>2, <1>3 DEF HandedOver

\* A batch that /chat accepts is newer than all its session was shown.
LEMMA BatchIsNewest ==
    ASSUME HandInv, ServedInv, ~closed, NEW t \in Tasks, pc[t] = "convert",
           NEW k \in Keys, k = key[owner[t]],
           NEW x \in Elements(context[k]), NEW y \in Elements(batch[t])
    PROVE  x < y
<1>1. CASE x \in asked
    BY <1>1 DEF ServedInv
<1>2. CASE x \in Elements(sent[k])
    BY <1>2 DEF HandInv, PlaceInv, OrderInv, AgentInv, Before
<1>3. QED
    BY <1>1, <1>2, ShownWasHanded

\* POST /chat shows its batch behind all that was shown; POST /chat to nobody shows
\* nothing.
LEMMA ChatKeepsLate ==
    ASSUME HandInv, LateInv, ServedInv, NEW t \in Tasks, Chats(t) \/ ChatIsRefused(t)
    PROVE  LateInv'
<1>1. pc[t] = "convert" /\ CallAgent(t)
    BY DEF Chats, ChatIsRefused, CallAgent
<1>2. PICK k \in Keys : k = key[owner[t]]
    BY <1>1, BatchIsNew DEF HandInv, MemoryInv
<1>3. /\ batch[t] \in Seq(Events) /\ sent[k] \in Seq(Events) /\ asked' = asked
      /\ sent'[k] = sent[k] \o batch[t] /\ \A j \in Keys \ {k} : sent'[j] = sent[j]
      /\ agentQueue' = agentQueue
    BY <1>1, <1>2 DEF Chats, ChatIsRefused, CallAgent, HandInv, MemoryInv, IInv, TypeOK
<1>4. \A j \in Keys : Elements(sent[j]) \subseteq Elements(sent'[j])
    <2>1. Elements(sent'[k]) = Elements(sent[k]) \cup Elements(batch[t])
        BY <1>3, ElementsOfConcat
    <2>2. QED
        BY <1>3, <2>1
<1>5. ASSUME NEW j \in Keys, context'[j] = context[j]
      PROVE  /\ LateOnly(context'[j], asked', Elements(sent'[j]))
             /\ Increasing(agentQueue'[j]) /\ Elements(agentQueue'[j]) \subseteq asked'
             /\ \A x \in asked' \cap Elements(context'[j]) :
                   \A y \in Elements(agentQueue'[j]) : x < y
    BY <1>3, <1>4, <1>5, LateStays
<1>6. CASE ChatIsRefused(t)
    <2>1. context' = context
        BY <1>6 DEF ChatIsRefused
    <2>2. QED
        BY <1>5, <2>1, NextLate
<1>7. CASE Chats(t)
    <2>1. /\ ~closed /\ context[k] \in Seq(Events) /\ context'[k] = context[k] \o batch[t]
          /\ \A j \in Keys \ {k} : context'[j] = context[j]
        BY <1>2, <1>7 DEF Chats, HandInv, MemoryInv, SeenInv
    <2>2. LateOnly(context[k], asked', Elements(sent'[k]))
        BY <1>3, <1>4, LateGrows DEF LateInv
    <2>3. Increasing(batch[t])
        BY <1>1 DEF HandInv, PlaceInv, OrderInv, SequenceInv, Serving
    <2>4. \A x \in Elements(context[k]), y \in Elements(batch[t]) : x < y
        BY <1>1, <1>2, <2>1, BatchIsNewest
    <2>5. LateOnly(context'[k], asked', Elements(sent'[k]))
        BY <1>3, <2>1, <2>2, <2>3, <2>4, LateConcat
    <2>6. Elements(context'[k]) = Elements(context[k]) \cup Elements(batch[t])
        BY <1>3, <2>1, ElementsOfConcat
    <2>7. \A x \in Elements(batch[t]) : x \notin asked
        BY <1>1, BatchIsNew DEF HandInv, MemoryInv
    <2>8. \A j \in Keys :
             /\ LateOnly(context'[j], asked', Elements(sent'[j]))
             /\ Increasing(agentQueue'[j]) /\ Elements(agentQueue'[j]) \subseteq asked'
             /\ \A x \in asked' \cap Elements(context'[j]) :
                   \A y \in Elements(agentQueue'[j]) : x < y
        <3>1. ASSUME NEW j \in Keys \ {k}
              PROVE  /\ LateOnly(context'[j], asked', Elements(sent'[j]))
                     /\ Increasing(agentQueue'[j]) /\ Elements(agentQueue'[j]) \subseteq asked'
                     /\ \A x \in asked' \cap Elements(context'[j]) :
                           \A y \in Elements(agentQueue'[j]) : x < y
            BY <1>5, <2>1
        <3>2. /\ Increasing(agentQueue'[k]) /\ Elements(agentQueue'[k]) \subseteq asked'
              /\ \A x \in asked' \cap Elements(context'[k]) :
                    \A y \in Elements(agentQueue'[k]) : x < y
            BY <1>3, <2>6, <2>7 DEF LateInv
        <3>3. QED
            BY <2>5, <3>1, <3>2
    <2>9. QED
        BY <2>8, NextLate
<1>8. QED
    BY <1>6, <1>7

\* A message joins the queue behind the older ones; no model has been shown it.
LEMMA QueueKeepsLate ==
    ASSUME HandInv, LateInv, NEW l \in Loops, QueuesMessage(l), sent' = sent
    PROVE  LateInv'
<1>1. PICK e \in Events : e = loopEvent[l] /\ e \notin HandedOver
    BY SubmittedIsNew DEF HandInv, QueuesMessage, QueueMessage
<1>2. PICK k \in Keys : k = EventKey(l)
    BY SubmittedIsNew DEF HandInv, QueuesMessage, QueueMessage
<1>3. /\ asked' = asked \cup {e} /\ context' = context
      /\ agentQueue[k] \in Seq(Events) /\ agentQueue'[k] = Append(agentQueue[k], e)
      /\ \A j \in Keys \ {k} : agentQueue'[j] = agentQueue[j]
    BY <1>1, <1>2 DEF QueuesMessage, QueueMessage, HandInv, MemoryInv, SeenInv
<1>4. \A j \in Keys : e \notin Elements(context[j])
    <2>1. \A j \in Keys : Sets(context)[j] = Elements(context[j])
        BY DEF Sets
    <2>2. QED
        BY <1>1, <2>1 DEF HandInv, AccountInv, Accounted
<1>5. \A x \in asked : x < e
    BY <1>1 DEF QueuesMessage, QueueMessage, HandInv, AskedInv
<1>6. Elements(agentQueue[k]) \subseteq asked /\ Increasing(agentQueue[k])
    BY DEF LateInv
<1>7. Increasing(agentQueue'[k])
    <2>1. Before(agentQueue[k], e)
        BY <1>5, <1>6 DEF Before
    <2>2. QED
        BY <1>3, <1>6, <2>1, AppendKeepsOrder
<1>8. Elements(agentQueue'[k]) = Elements(agentQueue[k]) \cup {e}
    BY <1>3, ElementsOfAppend
<1>9. \A j \in Keys : LateOnly(context'[j], asked', Elements(sent'[j]))
    BY <1>3, LateGrows DEF LateInv
<1>10. \A j \in Keys \ {k} :
          /\ Increasing(agentQueue'[j]) /\ Elements(agentQueue'[j]) \subseteq asked'
          /\ \A x \in asked' \cap Elements(context'[j]) :
                \A y \in Elements(agentQueue'[j]) : x < y
    BY <1>3, <1>4 DEF LateInv
<1>11. /\ Increasing(agentQueue'[k]) /\ Elements(agentQueue'[k]) \subseteq asked'
       /\ \A x \in asked' \cap Elements(context'[k]) :
             \A y \in Elements(agentQueue'[k]) : x < y
    BY <1>3, <1>4, <1>5, <1>6, <1>7, <1>8 DEF LateInv
<1>12. QED
    BY <1>9, <1>10, <1>11, NextLate

\* The queue is shown in its order, behind what was queued and shown before.
LEMMA DrainKeepsLate ==
    ASSUME HandInv, LateInv, NEW k \in Keys, AgentDrains(k), UNCHANGED << sent, asked >>
    PROVE  LateInv'
<1>1. /\ context'[k] = context[k] \o agentQueue[k] /\ agentQueue'[k] = << >>
      /\ context[k] \in Seq(Events) /\ agentQueue[k] \in Seq(Events)
      /\ \A j \in Keys \ {k} : context'[j] = context[j] /\ agentQueue'[j] = agentQueue[j]
    BY DEF AgentDrains, DrainQueue, HandInv, MemoryInv, SeenInv
<1>2. \A x \in Elements(context[k]), y \in Elements(agentQueue[k]) :
         x < y \/ (y \in asked /\ x \in Elements(sent[k]))
    BY ShownWasHanded DEF LateInv
<1>3. LateOnly(context'[k], asked', Elements(sent'[k]))
    BY <1>1, <1>2, LateConcat DEF LateInv
<1>4. ASSUME NEW j \in Keys \ {k}
      PROVE  /\ LateOnly(context'[j], asked', Elements(sent'[j]))
             /\ Increasing(agentQueue'[j]) /\ Elements(agentQueue'[j]) \subseteq asked'
             /\ \A x \in asked' \cap Elements(context'[j]) :
                   \A y \in Elements(agentQueue'[j]) : x < y
    BY <1>1, LateStays
<1>5. Increasing(agentQueue'[k]) /\ Elements(agentQueue'[k]) = {}
    BY <1>1, ElementsOfEvents, EmptySeq, LenProperties DEF Increasing
<1>6. QED
    BY <1>3, <1>4, <1>5, NextLate

\* Every step of the composition keeps the order.
LEMMA NextLateInv ==
    ASSUME HandInv, LateInv, ServedInv, [HubAgentNext]_allVars
    PROVE  LateInv'
<1>1. CASE \E t \in Tasks : Chats(t) \/ ChatIsRefused(t)
    BY <1>1, ChatKeepsLate
<1>2. CASE ~\E t \in Tasks : Chats(t) \/ ChatIsRefused(t)
    <2>1. sent' = sent
        BY <1>2, SentByChatOnly
    <2>2. CASE \E l \in Loops : QueuesMessage(l)
        BY <2>1, <2>2, QueueKeepsLate
    <2>3. CASE ~\E l \in Loops : QueuesMessage(l)
        <3>1. asked' = asked
            BY <2>3, AskedByQueueOnly
        <3>2. CASE \E k \in Keys : AgentDrains(k)
            BY <2>1, <3>1, <3>2, DrainKeepsLate
        <3>3. CASE ~\E k \in Keys : AgentDrains(k)
            <4>1. \A k \in Keys : /\ context'[k] = context[k] \/ context'[k] = << >>
                                  /\ agentQueue'[k] = agentQueue[k] \/ agentQueue'[k] = << >>
                <5>1. context \in [Keys -> Seq(Events)] /\ agentQueue \in [Keys -> Seq(Events)]
                    BY DEF HandInv, MemoryInv, SeenInv
                <5>2. CASE \E l \in Loops : CreatesSession(l)
                    BY <5>1, <5>2 DEF CreatesSession
                <5>3. CASE \E t \in Tasks : ChatRepliesAtLimit(t)
                    BY <5>1, <5>3 DEF ChatRepliesAtLimit
                <5>4. CASE AgentRestart
                    BY <5>4 DEF AgentRestart
                <5>5. CASE /\ ~\E l \in Loops : CreatesSession(l)
                           /\ ~\E t \in Tasks : ChatRepliesAtLimit(t)
                           /\ ~AgentRestart
                    BY <1>2, <2>3, <3>3, <5>5
                    DEF HubAgentNext, Alone, ChatReplies, ChatFails, ReplyIsSent,
                        AgentEndsAlone, CloseClient, agentVars, allVars
                <5>6. QED
                    BY <5>2, <5>3, <5>4, <5>5
            <4>2. QED
                BY <2>1, <3>1, <4>1, LateStays, NextLate
        <3>4. QED
            BY <3>2, <3>3
    <2>4. QED
        BY <2>2, <2>3
<1>3. QED
    BY <1>1, <1>2

\* The invariant of the next state, with the primes on the variables.
LEMMA NextServed ==
    ASSUME ~closed' =>
              /\ \A k \in serving' : \E t \in Tasks : pc'[t] = "chat" /\ key'[owner'[t]] = k
              /\ \A t \in Tasks : pc'[t] = "convert" =>
                    \A x \in asked' \cap Elements(context'[key'[owner'[t]]]) :
                       \A y \in Elements(batch'[t]) : x < y
    PROVE  ServedInv'
BY DEF ServedInv, Elements

\* Runs other than those of T go on; those of T are told what is true of them.
LEMMA ServedStays ==
    ASSUME ServedInv, NEW T \in SUBSET Tasks, RunsKept(T), ~closed' => ~closed,
           ~closed' => \A k \in serving' :
              \/ k \in serving /\ \A t \in T : pc[t] = "chat" => key[owner[t]] # k
              \/ \E t \in T : pc'[t] = "chat" /\ key'[owner'[t]] = k,
           ~closed' => \A u \in Tasks \ T : pc[u] = "convert" =>
              \A x \in asked' \cap Elements(context'[key[owner[u]]]) :
                 x \in asked \cap Elements(context[key[owner[u]]]),
           ~closed' => \A t \in T : pc'[t] = "convert" =>
              \A x \in asked' \cap Elements(context'[key'[owner'[t]]]) :
                 \A y \in Elements(batch'[t]) : x < y
    PROVE  ServedInv'
<1>1. ASSUME ~closed', NEW k \in serving'
      PROVE  \E t \in Tasks : pc'[t] = "chat" /\ key'[owner'[t]] = k
    <2>1. CASE \E t \in T : pc'[t] = "chat" /\ key'[owner'[t]] = k
        BY <2>1
    <2>2. CASE k \in serving /\ \A t \in T : pc[t] = "chat" => key[owner[t]] # k
        <3>1. PICK u \in Tasks : pc[u] = "chat" /\ key[owner[u]] = k
            BY <1>1, <2>2 DEF ServedInv
        <3>2. u \in Tasks \ T
            BY <2>2, <3>1
        <3>3. QED
            BY <3>1, <3>2 DEF RunsKept
    <2>3. QED
        BY <1>1, <2>1, <2>2
<1>2. ASSUME ~closed', NEW u \in Tasks, pc'[u] = "convert",
             NEW x \in asked' \cap Elements(context'[key'[owner'[u]]]),
             NEW y \in Elements(batch'[u])
      PROVE  x < y
    <2>1. CASE u \in T
        BY <1>2, <2>1
    <2>2. CASE u \notin T
        <3>1. pc[u] = "convert" /\ batch'[u] = batch[u] /\ key'[owner'[u]] = key[owner[u]]
            BY <1>2, <2>2 DEF RunsKept
        <3>2. x \in asked \cap Elements(context[key[owner[u]]])
            BY <1>2, <2>2, <3>1
        <3>3. QED
            BY <1>2, <3>1, <3>2 DEF ServedInv
    <2>3. QED
        BY <2>1, <2>2
<1>3. QED
    BY <1>1, <1>2, NextServed

\* A receive loop leaves every run alone: it cancels and starts timers only.
LEMMA LoopKeepsRuns ==
    ASSUME IInv, NEW l \in Loops, Receive(l) \/ LoopStep(l)
    PROVE  RunsKept({})
<1>1. ASSUME UNCHANGED << pc, owner, batch, key >> PROVE RunsKept({})
    BY <1>1 DEF RunsKept
<1>2. ASSUME NEW r \in Runners, JoinPending(l, r),
             \A t \in Tasks : pc[t] \in {"convert", "chat"} => key'[owner[t]] = key[owner[t]]
      PROVE  RunsKept({})
    <2>1. ScheduleDebounce(r, {})
        BY <1>2 DEF JoinPending
    <2>2. FreshTask \in Tasks /\ pc[FreshTask] = "none"
        BY <2>1, FreshTaskIsFree DEF ScheduleDebounce
    <2>3. \A t \in Tasks : pc[t] \in {"convert", "chat"} => t # FreshTask /\ t \notin Timer(r)
        BY <2>2 DEF Timer, TimerAlive, IInv, TimerInv, Waiting
    <2>4. \A t \in Tasks : pc[t] \in {"convert", "chat"} =>
             pc'[t] = pc[t] /\ owner'[t] = owner[t] /\ batch'[t] = batch[t]
        BY <2>1, <2>3 DEF ScheduleDebounce
    <2>5. \A t \in Tasks : pc'[t] \in {"convert", "chat"} => pc[t] \in {"convert", "chat"}
        BY <2>1 DEF ScheduleDebounce
    <2>6. QED
        BY <1>2, <2>4, <2>5 DEF RunsKept
<1>3. CASE SubmitPending(l)
    <2>1. PICK k \in Keys : k = EventKey(l)
        BY <1>3, KeyAssumption DEF SubmitPending, EventKey, IInv, LockInv
    <2>2. PICK r \in Runners : r = runners[k]
        BY <1>3, <2>1 DEF SubmitPending, IInv, TypeOK
    <2>3. CASE stopping[r]
        BY <1>1, <1>3, <2>1, <2>2, <2>3 DEF SubmitPending, runnerVars, taskVars
    <2>4. CASE ~stopping[r]
        <3>1. JoinPending(l, r) /\ key' = key
            BY <1>3, <2>1, <2>2, <2>4 DEF SubmitPending
        <3>2. QED
            BY <1>2, <3>1
    <2>5. QED
        BY <2>3, <2>4
<1>4. CASE SubmitNewRunner(l) \/ CreateSession(l)
    <2>1. NewRunner(l)
        BY <1>4 DEF SubmitNewRunner, CreateSession
    <2>2. PICK r \in Runners : r = FreshRunner /\ Unused(r)
        BY <2>1, FreshRunnerIsUnused DEF NewRunner
    <2>3. JoinPending(l, r) /\ \A q \in Runners \ {r} : key'[q] = key[q]
        BY <2>1, <2>2 DEF NewRunner, IInv, TypeOK
    <2>4. \A t \in Tasks : pc[t] \in {"convert", "chat"} => owner[t] \in Runners \ {r}
        BY <2>2 DEF Unused, IInv, TypeOK, OwnerInv
    <2>5. QED
        BY <1>2, <2>3, <2>4
<1>5. CASE \/ Receive(l) \/ SubmitRunning(l) \/ SubmitUnknown(l) \/ QueueMessage(l)
           \/ QueueMessageFails(l) \/ CreateSessionFails(l)
    BY <1>1, <1>5 DEF Receive, SubmitRunning, SubmitUnknown, QueueMessage, QueueMessageFails,
                      CreateSessionFails, runnerVars, taskVars
<1>6. QED
    BY <1>3, <1>4, <1>5 DEF LoopStep

\* A task leaves the runs of the others alone.
LEMMA TaskKeepsRuns ==
    ASSUME IInv, NEW t \in Tasks, TaskStep(t)
    PROVE  RunsKept({t})
<1>1. ASSUME key' = key, \A u \in Tasks \ {t} :
                pc'[u] = pc[u] /\ owner'[u] = owner[u] /\ batch'[u] = batch[u]
      PROVE  RunsKept({t})
    BY <1>1 DEF RunsKept
<1>2. ASSUME NEW b, NotifyIdle(t, b), key' = key PROVE RunsKept({t})
    BY <1>1, <1>2 DEF NotifyIdle, TasksEnd, IInv, TypeOK
<1>3. CASE StartTimer(t) \/ WakeTimer(t)
    <2>1. CASE GiveUp(t)
        BY <1>2, <2>1 DEF GiveUp
    <2>2. CASE TakeBatch(t)
        BY <1>1, <2>2 DEF TakeBatch, IInv, TypeOK
    <2>3. CASE /\ UNCHANGED << runnerVars, owner, batch, lockQueue >>
               /\ \E v \in {"done", "sleep"} : pc' = [pc EXCEPT ![t] = v]
        BY <1>1, <2>3 DEF runnerVars, IInv, TypeOK
    <2>4. QED
        BY <1>3, <2>1, <2>2, <2>3 DEF StartTimer, WakeTimer, SleepUntilDeadline
<1>4. CASE CallAgent(t) \/ AgentReplies(t)
    BY <1>1, <1>4 DEF CallAgent, AgentReplies, runnerVars, IInv, TypeOK
<1>5. CASE RunEnds(t)
    <2>1. PICK r \in Runners : owner[t] = r /\ running[r]
        BY <1>5 DEF RunEnds, Serving, IInv, TypeOK, OwnerInv, RunInv
    <2>2. pending[r] = << >>
        BY <2>1 DEF IInv, RunInv
    <2>3. key' = key /\ \E b : NotifyIdle(t, b)
        BY <1>5, <2>1, <2>2 DEF RunEnds
    <2>4. QED
        BY <1>2, <2>3
<1>6. CASE OnRunnerIdle(t)
    BY <1>1, <1>6 DEF OnRunnerIdle, TasksEnd, runnerVars
<1>7. QED
    BY <1>3, <1>4, <1>5, <1>6 DEF TaskStep

\* Two runs of a session that convert or wait for /chat are one run.
LEMMA RunsApart ==
    ASSUME IInv, KnownInv, NEW t \in Tasks, pc[t] \in {"convert", "chat"},
           NEW u \in Tasks, pc[u] \in {"convert", "chat"}, key[owner[t]] = key[owner[u]]
    PROVE  t = u
<1>1. key[owner[t]] \in Keys
    BY DEF KnownInv, IInv, TypeOK, OwnerInv
<1>2. QED
    BY <1>1, RunIsUnique DEF AtMostOneRun, RunsOf, Serving

\* A receive loop's call shows the model nothing.
LEMMA LoopKeepsServed ==
    ASSUME HandInv, ServedInv, NEW l \in Loops, Receive(l) \/ LoopStep(l),
           UNCHANGED << serving, closed >>,
           \/ UNCHANGED << asked, context >>
           \/ CreatesSession(l) \/ QueuesMessage(l)
    PROVE  ServedInv'
<1>1. RunsKept({})
    BY LoopKeepsRuns DEF HandInv, PlaceInv
<1>2. \A k \in Keys : \A x \in asked' \cap Elements(context'[k]) :
         x \in asked \cap Elements(context[k])
    <2>1. CASE UNCHANGED << asked, context >>
        BY <2>1
    <2>2. CASE CreatesSession(l)
        <3>1. asked' = asked /\ \A k \in Keys : context'[k] = context[k] \/ context'[k] = << >>
            BY <2>2 DEF CreatesSession, CreateSession, NewRunner, JoinPending, HandInv,
                        MemoryInv, SeenInv
        <3>2. QED
            BY <3>1, ElementsOfEvents
    <2>3. CASE QueuesMessage(l)
        <3>1. PICK e \in Events : e = loopEvent[l] /\ e \notin HandedOver
            BY <2>3, SubmittedIsNew DEF HandInv, QueuesMessage, QueueMessage
        <3>2. asked' = asked \cup {e} /\ context' = context
            BY <2>3, <3>1 DEF QueuesMessage, QueueMessage
        <3>3. \A k \in Keys : Sets(context)[k] = Elements(context[k])
            BY DEF Sets
        <3>4. \A k \in Keys : e \notin Elements(context[k])
            BY <3>1, <3>3 DEF HandInv, AccountInv, Accounted
        <3>5. QED
            BY <3>2, <3>4
    <2>4. QED
        BY <2>1, <2>2, <2>3
<1>3. \A u \in Tasks : pc[u] = "convert" => key[owner[u]] \in Keys
    BY BatchIsNew DEF HandInv, MemoryInv
<1>4. QED
    BY <1>1, <1>2, <1>3, ServedStays

\* A call of /chat is served from the moment it arrives until it is answered.
LEMMA ChatKeepsServed ==
    ASSUME HandInv, ServedInv, NEW t \in Tasks,
           \/ Chats(t) \/ ChatIsRefused(t) \/ ChatReplies(t) \/ ChatRepliesAtLimit(t)
           \/ ChatFails(t) \/ ReplyIsSent(t)
    PROVE  ServedInv'
<1> USE DEF HandInv, MemoryInv
<1>1. TaskStep(t) /\ pc[t] \in Serving /\ closed' = closed /\ asked' = asked
    BY DEF Chats, ChatIsRefused, ChatReplies, ChatRepliesAtLimit, ChatFails, ReplyIsSent,
           TaskStep, CallAgent, AgentReplies, RunEnds, agentVars, worldVars, Serving
<1>2. RunsKept({t})
    BY <1>1, TaskKeepsRuns
<1>3. PICK k \in Keys : k = key[owner[t]]
    BY <1>1 DEF KnownInv, IInv, TypeOK, OwnerInv, Serving
<1>4. \A u \in Tasks : pc[u] = "convert" => key[owner[u]] \in Keys
    BY BatchIsNew
<1>5. CASE Chats(t)
    <2>1. /\ pc[t] = "convert" /\ pc'[t] = "chat" /\ key'[owner'[t]] = k
          /\ serving' = serving \cup {k}
          /\ \A j \in Keys \ {k} : context'[j] = context[j]
        BY <1>3, <1>5 DEF Chats, CallAgent, runnerVars, IInv, TypeOK, SeenInv
    <2>2. \A u \in Tasks \ {t} : pc[u] = "convert" => key[owner[u]] \in Keys \ {k}
        BY <1>3, <1>4, <2>1, RunsApart
    <2>3. QED
        BY <1>1, <1>2, <2>1, <2>2, ServedStays
<1>6. CASE ChatIsRefused(t)
    <2>1. /\ pc[t] = "convert" /\ pc'[t] = "chat" /\ UNCHANGED << serving, context >>
        BY <1>6 DEF ChatIsRefused, CallAgent, IInv, TypeOK
    <2>2. QED
        BY <1>1, <1>2, <2>1, ServedStays
<1>7. CASE ChatReplies(t) \/ ChatRepliesAtLimit(t)
    <2>1. /\ pc'[t] = "send" /\ context' = context /\ serving' = serving \ {k}
        BY <1>3, <1>7 DEF ChatReplies, ChatRepliesAtLimit, AgentReplies, IInv, TypeOK
    <2>2. QED
        BY <1>1, <1>2, <1>3, <2>1, ServedStays
<1>8. CASE ChatFails(t) \/ ReplyIsSent(t)
    <2>1. /\ UNCHANGED << serving, context >>
          /\ ~closed => pc[t] # "chat" \/ key[owner[t]] \notin serving
        BY <1>8 DEF ChatFails, ReplyIsSent, agentVars
    <2>2. pc'[t] # "convert"
        BY <1>8 DEF ChatFails, ReplyIsSent, RunEnds, ScheduleDebounce, NotifyIdle, TasksEnd,
                    IInv, TypeOK
    <2>3. QED
        BY <1>1, <1>2, <2>1, <2>2, ServedStays
<1>9. QED
    BY <1>5, <1>6, <1>7, <1>8

\* The batch a timer takes is newer than what was queued for its session before.
LEMMA TimerKeepsServed ==
    ASSUME HandInv, ServedInv, NEW t \in Tasks,
           StartTimer(t) \/ WakeTimer(t) \/ OnRunnerIdle(t), UNCHANGED agentVars
    PROVE  ServedInv'
<1> USE DEF HandInv, MemoryInv
<1>1. RunsKept({t})
    BY TaskKeepsRuns DEF TaskStep
<1>2. pc[t] # "chat" /\ pc[t] # "none" /\ asked' = asked /\ key' = key
    BY DEF StartTimer, WakeTimer, OnRunnerIdle, worldVars, runnerVars, SleepUntilDeadline,
           GiveUp, TakeBatch
<1>3. UNCHANGED << serving, closed, context >>
    BY DEF agentVars
<1>4. ASSUME pc'[t] = "convert"
      PROVE  \A x \in asked \cap Elements(context[key[owner'[t]]]) :
                \A y \in Elements(batch'[t]) : x < y
    <2>1. TakeBatch(t)
        BY <1>2, <1>4 DEF StartTimer, WakeTimer, OnRunnerIdle, SleepUntilDeadline, GiveUp,
                          NotifyIdle, TasksEnd, IInv, TypeOK
    <2>2. PICK r \in Runners : r = owner[t] /\ owner'[t] = r
        BY <1>2, <2>1 DEF TakeBatch, IInv, TypeOK, OwnerInv
    <2>3. batch'[t] = pending[r]
        BY <2>1, <2>2 DEF TakeBatch, IInv, TypeOK
    <2>4. key[r] \in Keys
        BY <2>2, IdentityAssumption DEF KnownInv, IInv, TypeOK
    <2>5. \A x \in Elements(context[key[r]]) : KeyOf[x] = key[r]
        BY <2>4, ShownWasHanded
    <2>6. QED
        BY <2>2, <2>3, <2>5 DEF AskedInv
<1>5. QED
    BY <1>1, <1>2, <1>3, <1>4, ServedStays

\* A drain is never between a batch's conversion and its /chat; the other steps of
\* agent-service and of the shutdown show nothing.
LEMMA AgentKeepsServed ==
    ASSUME HandInv, ServedInv, UNCHANGED vars,
           \/ \E k \in Keys : AgentDrains(k) \/ AgentEndsAlone(k)
           \/ AgentRestart \/ CloseClient \/ UNCHANGED allVars
    PROVE  ServedInv'
<1> USE DEF HandInv, MemoryInv
<1>1. RunsKept({}) /\ asked' = asked
    BY DEF RunsKept, vars, runnerVars, taskVars, worldVars
<1>2. \A u \in Tasks : pc[u] = "convert" => key[owner[u]] \in Keys
    BY BatchIsNew
<1>3. ASSUME NEW k \in Keys, AgentDrains(k) PROVE ServedInv'
    <2>1. /\ UNCHANGED << serving, closed >> /\ k \in serving
          /\ \A j \in Keys \ {k} : context'[j] = context[j]
        BY <1>3 DEF AgentDrains, DrainQueue
    <2>2. ~closed => \A u \in Tasks : pc[u] = "convert" => key[owner[u]] \in Keys \ {k}
        BY <1>2, <2>1, RunsApart DEF ServedInv
    <2>3. QED
        BY <1>1, <2>1, <2>2, ServedStays
<1>4. ASSUME NEW k \in Keys, AgentEndsAlone(k) PROVE ServedInv'
    <2>1. UNCHANGED << closed, context >> /\ serving' \subseteq serving
        BY <1>4 DEF AgentEndsAlone
    <2>2. QED
        BY <1>1, <2>1, ServedStays
<1>5. ASSUME AgentRestart PROVE ServedInv'
    <2>1. closed' = closed /\ serving' = {} /\ \A k \in Keys : Elements(context'[k]) = {}
        BY <1>5, ElementsOfEvents DEF AgentRestart
    <2>2. QED
        BY <1>1, <1>2, <2>1, ServedStays
<1>6. ASSUME CloseClient PROVE ServedInv'
    BY <1>6, NextServed DEF CloseClient
<1>7. ASSUME UNCHANGED allVars PROVE ServedInv'
    BY <1>1, <1>7, ServedStays DEF allVars, agentVars
<1>8. QED
    BY <1>3, <1>4, <1>5, <1>6, <1>7

\* Every step of the composition keeps the runs served.
LEMMA NextServedInv ==
    ASSUME HandInv, ServedInv, [HubAgentNext]_allVars
    PROVE  ServedInv'
<1>1. ASSUME NEW l \in Loops,
             \/ Alone(Receive(l) \/ SubmitPending(l) \/ SubmitRunning(l) \/ SubmitNewRunner(l)
                      \/ SubmitUnknown(l) \/ QueueMessageFails(l) \/ CreateSessionFails(l))
             \/ CreatesSession(l) \/ QueuesMessage(l)
      PROVE  ServedInv'
    <2>1. CASE CreatesSession(l) \/ QueuesMessage(l)
        <3>1. LoopStep(l) /\ UNCHANGED << serving, closed >>
            BY <2>1 DEF CreatesSession, QueuesMessage, LoopStep
        <3>2. QED
            BY <2>1, <3>1, LoopKeepsServed
    <2>2. CASE Alone(Receive(l) \/ SubmitPending(l) \/ SubmitRunning(l) \/ SubmitNewRunner(l)
                     \/ SubmitUnknown(l) \/ QueueMessageFails(l) \/ CreateSessionFails(l))
        <3>1. Receive(l) \/ LoopStep(l)
            BY <2>2 DEF Alone, LoopStep
        <3>2. UNCHANGED << serving, closed, context >>
            BY <2>2 DEF Alone, agentVars
        <3>3. asked' = asked
            BY <2>2 DEF Alone, Receive, SubmitPending, SubmitRunning, SubmitNewRunner,
                        SubmitUnknown, QueueMessageFails, CreateSessionFails, NewRunner,
                        JoinPending, worldVars
        <3>4. QED
            BY <3>1, <3>2, <3>3, LoopKeepsServed
    <2>3. QED
        BY <1>1, <2>1, <2>2
<1>2. ASSUME NEW t \in Tasks,
             \/ Alone(StartTimer(t) \/ WakeTimer(t) \/ OnRunnerIdle(t))
             \/ Chats(t) \/ ChatIsRefused(t) \/ ChatReplies(t) \/ ChatRepliesAtLimit(t)
             \/ ChatFails(t) \/ ReplyIsSent(t)
      PROVE  ServedInv'
    BY <1>2, ChatKeepsServed, TimerKeepsServed DEF Alone
<1>3. CASE \/ \E k \in Keys : AgentDrains(k) \/ AgentEndsAlone(k)
           \/ AgentRestart \/ CloseClient \/ UNCHANGED allVars
    <2>1. UNCHANGED vars
        BY <1>3 DEF AgentDrains, AgentEndsAlone, AgentRestart, CloseClient, allVars
    <2>2. QED
        BY <1>3, <2>1, AgentKeepsServed
<1>4. CASE Alone(BeginShutdown \/ ShutdownStep \/ Tick \/ Terminated)
    <2>1. UNCHANGED << serving, closed, context >>
        BY <1>4 DEF Alone, agentVars
    <2>2. UNCHANGED << owner, batch, key, asked >>
        BY <1>4 DEF Alone, BeginShutdown, ShutdownStep, ClearRunners, StopRunner, Tick,
                    Terminated, vars, runnerVars, taskVars, worldVars
    <2>3. \A u \in Tasks : /\ pc'[u] \in {"convert", "chat"} <=> pc[u] \in {"convert", "chat"}
                           /\ pc[u] \in {"convert", "chat"} => pc'[u] = pc[u]
        BY <1>4 DEF Alone, BeginShutdown, ShutdownStep, ClearRunners, StopRunner, Tick,
                    Terminated, vars, taskVars, Timer, TimerAlive, HandInv, MemoryInv, IInv,
                    TimerInv, Waiting
    <2>4. RunsKept({})
        BY <2>2, <2>3 DEF RunsKept
    <2>5. QED
        BY <2>1, <2>2, <2>4, ServedStays
<1>5. QED
    BY <1>1, <1>2, <1>3, <1>4 DEF HubAgentNext

\* At first no message was shown and none is queued.
LEMMA InitLate == HubAgentInit => LateInv /\ ServedInv
<1> SUFFICES ASSUME HubAgentInit PROVE LateInv /\ ServedInv
    OBVIOUS
<1>1. DOMAIN << >> = {} /\ Elements(<< >>) = {}
    BY ElementsOfEvents, EmptySeq, LenProperties
<1>2. \A k \in Keys : context[k] = << >> /\ agentQueue[k] = << >>
    BY DEF HubAgentInit
<1>3. LateInv
    BY <1>1, <1>2 DEF LateInv, LateOnly, Increasing
<1>4. ServedInv
    BY DEF HubAgentInit, Init, ServedInv
<1>5. QED
    BY <1>3, <1>4

\* The model sees the messages of a session in the order they arrived, except those that
\* were queued too late for their run, and these it sees in their order.
THEOREM MessagesAreShownInOrder == HubAgentSpec => []ShownInOrderUnlessLate
<1>1. HubAgentInit => HandInv
    BY AgentInitIsInit, InitIInv, InitOrder, InitPlaces, InitMemory, InitAccount
    DEF HandInv, PlaceInv
<1>2. HandInv /\ LateInv /\ ServedInv /\ [HubAgentNext]_allVars => (HandInv /\ LateInv /\ ServedInv)'
    BY NextHand, NextLateInv, NextServedInv
<1>3. LateInv => ShownInOrderUnlessLate
    BY DEF LateInv, LateOnly, ShownInOrderUnlessLate
<1>4. QED
    BY <1>1, <1>2, <1>3, InitLate, PTL DEF HubAgentSpec

=============================================================================

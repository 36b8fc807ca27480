------------------------------ MODULE HubAgent ------------------------------
(***************************************************************************)
(* hub-service and agent-service together: the scheduler of HubSessions    *)
(* calls POST /sessions, /sessions/{id}/queue-message and /chat            *)
(* (outbound_client.py), and agent-service keeps a Session per id in       *)
(* memory (session.py, router.py).  AgentRun has the details of one run;   *)
(* here an agent keeps, per session, the events its model has been shown   *)
(* and those still queued.                                                 *)
(*                                                                         *)
(* Either side may go away alone.  agent-service restarts and has          *)
(* forgotten every session, while the hub still remembers their ids and    *)
(* never creates a session twice: the calls answer 404.  The hub's         *)
(* shutdown closes its HTTP client under a run in flight.  Any call may    *)
(* fail to reach the other side.  Assumed: once it has, the connection     *)
(* only breaks with one of the two services.                               *)
(*                                                                         *)
(* Faulty... operators are wrong variants of the definition below them,    *)
(* used by no action.                                                      *)
(***************************************************************************)
EXTENDS HubSessions

CONSTANT MaxRestarts    \* bound: how often agent-service restarts

ASSUME RestartAssumption == MaxRestarts \in Nat

VARIABLES
    live,           \* the keys of agent-service's SessionRegistry._sessions
    context,        \* per key, the events its model has been shown, in order
    agentQueue,     \* per key, Session._queued_user_messages
    serving,        \* the keys with a /chat in progress in agent-service
    forgotten,      \* events a restart or the turn limit has taken from the agent
    undelivered,    \* events of a /chat that agent-service refused or never got
    restarts,       \* restarts so far
    closed          \* the hub's HTTP client is closed

agentVars == << live, context, agentQueue, serving, forgotten, undelivered, restarts, closed >>
allVars == << vars, agentVars >>

HubAgentInit ==
    /\ Init
    /\ live = {}
    /\ context = [k \in Keys |-> << >>]
    /\ agentQueue = [k \in Keys |-> << >>]
    /\ serving = {}
    /\ forgotten = {}
    /\ undelivered = {}
    /\ restarts = 0
    /\ closed = FALSE

-----------------------------------------------------------------------------
(* The hub's calls *)

\* POST /sessions puts a new Session in the place of whatever the id had.
CreatesSession(l) ==
    /\ CreateSession(l)
    /\ live' = live \cup { EventKey(l) }
    /\ context' = [context EXCEPT ![EventKey(l)] = << >>]
    /\ agentQueue' = [agentQueue EXCEPT ![EventKey(l)] = << >>]
    /\ UNCHANGED << serving, forgotten, undelivered, restarts, closed >>

\* POST /sessions/{id}/queue-message to a Session agent-service has.
QueuesMessage(l) ==
    /\ QueueMessage(l)
    /\ EventKey(l) \in live
    /\ agentQueue' = [agentQueue EXCEPT ![EventKey(l)] = Append(@, loopEvent[l])]
    /\ UNCHANGED << live, context, serving, forgotten, undelivered, restarts, closed >>

\* POST /chat to a Session agent-service has.
Chats(t) ==
    LET k == key[owner[t]] IN
    /\ CallAgent(t)
    /\ k \in live /\ ~closed
    /\ context' = [context EXCEPT ![k] = @ \o batch[t]]
    /\ serving' = serving \cup {k}
    /\ UNCHANGED << live, agentQueue, forgotten, undelivered, restarts, closed >>

\* POST /chat finds no Session (404), the client is closed, or the call does not arrive:
\* the batch is gone, call_session raises (ChatFails).
ChatIsRefused(t) ==
    /\ CallAgent(t)
    /\ undelivered' = undelivered \cup Elements(batch[t])
    /\ UNCHANGED << live, context, agentQueue, serving, forgotten, restarts, closed >>

\* /chat answers with a reply (or the fallback).  What was queued after the last
\* drain stays queued.
ChatReplies(t) ==
    LET k == key[owner[t]] IN
    /\ AgentReplies(t)
    /\ k \in serving /\ ~closed
    /\ serving' = serving \ {k}
    /\ UNCHANGED << live, context, agentQueue, forgotten, undelivered, restarts, closed >>

\* The same when the last turn has drained the queue: these messages are dropped
\* (AgentRun!Fallback, NothingLost).
ChatRepliesAtLimit(t) ==
    LET k == key[owner[t]] IN
    /\ AgentReplies(t)
    /\ k \in serving /\ ~closed /\ agentQueue[k] # << >>
    /\ serving' = serving \ {k}
    /\ forgotten' = forgotten \cup Elements(agentQueue[k])
    /\ agentQueue' = [agentQueue EXCEPT ![k] = << >>]
    /\ UNCHANGED << live, context, undelivered, restarts, closed >>

\* call_session raises: 404, the connection to an agent-service that stopped, or the
\* closed client.  The run ends without a reply.
ChatFails(t) ==
    /\ pc[t] = "chat"
    /\ RunEnds(t)
    /\ key[owner[t]] \notin serving \/ closed
    /\ UNCHANGED agentVars

\* send_reply has returned or raised.
ReplyIsSent(t) ==
    /\ pc[t] = "send"
    /\ RunEnds(t)
    /\ UNCHANGED agentVars

-----------------------------------------------------------------------------
(* agent-service by itself *)

FaultyDrainKeeps(k) ==
    context' = [context EXCEPT ![k] = @ \o agentQueue[k]] /\ UNCHANGED agentQueue

FaultyDrainPops(k) ==     \* pop() takes the newest first
    LET q == agentQueue[k] IN
    /\ context' = [context EXCEPT ![k] = @ \o [i \in DOMAIN q |-> q[Len(q) + 1 - i]]]
    /\ agentQueue' = [agentQueue EXCEPT ![k] = << >>]

\* The queued messages are shown to the model, in their order.
DrainQueue(k) ==
    /\ context' = [context EXCEPT ![k] = @ \o agentQueue[k]]
    /\ agentQueue' = [agentQueue EXCEPT ![k] = << >>]

\* A run drains the queue between two calls of the model.
AgentDrains(k) ==
    /\ k \in serving /\ agentQueue[k] # << >>
    /\ DrainQueue(k)
    /\ UNCHANGED << vars, live, serving, forgotten, undelivered, restarts, closed >>

\* A run whose caller is gone finishes for nobody.
AgentEndsAlone(k) ==
    /\ k \in serving /\ closed
    /\ serving' = serving \ {k}
    /\ UNCHANGED << vars, live, context, agentQueue, forgotten, undelivered, restarts, closed >>

Kept(k) == Elements(context[k]) \cup Elements(agentQueue[k])

\* agent-service stops and starts again: sessions and runs are gone.
AgentRestart ==
    /\ restarts < MaxRestarts
    /\ restarts' = restarts + 1
    /\ live' = {}
    /\ forgotten' = forgotten \cup UNION { Kept(k) : k \in Keys }
    /\ context' = [k \in Keys |-> << >>]
    /\ agentQueue' = [k \in Keys |-> << >>]
    /\ serving' = {}
    /\ UNCHANGED << vars, undelivered, closed >>

\* The end of the hub's shutdown hook: outbound_client.aclose().
CloseClient ==
    /\ shutPc = "runners" /\ toStop = {} /\ ~closed
    /\ closed' = TRUE
    /\ UNCHANGED << vars, live, context, agentQueue, serving, forgotten, undelivered, restarts >>

\* The steps of the scheduler that call nobody, or whose call fails.
Alone(step) == step /\ UNCHANGED agentVars

HubAgentNext ==
    \/ \E l \in Loops :
        \/ Alone(Receive(l) \/ SubmitPending(l) \/ SubmitRunning(l) \/ SubmitNewRunner(l)
                 \/ SubmitUnknown(l) \/ QueueMessageFails(l) \/ CreateSessionFails(l))
        \/ CreatesSession(l) \/ QueuesMessage(l)
    \/ \E t \in Tasks :
        \/ Alone(StartTimer(t) \/ WakeTimer(t) \/ OnRunnerIdle(t))
        \/ Chats(t) \/ ChatIsRefused(t) \/ ChatReplies(t) \/ ChatRepliesAtLimit(t)
        \/ ChatFails(t) \/ ReplyIsSent(t)
    \/ \E k \in Keys : AgentDrains(k) \/ AgentEndsAlone(k)
    \/ AgentRestart \/ CloseClient
    \/ Alone(BeginShutdown \/ ShutdownStep \/ Tick \/ Terminated)

HubAgentSpec == HubAgentInit /\ [][HubAgentNext]_allVars

-----------------------------------------------------------------------------
(* Properties *)

\* A reply is only ever written by a Session whose model has seen every message of the
\* conversation that reached it through /chat.  A Session that agent-service forgot,
\* or that is created again, must not go on as if the conversation had just begun:
\* the hub creates a session once, whatever its runners do, and later calls fail.
MemoryIsContinuous ==
    [][\A t \in Tasks : pc[t] = "chat" /\ pc'[t] = "send" =>
         LET k == key[owner[t]] IN
         Elements(sent[k]) \subseteq Elements(context[k]) \cup undelivered]_allVars

\* The model sees the messages of a session in the order they arrived, except that a
\* message POSTed to /queue-message too late for the run it was meant for is shown
\* after the batch that starts a later run (agent.py, the final drain).
ShownInOrderUnlessLate ==
    \A k \in Keys : \A i, j \in DOMAIN context[k] :
        i < j /\ context[k][i] > context[k][j] =>
            context[k][j] \in asked /\ context[k][i] \in Elements(sent[k])

Where(e) == { w \in {"shown", "queued"} \X Keys :
                e \in Elements(IF w[1] = "shown" THEN context[w[2]] ELSE agentQueue[w[2]]) }

\* What the hub has handed to agent-service is either shown to the model of its own
\* session, or in its queue, or given up: never twice, never in another session.
EveryMessageAccounted ==
    \A e \in asked \cup UNION { Elements(sent[k]) : k \in Keys } :
        /\ Cardinality(Where(e)) + (IF e \in forgotten \cup undelivered THEN 1 ELSE 0) = 1
        /\ \A w \in Where(e) : w[2] = KeyOf[e]

=============================================================================

# AIChan: specifications, checks and proofs

AIChan is a QQ chat bot: four Python services around a language model. This directory holds
TLA+ specifications of the parts where its behaviour depends on the order of events (what
interleaves, fails, times out or restarts) and of the conversions a message goes through from
QQ to the model and back. TLC checks them on small instances; TLAPS proves
for every instance all the safety properties that TLC checks, and that the scheduler implements its
abstract specification. Paths below are relative to the
repository (`src/` in `PROJECT.json`).

```
NapCat (QQ) <== reverse WebSocket ==> hub-service --HTTP--> agent-service --HTTP--> model
                                        |   ^                   |
                                        |   '---- HTTP ---- tool-mcp-server (MCP)
                                        '--HTTP--> file-service <--'   --> MinIO, SQLite
```

## 1. Inventory

| component | state it keeps | operations | talks to |
|---|---|---|---|
| hub: scheduler (`session_registry.py`, `session_runner.py`) | a `SessionRunner` per active session, known agent session ids, a registry lock; per runner pending events, debounce deadline and task, running and stopping flags | `submit_event`, `submit_message`, the debounce task, `_run_once`, `_on_runner_idle`, `shutdown` | called by the gateway's receive loops; calls the outbound client |
| hub: NapCat gateway (`napcat_ws.py`, `connection_state.py`, `napcat_file_resolver.py`) | the current WebSocket, the futures of actions waiting for an answer, whitelist rules | `handle_connection`, `send_action`, `_handle_event`, `_resolve_action`, `resolve_file_url` | NapCat; calls `submit_event` |
| hub: outbound client (`outbound_client.py`) | HTTP client | `create_session`, `queue_session_message`, `call_session`, `send_reply` | agent-service, gateway |
| hub: conversion and media (`message_xml.py`, `media_storage.py`) | none | OneBot segments to XML, `<reply>` to actions, media to file-service | file-service, file resolver |
| hub: HTTP API (`router/router.py`) | none | history pages, files, status | gateway |
| agent: turn loop and sessions (`agent.py`, `session.py`, `router.py`) | a `Session` per id: history, queue of user messages, a lock; a registry with its lock | create and delete a session, queue a message, `/chat` running `Agent.run` | model, MCP gateway, observability |
| agent: MCP gateway, LLM client, observability | MCP tool list; open traces | `call_tool`, `generate`, trace calls | tool-mcp-server, model, Langfuse |
| file-service (`storage.py`, `app.py`) | MinIO objects by SHA-256, SQLite `physical_files` and `file_shadows` | store by URL or bytes, metadata, content, text, periodic cleanup | MinIO, SQLite |
| tool-mcp-server | none | MCP tools: history, files, vision | hub-service, file-service, vision model |
| configuration, logging, containers | none | validation at startup | |

**How they interact.** A receive loop reads an event and awaits `submit_event`, which finds or
creates the runner of the session under the registry lock. The runner collects events for a
debounce window, converts them to XML, POSTs `/chat` and sends the reply over the WebSocket.
Events that arrive during the run are POSTed to `/queue-message`; the agent's turn loop drains
that queue between model calls. Answers to WebSocket actions come back through the receive loop
that also handles the events. Files are stored by content in file-service and expire.

**Where it is hard.** Timers cancelled and replaced while they wake up; idle callbacks that wait
for a lock while new messages arrive; a lock held across HTTP calls; two receive loops at once
while NapCat reconnects; a queue filled by one thread and drained by another at the end of a run;
a bounded turn loop; sessions replaced under a run; two stores (MinIO, SQLite) without a common
transaction, a cleanup beside concurrent stores, restarts between any two steps; answers racing
timeouts. `PROJECT.json` lists these hazards at their lines, each with the properties that cover
it or the reason why none does yet.

**What makes each part correct.**
- Scheduler: one run per session; no message stranded, duplicated or reordered; runs only after a
  quiet window; every event settles; runners are released.
- Scheduler and agent-service: every message is in one place on either side; the model sees a
  session's messages in order; no reply comes from a session that forgot part of its conversation.
- Conversion: the model is told of every segment of every allowed message, and of no one else's;
  a reply is planned as its text says, and shown in order and whole unless something fails.
- Tools and traces: NapCat gets only requests with positive ids and bounded pages; history pages neither skip nor repeat;
  frames spread over the video; trace contexts nest, whatever raises.
- Gateway: the reference is the latest open connection; no future leaks; every action ends.
- Turn loop: histories are sequences of whole runs with tool results in place; no message shown
  twice, none moved to another session or lost; every run ends, as far as its tools return.
- File store: what has not expired is readable and named; the cleanup spares it and forgets the rest.

## 2. Modules

| module | models | notes |
|---|---|---|
| `SessionTurns` | abstract specification of one session: a window, then one batch at a time | no registry, runners, tasks or locks |
| `HubSessions` | the scheduler | implements `SessionTurns` (`ImplementsTurns`) |
| `HubSessions_proofs` | theorems about `HubSessions`: types, one run, no lost wakeup, idle runners | section 5 |
| `HubOrder_proofs` | theorems about `HubSessions`: order of events, quiet windows | extends `HubSessions_proofs` |
| `HubTurns_proofs` | `HubSessions` implements `SessionTurns`; every event is in one place | extends `HubOrder_proofs` |
| `HubAgent` | `HubSessions` and agent-service's side of its three calls, restarts of agent-service, the closing of the hub's HTTP client | extends `HubSessions` |
| `HubAgent_proofs` | theorems about `HubAgent` | extends `HubTurns_proofs` |
| `AgentRun` | `Agent.run`, `Session`, the session endpoints | |
| `AgentRun_proofs` | theorems about `AgentRun` | section 5 |
| `InboundMessages` | event filter, session key, conversion of a window to `<messages>` with media and file resolution | part of `Exchange` |
| `AgentTraces` | trace contexts along a run, flush at shutdown | part of `Exchange` |
| `ToolCalls` | MCP gateway, tools, the HTTP APIs of hub and file-service behind them, frame sampling | part of `Exchange` |
| `OutboundReplies` | convergence of the answer, plan of the reply, `send_reply` | part of `Exchange` |
| `Selections` | `[item for item in items if ...]`: the items of a sequence at a set of places | used by `ToolCalls` and `OutboundReplies` |
| `Exchange` | the four in sequence: a window of messages becomes an answered conversation turn, then agent-service stops | composition |
| `Exchange_proofs` | theorems about `Exchange` and its parts | section 5 |
| `FileStore` | `FileStorage` and the cleanup task | |
| `FileStore_proofs` | theorems about `FileStore` | section 5 |
| `NapcatGateway` | receive loops, `send_action`, connection reference, file resolver | |
| `NapcatGateway_proofs` | theorems about `NapcatGateway` | section 5 |
| `MC*` | small instances for TLC | constants and symmetry only |

Operators named `Faulty...` are plausible wrong variants of the definition below them. No action
uses one; put in that definition's place (the `mutants` of `PROJECT.json`) each makes a property fail.

### HubSessions
`runners`, `agentIds`, `lockQueue` and `regStopping` are `SessionRegistry._runners`,
`_agent_session_ids`, `_lock` and `_stopping`; `key` to `stopping` are the fields of each
`SessionRunner`; `pc`, `owner`, `left`, `batch` are the asyncio tasks that execute
`_debounce_then_run` and `_run_once`; `loopPc` is where a receive loop is inside `submit_event`.
`arrived`, `sent`, `asked`, `lost`, `quiet` and `newest` are history.
asyncio runs the code between two suspending awaits without interruption, so an action is such a
stretch. `SessionRunner._lock` is never held across a suspending await and needs no variable;
`SessionRegistry._lock` is, and is a FIFO queue. Taking it uncontended does not suspend; the model
lets others run in between, which only adds behaviours. Time is a countdown of ticks.
Runner and task identities are pools, reused when nothing refers to them.

Assumed: uvicorn runs the shutdown hook after the connection handlers have returned (that is how it
closes); conversion to XML does not raise (media and resolver errors are caught in
`message_xml.py` and `napcat_file_resolver.py`); for liveness, that a `/chat` call ends. agent-service
bounds its model calls (`llm_timeout`) and its turns (`max_turns`), but a tool call has no timeout of its own
(`mcp_gateway.py:94-98`), nor has the hub's HTTP client (`outbound_client.py:46`).

### AgentRun
`registry` is `SessionRegistry._sessions`; `context` and `queued` are the fields of a `Session`;
`staged`, `pending`, `turn` and `calls` are the locals of `Agent.run` in one thread; `pc` is its
place in the loop. FastAPI runs the handlers in threads; each critical section of a lock is an
action. A history entry keeps the kind of a message and a number (turn index, message number, calls
or results to follow), not its text. The model may answer with any finish reason, with any of them with no or several
tool calls, or fail; the calls are staged with the answer whatever the reason and run for `tool_calls` only. A tool
result is staged whether the tool succeeds or fails. A Session that the registry has dropped is kept as long as a run
works on it and then freed with its history and queue: `Live` are the others, and only they count as places of a message.
The two fixed system messages of a history are left out.

### HubAgent
The variables of `HubSessions`, and per session what agent-service keeps: `live` (the keys of its
`SessionRegistry`), `context` (events the model was shown), `agentQueue`
(`_queued_user_messages`), `serving` (a `/chat` in progress). An action of the hub that calls
agent-service is conjoined with what the call does there (`Chats` is `CallAgent` with
`serving'`); the others are `Alone`. `AgentRestart` empties agent-service without the hub's knowledge: its
`_agent_session_ids` still has the session, so it never creates it again, and `/chat` answers 404
(`ChatIsRefused`) for as long as the hub runs. `CloseClient` is the end of the hub's shutdown hook,
which may come under a run in flight. `forgotten` and `undelivered` are history: where events went that
no side has.

### InboundMessages
`_handle_event`, the whitelist (the last enabled rule of a session wins), `build_session_key` and
`message_xml.py` in the direction of the model. An event keeps its ids after `_to_int`, whether its time is
valid, and its segments; a segment keeps its type, the keys of its data that have a value and the one id that
matters. A message is the list as it arrived; `_message_segments` skips what is no dict, so that `consumed` is
the place of the last segment converted, and a child remembers the place of its own (`of`). One action
converts one segment; NapCat may give no URL and file-service may
take nothing, at any segment. The `at_bot` of the XML and the mention of the filter are two
functions in the code and two operators here.

### AgentTraces
`contexts` is the stack of Langfuse contexts of a thread. `start_run`, `llm_generation`, `tool_span`
and the end of the run enter and leave them, and entering may raise; what a failed `start_run` has entered
is left again by `Abandon`. Without Langfuse the same run has no contexts. `flushPc` is `app.py`'s shutdown
hook with its timeout.

### ToolCalls
A call passes the gateway, the tool's checks, the HTTP API with its own checks, and NapCat or
file-service; `tcPc` is the layer that acts. `asked` is the request NapCat gets. `Log` is the chat as NapCat lists it
(external: before `message_seq`, newest first), with items that have no id or are no dict; `walk` is a model that
reads page after page with the cursor of the last page while messages arrive. A cursor may be any integer: tool and hub
only check that it is positive. One that is not the last page's begins a new walk, behind the message it names or, if it names none
of the chat, anywhere (`Starts`: what NapCat does then is its own affair, and an error is `RequestFails`). A result with
`isError` reaches the model as ordinary text, as in `mcp_gateway.py`. `frames` is the last sampling
of `vision.py`: rounding is `round` of Python, halves to even, on rationals; Python's floats give the
same indices for every video up to 20 000 frames and every count the tool allows.

### OutboundReplies
`_parse_agent_reply` (`Reply`, `WellFormed`), `reply_xml_to_outbound_items` child by child (`place`,
`pending`, `items`) and `send_reply` item by item. A segment keeps where in the document it comes from; `Rendering`
is all that the two plain readings of a reply (`reply_xml_to_onebot_segments`, `reply_xml_to_file_uploads`) say. Media are fetched on the way and may be missing.
An action is performed or not, and answered or not; the status of an answer is never read, so a refused
item does not stop the rest, a timeout does. Text directly in `<reply>` or `<message>`, and children
of `<reply>` beside a `<message>`, are ignored by the code and by the model.

### Exchange
The four parts in sequence, as the services hand over: the window to `/chat`, the run with its
tool calls, the answer (or the fixed fallback) to `send_reply`, then agent-service's shutdown.
`FallbackAnswer` is the fixed reply of a failed run. New messages arrive in the chat at any time during the
run, and Langfuse may answer the flush or not.

### FileStore
`objects` is the MinIO bucket, `updatedAt` and `shadows` are the two SQLite tables. A store is
stat, put, upsert; the cleanup is list, then per row delete and remove. Every MinIO call and every
SQLite transaction runs in a worker thread and is one action. MinIO calls fail; `Restart` stops the
process between any two actions. The `WHERE updated_at < ?` of the listing and of the deletion and the
`updated_at >= ?` of a read are `ExpiredAt` and `Fresh`.

### NapcatGateway
`current` is `NapcatConnectionState._websocket`; `future` is `_pending_actions` with the state of each
future; `awaited` are the calls still inside `send_action`; `inbox`, `broken` and `via` are the wire.
`wait_for` may discard a result set at the instant of the timeout, so `ActionTimesOut` is possible
whenever an action is awaited; `PromptLoop = TRUE` restricts it to timeouts long enough for everything
that is ready to run first. What a file event awaits is inside the receive loop (`caller`); replies
and HTTP requests come from other tasks. Assumed: `accept` of a new connection does not raise; it is awaited outside the
`try` after the reference is set (`napcat_ws.py:47-48`), so that a connection that failed there would stay the reference
until the next one.

## 3. Runs

| run | instance | checks |
|---|---|---|
| `hub_safety` (`HubAgent`) | 2 sessions, 2 loops, 4 events, window of 2 ticks, 1 restart of agent-service, shutdown | `TypeOK`, `AtMostOneRun`, `PendingHasTimer`, `DroppedRunnerIsIdle`, `Conservation`, `SentInOrder`, `ShownInOrderUnlessLate`, `EveryMessageAccounted`, `RunStartsQuiet`, `RunnerDroppedIdle`, `MemoryIsContinuous` |
| `hub_liveness` | as above, 4 events, window of 1 tick, fair | `EveryEventSettles`, `RunnersAreReleased`, `ImplementsTurns` |
| `agent_turns` | 1 session, 2 threads, 3 messages, 2 turns, 2 tool calls | `TypeOK`, `HistoryWellFormed`, `NeverTwice` |
| `agent_sessions` | 2 session objects of one id, 2 threads, 2 messages, fair | `LostAtLimitOrFreed`, `MessagesStayHome`, `EveryChatEnds` |
| `file_store` | 2 digests, 2 stores, 3 ticks, 1 restart, batches of 1, fair | `TypeOK`, `NamedWhileKept`, `CleanupSparesFresh`, `OnlyCleanupDangles`, `ExpiredIsForgotten` |
| `ws_gateway` | 2 connections, 2 events, 2 actions, fair | `TypeOK`, `CurrentIsLatest`, `NoForgottenAction`, `LoopsKeepReading` |
| `exchange` | windows of 2 messages, 15 events, about 550 answers, 13 tool calls, 5 cursors, 2 turns of 2 calls, 16 frames, fair | `TypeOK`, `EverySegmentTold`, `OnlyAllowedSpeak`, `PlanIsRendering`, `ShownInOrder`, `DeliveredUnlessFault`, `NapcatSeesValidRequests`, `PagesTile`, `FramesSpread`, `ContextsNest`, `EveryExchangeEnds` |
| `hub_queue_window` | 3 events | refutes `QueuedForOpenChat` |
| `agent_limit` | as `agent_turns` | refutes `NothingLost` |
| `agent_calls` | as `agent_turns` | refutes `CallsAreAnswered` |
| `file_race` | as `file_store` | refutes `FreshIsReadable` |
| `ws_file_answer` | as `ws_gateway`, prompt loop | refutes `AnswerBeatsTimeout` |

**Why the bounds suffice.** Hub: four events of one session and one of another let a run be in
flight, a batch form beside it, a runner be dropped and recreated, and a second session contend
for the lock; runners and tasks are as many as events, so no pool is ever the reason an action
is disabled. One restart of agent-service can come before, during and after any call, and leaves the
session unknown for the rest of the run; a second one would meet the same states. Agent: two turns are the last and a non-last one; two threads and three
messages give concurrent runs with a queue. Files: three ticks with an expiry of one let a content be
stored, expire and be stored again while its cleanup is under way; a batch of one makes the
cleanup return. Gateway: two connections overlap, and two actions are the two the resolver tries
for a file, or one in a loop beside one of a run. Exchange: the events are one per outcome of the filter and
per kind of segment; the answers are all replies of up to two ungrouped children, one `<message>` of up to
three, and two `<message>`s with a stray child between them, of seven kinds of child, which puts text, media and
files in every order around a file's flush; pages of 1 and 3 (and a refused 51) over six log items meet
every position of an odd item, a made-up cursor is refused, is of a message that was read or is yet to be, or of none; videos of 1 to 16 frames are shorter and longer than the 1 to 12 samples of a call.
Deadlock is checked in the hub runs and in `exchange`; the other models stop
when their bounded inputs are used up, as the services then wait for requests.

**Fairness.** Hub: the event loop runs what is ready; time passes; HTTP calls end. For `/chat` the last is an assumption: model calls
and turns are bounded (`llm_timeout`, `max_turns`), a tool call is not, and the hub's client has `timeout=None`. Nothing
obliges an event to come or the shutdown to happen.
Agent: threads run, and the model answers or fails (its client has a timeout). A tool call need not return: `EveryChatEnds` says
that a run ends or waits for a tool for ever, and nothing else holds it up. No request is obliged to come.
Files: only the cleanup task is fair; it wakes every interval and its calls return or fail; stores are not.
Gateway: loops run and timeouts fire; NapCat need not answer, send or close.
Exchange: whatever step is due is taken. The calls of NapCat, model, file-service and vision model have timeouts in the
code (`napcat_ws.py`, `client.py`, `vision.py`) or go to a local service that answers; that the MCP call around them
returns as well is assumed. Langfuse need not answer (`LangfuseAnswers` is not fair), and no message need arrive.

## 4. Findings

1. `hub_queue_window` (`session_runner.py:53`): a runner counts as running while it sends the reply, and
   the run may end while a new event is converted. The event then goes to `/queue-message` with no
   `/chat` open and waits for the session's next message. `docs/hub-service.md:35, 104` describe the
   queue as read by the run in progress.
2. `agent_limit` (`agent.py:185`): messages drained at the end of the last turn are dropped; the
   exhausted loop commits everything but them (`docs/agent-service.md:160`).
3. `agent_calls` (`agent.py:97`): tool calls that come with another finish reason than `tool_calls` are staged and
   committed, with the fallback or the converged reply behind them instead of results, and the next run sends that history to the
   model (`agent.py:181-182`, `docs/agent-service.md:158`).
4. `file_race` (`storage.py:174`): a store that sees the object of an expired file just before the
   cleanup removes it leaves fresh metadata without an object (`storage.py:180`, `docs/file-service.md:7, 46-48`).
5. `ws_file_answer` (`session_runner.py:61`): a file that arrives during a run is converted inside the
   receive loop, the only reader of the answer it waits for; the action always times out on that
   connection, and all its other events wait meanwhile (`docs/hub-service.md:79, 100`).

Met while modelling, without a run of their own:

- A plain answer with a control character is wrapped into a `<reply>` that the hub cannot parse
  (`agent.py:208-215`; the docstring promises a reply that is always well formed): the answer is in the
  history, QQ shows nothing. `DeliveredUnlessFault` names it as the fault `unparsable`.
- The status of an action's answer is never read (`outbound_client.py:127`): a refused part leaves a gap in
  what QQ shows. `ShownInOrder` allows exactly that gap.
- A restart of agent-service alone leaves every session the hub knows answering 404 until the hub restarts too
  (`session_registry.py:39`). `MemoryIsContinuous` shows the good side of it: no session goes on half-remembered.
- With finish reason `length` or `content_filter` the raw answer itself is committed before the fallback (`agent.py:97, 126`), although
  `agent.py:115-116` says that only a converged `<reply>` may be kept; `HistoryWellFormed` allows it exactly there.
- A tool call that never returns holds up its thread, its run and the hub's runner (`mcp_gateway.py:98`).
- That a history cursor is a message of the chat is checked by no layer (`mcp_main.py:44`, hub `router.py:53`); the model may
  be given any page for it.
- An MCP result with `isError` is handed to the model as an ordinary result (`mcp_gateway.py`).
- `_run_once` converts its events before its `try` (`session_runner.py:132`): a conversion that raised
  would leave the runner running for ever. The conversions catch what their clients raise, so the models
  have no such step.

## 5. Proofs

Each theorem is `Spec => []Inv` or `Spec => [][A]_vars` for all values of the constants that satisfy the
named assumptions of the module. Everywhere the way is the same: the property is not inductive, so an
invariant that implies it is stated in named conjuncts, and the proof has one lemma per action, with a
step per conjunct the action can disturb.

### The scheduler

Assumed: the bounds are natural, the identities of loops, runners and tasks are disjoint, `KeyOf` is typed.

| theorem | states |
|---|---|
| `HubSessions_proofs!Invariance` | `Spec => []IInv` |
| `HubSessions_proofs!TypeCorrect`, `OneRunPerSession`, `NoLostWakeup`, `NoStrandedRunner` | `TypeOK`, `AtMostOneRun`, `PendingHasTimer`, `DroppedRunnerIsIdle` |
| `HubSessions_proofs!OnlyIdleRunnersAreDropped` | `RunnerDroppedIdle` |
| `HubOrder_proofs!OrderInvariance` | `Spec => [](IInv /\ OrderInv)` |
| `HubOrder_proofs!EventsReachAgentInOrder`, `RunsWaitForQuiet` | `SentInOrder`, `RunStartsQuiet` |
| `HubTurns_proofs!SchedulerKeepsTurns` | `ImplementsTurns`: the scheduler implements `SessionTurns` for every session |
| `HubTurns_proofs!NoEventLostOrDoubled` | `Conservation` |

`AtMostOneRun` holds because at most one runner object of a session has work (`BusyInv`); that needs
that a new runner is created only when none is registered and that a runner is let go of only when idle,
so `IInv` also says which runner the registry has (`RegistryInv`) and that an unregistered runner is idle
(`DroppedRunnerIsIdle`). Idleness must survive the wait for the lock, so `IInv` ties tasks to
runners (`OwnerInv`, `TimerInv`, `RunInv`): a task in the window is its runner's timer, a run marks its
runner, and while a run lasts its runner has no timer and nothing pending. `LockInv` says that the loop which
awaits `create_session` holds the lock and that nobody registered a runner meanwhile; `StopInv`
orders the shutdown.

Order rests on the lock: receive loops take it in the order of their events (`QueueInv`: the queue of
the lock is FIFO and holds every loop that submits), so whatever is still to be submitted is newer than all that
was (`FrontierInv`). With that, windows and batches grow at their end only (`SequenceInv`), and
what a session has sent is older than what it has in a window or a batch (`AgentInv`, where one run at most is
needed). `QuietInv` says what is left of the window of each runner.

The refinement maps the window of a session to the pending events of its one runner that has any, and its
batch to the one run. Each action of `HubSessions` is shown to be a step of `SessionTurns` for the
session it is about and a stutter for every other. It needs, besides the two invariants, that a stopped
runner has no timer left that could take its events (`StoppedInv`).

`Conservation` counts with `Cardinality`; the proof says the same with membership (`OnePlace`: no event is held by two
holders; an idle loop holds none) and turns it into the count at the end. Every action moves events from one
holder to another (`Moves`).

### The scheduler with agent-service

Assumed: the above, and that the bound on restarts is natural.

| theorem of `HubAgent_proofs` | states |
|---|---|
| `ImplementsScheduler` | `HubAgentSpec => Spec` |
| `SchedulerIsSafe`, `SchedulerKeepsEvents` | `TypeOK`, `AtMostOneRun`, `PendingHasTimer`, `DroppedRunnerIsIdle`; `SentInOrder`, `Conservation` |
| `RunnersAreDroppedIdle`, `ComposedRunsWait`, `CompositionKeepsTurns` | `RunnerDroppedIdle`, `RunStartsQuiet`, `ImplementsTurns` |
| `RepliesRemember` | `MemoryIsContinuous` |
| `MessagesAreAccounted` | `EveryMessageAccounted` |
| `MessagesAreShownInOrder` | `ShownInOrderUnlessLate` |

Each action of the composition is one of `HubSessions` or leaves its variables alone, so what was proved of
the scheduler carries over. `RepliesRemember` needs two more invariants. `KnownInv`: the hub knows the agent session of
every runner and task it has, nothing was sent for a session it does not know, and the loop that creates one
creates an unknown one (it holds the lock since it looked). So an empty Session only ever takes the place
of nothing. `SeenInv`: a Session that is there was shown all that was sent and delivered, and only such a
Session serves a `/chat`. A restart empties the Session but removes it as well; the code that would break the
invariant is one that creates the session again.

`AccountInv` says where each message that was handed over is: shown to the model of its session, in its queue, or given
up; it needs that no event is handed over twice, which is the scheduler's part. For the order, `AskedInv`
relates what was POSTed to `/queue-message` to what is still pending at the hub, `LateInv` says that what is out of
order in a context is a queued message behind the batch of a later run and that the queue is newer than what was
drained from it, and `ServedInv` that, until the client is closed, agent-service drains only while the hub's run waits for its answer: no
drain comes between a batch and its arrival.

### The turn loop

`AgentRun_proofs` assumes that there is at least one turn, that the other bounds are natural and that `None` is no Session.

| theorem | states |
|---|---|
| `RunsAreTyped`, `TypeCorrect` | `TypeOK` with what a thread's place says of its Session and its locals |
| `RunsStageInOrder` | `StagedRun`: what is staged ends as its place in the loop requires (`EndsAs`) |
| `MessagesHaveOnePlace`, `MessagesAreNeverDoubled` | `PlaceInv`, `NeverTwice` |
| `MessagesAreLostAtLimitOrFreed` | `LostAtLimitOrFreed` |
| `MessagesKeepTheirSession` | `MessagesStayHome` |
| `HistoriesKeepShape`, `HistoriesAreWholeRuns` | `HistoryInv`, `HistoryWellFormed` |

The invariants are a chain. `PlaceInv`: a message is in one of the sequences at most, and once in it (`OnePlace`,
`OnceInv`), because each action only hands messages from one holder to another, and always one of the same Session
(`HomesKept`). That a thread holds pending messages at the head of the loop only is what makes `LostAtLimitOrFreed` true: no other
place is left out of a commit, and a place that is none any more is in a Session that has just been freed, since nothing reaches a
freed one (`FreedIsUntouched`). `HistoryInv` adds that every context is
a sequence of whole runs and that what a thread has staged is the beginning of one (`Sound`, `EndsAs`, and the marker
of the present turn). A commit appends the second to the first; the lemmas on concatenation show that this gives a
sequence of whole runs again, whatever other threads have committed since the run began. An answer for another reason than
`tool_calls` may carry calls; `EndsAs` says where such an answer may be the end of what is staged, so that it is the last of its run or
the last before the fallback (`Follows`). Messages are drained in
the order they were accepted (`Ordered`), so that they stay in order within a run.

### One exchange

`Exchange_proofs` assumes that the rules, the messages that arrive and the log are sequences, that an id in the log
belongs to one message, that the calls are records with a known or unknown tool, to which any integer is added as cursor, that the
answers are of one of the five forms and the children of a `<reply>`, and theirs, come in lists
(`ElementTree` has no other), and that the bounds are positive.

| theorem | states |
|---|---|
| `ExchangeIsTyped` | `TypeOK` |
| `HeardAreAllowed` | `OnlyAllowedSpeak` |
| `TracesNest` | `ContextsNest` |
| `RequestsAreValid` | `NapcatSeesValidRequests` |
| `FramesAreSpread` | `FramesSpread` |
| `RepliesAreShownInOrder` | `ShownInOrder` |
| `PagesAreTiled` | `PagesTile` |
| `SegmentsAreTold` | `EverySegmentTold` |
| `PlansRender` | `PlanIsRendering` |
| `RepliesAreDelivered` | `DeliveredUnlessFault` |

`InInv` says of every event of a window that it has passed the filter and is of the session of the first, and that
messages and events correspond; that an item which is no dict never counts as a mention joins the two
implementations of `at_bot`. `TraceInv` gives the stack of contexts at every place of the run, those of `start_run` and of
its failure included. `ToolInv` says that what a layer has checked holds behind it: the request is valid because the tool checked the user and the hub the rest. `OutInv` says that all
items before `next` have been shown or refused as long as the reply is being sent; the type of the chat comes from
`InInv`, the one place where a part's invariant needs another part's.

`FrameInv` only says that the indices are those of the sampling; the argument is about `Rounded`. With `T` frames after
the first and `d` steps between samples, `T = d * g + r`, and a step adds `g` to the quotient and `r` to the remainder, so
that the nearest number grows by `g` or `g + 1` (`RoundedSteps`). Rounding halves to the even number could only
break this where two neighbours are both halves, but then `r = 0` and all samples are whole
(`NearestSteps`). What grows by `g >= 1` or `g + 1` is strictly increasing, so that the set has `d + 1` members
and the gaps are those steps (`StepsSpread`). This holds for every length and every number of samples,
where the run covers 16 frames.

Four properties are about lists that are filtered: ids of a page, segments of a message, `<message>` nodes, parts of a
text. `SelectSeq` is out of the provers' reach, so `Selections` writes a comprehension with the set of places that pass
and their ranks. `RankBounds` and `NthCounts` show, by the least counterexample, that the ranks of a set of `k` numbers
are `1..k`; from that `SelectionHolds` (the selection keeps the items and their order), `SelectionIsUnique` (it is the
only sequence that does) and `SelectionsJoin` (the selection of two stretches is that of the whole).

- `WalkInv`: what a walk has read is the ids of one stretch of the log that has arrived, from where its first page began down
  to the cursor. The cursor is the last id of a page, and that id is in one place of the log only, so the next page
  begins right behind it; what lies between the cursor and the end of the page has no id (`PageEnds`), and two
  stretches side by side join (`SelectionsJoin`). New messages are in front of all of it.
- `ToldInv`: the children of a message come from ascending places, and the places up to `consumed` that say something are all
  among them. A segment gives one child at its place or none, and none only when it says nothing
  (`RenderingStands`); the converter takes the least place that is left, so the next child is behind the others.
- `PlanInv`: the items and what is pending behind them say what the children before `place` say, each once, ascending in the
  document (`Planned`, `Reached`), and an item is of one `<message>` and goes to its target (`Owned`). A child says its
  parts in their order and behind all that has been said (`SayingsAscend`, `DoneGrows`). The one step that could break it is a file: it is an
  item at once while the text before it may be pending, so that the flush must come first (`FlushPlans`).
  At the end of a message nothing is pending, and behind the last message all has been said.
- `SentAll`: while nothing is refused and nothing fails, the i-th item shown is the i-th of the plan, and the reply is
  over when there is no further one. With `PlanInv` that is `DeliveredUnlessFault`; that text which is not a
  `<reply>` says something (`WordsAreSaid`) gives the part about answers of a foreign form.

### File store and gateway

`FileStore_proofs` assumes that the set of contents is finite (digests have 256 bits), that the
expiry and the batch size are positive, and that `None` is neither content nor name. It proves
`TypeOK`, `NamedWhileKept`, `CleanupSparesFresh` and `OnlyCleanupDangles`. The invariant adds that a
running cleanup has a next row and a cutoff that has passed (`CleanupInv`; time only moves the
cutoff of a read further, so what was expired for the cleanup is expired for a reader), that rows and
shadows come and go together (`ShadowInv`), and that a store in progress has a content (`StoreInv`).

`NapcatGateway_proofs` assumes that `None` is not a connection and the bounds are natural, and proves
`TypeOK`, `CurrentIsLatest` and `NoForgottenAction`, which together are inductive.

### Only model-checked

- Liveness (`EveryEventSettles`, `RunnersAreReleased`, `EveryChatEnds`, `LoopsKeepReading`,
  `ExpiredIsForgotten`, `EveryExchangeEnds`): the prover does not handle `ENABLED`.

No other property is left to TLC alone. The runs that refute a statement show one behaviour each, for which a small
instance is enough.

## 6. Not modelled

Wording: texts, attribute values, prompts, log lines, MIME types and the choice of file names (`storage.py`).
The rewriting of JSON schemas for the model (`mcp_gateway.py`). Reading a video whose frame count OpenCV does not
know. Parsing of JSON, validation of settings and HTTP schemas, health checks, containers. What Langfuse
records. A restart of the hub alone, which makes agent-service replace its Session (`AgentRun` has the
replacement of a Session under a run). NapCat's own behaviour beyond how the code reads its answers.
`PROJECT.json` gives the reason for each component.

## 7. Status

All modules of section 2 and the proofs of section 5 are done: every invariant and action property of a passing run
is a theorem. What would be next is outside the models: the restart of the hub alone beside a surviving
agent-service, and the storage left behind by a failed removal (`storage.py:259`, an object without a row, which
costs space and which no later cleanup lists).

------------------------------ MODULE Exchange ------------------------------
(***************************************************************************)
(* One exchange from end to end: a window of QQ messages is filtered and   *)
(* converted (InboundMessages), the agent runs with its traces             *)
(* (AgentTraces) and its tool calls (ToolCalls), the answer is planned and *)
(* sent (OutboundReplies), and agent-service shuts down.  A part starts    *)
(* with what the one before it hands over and forgets the rest, as the     *)
(* services do.                                                            *)
(***************************************************************************)
EXTENDS InboundMessages, AgentTraces, ToolCalls, OutboundReplies

allVars == << inVars, traceVars, toolVars, outVars >>

Init == InInit /\ TraceInit /\ ToolInit /\ OutInit

\* The events arrive and are converted.
HubListens ==
    /\ InNext
    /\ UNCHANGED << traceVars, toolVars, outVars >>

\* /chat: Agent.run starts, with or without Langfuse.
AgentRuns ==
    /\ inPc = "told"
    /\ \E enabled \in BOOLEAN : StartRun(enabled)
    /\ chatType' = SessionKey(window[1])[1]
    /\ inPc' = "off" /\ window' = << >> /\ messages' = << >> /\ consumed' = 0
    /\ UNCHANGED toolVars
    /\ UNCHANGED << outPc, answer, place, pending, items, next, shown, refused, faults >>

AgentWorks ==
    /\ TraceStep
    /\ UNCHANGED << inVars, toolVars, outVars >>

CallsTool ==
    /\ trPc = "call"
    /\ \E c \in ModelCalls : CallTool(c)
    /\ UNCHANGED << inVars, traceVars, outVars >>

ToolWorks ==
    /\ ToolStep
    /\ UNCHANGED << inVars, traceVars, outVars >>

NewMessage ==
    /\ MessageArrives
    /\ UNCHANGED << inVars, traceVars, outVars >>

\* The result of the call joins the messages of the run.
ToolReturns ==
    /\ tcPc = "done"
    /\ ToolReturned
    /\ tcPc' = "idle" /\ call' = NoCall /\ result' = "ok" /\ asked' = NoRequest
    /\ frames' = NoFrames
    /\ UNCHANGED << newest, walk, inVars, outVars >>

FallbackAnswer == [form |-> "reply", root |-> << Node("text", << "words" >>) >>]

\* Agent.run returns: its trace and what its calls have read are gone.
RunReturns ==
    /\ trPc = "over" /\ trace # "none"
    /\ trace' = "none" /\ turn' = 0
    /\ newest' = Unseen + 1 /\ walk' = NoWalk
    /\ UNCHANGED << trPc, contexts, calls, outcome, flushPc >>
    /\ UNCHANGED << tcPc, call, result, asked, frames, inVars, outVars >>

\* /chat answers with the model's reply, or with the fixed one if the run failed.
AgentAnswers ==
    /\ trPc = "over" /\ trace = "none"
    /\ \E a \in IF outcome = "ok" THEN Answers ELSE {FallbackAnswer} : BeginReply(a)
    /\ trPc' = "off" /\ outcome' = "open"
    /\ UNCHANGED << trace, contexts, turn, calls, flushPc, inVars, toolVars >>

HubReplies ==
    /\ OutStep
    /\ UNCHANGED << inVars, traceVars, toolVars >>

\* agent-service is stopped.
Shutdown ==
    /\ outPc = "over"
    /\ BeginFlush \/ FlushTimesOut
    /\ UNCHANGED << inVars, toolVars, outVars >>

LangfuseAnswers ==
    /\ ClientFlushes
    /\ UNCHANGED << inVars, toolVars, outVars >>

Stopped == flushPc = "done" /\ UNCHANGED allVars

Progress ==
    \/ HubListens \/ AgentRuns \/ AgentWorks \/ CallsTool \/ ToolWorks \/ ToolReturns
    \/ RunReturns \/ AgentAnswers \/ HubReplies \/ Shutdown

Next == Progress \/ NewMessage \/ LangfuseAnswers \/ Stopped

\* Every call of NapCat, the model and file-service ends or times out, and a tool call
\* returns: an assumption, since what the tools call has timeouts (client.py, vision.py)
\* but the MCP call itself has none.  Nothing obliges Langfuse to answer.
Spec == Init /\ [][Next]_allVars /\ WF_allVars(Progress)

-----------------------------------------------------------------------------
(* Properties *)

TypeOK == InTypeOK /\ TraceTypeOK /\ ToolTypeOK /\ OutTypeOK

\* Every exchange comes to its end, with a reply or with a fault, and the service can
\* stop after it: no layer waits for another for ever, and a Langfuse that does
\* not answer holds up neither the run nor the shutdown.
EveryExchangeEnds == inPc = "told" ~> flushPc = "done"

=============================================================================

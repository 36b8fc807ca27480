---------------------------- MODULE AgentTraces ----------------------------
(***************************************************************************)
(* The traces of agent-service (observability.py) along one run of the     *)
(* agent (agent.py): Langfuse keeps the contexts of a thread on a stack,   *)
(* and each context the code enters must be left, inner before outer,      *)
(* whatever fails on the way; or tracing is off (NoopObservability).       *)
(* AgentRun has the messages of a run; here a run is its calls of the      *)
(* model and of tools, and how it ends.  At the shutdown of the service    *)
(* what is left is flushed in a thread of its own (app.py).                *)
(*                                                                         *)
(* Faulty... operators are wrong variants of the definition below them,    *)
(* used by no action.                                                      *)
(***************************************************************************)
EXTENDS Integers, Sequences

CONSTANTS
    MaxTurns,       \* max_turns
    MaxCalls        \* bound: tool calls in one answer of the model

ASSUME TurnAssumption == MaxTurns \in Nat \ {0} /\ MaxCalls \in Nat \ {0}

VARIABLES
    trPc,           \* where the run is
    trace,          \* "none", "plain" (RunTrace) or "langfuse" (LangfuseRunTrace)
    contexts,       \* the stack of contexts of the thread
    turn,           \* turns begun
    calls,          \* tool calls of this turn not yet made
    outcome,        \* "open", "ok" or "failed"
    flushPc         \* the shutdown hook: "off", "waiting", "done"

traceVars == << trPc, trace, contexts, turn, calls, outcome, flushPc >>

TraceInit ==
    /\ trPc = "off"
    /\ trace = "none"
    /\ contexts = << >>
    /\ turn = 0
    /\ calls = 0
    /\ outcome = "open"
    /\ flushPc = "off"

Enter(context) == contexts' = Append(contexts, context)
Leave == contexts' = SubSeq(contexts, 1, Len(contexts) - 1)

RunGoes(to) == trPc' = to /\ UNCHANGED << turn, calls, outcome, flushPc >>
RunEndsIn(o) == trPc' = "finish" /\ outcome' = o /\ calls' = 0 /\ UNCHANGED << turn, flushPc >>

-----------------------------------------------------------------------------
(* start_run *)

\* create_observability has chosen between Noop and Langfuse.
StartRun(enabled) ==
    /\ trPc = "off"
    /\ IF enabled THEN RunGoes("session") /\ UNCHANGED trace
       ELSE RunGoes("model") /\ trace' = "plain"
    /\ UNCHANGED contexts

\* propagate_attributes is entered, or anything up to there raises.
EnterSession ==
    /\ trPc = "session"
    /\ \/ Enter("session") /\ RunGoes("root")
       \/ RunGoes("abandon") /\ UNCHANGED contexts
    /\ UNCHANGED trace

\* The observation of the run is created and entered, or something raises.
EnterRoot ==
    /\ trPc = "root"
    /\ \/ Enter("run") /\ RunGoes("model") /\ trace' = "langfuse"
       \/ RunGoes("abandon") /\ UNCHANGED << contexts, trace >>

FaultyAbandon ==     \* the exception is only logged
    /\ trPc = "abandon"
    /\ RunGoes("model")
    /\ trace' = "plain"
    /\ UNCHANGED contexts

\* start_run failed: what has been entered is left again; the run goes on untraced.
Abandon ==
    /\ trPc = "abandon"
    /\ RunGoes("model")
    /\ IF contexts = << >> THEN UNCHANGED contexts ELSE Leave
    /\ trace' = "plain"

-----------------------------------------------------------------------------
(* The run *)

FaultyTurnLeft == turn <= MaxTurns

\* range(max_turns)
TurnLeft == turn < MaxTurns

\* The model answers with n tool calls (0: a final answer).
ModelAnswers(n) ==
    /\ trPc = "model" /\ TurnLeft
    /\ turn' = turn + 1
    /\ calls' = n
    /\ trPc' = "generation"
    /\ UNCHANGED << trace, contexts, outcome, flushPc >>

\* The model fails, or no turn is left.
RunFails ==
    /\ trPc = "model"
    /\ RunEndsIn("failed")
    /\ UNCHANGED << trace, contexts >>

\* llm_generation and tool_span: a child of the run's observation is entered for an
\* instant.  On a plain trace nothing happens; a failure is logged.
OpenChild ==
    /\ trPc \in {"generation", "span"} /\ trace = "langfuse"
    /\ Enter(trPc)
    /\ RunGoes(IF trPc = "span" THEN "inSpan" ELSE "inGeneration")
    /\ UNCHANGED trace

SkipsChild ==
    /\ trPc \in {"generation", "span"}
    /\ RunGoes(IF trPc = "span" THEN "traced" ELSE "answered")
    /\ UNCHANGED << trace, contexts >>

ChildEnds ==
    /\ trPc \in {"inGeneration", "inSpan"}
    /\ Leave
    /\ RunGoes(IF trPc = "inSpan" THEN "traced" ELSE "answered")
    /\ UNCHANGED trace

\* Without tool calls the answer ends the run, as a reply or with another finish reason,
\* unless messages were queued meanwhile.
Answered ==
    /\ trPc = "answered"
    /\ \/ calls > 0 /\ RunGoes("call")
       \/ calls = 0 /\ \E o \in {"ok", "failed"} : RunEndsIn(o)
       \/ calls = 0 /\ RunGoes("model")
    /\ UNCHANGED << trace, contexts >>

\* A tool call has returned or raised; either way it gets a span.
ToolReturned ==
    /\ trPc = "call"
    /\ trPc' = "span"
    /\ calls' = calls - 1
    /\ UNCHANGED << trace, contexts, turn, outcome, flushPc >>

Traced ==
    /\ trPc = "traced"
    /\ RunGoes(IF calls > 0 THEN "call" ELSE "model")
    /\ UNCHANGED << trace, contexts >>

\* finish_run_success after the commit, finish_run_error before it: the observation is
\* updated (or that raises), then both contexts are left.
Finish ==
    /\ trPc = "finish"
    /\ RunGoes(IF trace = "langfuse" THEN "exitRun" ELSE "over")
    /\ UNCHANGED << trace, contexts >>

\* _exit_contexts; an exception of one does not keep the other from being left.
ExitContext ==
    /\ trPc \in {"exitRun", "exitSession"}
    /\ Leave
    /\ RunGoes(IF trPc = "exitRun" THEN "exitSession" ELSE "over")
    /\ UNCHANGED trace

-----------------------------------------------------------------------------
(* The shutdown hook *)

RunVars == << trPc, trace, contexts, turn, calls, outcome >>

BeginFlush == flushPc = "off" /\ flushPc' = "waiting" /\ UNCHANGED RunVars

\* External: Langfuse takes what is left, or refuses it.
ClientFlushes == flushPc = "waiting" /\ flushPc' = "done" /\ UNCHANGED RunVars

FaultyFlushTimesOut == FALSE /\ UNCHANGED traceVars

\* done.wait gives up; the thread is a daemon and keeps nobody.
FlushTimesOut == flushPc = "waiting" /\ flushPc' = "done" /\ UNCHANGED RunVars

TraceStep ==
    \/ EnterSession \/ EnterRoot \/ Abandon
    \/ \E n \in 0..MaxCalls : ModelAnswers(n)
    \/ RunFails \/ OpenChild \/ SkipsChild \/ ChildEnds \/ Answered \/ Traced
    \/ Finish \/ ExitContext

-----------------------------------------------------------------------------
(* Properties *)

TraceTypeOK ==
    /\ trPc \in {"off", "session", "root", "abandon", "model", "generation", "inGeneration", "answered",
                 "call", "span", "inSpan", "traced", "finish", "exitRun", "exitSession", "over"}
    /\ trace \in {"none", "plain", "langfuse"}
    /\ contexts \in Seq({"session", "run", "generation", "span"})
    /\ turn \in 0..MaxTurns /\ calls \in 0..MaxCalls
    /\ outcome \in {"open", "ok", "failed"}
    /\ flushPc \in {"off", "waiting", "done"}

\* The contexts nest, whatever raises where: while the model or a tool is called exactly
\* the contexts of the trace are open, a tool call is never recorded inside a
\* generation, and when the run is over none is left open for the next run of the
\* thread, which would be recorded as part of this one.
ContextsNest ==
    LET open == IF trace = "langfuse" THEN << "session", "run" >> ELSE << >>
    IN  /\ trPc \in {"model", "generation", "answered", "call", "span", "traced", "finish"} =>
             contexts = open
        /\ trPc = "inGeneration" => contexts = Append(open, "generation")
        /\ trPc = "inSpan" => contexts = Append(open, "span")
        /\ trPc \in {"off", "over"} => contexts = << >>

=============================================================================

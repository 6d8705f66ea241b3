----------------------------- MODULE Investigator -----------------------------
(***************************************************************************)
(* One agent run (agent/investigator.ts, agent/tools.ts,                   *)
(* agent/persistence.ts): runInvestigation races Mastra's agentic loop     *)
(* against a deadline, the loop calls the typed tools, each call records a *)
(* step in investigation_steps, and the model's answer is checked against  *)
(* the recorded trail.                                                     *)
(*                                                                         *)
(* The loop is external: it may call any tool with any references, answer  *)
(* anything or fail at any time, and it may not heed the abort signal.     *)
(* Its calls come one at a time (toolCallConcurrency: 1).                  *)
(***************************************************************************)
EXTENDS Naturals, FiniteSets

CONSTANTS Tools,            \* InvestigationToolName
          RequiredTools,    \* REQUIRED_CONCLUSIVE_TOOLS
          Cells,            \* cells the model may name
          MaxToolCalls,     \* config.maxToolCalls
          MaxCalls          \* bound: calls the loop makes

ASSUME InvestigatorAssumption ==
  /\ RequiredTools \subseteq Tools
  /\ MaxToolCalls \in Nat \ {0} /\ MaxCalls \in Nat
  /\ MaxToolCalls < MaxCalls

StepNos == 1 .. MaxCalls

VARIABLES pc,        \* where runInvestigation stands
          loop,      \* agent.generate is still at work
          counter,   \* state.counter.value
          call,      \* the tool call in flight
          steps,     \* the run's rows in investigation_steps
          answer,    \* the model's diagnosis
          failure,   \* what was thrown
          result     \* the AgentRunResult

vars == <<pc, loop, counter, call, steps, answer, failure, result>>

\* Operators named Fault... are the definition that follows with
\* a plausible bug in it; they take no part in the specification.

------------------------------------------------------------------------------
(* What is thrown, told apart as far as classifyFailure does.  mute: an error *)
(* with an empty message.  outside: what a database or a model call throws.   *)

Outside == {"other", "timeout", "zod", "mute"}
Errors  == Outside \cup {"budget", "required", "support", "none"}

\* The deadline's own error is not known.
FaultClassify(error) ==
  CASE error = "budget"             -> "STEP_BUDGET_EXHAUSTED"
    [] error = "required"           -> "MISSING_REQUIRED_EVIDENCE"
    [] error \in {"support", "zod"} -> "INVALID_OUTPUT"
    [] OTHER                        -> "MODEL_ERROR"

\* classifyFailure.
Classify(error) ==
  CASE error = "budget"             -> "STEP_BUDGET_EXHAUSTED"
    [] error = "timeout"            -> "TIMEOUT"
    [] error = "required"           -> "MISSING_REQUIRED_EVIDENCE"
    [] error \in {"support", "zod"} -> "INVALID_OUTPUT"
    [] OTHER                        -> "MODEL_ERROR"

NoStep == [status |-> "none"]
Step   == [tool : Tools, status : {"completed", "failed"}, refs : SUBSET StepNos]

NoCall == [at |-> "none"]
Call   == [at : {"checking", "executing", "recording", "recordingFailure"},
           stepNo : StepNos, tool : Tools, refs : SUBSET StepNos, error : Errors]

NoAnswer == [status |-> "none"]
Answer   == [status : {"CONCLUSIVE", "INCONCLUSIVE"}, cell : Cells, supports : SUBSET StepNos]

NoResult == [outcome |-> "none"]

Completed(trail)      == {n \in StepNos : trail[n].status = "completed"}
CompletedTools(trail) == {trail[n].tool : n \in Completed(trail)}

Ended == pc \in {"completed", "failed", "rejected"}

------------------------------------------------------------------------------
(* The tool executor. *)

\* generate rejects; nobody listens once the deadline has rejected before it.
Rejects(error) ==
  /\ loop' = FALSE
  /\ IF pc = "generating" THEN pc' = "failing" /\ failure' = error
                          ELSE UNCHANGED <<pc, failure>>

\* A tool throws: the loop shows the error to the model and goes on, or gives up.
Throws(error) ==
  /\ call' = NoCall
  /\ \/ loop /\ Rejects(error)
     \/ UNCHANGED <<loop, pc, failure>>

\* The counter is raised first; a call over the budget leaves no row.
StartCall(tool, refs) ==
  /\ loop /\ call = NoCall /\ counter < MaxCalls
  /\ counter' = counter + 1
  /\ \/ /\ counter' <= MaxToolCalls
        /\ call' = [at |-> "checking", stepNo |-> counter', tool |-> tool, refs |-> refs,
                    error |-> "none"]
        /\ UNCHANGED <<pc, loop, failure>>
     \/ counter' > MaxToolCalls /\ Throws("budget")
  /\ UNCHANGED <<steps, answer, result>>

\* validateDecisionReferences, on the trail it reads.
ReferencesHold == \A n \in call.refs : n < call.stepNo /\ n \in Completed(steps)

\* A refused call leaves no row either.
CheckReferences ==
  /\ call.at = "checking"
  /\ \/ /\ ReferencesHold
        /\ call' = [call EXCEPT !.at = "executing"]
        /\ UNCHANGED <<pc, loop, failure>>
     \/ ~ReferencesHold /\ Throws("other")
     \/ \E error \in Outside : Throws(error)
  /\ UNCHANGED <<counter, steps, answer, result>>

\* The data source answers or throws.
Execute ==
  /\ call.at = "executing"
  /\ \/ call' = [call EXCEPT !.at = "recording"]
     \/ \E error \in Outside :
          call' = [call EXCEPT !.at = "recordingFailure", !.error = error]
  /\ UNCHANGED <<pc, loop, counter, steps, answer, failure, result>>

\* recordStep: an upsert on the tool call's id.
Recorded(status) ==
  [steps EXCEPT ![call.stepNo] = [tool |-> call.tool, status |-> status, refs |-> call.refs]]

\* recordCompletedStep; if it throws, with or without the row written, the catch
\* records the step again, as failed.
RecordCompleted ==
  /\ call.at = "recording"
  /\ \/ steps' = Recorded("completed") /\ call' = NoCall
     \/ /\ steps' \in {steps, Recorded("completed")}
        /\ \E error \in Outside :
             call' = [call EXCEPT !.at = "recordingFailure", !.error = error]
  /\ UNCHANGED <<pc, loop, counter, answer, failure, result>>

\* recordFailedStep, and the tool throws: what it caught, or what this threw.
RecordFailed ==
  /\ call.at = "recordingFailure"
  /\ \/ steps' = Recorded("failed") /\ Throws(call.error)
     \/ /\ steps' \in {steps, Recorded("failed")}
        /\ \E error \in Outside : Throws(error)
  /\ UNCHANGED <<counter, answer, result>>

------------------------------------------------------------------------------
(* The agentic loop. *)

\* generate resolves with an object narrowAgentDiagnosis accepts.
ModelAnswers(diagnosis) ==
  /\ loop /\ pc = "generating" /\ call = NoCall
  /\ loop' = FALSE
  /\ answer' = diagnosis
  /\ pc' = "validating"
  /\ UNCHANGED <<counter, call, steps, failure, result>>

\* The provider fails, or there is no object of the right shape: malformed, or
\* the loop ran out of maxSteps.
ModelFails(error) ==
  /\ loop /\ pc = "generating" /\ call = NoCall
  /\ Rejects(error)
  /\ UNCHANGED <<counter, call, steps, answer, result>>

\* After the abort the loop ends sooner or later, a call still in flight or not.
LoopEnds ==
  /\ loop /\ pc # "generating"
  /\ loop' = FALSE
  /\ UNCHANGED <<pc, counter, call, steps, answer, failure, result>>

------------------------------------------------------------------------------
(* runInvestigation. *)

\* The deadline is looked at between two tool calls.
FaultDeadline ==
  /\ pc = "generating" /\ call = NoCall
  /\ pc' = "failing" /\ failure' = "timeout"
  /\ UNCHANGED <<loop, counter, call, steps, answer, result>>

\* withDeadline's timer; it is cleared once generate has settled.
Deadline ==
  /\ pc = "generating"
  /\ pc' = "failing" /\ failure' = "timeout"
  /\ UNCHANGED <<loop, counter, call, steps, answer, result>>

\* A supporting step has only to be in the trail.
FaultFlaw ==
  CASE \E n \in answer.supports : steps[n] = NoStep -> "support"
    [] answer.status = "CONCLUSIVE" /\ ~(RequiredTools \subseteq CompletedTools(steps))
         -> "required"
    [] OTHER -> "none"

\* validateConclusiveDiagnosis, on the trail it is given.
Flaw ==
  CASE ~(answer.supports \subseteq Completed(steps)) -> "support"
    [] answer.supports \subseteq Completed(steps) /\ answer.status = "CONCLUSIVE"
         /\ ~(RequiredTools \subseteq CompletedTools(steps)) -> "required"
    [] OTHER -> "none"

Validate ==
  /\ pc = "validating"
  /\ \/ /\ Flaw = "none"
        /\ pc' = "completed"
        /\ result' = [outcome |-> "COMPLETED", trail |-> steps]
        /\ UNCHANGED failure
     \/ /\ Flaw # "none"
        /\ pc' = "failing" /\ failure' = Flaw
        /\ UNCHANGED result
     \/ \E error \in Outside :
          /\ pc' = "failing" /\ failure' = error
          /\ UNCHANGED result
  /\ UNCHANGED <<loop, counter, call, steps, answer>>

\* The catch block: it reads the trail once more, and AgentRunFailed has a message.
Fail ==
  /\ pc = "failing"
  /\ \/ /\ failure # "mute"
        /\ pc' = "failed"
        /\ result' = [outcome |-> "FAILED", trail |-> steps, code |-> Classify(failure)]
     \/ pc' = "rejected" /\ UNCHANGED result
  /\ UNCHANGED <<loop, counter, call, steps, answer, failure>>

------------------------------------------------------------------------------
Init ==
  /\ pc = "generating" /\ loop = TRUE
  /\ counter = 0 /\ call = NoCall
  /\ steps = [n \in StepNos |-> NoStep]
  /\ answer = NoAnswer /\ failure = "none" /\ result = NoResult

ToolStep == CheckReferences \/ Execute \/ RecordCompleted \/ RecordFailed

\* References are positive numbers; those beyond this call's are all alike.
Next ==
  \/ \E tool \in Tools, refs \in SUBSET ((1 .. counter + 1) \cap StepNos) :
       StartCall(tool, refs)
  \/ ToolStep
  \/ \E diagnosis \in Answer : ModelAnswers(diagnosis)
  \/ \E error \in Outside : ModelFails(error)
  \/ LoopEnds \/ Deadline \/ Validate \/ Fail

Spec == Init /\ [][Next]_vars

------------------------------------------------------------------------------
(* Properties. *)

TypeOK ==
  /\ pc \in {"generating", "validating", "failing", "completed", "failed", "rejected"}
  /\ loop \in BOOLEAN
  /\ counter \in 0 .. MaxCalls
  /\ call \in Call \cup {NoCall}
  /\ steps \in [StepNos -> Step \cup {NoStep}]
  /\ answer \in Answer \cup {NoAnswer}
  /\ failure \in Errors

\* What a completed run rests on is in the table and stays there: every
\* supporting step is a completed one, and a conclusive diagnosis has residual,
\* onset and impact evidence (investigator.ts:51), whatever was recorded twice,
\* lost or written late.
EvidenceStands ==
  pc = "completed" =>
    /\ answer.supports \subseteq Completed(steps)
    /\ answer.status = "CONCLUSIVE" => RequiredTools \subseteq CompletedTools(steps)

\* No step refers to a step that is missing, failed or still to come, not even
\* after a later write to the table (tools.ts:542).
ReferencesStand ==
  \A n \in StepNos : steps[n] # NoStep =>
    \A r \in steps[n].refs : r < n /\ r \in Completed(steps)

\* The trail in the result is the table's, except after the deadline: then a call
\* in flight, or a loop that does not heed the abort, may still write
\* (investigator.ts:140).
OnlyTheDeadlineLeavesStepsBehind ==
  pc \in {"completed", "failed"} /\ result.trail # steps =>
    pc = "failed" /\ result.code = "TIMEOUT"

==============================================================================

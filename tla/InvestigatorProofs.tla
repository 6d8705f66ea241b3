--------------------------- MODULE InvestigatorProofs ---------------------------
(***************************************************************************)
(* What an agent run keeps of its trail, and what a pass makes of it.      *)
(* Three facts carry the run's proofs: calls come one at a time, so the    *)
(* counter is the number of the call in flight and no row has a higher     *)
(* one; a call is past its check only if its references hold; and a run    *)
(* that got beyond the loop by an answer or by an error other than the     *)
(* deadline's is quiet, with nothing left that could write a step.  The    *)
(* pass rests on one more: when handleSignal acts, the answer is final,    *)
(* though the loop may still be at work.                                   *)
(***************************************************************************)
EXTENDS AgentPass, TLAPS

\* Nothing can write a step any more.
Quiet == ~loop /\ call = NoCall

\* The counter and the rows.
Numbered ==
  /\ call # NoCall => call.stepNo = counter
  /\ \A n \in StepNos : steps[n] # NoStep => n <= counter

Checked ==
  call.at \in {"executing", "recording", "recordingFailure"} =>
    \A r \in call.refs : r < call.stepNo /\ r \in Completed(steps)

Trail == Numbered /\ Checked /\ ReferencesStand

\* The stages after the loop.
Settled ==
  /\ pc \in {"validating", "completed"} => Quiet
  /\ pc = "failing" /\ failure # "timeout" => Quiet
  /\ pc = "completed" => result.trail = steps
  /\ pc = "failed" => result.code = "TIMEOUT" \/ (Quiet /\ result.trail = steps)

------------------------------------------------------------------------------
(* Types. *)

LEMMA CallInFlight ==
  ASSUME TypeOK, call.at \in {"checking", "executing", "recording", "recordingFailure"}
  PROVE  call \in Call /\ call # NoCall
BY DEF TypeOK, NoCall

LEMMA TypeInit == Init => TypeOK
BY InvestigatorAssumption DEF Init, TypeOK, NoCall, NoStep, NoAnswer, Errors

LEMMA OutsideErrors == Outside \subseteq Errors
BY DEF Errors

LEMMA ThrowsType ==
  ASSUME TypeOK, NEW error \in Errors, Throws(error)
  PROVE  /\ call' \in Call \cup {NoCall} /\ loop' \in BOOLEAN /\ failure' \in Errors
         /\ pc' \in {"generating", "validating", "failing", "completed", "failed", "rejected"}
BY DEF TypeOK, Throws, Rejects

LEMMA RecordedType ==
  ASSUME TypeOK, call \in Call, NEW status \in {"completed", "failed"}
  PROVE  Recorded(status) \in [StepNos -> Step \cup {NoStep}]
<1>1. [tool |-> call.tool, status |-> status, refs |-> call.refs] \in Step
  BY DEF Call, Step
<1> QED
  BY <1>1 DEF TypeOK, Recorded

LEMMA StartCallType ==
  ASSUME TypeOK, NEW tool \in Tools, NEW refs \in SUBSET StepNos, StartCall(tool, refs)
  PROVE  TypeOK'
<1>1. counter' \in 0 .. MaxCalls /\ counter' \in StepNos
  BY InvestigatorAssumption DEF StartCall, TypeOK, StepNos
<1>2. "budget" \in Errors /\ "none" \in Errors
  BY DEF Errors
<1>3. CASE call' = [at |-> "checking", stepNo |-> counter', tool |-> tool, refs |-> refs,
                    error |-> "none"] /\ UNCHANGED <<pc, loop, failure>>
  <2>1. call' \in Call
    BY <1>1, <1>2, <1>3 DEF Call
  <2> QED
    BY <1>1, <1>3, <2>1 DEF StartCall, TypeOK
<1>4. CASE Throws("budget")
  BY <1>1, <1>2, <1>4, ThrowsType DEF StartCall, TypeOK
<1> QED
  BY <1>3, <1>4 DEF StartCall

LEMMA MovedCallType ==
  ASSUME call \in Call, NEW at \in {"executing", "recording", "recordingFailure"},
         NEW error \in Errors
  PROVE  /\ [call EXCEPT !.at = at] \in Call
         /\ [call EXCEPT !.at = at, !.error = error] \in Call
BY DEF Call

LEMMA CheckReferencesType ==
  ASSUME TypeOK, CheckReferences
  PROVE  TypeOK'
<1>1. call \in Call
  BY CallInFlight DEF CheckReferences
<1>2. "other" \in Errors
  BY DEF Errors, Outside
<1>3. CASE call' = [call EXCEPT !.at = "executing"] /\ UNCHANGED <<pc, loop, failure>>
  BY <1>1, <1>2, <1>3, MovedCallType DEF CheckReferences, TypeOK
<1>4. CASE \E error \in Errors : Throws(error)
  BY <1>4, ThrowsType DEF CheckReferences, TypeOK
<1> QED
  BY <1>2, <1>3, <1>4, OutsideErrors DEF CheckReferences

LEMMA ExecuteType ==
  ASSUME TypeOK, Execute
  PROVE  TypeOK'
<1>1. call \in Call
  BY CallInFlight DEF Execute
<1>2. call' \in Call
  BY <1>1, MovedCallType, OutsideErrors DEF Execute, Errors
<1> QED
  BY <1>2 DEF Execute, TypeOK

LEMMA RecordCompletedType ==
  ASSUME TypeOK, RecordCompleted
  PROVE  TypeOK'
<1>1. call \in Call
  BY CallInFlight DEF RecordCompleted
<1>2. call' \in Call \cup {NoCall}
  BY <1>1, MovedCallType, OutsideErrors DEF RecordCompleted
<1>3. steps' \in [StepNos -> Step \cup {NoStep}]
  BY <1>1, RecordedType DEF RecordCompleted, TypeOK
<1> QED
  BY <1>2, <1>3 DEF RecordCompleted, TypeOK

LEMMA RecordFailedType ==
  ASSUME TypeOK, RecordFailed
  PROVE  TypeOK'
<1>1. call \in Call
  BY CallInFlight DEF RecordFailed
<1>2. call.error \in Errors
  BY <1>1 DEF Call
<1>3. \E error \in Errors : Throws(error)
  BY <1>2, OutsideErrors DEF RecordFailed
<1>4. steps' \in [StepNos -> Step \cup {NoStep}]
  BY <1>1, RecordedType DEF RecordFailed, TypeOK
<1> QED
  BY <1>3, <1>4, ThrowsType DEF RecordFailed, TypeOK

\* What validateConclusiveDiagnosis objects to.
LEMMA FlawType == Flaw \in {"support", "required", "none"}
BY DEF Flaw

\* The steps, one by one.
LEMMA StepsOfNext ==
  ASSUME [Next]_vars
  PROVE  \/ \E tool \in Tools, refs \in SUBSET StepNos : StartCall(tool, refs)
         \/ CheckReferences \/ Execute \/ RecordCompleted \/ RecordFailed
         \/ \E given \in Answer : ModelAnswers(given)
         \/ \E error \in Outside : ModelFails(error)
         \/ LoopEnds \/ Deadline \/ Validate \/ Fail \/ UNCHANGED vars
<1>1. SUBSET ((1 .. counter + 1) \cap StepNos) \subseteq SUBSET StepNos
  OBVIOUS
<1> QED
  BY <1>1 DEF Next, ToolStep

LEMMA TypeStep == TypeOK /\ [Next]_vars => TypeOK'
<1> SUFFICES ASSUME TypeOK, [Next]_vars
             PROVE  TypeOK'
  OBVIOUS
<1>1. ASSUME NEW tool \in Tools, NEW refs \in SUBSET StepNos, StartCall(tool, refs)
      PROVE  TypeOK'
  BY <1>1, StartCallType
<1>2. CASE CheckReferences \/ Execute \/ RecordCompleted \/ RecordFailed
  BY <1>2, CheckReferencesType, ExecuteType, RecordCompletedType, RecordFailedType
<1>3. ASSUME NEW given \in Answer, ModelAnswers(given)
      PROVE  TypeOK'
  BY <1>3 DEF ModelAnswers, TypeOK
<1>4. ASSUME NEW error \in Outside, ModelFails(error)
      PROVE  TypeOK'
  BY <1>4, OutsideErrors DEF ModelFails, Rejects, TypeOK
<1>5. CASE LoopEnds
  BY <1>5 DEF LoopEnds, TypeOK
<1>6. CASE Deadline
  BY <1>6 DEF Deadline, TypeOK, Errors, Outside
<1>7. CASE Validate
  <2>1. failure' \in Errors
    BY <1>7, FlawType, OutsideErrors DEF Validate, TypeOK, Errors
  <2> QED
    BY <1>7, <2>1 DEF Validate, TypeOK
<1>8. CASE Fail
  BY <1>8 DEF Fail, TypeOK
<1>9. CASE UNCHANGED vars
  BY <1>9 DEF vars, TypeOK
<1> QED
  BY <1>1, <1>2, <1>3, <1>4, <1>5, <1>6, <1>7, <1>8, <1>9, StepsOfNext

\* Calls, rows, answers and errors are of their kinds, for any tools, cells and
\* budget.
THEOREM TypeSafety == Spec => []TypeOK
BY TypeInit, TypeStep, PTL DEF Spec

------------------------------------------------------------------------------
(* The trail. *)

LEMMA TrailInit == Init => Trail
BY DEF Init, Trail, Numbered, Checked, ReferencesStand, NoCall

\* A throw ends the call and touches no row.
LEMMA ThrowsTrail ==
  ASSUME TypeOK, Trail, NEW error, Throws(error), UNCHANGED <<counter, steps>>
  PROVE  Trail'
<1>1. call' = NoCall /\ call'.at = "none"
  BY DEF Throws, NoCall
<1> QED
  BY <1>1 DEF Trail, Numbered, Checked, ReferencesStand, Completed

LEMMA StartCallTrail ==
  ASSUME TypeOK, Trail, NEW tool \in Tools, NEW refs \in SUBSET StepNos, StartCall(tool, refs)
  PROVE  Trail'
<1>1. counter \in Nat /\ counter' = counter + 1 /\ steps' = steps
  BY DEF StartCall, TypeOK
<1>2. \A n \in StepNos : steps[n] # NoStep => n <= counter'
  BY <1>1 DEF Trail, Numbered, StepNos
<1>3. ReferencesStand'
  BY <1>1 DEF Trail, ReferencesStand, Completed
<1>4. CASE call' = [at |-> "checking", stepNo |-> counter', tool |-> tool, refs |-> refs,
                    error |-> "none"]
  <2>1. call'.stepNo = counter' /\ call'.at = "checking"
    BY <1>4
  <2> QED
    BY <1>1, <1>2, <1>3, <2>1 DEF Trail, Numbered, Checked
<1>5. CASE Throws("budget")
  <2>1. call' = NoCall /\ call'.at = "none"
    BY <1>5 DEF Throws, NoCall
  <2> QED
    BY <1>1, <1>2, <1>3, <2>1 DEF Trail, Numbered, Checked
<1> QED
  BY <1>4, <1>5 DEF StartCall

\* The call goes on; its number and its references stay.
LEMMA MovedCallTrail ==
  ASSUME TypeOK, Numbered, ReferencesStand, call \in Call, call' \in Call,
         call'.stepNo = call.stepNo, call'.refs = call.refs,
         UNCHANGED <<counter, steps>>,
         \A r \in call.refs : r < call.stepNo /\ r \in Completed(steps)
  PROVE  Trail'
<1>1. call # NoCall
  BY DEF Call, NoCall
<1> QED
  BY <1>1 DEF Trail, Numbered, Checked, ReferencesStand, Completed

LEMMA CheckReferencesTrail ==
  ASSUME TypeOK, Trail, CheckReferences
  PROVE  Trail'
<1>1. call \in Call
  BY CallInFlight DEF CheckReferences
<1>2. CASE ReferencesHold /\ call' = [call EXCEPT !.at = "executing"]
  <2>1. call' \in Call /\ call'.stepNo = call.stepNo /\ call'.refs = call.refs
    BY <1>1, <1>2 DEF Call
  <2> QED
    BY <1>1, <1>2, <2>1, MovedCallTrail DEF CheckReferences, ReferencesHold, Trail
<1>3. CASE \E error \in Errors : Throws(error)
  BY <1>3, ThrowsTrail DEF CheckReferences
<1>4. "other" \in Errors
  BY DEF Errors, Outside
<1> QED
  BY <1>2, <1>3, <1>4, OutsideErrors DEF CheckReferences

\* A call that is past its check refers to completed steps before it.
LEMMA PastTheCheck ==
  ASSUME TypeOK, Trail, call.at \in {"executing", "recording", "recordingFailure"}
  PROVE  /\ call \in Call /\ call # NoCall
         /\ call.stepNo \in StepNos /\ call.refs \subseteq StepNos
         /\ call.stepNo = counter
         /\ \A r \in call.refs : r < call.stepNo /\ r \in Completed(steps)
<1>1. call \in Call /\ call # NoCall
  BY CallInFlight
<1> QED
  BY <1>1 DEF Trail, Numbered, Checked, Call

LEMMA ExecuteTrail ==
  ASSUME TypeOK, Trail, Execute
  PROVE  Trail'
<1>1. call \in Call /\ \A r \in call.refs : r < call.stepNo /\ r \in Completed(steps)
  BY PastTheCheck DEF Execute
<1>2. call' \in Call
  BY <1>1, MovedCallType, OutsideErrors DEF Execute, Errors
<1>3. call'.stepNo = call.stepNo /\ call'.refs = call.refs
  BY <1>1 DEF Execute, Call
<1> QED
  BY <1>1, <1>2, <1>3, MovedCallTrail DEF Execute, Trail

\* The row of the call in flight is written, for the first time or again: no other
\* row refers to it, and its own references are in rows that stay as they are.
LEMMA RecordedTrail ==
  ASSUME TypeOK, Trail, call.at \in {"recording", "recordingFailure"},
         NEW status \in {"completed", "failed"}, steps' = Recorded(status), UNCHANGED counter
  PROVE  /\ ReferencesStand'
         /\ \A n \in StepNos : steps'[n] # NoStep => n <= counter'
         /\ \A r \in call.refs : r < call.stepNo /\ r \in Completed(steps')
<1> DEFINE k == call.stepNo
           row == [tool |-> call.tool, status |-> status, refs |-> call.refs]
<1>1. /\ call.refs \subseteq StepNos /\ k \in StepNos /\ k = counter
      /\ \A r \in call.refs : r < k /\ r \in Completed(steps)
  BY PastTheCheck
<1>2. /\ steps'[k] = row
      /\ \A n \in StepNos : n # k => steps'[n] = steps[n]
  BY <1>1 DEF Recorded, TypeOK
<1>3. \A r \in Completed(steps) : r < k => r \in Completed(steps')
  BY <1>1, <1>2 DEF Completed, StepNos
<1>4. \A n \in StepNos : steps'[n] # NoStep => n <= counter'
  <2> SUFFICES ASSUME NEW n \in StepNos, steps'[n] # NoStep
               PROVE  n <= counter'
    OBVIOUS
  <2>1. CASE n = k
    BY <1>1, <2>1 DEF StepNos
  <2>2. CASE n # k
    BY <1>2, <2>2 DEF Trail, Numbered
  <2> QED
    BY <2>1, <2>2
<1>5. ASSUME NEW n \in StepNos, steps'[n] # NoStep, NEW r \in steps'[n].refs
      PROVE  r < n /\ r \in Completed(steps')
  <2>1. CASE n = k
    BY <1>1, <1>2, <1>3, <1>5, <2>1
  <2>2. CASE n # k
    <3>1. steps'[n] = steps[n] /\ n <= counter
      BY <1>2, <1>5, <2>2 DEF Trail, Numbered
    <3>2. r < n /\ r \in Completed(steps)
      BY <1>5, <3>1 DEF Trail, ReferencesStand
    <3>3. r < k
      BY <1>1, <3>1, <3>2 DEF StepNos, Completed
    <3> QED
      BY <1>3, <3>2, <3>3
  <2> QED
    BY <2>1, <2>2
<1> QED
  BY <1>1, <1>3, <1>4, <1>5 DEF ReferencesStand

\* A write may have had no effect.
LEMMA MaybeRecordedTrail ==
  ASSUME TypeOK, Trail, call.at \in {"recording", "recordingFailure"},
         NEW status \in {"completed", "failed"}, steps' \in {steps, Recorded(status)},
         UNCHANGED counter
  PROVE  /\ ReferencesStand'
         /\ \A n \in StepNos : steps'[n] # NoStep => n <= counter'
         /\ \A r \in call.refs : r < call.stepNo /\ r \in Completed(steps')
<1>1. CASE steps' = Recorded(status)
  BY <1>1, RecordedTrail
<1>2. CASE steps' = steps
  <2>1. \A r \in call.refs : r < call.stepNo /\ r \in Completed(steps)
    BY PastTheCheck
  <2> QED
    BY <1>2, <2>1 DEF Trail, Numbered, ReferencesStand, Completed
<1> QED
  BY <1>1, <1>2

LEMMA RecordCompletedTrail ==
  ASSUME TypeOK, Trail, RecordCompleted
  PROVE  Trail'
<1>1. /\ ReferencesStand'
      /\ \A n \in StepNos : steps'[n] # NoStep => n <= counter'
      /\ \A r \in call.refs : r < call.stepNo /\ r \in Completed(steps')
  BY MaybeRecordedTrail DEF RecordCompleted
<1>2. CASE call' = NoCall
  BY <1>1, <1>2 DEF Trail, Numbered, Checked, NoCall
<1>3. CASE \E error \in Outside :
             call' = [call EXCEPT !.at = "recordingFailure", !.error = error]
  <2>1. call \in Call /\ call.stepNo = counter
    BY PastTheCheck DEF RecordCompleted
  <2>2. call'.stepNo = counter' /\ call'.stepNo = call.stepNo /\ call'.refs = call.refs
    BY <1>3, <2>1 DEF Call, RecordCompleted
  <2> QED
    BY <1>1, <2>2 DEF Trail, Numbered, Checked
<1> QED
  BY <1>2, <1>3 DEF RecordCompleted

LEMMA RecordFailedTrail ==
  ASSUME TypeOK, Trail, RecordFailed
  PROVE  Trail'
<1>1. /\ ReferencesStand'
      /\ \A n \in StepNos : steps'[n] # NoStep => n <= counter'
  BY MaybeRecordedTrail DEF RecordFailed
<1>2. call' = NoCall
  BY DEF RecordFailed, Throws
<1> QED
  BY <1>1, <1>2 DEF Trail, Numbered, Checked, NoCall

LEMMA TrailStep == TypeOK /\ Trail /\ [Next]_vars => Trail'
<1> SUFFICES ASSUME TypeOK, Trail, [Next]_vars
             PROVE  Trail'
  OBVIOUS
<1>1. ASSUME NEW tool \in Tools, NEW refs \in SUBSET StepNos, StartCall(tool, refs)
      PROVE  Trail'
  BY <1>1, StartCallTrail
<1>2. CASE CheckReferences \/ Execute \/ RecordCompleted \/ RecordFailed
  BY <1>2, CheckReferencesTrail, ExecuteTrail, RecordCompletedTrail, RecordFailedTrail
<1>3. CASE UNCHANGED <<call, counter, steps>>
  BY <1>3 DEF Trail, Numbered, Checked, ReferencesStand, Completed
<1>4. \/ \E given \in Answer : ModelAnswers(given)
      \/ \E error \in Outside : ModelFails(error)
      \/ LoopEnds \/ Deadline \/ Validate \/ Fail \/ UNCHANGED vars
      => UNCHANGED <<call, counter, steps>>
  BY DEF ModelAnswers, ModelFails, LoopEnds, Deadline, Validate, Fail, vars
<1> QED
  BY <1>1, <1>2, <1>3, <1>4, StepsOfNext

\* No step refers to a step that is missing, failed or still to come, whatever is
\* written twice, lost or late, and for any budget.
THEOREM ReferencesAlwaysStand == Spec => []ReferencesStand
<1>1. Trail => ReferencesStand
  BY DEF Trail
<1> QED
  BY <1>1, TypeInit, TypeStep, TrailInit, TrailStep, PTL DEF Spec

------------------------------------------------------------------------------
(* The answer and the result. *)

Outcome == Settled /\ EvidenceStands

LEMMA OutcomeInit == Init => Outcome
BY DEF Init, Outcome, Settled, EvidenceStands

\* Only the deadline makes a TIMEOUT of what the code itself throws.
LEMMA TimeoutIsTheDeadline ==
  ASSUME NEW error
  PROVE  error = "timeout" => Classify(error) = "TIMEOUT"
BY DEF Classify

\* Tool steps and throws; they need a loop or a call.
LEMMA ToolOutcome ==
  ASSUME Outcome, ~Quiet, UNCHANGED <<pc, failure, result>>
  PROVE  Outcome'
<1>1. pc \notin {"validating", "completed"}
  BY DEF Outcome, Settled
<1>2. pc = "failing" => failure = "timeout"
  BY DEF Outcome, Settled
<1>3. pc = "failed" => result.code = "TIMEOUT"
  BY DEF Outcome, Settled
<1>4. pc' \notin {"validating", "completed"}
  BY <1>1
<1>5. pc' = "failing" => failure' = "timeout"
  BY <1>2
<1>6. pc' = "failed" => result'.code = "TIMEOUT"
  BY <1>3
<1>7. Settled'
  BY <1>4, <1>5, <1>6 DEF Settled
<1>8. EvidenceStands'
  BY <1>4 DEF EvidenceStands
<1> QED
  BY <1>7, <1>8 DEF Outcome

LEMMA RejectsOutcome ==
  ASSUME Outcome, ~Quiet, NEW error, Rejects(error), call' = NoCall, UNCHANGED result
  PROVE  Outcome'
<1>1. CASE pc = "generating"
  <2>1. pc' = "failing" /\ Quiet'
    BY <1>1 DEF Rejects, Quiet
  <2> QED
    BY <2>1 DEF Outcome, Settled, EvidenceStands
<1>2. CASE pc # "generating"
  <2>1. UNCHANGED <<pc, failure, result>>
    BY <1>2 DEF Rejects
  <2> QED
    BY <2>1, ToolOutcome
<1> QED
  BY <1>1, <1>2

LEMMA ThrowsOutcome ==
  ASSUME Outcome, ~Quiet, NEW error, Throws(error), UNCHANGED result
  PROVE  Outcome'
<1>1. CASE Rejects(error)
  BY <1>1, RejectsOutcome DEF Throws
<1>2. CASE UNCHANGED <<pc, failure>>
  BY <1>2, ToolOutcome
<1> QED
  BY <1>1, <1>2 DEF Throws

LEMMA ValidateOutcome ==
  ASSUME Outcome, Validate
  PROVE  Outcome'
<1>1. Quiet /\ Quiet'
  BY DEF Outcome, Settled, Validate, Quiet
<1>2. CASE Flaw = "none" /\ pc' = "completed" /\ result' = [outcome |-> "COMPLETED", trail |-> steps]
  <2>1. /\ answer.supports \subseteq Completed(steps)
        /\ answer.status = "CONCLUSIVE" => RequiredTools \subseteq CompletedTools(steps)
    BY <1>2 DEF Flaw
  <2>2. result'.trail = steps' /\ steps' = steps /\ answer' = answer
    BY <1>2 DEF Validate
  <2>3. EvidenceStands'
    BY <2>1, <2>2 DEF EvidenceStands, Completed, CompletedTools
  <2> QED
    BY <1>1, <1>2, <2>2, <2>3 DEF Outcome, Settled
<1>3. CASE pc' = "failing"
  BY <1>1, <1>3 DEF Outcome, Settled, EvidenceStands
<1> QED
  BY <1>2, <1>3 DEF Validate

LEMMA FailOutcome ==
  ASSUME Outcome, Fail
  PROVE  Outcome'
<1>1. CASE pc' = "rejected"
  BY <1>1 DEF Outcome, Settled, EvidenceStands
<1>2. CASE pc' = "failed" /\ result' = [outcome |-> "FAILED", trail |-> steps, code |-> Classify(failure)]
  <2>1. result'.trail = steps' /\ result'.code = Classify(failure)
    BY <1>2 DEF Fail
  <2>2. CASE failure = "timeout"
    BY <1>2, <2>1, <2>2, TimeoutIsTheDeadline DEF Outcome, Settled, EvidenceStands
  <2>3. CASE failure # "timeout"
    <3>1. Quiet'
      BY <2>3 DEF Outcome, Settled, Fail, Quiet
    <3> QED
      BY <1>2, <2>1, <3>1 DEF Outcome, Settled, EvidenceStands
  <2> QED
    BY <2>2, <2>3
<1> QED
  BY <1>1, <1>2 DEF Fail

LEMMA OutcomeStep == TypeOK /\ Outcome /\ [Next]_vars => Outcome'
<1> SUFFICES ASSUME TypeOK, Outcome, [Next]_vars
             PROVE  Outcome'
  OBVIOUS
<1>1. ASSUME NEW tool \in Tools, NEW refs \in SUBSET StepNos, StartCall(tool, refs)
      PROVE  Outcome'
  <2>1. ~Quiet /\ UNCHANGED result
    BY <1>1 DEF StartCall, Quiet
  <2> QED
    BY <1>1, <2>1, ToolOutcome, ThrowsOutcome DEF StartCall
<1>2. CASE CheckReferences \/ Execute \/ RecordCompleted \/ RecordFailed
  <2>1. ~Quiet /\ UNCHANGED result
    BY <1>2, CallInFlight DEF Quiet, CheckReferences, Execute, RecordCompleted, RecordFailed
  <2>2. CASE CheckReferences
    BY <2>1, <2>2, ToolOutcome, ThrowsOutcome DEF CheckReferences
  <2>3. CASE Execute
    BY <2>1, <2>3, ToolOutcome DEF Execute
  <2>4. CASE RecordCompleted
    BY <2>1, <2>4, ToolOutcome DEF RecordCompleted
  <2>5. CASE RecordFailed
    BY <2>1, <2>5, ThrowsOutcome DEF RecordFailed
  <2> QED
    BY <1>2, <2>2, <2>3, <2>4, <2>5
<1>3. ASSUME NEW given \in Answer, ModelAnswers(given)
      PROVE  Outcome'
  <2>1. pc' = "validating" /\ Quiet'
    BY <1>3 DEF ModelAnswers, Quiet
  <2> QED
    BY <2>1 DEF Outcome, Settled, EvidenceStands
<1>4. ASSUME NEW error \in Outside, ModelFails(error)
      PROVE  Outcome'
  <2>1. ~Quiet /\ call' = NoCall /\ UNCHANGED result /\ Rejects(error)
    BY <1>4 DEF ModelFails, Quiet
  <2> QED
    BY <2>1, RejectsOutcome
<1>5. CASE LoopEnds
  <2>1. ~Quiet /\ UNCHANGED <<pc, failure, result>>
    BY <1>5 DEF LoopEnds, Quiet
  <2> QED
    BY <2>1, ToolOutcome
<1>6. CASE Deadline
  BY <1>6 DEF Deadline, Outcome, Settled, EvidenceStands
<1>7. CASE Validate
  BY <1>7, ValidateOutcome
<1>8. CASE Fail
  BY <1>8, FailOutcome
<1>9. CASE UNCHANGED vars
  BY <1>9 DEF vars, Outcome, Settled, Quiet, EvidenceStands, Completed, CompletedTools
<1> QED
  BY <1>1, <1>2, <1>3, <1>4, <1>5, <1>6, <1>7, <1>8, <1>9, StepsOfNext

\* A completed run rests on completed steps and a conclusive one on the evidence
\* it must have, from its end on: nothing is left that could rewrite a step.
THEOREM EvidenceAlwaysStands == Spec => []EvidenceStands
<1>1. Outcome => EvidenceStands
  BY DEF Outcome
<1> QED
  BY <1>1, TypeInit, TypeStep, OutcomeInit, OutcomeStep, PTL DEF Spec

\* The trail a run returns is the table's unless its deadline cut a call off.
THEOREM OnlyTheDeadlineCutsOff == Spec => []OnlyTheDeadlineLeavesStepsBehind
<1>1. Outcome => OnlyTheDeadlineLeavesStepsBehind
  BY DEF Outcome, Settled, OnlyTheDeadlineLeavesStepsBehind
<1> QED
  BY <1>1, TypeInit, TypeStep, OutcomeInit, OutcomeStep, PTL DEF Spec

------------------------------------------------------------------------------
(* The pass. *)

\* The investigator's part of a step of the pass is a step of the run.
LEMMA PassStepIsRunStep == [PassNext]_allVars => [Next]_vars
BY DEF PassNext, Materialize, RunFailed, ExecuteFallback, Narrate, NarratorFails,
       WriteTemplate, allVars

\* A pass is a run of the investigator, with a narrator behind it: what is said of a
\* run holds in the pass, also while the narrator is at work and the loop that missed
\* its deadline still calls tools (coordinator.ts:97, investigator.ts:140).
THEOREM PassIsARun == PassSpec => Spec
<1>1. PassInit => Init
  BY DEF PassInit
<1> QED
  BY <1>1, PassStepIsRunStep, PTL DEF PassSpec, Spec

\* The answer of a run that got beyond the loop with one.
Answered == pc \in {"validating", "completed"} => answer \in Answer

Diagnosed == stage \in {"primary", "reserve", "template", "written"}

\* Whose diagnosis it is, and that the search has found it.
Confirmed ==
  Diagnosed =>
    IF author = "agent" /\ answer.status = "CONCLUSIVE"
      THEN diagnosis = answer.cell /\ \E i \in DOMAIN candidates : candidates[i] = diagnosis
      ELSE diagnosis = candidates[1]

\* The narrator is asked after the run has ended.
AfterTheRun == stage # "investigating" => Ended

Spoken == stage = "written" => prose.numbers \subseteq AllowedNumbers(diagnosis)

PassInv == Answered /\ Confirmed /\ AfterTheRun /\ Spoken

LEMMA PassInvInit == PassInit => PassInv
BY DEF PassInit, Init, PassInv, Answered, Confirmed, Diagnosed, AfterTheRun, Spoken

\* Nothing the run does after its end touches the answer.
LEMMA RunKeepsPass ==
  ASSUME TypeOK, PassInv, [Next]_vars, UNCHANGED passVars
  PROVE  PassInv'
<1>1. Ended => Ended' /\ answer' = answer
  BY StepsOfNext
     DEF Ended, StartCall, CheckReferences, Execute, RecordCompleted, RecordFailed, Throws,
         Rejects, ModelAnswers, ModelFails, LoopEnds, Deadline, Validate, Fail, vars
<1>2. Answered'
  BY StepsOfNext
     DEF PassInv, Answered, StartCall, CheckReferences, Execute, RecordCompleted, RecordFailed,
         Throws, Rejects, ModelAnswers, ModelFails, LoopEnds, Deadline, Validate, Fail, vars
<1>3. Diagnosed => Ended
  BY DEF PassInv, AfterTheRun, Diagnosed
<1> QED
  BY <1>1, <1>2, <1>3 DEF PassInv, Confirmed, Diagnosed, AfterTheRun, Spoken, passVars

LEMMA TakeConfirms ==
  ASSUME PassInv, Ended, UNCHANGED vars, UNCHANGED prose, NEW chosen, NEW by, NEW otherwise,
         Take(chosen, by, otherwise), otherwise \in {"fallback", "refused"},
         \A c \in chosen :
           IF by = "agent" /\ answer.status = "CONCLUSIVE"
             THEN c = answer.cell /\ \E i \in DOMAIN candidates' : candidates'[i] = c
             ELSE c = candidates'[1]
  PROVE  PassInv'
<1>1. Answered' /\ Ended'
  BY DEF PassInv, Answered, Ended, vars
<1>2. AfterTheRun'
  BY <1>1 DEF AfterTheRun
<1>3. answer' = answer
  BY DEF vars
<1>4. CASE diagnosis' \in chosen /\ stage' = "primary" /\ author' = by
  BY <1>1, <1>2, <1>3, <1>4 DEF PassInv, Confirmed, Spoken
<1>5. CASE stage' = otherwise
  BY <1>1, <1>2, <1>5 DEF PassInv, Confirmed, Diagnosed, Spoken
<1> QED
  BY <1>4, <1>5 DEF Take

LEMMA MaterializeKeepsPass ==
  ASSUME PassInv, Materialize
  PROVE  PassInv'
<1> DEFINE found == candidates'
           chosen == Materialized(found)
<1>1. answer \in Answer /\ Ended
  BY DEF Materialize, PassInv, Answered, Ended
<1>2. ASSUME NEW c \in chosen
      PROVE  IF answer.status = "CONCLUSIVE"
               THEN c = answer.cell /\ \E i \in DOMAIN found : found[i] = c
               ELSE c = found[1]
  <2>1. found # <<>>
    BY <1>2 DEF Materialized
  <2>2. CASE answer.status = "INCONCLUSIVE"
    BY <1>2, <2>1, <2>2 DEF Materialized
  <2>3. CASE answer.status # "INCONCLUSIVE"
    <3>1. answer.status = "CONCLUSIVE"
      BY <1>1, <2>3 DEF Answer
    <3>2. chosen = {e \in {found[i] : i \in DOMAIN found} : e = answer.cell}
      BY <2>1, <2>3 DEF Materialized
    <3> QED
      BY <1>2, <3>1, <3>2
  <2> QED
    BY <2>2, <2>3
<1>3. Take(chosen, "agent", "fallback") /\ UNCHANGED vars /\ UNCHANGED prose
  BY DEF Materialize
<1> QED
  BY <1>1, <1>2, <1>3, TakeConfirms

LEMMA FallbackKeepsPass ==
  ASSUME PassInv, ExecuteFallback
  PROVE  PassInv'
<1> DEFINE chosen == IF FallbackEnabled /\ candidates' # <<>> THEN {candidates'[1]} ELSE {}
<1>1. Ended
  BY DEF ExecuteFallback, PassInv, AfterTheRun
<1>2. Take(chosen, "fallback", "refused") /\ UNCHANGED vars /\ UNCHANGED prose
  BY DEF ExecuteFallback
<1>3. \A c \in chosen : c = candidates'[1]
  OBVIOUS
<1> QED
  BY <1>1, <1>2, <1>3, TakeConfirms

\* The narrators and the template: only prose that keeps to the evidence is written.
LEMMA NarrationKeepsPass ==
  ASSUME PassInv, Diagnosed, UNCHANGED <<vars, candidates, diagnosis, author>>,
         NEW numbers, NEW otherwise \in {"reserve", "template", "refused"},
         \/ /\ numbers \subseteq AllowedNumbers(diagnosis)
            /\ stage' = "written" /\ prose' = Prose(stage, numbers)
         \/ stage' = otherwise /\ UNCHANGED prose
  PROVE  PassInv'
<1>1. Answered' /\ Ended'
  BY DEF PassInv, Answered, AfterTheRun, Diagnosed, Ended, vars
<1>2. Confirmed'
  BY DEF PassInv, Confirmed, vars
<1>3. AfterTheRun'
  BY <1>1 DEF AfterTheRun
<1>4. Spoken'
  <2>1. CASE numbers \subseteq AllowedNumbers(diagnosis) /\ prose' = Prose(stage, numbers)
    BY <2>1 DEF Spoken, Prose, AllowedNumbers
  <2>2. CASE stage' = otherwise
    BY <2>2 DEF Spoken
  <2> QED
    BY <2>1, <2>2
<1> QED
  BY <1>1, <1>2, <1>3, <1>4 DEF PassInv

LEMMA PassInvStep == TypeOK /\ PassInv /\ [PassNext]_allVars => PassInv'
<1> SUFFICES ASSUME TypeOK, PassInv, [PassNext]_allVars
             PROVE  PassInv'
  OBVIOUS
<1>1. CASE [Next]_vars /\ UNCHANGED passVars
  BY <1>1, RunKeepsPass
<1>2. CASE Materialize
  BY <1>2, MaterializeKeepsPass
<1>3. CASE RunFailed
  <2>1. stage' = "fallback" /\ Ended /\ UNCHANGED vars
    BY <1>3 DEF RunFailed, Ended
  <2> QED
    BY <2>1 DEF PassInv, Answered, Confirmed, Diagnosed, AfterTheRun, Ended, Spoken, vars
<1>4. CASE ExecuteFallback
  BY <1>4, FallbackKeepsPass
<1>5. NextNarrator \in {"reserve", "template", "refused"} /\ (Narrating => Diagnosed)
  BY DEF NextNarrator, Narrating, Diagnosed
<1>6. CASE \E numbers \in SUBSET Figures, tripwire \in BOOLEAN : Narrate(numbers, tripwire)
  BY <1>5, <1>6, NarrationKeepsPass DEF Narrate
<1>7. CASE NarratorFails
  BY <1>5, <1>7, NarrationKeepsPass DEF NarratorFails
<1>8. CASE WriteTemplate
  BY <1>8, NarrationKeepsPass DEF WriteTemplate, Diagnosed
<1> QED
  BY <1>1, <1>2, <1>3, <1>4, <1>6, <1>7, <1>8 DEF PassNext, allVars

\* What is written over the deterministic evidence was never the model's word alone:
\* the cell is one the search has confirmed on its own reading, and every number in
\* the prose is that cell's, whichever narrator wrote it and however often the model
\* made one up (narrator.ts:31, coordinator.ts:97).
THEOREM ProseIsAlwaysFromTheEvidence == PassSpec => []ProseIsFromTheEvidence
<1>1. PassInv => ProseIsFromTheEvidence
  BY DEF PassInv, Confirmed, Diagnosed, Spoken, ProseIsFromTheEvidence
<1>2. PassSpec => []TypeOK
  BY PassIsARun, TypeSafety, PTL
<1>3. PassSpec => PassInit /\ [][PassNext]_allVars
  BY PTL DEF PassSpec
<1> QED
  BY <1>1, <1>2, <1>3, PassInvInit, PassInvStep, PTL
==============================================================================

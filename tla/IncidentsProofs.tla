--------------------------- MODULE IncidentsProofs ---------------------------
(***************************************************************************)
(* What Incidents keeps of the table, the queue and the agent's triple,    *)
(* and why a SELECT followed by an UPDATE is safe here: the table acts as  *)
(* the board of IncidentBoard, whose operations are atomic.                *)
(*                                                                         *)
(*   Shape   who exists, and which optional fields hold a value in which   *)
(*           control state: a step that copies a field needs to know it    *)
(*           is filled.                                                    *)
(*   Serial  at most one job is between two of its statements, and nothing *)
(*           older than it is still waiting.                               *)
(*   Fresh   what that job read is still what the table says, because only *)
(*           a running job writes the columns it read.                     *)
(*                                                                         *)
(* TypeOK /\ Shape is inductive, and so is IInv, which adds the other two; *)
(* each property of a step follows from it.                                *)
(***************************************************************************)
EXTENDS Incidents, SequenceTheorems, TLAPS

\* Which fields hold a value, by control state.
TableShape ==
  \A id \in IncidentIds : Exists(id) => triple[id].evidence \in Evidence

JobShape ==
  \A b \in Buckets :
    /\ jobs[b].pc = "write" => HasEvidence(b)
    /\ jobs[b].pc # "write" => jobs[b].existing = NoMatch
    /\ jobs[b].existing # NoMatch =>
         jobs[b].existing \in Snapshot /\ Exists(jobs[b].existing.id)

InvestigationShape ==
  \A id \in IncidentIds :
    /\ investigations[id].pc # "idle" => investigations[id].at \in Buckets
    /\ investigations[id].pc = "attaching" => investigations[id].input \in Evidence

Shape == TableShape /\ JobShape /\ InvestigationShape

------------------------------------------------------------------------------
(* Facts about single operators. *)

\* The tail runs one job at a time (run.ts enqueueOrchestration).
LEMMA RunnableIsUnique ==
  ASSUME NEW a \in Buckets, NEW b \in Buckets, Runnable(a), Runnable(b)
  PROVE  a = b
BY DEF Runnable, Buckets

\* The job's loop variable is an evidence object while the loop runs.
LEMMA NextEvidenceType ==
  ASSUME TypeOK, NEW b \in Buckets, HasEvidence(b)
  PROVE  /\ NextEvidence(b) \in Reading
         /\ NextEvidence(b) \in Evidence
<1>1. jobs[b] \in Job
  BY DEF TypeOK
<1>2. /\ jobs[b].evidence \in Seq(Reading)
      /\ Len(jobs[b].opened) \in Nat
  BY <1>1 DEF Job
<1>3. Len(jobs[b].opened) + 1 \in 1 .. Len(jobs[b].evidence)
  BY <1>2 DEF HasEvidence
<1>4. NextEvidence(b) \in Reading
  BY <1>2, <1>3 DEF NextEvidence
<1> QED
  BY <1>4 DEF Reading, Evidence, Sources

\* The scheduler's evidence is a sequence of evidence objects of its window.
LEMMA EvidenceOfType ==
  ASSUME NEW diagnoses \in Diagnoses, NEW b \in Buckets
  PROVE  EvidenceOf(diagnoses, b) \in Seq(Reading)
<1>1. diagnoses \in Seq([cell : Cells, code : Codes])
  BY IncidentsAssumption
<1>2. Len(diagnoses) \in Nat
  BY <1>1
<1>3. ASSUME NEW i \in 1 .. Len(diagnoses)
      PROVE  [cell |-> diagnoses[i].cell, code |-> diagnoses[i].code,
              source |-> "beam_search", at |-> b] \in Reading
  <2>1. diagnoses[i] \in [cell : Cells, code : Codes]
    BY <1>1, ElementOfSeq
  <2> QED
    BY <2>1 DEF Reading
<1> QED
  BY <1>2, <1>3, IsASeq DEF EvidenceOf

\* A live id is a row of the table.
LEMMA LiveIsRow ==
  ASSUME TypeOK, NEW id \in IncidentIds, Live(id)
  PROVE  rows[id] \in Row /\ Exists(id)
BY DEF TypeOK, Live, Exists, NoRow, LiveStatuses, ActiveStatuses

\* findLiveIncident returns live rows only.
LEMMA LiveIncidentsAreLive ==
  ASSUME NEW e, NEW id \in LiveIncidents(e)
  PROVE  id \in IncidentIds /\ Live(id) /\ id \in Matches(e)
BY DEF LiveIncidents, Matches

------------------------------------------------------------------------------
(* Type correctness. *)

LEMMA InitType == Init => TypeOK /\ Shape
<1> SUFFICES ASSUME Init PROVE TypeOK /\ Shape
  OBVIOUS
<1> USE IncidentsAssumption DEF Init
<1>1. IdleJob \in Job
  BY DEF IdleJob, Job
<1>2. IdleInvestigation \in Investigation
  BY DEF IdleInvestigation, Investigation
<1>3. TypeOK
  BY <1>1, <1>2 DEF TypeOK, Triple
<1>4. Shape
  BY DEF Shape, TableShape, JobShape, InvestigationShape, Exists, IdleJob, IdleInvestigation
<1> QED
  BY <1>3, <1>4

\* Replacing one job by a well-shaped one, while no row disappears.
LEMMA JobUpdate ==
  ASSUME TypeOK, JobShape, NEW b \in Buckets, NEW job \in Job,
         jobs' = [jobs EXCEPT ![b] = job],
         job.pc = "write" => Len(job.opened) < Len(job.evidence),
         job.pc # "write" => job.existing = NoMatch,
         job.existing # NoMatch => job.existing \in Snapshot /\ Exists(job.existing.id),
         \A i \in IncidentIds : Exists(i) => Exists(i)'
  PROVE  jobs' \in [Buckets -> Job] /\ JobShape'
<1>1. jobs' \in [Buckets -> Job]
  BY DEF TypeOK
<1>2. \A c \in Buckets : jobs'[c] = IF c = b THEN job ELSE jobs[c]
  BY DEF TypeOK
<1>3. ASSUME NEW c \in Buckets
      PROVE  /\ jobs'[c].pc = "write" => Len(jobs'[c].opened) < Len(jobs'[c].evidence)
             /\ jobs'[c].pc # "write" => jobs'[c].existing = NoMatch
             /\ jobs'[c].existing # NoMatch =>
                  jobs'[c].existing \in Snapshot /\ rows'[jobs'[c].existing.id] # NoRow
  <2>1. CASE c = b
    BY <1>2, <2>1 DEF Snapshot, Exists
  <2>2. CASE c # b
    BY <1>2, <2>2 DEF JobShape, HasEvidence, Snapshot, Exists
  <2> QED
    BY <2>1, <2>2
<1> QED
  BY <1>1, <1>3 DEF JobShape, HasEvidence, Exists

LEMMA HandOverType == TypeOK /\ Shape /\ HandOver => TypeOK' /\ Shape'
<1> SUFFICES ASSUME TypeOK, Shape, HandOver PROVE TypeOK' /\ Shape'
  OBVIOUS
<1> USE IncidentsAssumption
<1>1. bucket + 1 \in Buckets /\ bucket' \in Buckets
  BY DEF TypeOK, HandOver, Buckets
<1>2. PICK diagnoses \in Diagnoses, gaps \in GapSets :
        jobs' = [jobs EXCEPT ![bucket + 1] = NewJob(EvidenceOf(diagnoses, bucket + 1), gaps)]
  BY DEF HandOver
<1> DEFINE job == NewJob(EvidenceOf(diagnoses, bucket + 1), gaps)
<1>3. job \in Job
  BY <1>1, EvidenceOfType DEF NewJob, Job
<1>4. job.pc = "select" /\ job.existing = NoMatch
  BY DEF NewJob
<1> HIDE DEF job
<1>5. jobs' \in [Buckets -> Job] /\ JobShape'
  BY <1>1, <1>2, <1>3, <1>4, JobUpdate DEF HandOver, Exists, Shape, job
<1> QED
  BY <1>1, <1>5 DEF TypeOK, HandOver, Shape, TableShape, InvestigationShape, Exists

LEMMA FindLiveType ==
  ASSUME TypeOK, Shape, NEW b \in Buckets, FindLiveIncident(b)
  PROVE  TypeOK' /\ Shape'
<1> DEFINE e == NextEvidence(b)
<1>1. jobs[b] \in Job /\ HasEvidence(b)
  BY DEF TypeOK, FindLiveIncident
<1>2. /\ UNCHANGED <<rows, triple, bucket, investigated, investigations>>
      /\ \/ jobs' = [jobs EXCEPT ![b].pc = "write"]
         \/ \E id \in LiveIncidents(e) :
              jobs' = [jobs EXCEPT ![b].pc = "write", ![b].existing =
                [id |-> id, dims |-> rows[id].dims, source |-> triple[id].evidence.source]]
  BY DEF FindLiveIncident
<1> HIDE DEF e
<1>3. ASSUME jobs' = [jobs EXCEPT ![b].pc = "write"]
      PROVE  jobs' \in [Buckets -> Job] /\ JobShape'
  <2> DEFINE job == [jobs[b] EXCEPT !.pc = "write"]
  <2>1. /\ job \in Job /\ job.pc = "write"
        /\ job.opened = jobs[b].opened
        /\ job.evidence = jobs[b].evidence
        /\ job.existing = jobs[b].existing
    BY <1>1 DEF Job
  <2>2. jobs' = [jobs EXCEPT ![b] = job]
    BY <1>3
  <2> HIDE DEF job
  <2> QED
    BY <1>1, <1>2, <2>1, <2>2, JobUpdate DEF Exists, Shape, JobShape, HasEvidence
<1>4. ASSUME NEW id \in LiveIncidents(e),
             jobs' = [jobs EXCEPT ![b].pc = "write", ![b].existing =
               [id |-> id, dims |-> rows[id].dims, source |-> triple[id].evidence.source]]
      PROVE  jobs' \in [Buckets -> Job] /\ JobShape'
  <2> DEFINE found == [id |-> id, dims |-> rows[id].dims, source |-> triple[id].evidence.source]
  <2>1. id \in IncidentIds /\ rows[id] \in Row /\ Exists(id)
    BY <1>4, LiveIncidentsAreLive, LiveIsRow
  <2>2. triple[id].evidence \in Evidence
    BY <2>1 DEF Shape, TableShape
  <2>3. found \in Snapshot /\ found.id = id
    BY <2>1, <2>2 DEF Snapshot, Row, Evidence
  <2> DEFINE job == [jobs[b] EXCEPT !.pc = "write", !.existing = found]
  <2>4. jobs' = [jobs EXCEPT ![b] = job]
    BY <1>4
  <2> HIDE DEF found
  <2>5. /\ job \in Job /\ job.pc = "write"
        /\ job.opened = jobs[b].opened
        /\ job.evidence = jobs[b].evidence
        /\ job.existing = found
    BY <1>1, <2>3 DEF Job
  <2> HIDE DEF job
  <2> QED
    BY <1>1, <1>2, <2>1, <2>3, <2>4, <2>5, JobUpdate
       DEF Exists, Shape, JobShape, HasEvidence
<1>5. jobs' \in [Buckets -> Job] /\ JobShape'
  BY <1>2, <1>3, <1>4 DEF TypeOK, Shape
<1> QED
  BY <1>2, <1>5 DEF TypeOK, Shape, TableShape, InvestigationShape, Exists

\* A step that marks one evidence object written keeps the jobs well shaped.
LEMMA WrittenType ==
  ASSUME TypeOK, Shape, NEW b \in Buckets, NEW id \in IncidentIds, Written(b, id),
         \A i \in IncidentIds : Exists(i) => Exists(i)'
  PROVE  jobs' \in [Buckets -> Job] /\ JobShape'
<1>1. jobs[b] \in Job
  BY DEF TypeOK
<1> DEFINE opened == Append(jobs[b].opened, id)
           job == [jobs[b] EXCEPT !.pc = "select", !.existing = NoMatch, !.opened = opened]
<1>2. opened \in Seq(IncidentIds)
  BY <1>1, AppendProperties DEF Job
<1>3. jobs' = [jobs EXCEPT ![b] = job]
  BY DEF Written, TypeOK
<1> HIDE DEF opened
<1>4. job \in Job /\ job.pc = "select" /\ job.existing = NoMatch
  BY <1>1, <1>2 DEF Job
<1> HIDE DEF job
<1> QED
  BY <1>3, <1>4, JobUpdate DEF Shape

LEMMA ConfirmWiderType ==
  ASSUME TypeOK, Shape, NEW b \in Buckets, ConfirmWider(b)
  PROVE  TypeOK' /\ Shape'
<1> DEFINE e == NextEvidence(b)
           id == jobs[b].existing.id
<1>1. e \in Evidence
  BY NextEvidenceType DEF ConfirmWider, Shape, JobShape
<1>2. id \in IncidentIds /\ Exists(id)
  BY DEF ConfirmWider, Shape, JobShape, Snapshot
<1>3. rows[id] \in Row
  BY <1>2 DEF TypeOK, Exists
<1>4. /\ rows' = [rows EXCEPT ![id] = [@ EXCEPT !.detectedAt = e.at, !.status = "monitoring"]]
      /\ Written(b, id)
      /\ UNCHANGED <<triple, bucket, investigated, investigations>>
  BY DEF ConfirmWider
<1>5. [rows[id] EXCEPT !.detectedAt = e.at, !.status = "monitoring"] \in Row
  BY <1>1, <1>3 DEF Row, Evidence, LiveStatuses, ActiveStatuses
<1> HIDE DEF e, id
<1>6. rows' \in [IncidentIds -> Row \cup {NoRow}]
  BY <1>2, <1>4, <1>5 DEF TypeOK
<1>7. \A i \in IncidentIds : Exists(i) <=> rows'[i] # NoRow
  BY <1>2, <1>3, <1>4, <1>5 DEF TypeOK, Exists, Row, NoRow
<1> QED
  BY <1>2, <1>4, <1>6, <1>7, WrittenType
     DEF TypeOK, Shape, TableShape, InvestigationShape, Exists

LEMMA RemeasureType ==
  ASSUME TypeOK, Shape, NEW b \in Buckets, Remeasure(b)
  PROVE  TypeOK' /\ Shape'
<1> DEFINE e == NextEvidence(b)
           id == jobs[b].existing.id
<1>1. e \in Evidence
  BY NextEvidenceType DEF Remeasure, Shape, JobShape
<1>2. id \in IncidentIds /\ Exists(id)
  BY DEF Remeasure, Shape, JobShape, Snapshot
<1>3. rows[id] \in Row
  BY <1>2 DEF TypeOK, Exists
<1>4. /\ rows' = [rows EXCEPT ![id] = [Measured(@, e) EXCEPT !.status = "monitoring"]]
      /\ triple' = triple \/ triple' = [triple EXCEPT ![id].evidence = e]
      /\ Written(b, id)
      /\ UNCHANGED <<bucket, investigated, investigations>>
  BY DEF Remeasure
<1>5. [Measured(rows[id], e) EXCEPT !.status = "monitoring"] \in Row
  BY <1>1, <1>3 DEF Measured, Row, Evidence, LiveStatuses, ActiveStatuses
<1> HIDE DEF e, id
<1>6. rows' \in [IncidentIds -> Row \cup {NoRow}]
  BY <1>2, <1>4, <1>5 DEF TypeOK
<1>7. \A i \in IncidentIds : Exists(i) <=> rows'[i] # NoRow
  BY <1>2, <1>3, <1>4, <1>5 DEF TypeOK, Exists, Row, NoRow
<1>8. /\ triple' \in [IncidentIds -> Triple]
      /\ \A i \in IncidentIds : triple'[i].evidence = triple[i].evidence
                               \/ triple'[i].evidence = e
  BY <1>1, <1>2, <1>4 DEF TypeOK, Triple
<1> QED
  BY <1>1, <1>2, <1>4, <1>6, <1>7, <1>8, WrittenType
     DEF TypeOK, Shape, TableShape, InvestigationShape, Exists

LEMMA InsertType ==
  ASSUME TypeOK, Shape, NEW b \in Buckets, InsertIncident(b)
  PROVE  TypeOK' /\ Shape'
<1> DEFINE e == NextEvidence(b)
<1>1. e \in Evidence
  BY NextEvidenceType DEF InsertIncident, Shape, JobShape
<1>2. PICK id \in IncidentIds :
        /\ ~Exists(id)
        /\ rows' = [rows EXCEPT ![id] =
             [status |-> "open", dims |-> e.cell, code |-> e.code,
              detectedAt |-> e.at, resolvedAt |-> 0]]
        /\ triple' = [triple EXCEPT ![id] = [evidence |-> e, narrative |-> NoEvidence]]
        /\ Written(b, id)
  BY DEF InsertIncident
<1> DEFINE row == [status |-> "open", dims |-> e.cell, code |-> e.code,
                   detectedAt |-> e.at, resolvedAt |-> 0]
<1>3. row \in Row /\ row # NoRow
  BY <1>1 DEF Row, NoRow, Evidence, LiveStatuses, ActiveStatuses
<1>4. rows' = [rows EXCEPT ![id] = row]
  BY <1>2
<1> HIDE DEF row, e
<1>5. /\ rows' \in [IncidentIds -> Row \cup {NoRow}]
      /\ \A i \in IncidentIds : Exists(i) => rows'[i] # NoRow
      /\ \A i \in IncidentIds : rows'[i] # NoRow => Exists(i) \/ i = id
  BY <1>3, <1>4 DEF TypeOK, Exists
<1>6. /\ triple' \in [IncidentIds -> Triple]
      /\ triple'[id].evidence = e
      /\ \A i \in IncidentIds : i # id => triple'[i] = triple[i]
  BY <1>1, <1>2 DEF TypeOK, Triple
<1> QED
  BY <1>1, <1>2, <1>5, <1>6, WrittenType
     DEF InsertIncident, TypeOK, Shape, TableShape, InvestigationShape, Exists

LEMMA PlanType ==
  ASSUME TypeOK, Shape, NEW b \in Buckets, PlanTransitions(b)
  PROVE  TypeOK' /\ Shape'
<1>1. jobs[b] \in Job
  BY DEF TypeOK
<1>2. PICK resolve \in SUBSET IncidentIds, giveUp \in SUBSET IncidentIds,
           pc \in {"resolve", "giveUp", "launch"} :
        jobs' = [jobs EXCEPT ![b].resolve = resolve, ![b].inconclusive = giveUp, ![b].pc = pc]
  BY DEF PlanTransitions
<1> DEFINE job == [jobs[b] EXCEPT !.resolve = resolve, !.inconclusive = giveUp, !.pc = pc]
<1>3. jobs' = [jobs EXCEPT ![b] = job]
  BY <1>2
<1>4. job \in Job /\ job.pc # "write" /\ job.existing = jobs[b].existing
  BY <1>1 DEF Job
<1> HIDE DEF job
<1>5. /\ UNCHANGED <<rows, triple, bucket, investigated, investigations>>
      /\ jobs[b].pc = "select"
  BY DEF PlanTransitions
<1>6. jobs' \in [Buckets -> Job] /\ JobShape'
  BY <1>3, <1>4, <1>5, JobUpdate DEF Exists, Shape, JobShape
<1> QED
  BY <1>5, <1>6 DEF TypeOK, Shape, TableShape, InvestigationShape, Exists

\* Moving the job on to a control state other than "write" keeps its shape.
LEMMA ControlMoves ==
  ASSUME TypeOK, Shape, NEW b \in Buckets, NEW pc \in {"giveUp", "launch"},
         jobs[b].pc # "write",
         jobs' = [jobs EXCEPT ![b].pc = pc],
         \A i \in IncidentIds : Exists(i) => Exists(i)'
  PROVE  jobs' \in [Buckets -> Job] /\ JobShape'
<1>1. jobs[b] \in Job
  BY DEF TypeOK
<1> DEFINE job == [jobs[b] EXCEPT !.pc = pc]
<1>2. jobs' = [jobs EXCEPT ![b] = job]
  OBVIOUS
<1>3. job \in Job /\ job.pc # "write" /\ job.existing = jobs[b].existing
  BY <1>1 DEF Job
<1> HIDE DEF job
<1>4. job.existing = NoMatch /\ JobShape
  BY <1>3 DEF Shape, JobShape
<1> QED
  BY <1>2, <1>3, <1>4, JobUpdate

LEMMA ResolveType ==
  ASSUME TypeOK, Shape, NEW b \in Buckets, ResolveQuiet(b)
  PROVE  TypeOK' /\ Shape'
<1>1. /\ rows' \in [IncidentIds -> Row \cup {NoRow}]
      /\ \A i \in IncidentIds : Exists(i) <=> Exists(i)'
  <2> DEFINE retired(i) == [rows[i] EXCEPT !.status = "resolved", !.resolvedAt = b]
  <2>1. \A i \in IncidentIds : Active(i) => rows[i] \in Row
    BY DEF TypeOK, Active, ActiveStatuses, NoRow
  <2>2. \A i \in IncidentIds : Active(i) => retired(i) \in Row /\ retired(i) # NoRow
    BY <2>1 DEF Row, NoRow
  <2>3. rows' = [i \in IncidentIds |->
                  IF i \in jobs[b].resolve /\ Active(i) THEN retired(i) ELSE rows[i]]
    BY DEF ResolveQuiet
  <2> HIDE DEF retired
  <2>4. ASSUME NEW i \in IncidentIds
        PROVE  /\ rows'[i] \in Row \cup {NoRow}
               /\ Exists(i) <=> rows'[i] # NoRow
    <3>1. CASE rows'[i] = rows[i]
      BY <3>1 DEF TypeOK, Exists
    <3>2. CASE Active(i) /\ rows'[i] = retired(i)
      BY <2>1, <2>2, <3>2, LiveIsRow DEF Live, Active, LiveStatuses
    <3> QED
      BY <2>3, <3>1, <3>2
  <2> QED
    BY <2>3, <2>4 DEF Exists
<1>2. jobs' \in [Buckets -> Job] /\ JobShape'
  BY <1>1, ControlMoves DEF ResolveQuiet
<1> QED
  BY <1>1, <1>2 DEF ResolveQuiet, TypeOK, Shape, TableShape, InvestigationShape

LEMMA GiveUpType ==
  ASSUME TypeOK, Shape, NEW b \in Buckets, GiveUpQuiet(b)
  PROVE  TypeOK' /\ Shape'
<1>1. /\ rows' \in [IncidentIds -> Row \cup {NoRow}]
      /\ \A i \in IncidentIds : Exists(i) <=> Exists(i)'
  <2> DEFINE dropped(i) == [rows[i] EXCEPT !.status = "inconclusive"]
  <2>1. \A i \in IncidentIds : Active(i) => rows[i] \in Row
    BY DEF TypeOK, Active, ActiveStatuses, NoRow
  <2>2. \A i \in IncidentIds : Active(i) => dropped(i) \in Row /\ dropped(i) # NoRow
    BY <2>1 DEF Row, NoRow, LiveStatuses
  <2>3. rows' = [i \in IncidentIds |->
                  IF i \in jobs[b].inconclusive /\ Active(i) THEN dropped(i) ELSE rows[i]]
    BY DEF GiveUpQuiet
  <2> HIDE DEF dropped
  <2>4. ASSUME NEW i \in IncidentIds
        PROVE  /\ rows'[i] \in Row \cup {NoRow}
               /\ Exists(i) <=> rows'[i] # NoRow
    <3>1. CASE rows'[i] = rows[i]
      BY <3>1 DEF TypeOK, Exists
    <3>2. CASE Active(i) /\ rows'[i] = dropped(i)
      BY <2>1, <2>2, <3>2, LiveIsRow DEF Live, Active, LiveStatuses
    <3> QED
      BY <2>3, <3>1, <3>2
  <2> QED
    BY <2>3, <2>4 DEF Exists
<1>2. jobs' \in [Buckets -> Job] /\ JobShape'
  BY <1>1, ControlMoves DEF GiveUpQuiet
<1> QED
  BY <1>1, <1>2 DEF GiveUpQuiet, TypeOK, Shape, TableShape, InvestigationShape

LEMMA IdleJobType == IdleJob \in Job /\ IdleJob.pc # "write" /\ IdleJob.existing = NoMatch
BY DEF IdleJob, Job

LEMMA LaunchType ==
  ASSUME TypeOK, Shape, NEW b \in Buckets, Launch(b)
  PROVE  TypeOK' /\ Shape'
<1> DEFINE opened == {jobs[b].opened[i] : i \in DOMAIN jobs[b].opened}
           launched == [pc |-> "investigating", stage |-> "agent", at |-> b,
                        input |-> NoEvidence]
<1>1. opened \subseteq IncidentIds
  <2>1. jobs[b].opened \in Seq(IncidentIds)
    BY DEF TypeOK, Job
  <2> QED
    BY <2>1, ElementOfSeq
<1>2. launched \in Investigation /\ launched.at \in Buckets /\ launched.pc # "attaching"
  BY DEF Investigation
<1>3. /\ investigated' = investigated \cup (opened \ investigated)
      /\ investigations' = [id \in IncidentIds |->
           IF id \in opened \ investigated THEN launched ELSE investigations[id]]
      /\ jobs' = [jobs EXCEPT ![b] = IdleJob]
      /\ UNCHANGED <<rows, triple, bucket>>
  BY DEF Launch
<1> HIDE DEF opened, launched
<1>4. jobs' \in [Buckets -> Job] /\ JobShape'
  BY <1>3, IdleJobType, JobUpdate DEF Shape, Exists
<1>5. investigations' \in [IncidentIds -> Investigation] /\ InvestigationShape'
  BY <1>2, <1>3 DEF TypeOK, Shape, InvestigationShape
<1> QED
  BY <1>1, <1>3, <1>4, <1>5 DEF TypeOK, Shape, TableShape, Exists

LEMMA FailJobType ==
  ASSUME TypeOK, Shape, NEW b \in Buckets, FailJob(b)
  PROVE  TypeOK' /\ Shape'
<1>1. jobs' \in [Buckets -> Job] /\ JobShape'
  BY IdleJobType, JobUpdate DEF FailJob, Shape, Exists
<1> QED
  BY <1>1 DEF FailJob, TypeOK, Shape, TableShape, InvestigationShape, Exists

\* Replacing one investigation by a well-shaped one.
LEMMA InvestigationUpdate ==
  ASSUME TypeOK, Shape, NEW id \in IncidentIds, NEW inv \in Investigation,
         investigations' = [investigations EXCEPT ![id] = inv],
         inv.pc # "idle" => inv.at \in Buckets,
         inv.pc = "attaching" => inv.input \in Evidence
  PROVE  investigations' \in [IncidentIds -> Investigation] /\ InvestigationShape'
BY DEF TypeOK, Shape, InvestigationShape

LEMMA SelectType ==
  ASSUME TypeOK, Shape, NEW id \in IncidentIds, SelectForNarrative(id)
  PROVE  TypeOK' /\ Shape'
<1>1. /\ investigations[id] \in Investigation
      /\ investigations[id].pc = "investigating"
      /\ investigations[id].at \in Buckets
  BY DEF TypeOK, SelectForNarrative, Shape, InvestigationShape
<1>2. PICK cell \in Cells, code \in Codes :
        LET e == [cell |-> cell, code |-> code, at |-> investigations[id].at,
                  source |-> SourceOf(investigations[id].stage)]
        IN investigations' = [investigations EXCEPT ![id] =
             IF Refused(id, e) THEN [@ EXCEPT !.pc = "recording"]
             ELSE [@ EXCEPT !.pc = "attaching", !.input = e]]
  BY DEF SelectForNarrative
<1> DEFINE e == [cell |-> cell, code |-> code, at |-> investigations[id].at,
                 source |-> SourceOf(investigations[id].stage)]
           refused == [investigations[id] EXCEPT !.pc = "recording"]
           attaching == [investigations[id] EXCEPT !.pc = "attaching", !.input = e]
<1>3. e \in Evidence
  BY <1>1 DEF Evidence, SourceOf, Sources
<1>4. \/ investigations' = [investigations EXCEPT ![id] = refused]
      \/ investigations' = [investigations EXCEPT ![id] = attaching]
  BY <1>2 DEF TypeOK
<1> HIDE DEF e
<1>5. /\ refused \in Investigation /\ refused.pc # "attaching"
      /\ refused.at = investigations[id].at
  BY <1>1 DEF Investigation
<1>6. /\ attaching \in Investigation
      /\ attaching.at = investigations[id].at
      /\ attaching.input = e
  BY <1>1, <1>3 DEF Investigation
<1> HIDE DEF refused, attaching
<1>7. investigations' \in [IncidentIds -> Investigation] /\ InvestigationShape'
  BY <1>1, <1>3, <1>4, <1>5, <1>6, InvestigationUpdate
<1> QED
  BY <1>7 DEF SelectForNarrative, TypeOK, Shape, TableShape, JobShape, HasEvidence, Exists

LEMMA AttachType ==
  ASSUME TypeOK, Shape, NEW id \in IncidentIds, AttachNarrative(id)
  PROVE  TypeOK' /\ Shape'
<1> DEFINE input == investigations[id].input
           written == [evidence |-> input, narrative |-> input]
           inv == [investigations[id] EXCEPT !.pc = "recording", !.input = NoEvidence]
<1>1. /\ investigations[id] \in Investigation
      /\ investigations[id].at \in Buckets
      /\ input \in Evidence
  BY DEF TypeOK, AttachNarrative, Shape, InvestigationShape
<1>2. /\ triple' = [triple EXCEPT ![id] = written]
      /\ investigations' = [investigations EXCEPT ![id] = inv]
      /\ UNCHANGED <<rows, bucket, jobs, investigated>>
  BY DEF AttachNarrative
<1>3. /\ inv \in Investigation /\ inv.pc = "recording"
      /\ inv.at = investigations[id].at
  BY <1>1 DEF Investigation
<1> HIDE DEF input
<1>4. written \in Triple /\ written.evidence \in Evidence
  BY <1>1 DEF Triple
<1> HIDE DEF inv, written
<1>5. investigations' \in [IncidentIds -> Investigation] /\ InvestigationShape'
  BY <1>1, <1>2, <1>3, InvestigationUpdate
<1>6. triple' \in [IncidentIds -> Triple] /\ TableShape'
  BY <1>2, <1>4 DEF TypeOK, Shape, TableShape, Exists
<1> QED
  BY <1>2, <1>5, <1>6 DEF TypeOK, Shape, JobShape, HasEvidence, Exists

LEMMA IdleInvestigationType ==
  IdleInvestigation \in Investigation /\ IdleInvestigation.pc = "idle"
BY DEF IdleInvestigation, Investigation

LEMMA FinishType ==
  ASSUME TypeOK, Shape, NEW id \in IncidentIds, FinishInvestigation(id)
  PROVE  TypeOK' /\ Shape'
<1>1. investigations' \in [IncidentIds -> Investigation] /\ InvestigationShape'
  BY IdleInvestigationType, InvestigationUpdate DEF FinishInvestigation
<1> QED
  BY <1>1 DEF FinishInvestigation, TypeOK, Shape, TableShape, JobShape, HasEvidence, Exists

LEMMA FailInvestigationType ==
  ASSUME TypeOK, Shape, NEW id \in IncidentIds, FailInvestigation(id)
  PROVE  TypeOK' /\ Shape'
<1>1. /\ investigations[id] \in Investigation
      /\ investigations[id].at \in Buckets
  BY DEF TypeOK, FailInvestigation, Shape, InvestigationShape
<1>2. PICK stage \in {"none", "fallback", "last"} :
        investigations' = [investigations EXCEPT ![id] =
          IF stage = "none" THEN IdleInvestigation
          ELSE [@ EXCEPT !.pc = "investigating", !.stage = stage, !.input = NoEvidence]]
  BY DEF FailInvestigation, NextStages
<1> DEFINE again == [investigations[id] EXCEPT !.pc = "investigating", !.stage = stage,
                                               !.input = NoEvidence]
<1>3. \/ investigations' = [investigations EXCEPT ![id] = IdleInvestigation]
      \/ investigations' = [investigations EXCEPT ![id] = again]
  BY <1>2 DEF TypeOK
<1>4. /\ again \in Investigation /\ again.pc = "investigating"
      /\ again.at = investigations[id].at
  BY <1>1 DEF Investigation
<1> HIDE DEF again
<1>5. investigations' \in [IncidentIds -> Investigation] /\ InvestigationShape'
  BY <1>1, <1>3, <1>4, IdleInvestigationType, InvestigationUpdate
<1> QED
  BY <1>5 DEF FailInvestigation, TypeOK, Shape, TableShape, JobShape, HasEvidence, Exists

LEMMA RestartType ==
  ASSUME TypeOK, Shape, Restart
  PROVE  TypeOK' /\ Shape'
<1>1. jobs' \in [Buckets -> Job] /\ JobShape'
  BY IdleJobType DEF Restart, JobShape
<1>2. investigations' \in [IncidentIds -> Investigation] /\ InvestigationShape'
  BY IdleInvestigationType DEF Restart, InvestigationShape
<1> QED
  BY <1>1, <1>2 DEF Restart, TypeOK, Shape, TableShape, Exists

LEMMA TypeStep == TypeOK /\ Shape /\ [Next]_vars => TypeOK' /\ Shape'
<1> SUFFICES ASSUME TypeOK, Shape, [Next]_vars PROVE TypeOK' /\ Shape'
  OBVIOUS
<1>1. CASE HandOver
  BY <1>1, HandOverType
<1>2. CASE MissWindow
  BY <1>2, IncidentsAssumption
     DEF MissWindow, TypeOK, Buckets, Shape, TableShape, JobShape, InvestigationShape,
         HasEvidence, Exists
<1>3. ASSUME NEW b \in Buckets, JobStep(b) PROVE TypeOK' /\ Shape'
  BY <1>3, FindLiveType, ConfirmWiderType, RemeasureType, InsertType, PlanType,
     ResolveType, GiveUpType, LaunchType, FailJobType DEF JobStep
<1>4. ASSUME NEW id \in IncidentIds, InvestigationStep(id) PROVE TypeOK' /\ Shape'
  BY <1>4, SelectType, AttachType, FinishType, FailInvestigationType
     DEF InvestigationStep
<1>5. CASE Restart
  BY <1>5, RestartType
<1>6. CASE UNCHANGED vars
  BY <1>6 DEF vars, TypeOK, Shape, TableShape, JobShape, InvestigationShape, HasEvidence, Exists
<1> QED
  BY <1>1, <1>2, <1>3, <1>4, <1>5, <1>6 DEF Next

\* The table, the queue and the investigations are well typed in every
\* reachable state, whatever the number of incidents, windows and cells.
THEOREM TypeCorrect == Spec => [](TypeOK /\ Shape)
BY InitType, TypeStep, PTL DEF Spec

THEOREM TypeSafety == Spec => []TypeOK
BY TypeCorrect, PTL

------------------------------------------------------------------------------
(* The agent's triple. *)

LEMMA TripleStep ==
  ASSUME TypeOK, Shape, AgentTripleTogether, [Next]_vars
  PROVE  AgentTripleTogether'
<1>1. CASE UNCHANGED triple
  BY <1>1 DEF AgentTripleTogether
<1>2. ASSUME NEW b \in Buckets, Remeasure(b) PROVE AgentTripleTogether'
  <2> DEFINE e == NextEvidence(b)
             id == jobs[b].existing.id
  <2>1. e \in Reading
    BY <1>2, NextEvidenceType DEF Remeasure, Shape, JobShape
  <2>2. triple' = triple \/ triple' = [triple EXCEPT ![id].evidence = e]
    BY <1>2 DEF Remeasure
  <2>3. id \in IncidentIds
    BY <1>2 DEF Remeasure, Shape, JobShape, Snapshot
  <2> HIDE DEF e, id
  <2> QED
    BY <2>1, <2>2, <2>3 DEF AgentTripleTogether, TypeOK, Triple, Reading
<1>3. ASSUME NEW b \in Buckets, InsertIncident(b) PROVE AgentTripleTogether'
  <2> DEFINE e == NextEvidence(b)
  <2>1. e \in Reading
    BY <1>3, NextEvidenceType DEF InsertIncident, Shape, JobShape
  <2>2. PICK id \in IncidentIds :
          triple' = [triple EXCEPT ![id] = [evidence |-> e, narrative |-> NoEvidence]]
    BY <1>3 DEF InsertIncident
  <2> HIDE DEF e
  <2> QED
    BY <2>1, <2>2 DEF AgentTripleTogether, TypeOK, Reading
<1>4. ASSUME NEW id \in IncidentIds, AttachNarrative(id) PROVE AgentTripleTogether'
  BY <1>4 DEF AttachNarrative, AgentTripleTogether, TypeOK
<1> QED
  BY <1>1, <1>2, <1>3, <1>4
     DEF Next, JobStep, InvestigationStep, HandOver, MissWindow, FindLiveIncident,
         ConfirmWider, PlanTransitions, ResolveQuiet, GiveUpQuiet, Launch, FailJob,
         SelectForNarrative, FinishInvestigation, FailInvestigation, Restart, vars

\* The agent's evidence never stands beside prose written from another object,
\* for any number of incidents, windows and concurrent investigations.
THEOREM AgentTriple == Spec => []AgentTripleTogether
<1>1. Init => AgentTripleTogether
  BY DEF Init, AgentTripleTogether, NoEvidence
<1>2. TypeOK /\ Shape /\ AgentTripleTogether /\ [Next]_vars => AgentTripleTogether'
  BY TripleStep
<1> QED
  BY <1>1, <1>2, TypeCorrect, PTL DEF Spec
------------------------------------------------------------------------------
(* The table and the running job. *)

\* The tail runs one job at a time, in window order.
Serial ==
  /\ \A b \in Buckets : jobs[b].pc = "idle" => jobs[b] = IdleJob
  /\ \A b \in Buckets : b > bucket => jobs[b].pc = "idle"
  /\ \A b \in Buckets : jobs[b].pc \notin {"idle", "select"} => Runnable(b)
  /\ \A b \in Buckets : jobs[b].pc # "idle" => jobs[b].gaps \in GapSets
  /\ \A b \in Buckets : jobs[b].pc \in {"resolve", "giveUp", "launch"} => ~HasEvidence(b)

\* The running job's snapshot and plan still describe the table.
FreshJob(b) ==
  /\ jobs[b].pc = "write" /\ jobs[b].existing = NoMatch =>
       Matches(NextEvidence(b)) = {}
  /\ jobs[b].pc = "write" /\ jobs[b].existing # NoMatch =>
       /\ jobs[b].existing.id \in Matches(NextEvidence(b))
       /\ jobs[b].existing.dims = rows[jobs[b].existing.id].dims
  /\ jobs[b].pc = "resolve" =>
       \A id \in IncidentIds : id \in jobs[b].resolve <=>
         Quiet(id, b) /\ ~LostVolume(id, jobs[b].gaps)
  /\ jobs[b].pc \in {"resolve", "giveUp"} =>
       \A id \in IncidentIds : id \in jobs[b].inconclusive <=>
         Quiet(id, b) /\ LostVolume(id, jobs[b].gaps)
  /\ jobs[b].pc = "giveUp" =>
       \A id \in IncidentIds : Quiet(id, b) => LostVolume(id, jobs[b].gaps)
  /\ jobs[b].pc = "launch" => \A id \in IncidentIds : ~Quiet(id, b)

Fresh == \A b \in Buckets : FreshJob(b)

IInv == TypeOK /\ Shape /\ Serial /\ Fresh

------------------------------------------------------------------------------
(* The tail. *)

\* While a job runs, every other one has not started.
LEMMA OthersWait ==
  ASSUME Serial, NEW b \in Buckets, Runnable(b), NEW c \in Buckets, c # b
  PROVE  jobs[c].pc \in {"idle", "select"}
BY RunnableIsUnique DEF Serial

LEMMA InitOrder == Init => Serial /\ Fresh
<1> SUFFICES ASSUME Init PROVE Serial /\ Fresh
  OBVIOUS
<1>1. \A b \in Buckets : jobs[b] = IdleJob /\ jobs[b].pc = "idle"
  BY DEF Init, IdleJob
<1> QED
  BY <1>1 DEF Serial, Fresh, FreshJob

\* A step of the running job b: it hands over to nobody else.
LEMMA SerialJob ==
  ASSUME Serial, NEW b \in Buckets, Runnable(b), UNCHANGED bucket,
         \A c \in Buckets : c # b => jobs'[c] = jobs[c],
         jobs'[b].pc = "idle" => jobs'[b] = IdleJob,
         jobs'[b].pc # "idle" => jobs'[b].gaps = jobs[b].gaps,
         jobs'[b].pc \in {"resolve", "giveUp", "launch"} => ~HasEvidence(b)'
  PROVE  Serial'
<1>1. jobs[b].pc # "idle" /\ jobs[b].gaps \in GapSets
  BY DEF Runnable, Serial
<1>2. \A c \in Buckets : c # b => jobs[c].pc \in {"idle", "select"}
  BY OthersWait
<1>3. \A c \in Buckets : c < b => jobs'[c].pc = "idle"
  BY DEF Runnable, Buckets
<1>4. \A c \in Buckets : c > bucket' => jobs'[c].pc = "idle"
  BY <1>1 DEF Serial
<1>5. ASSUME NEW c \in Buckets, jobs'[c].pc \notin {"idle", "select"} PROVE Runnable(c)'
  <2>1. c = b
    BY <1>2, <1>5
  <2> QED
    BY <1>3, <1>5, <2>1 DEF Runnable
<1>6. \A c \in Buckets : /\ jobs'[c].pc = "idle" => jobs'[c] = IdleJob
                         /\ jobs'[c].pc # "idle" => jobs'[c].gaps \in GapSets
  BY <1>1 DEF Serial
<1>7. \A c \in Buckets : jobs'[c].pc \in {"resolve", "giveUp", "launch"} =>
        ~(Len(jobs'[c].opened) < Len(jobs'[c].evidence))
  BY DEF Serial, HasEvidence
<1> QED
  BY <1>4, <1>5, <1>6, <1>7 DEF Serial, HasEvidence

\* The jobs that do not run have read nothing that could go stale.
LEMMA FreshJobs ==
  ASSUME Serial, NEW b \in Buckets, Runnable(b), FreshJob(b)',
         \A c \in Buckets : c # b => jobs'[c] = jobs[c]
  PROVE  Fresh'
<1>1. ASSUME NEW c \in Buckets, c # b PROVE FreshJob(c)'
  <2>1. jobs'[c].pc \in {"idle", "select"}
    BY <1>1, OthersWait
  <2> QED
    BY <2>1 DEF FreshJob
<1> QED
  BY <1>1 DEF Fresh

------------------------------------------------------------------------------
(* One lemma for each statement of a job. *)

LEMMA FindLiveOrder ==
  ASSUME TypeOK, Shape, Serial, Fresh, NEW b \in Buckets, FindLiveIncident(b)
  PROVE  Serial' /\ Fresh'
<1> DEFINE e == NextEvidence(b)
<1>1. jobs[b] \in Job /\ Runnable(b)
  BY DEF TypeOK, FindLiveIncident
<1>2. /\ UNCHANGED <<rows, bucket>>
      /\ \/ Matches(e) = {} /\ jobs' = [jobs EXCEPT ![b].pc = "write"]
         \/ \E id \in LiveIncidents(e) :
              jobs' = [jobs EXCEPT ![b].pc = "write", ![b].existing =
                [id |-> id, dims |-> rows[id].dims, source |-> triple[id].evidence.source]]
  BY DEF FindLiveIncident
<1> HIDE DEF e
<1>3. /\ \A c \in Buckets : c # b => jobs'[c] = jobs[c]
      /\ jobs'[b].pc = "write"
      /\ jobs'[b].gaps = jobs[b].gaps
      /\ jobs'[b].evidence = jobs[b].evidence
      /\ jobs'[b].opened = jobs[b].opened
      /\ \/ Matches(e) = {} /\ jobs'[b].existing = NoMatch
         \/ \E id \in LiveIncidents(e) :
              /\ jobs'[b].existing # NoMatch
              /\ jobs'[b].existing.id = id
              /\ jobs'[b].existing.dims = rows[id].dims
  <2>1. CASE Matches(e) = {} /\ jobs' = [jobs EXCEPT ![b].pc = "write"]
    <3>1. jobs[b].existing = NoMatch
      BY DEF FindLiveIncident, Shape, JobShape
    <3> QED
      BY <1>1, <2>1, <3>1 DEF TypeOK, Job
  <2>2. ASSUME NEW id \in LiveIncidents(e), NEW found,
               found = [id |-> id, dims |-> rows[id].dims,
                        source |-> triple[id].evidence.source],
               jobs' = [jobs EXCEPT ![b].pc = "write", ![b].existing = found]
        PROVE  <1>3!:
    <3>1. found.id = id /\ found.dims = rows[id].dims /\ found # NoMatch
      BY <2>2 DEF NoMatch
    <3>2. /\ \A c \in Buckets : c # b => jobs'[c] = jobs[c]
          /\ jobs'[b] = [jobs[b] EXCEPT !.pc = "write", !.existing = found]
      BY <2>2 DEF TypeOK
    <3>3. /\ jobs'[b].pc = "write"
          /\ jobs'[b].gaps = jobs[b].gaps
          /\ jobs'[b].evidence = jobs[b].evidence
          /\ jobs'[b].opened = jobs[b].opened
          /\ jobs'[b].existing = found
      BY <1>1, <3>2 DEF Job
    <3> QED
      BY <3>1, <3>2, <3>3
  <2> QED
    BY <1>2, <2>1, <2>2
<1>4. Serial'
  BY <1>1, <1>2, <1>3, SerialJob
<1>5. Matches(NextEvidence(b))' = Matches(e)
  <2>1. NextEvidence(b)' = e /\ rows' = rows
    BY <1>2, <1>3 DEF NextEvidence, e
  <2> QED
    BY <2>1 DEF Matches, Live
<1>6. FreshJob(b)'
  <2>1. jobs'[b].existing = NoMatch => Matches(e) = {}
    BY <1>3
  <2>2. jobs'[b].existing # NoMatch =>
          /\ jobs'[b].existing.id \in Matches(e)
          /\ jobs'[b].existing.dims = rows'[jobs'[b].existing.id].dims
    BY <1>2, <1>3, LiveIncidentsAreLive
  <2> QED
    BY <1>3, <1>5, <2>1, <2>2 DEF FreshJob
<1> QED
  BY <1>1, <1>3, <1>4, <1>6, FreshJobs

\* A step that marks an evidence object written leaves nothing half done.
LEMMA WrittenOrder ==
  ASSUME TypeOK, Serial, NEW b \in Buckets, Runnable(b), NEW id, Written(b, id),
         UNCHANGED bucket
  PROVE  Serial' /\ Fresh'
<1>1. jobs[b] \in Job
  BY DEF TypeOK
<1> DEFINE opened == Append(jobs[b].opened, id)
<1>2. jobs' = [jobs EXCEPT ![b].pc = "select", ![b].existing = NoMatch, ![b].opened = opened]
  BY DEF Written, TypeOK
<1> HIDE DEF opened
<1>3. /\ \A c \in Buckets : c # b => jobs'[c] = jobs[c]
      /\ jobs'[b].pc = "select"
      /\ jobs'[b].gaps = jobs[b].gaps
  BY <1>1, <1>2 DEF TypeOK, Job
<1>4. Serial'
  BY <1>3, SerialJob
<1>5. FreshJob(b)'
  BY <1>3 DEF FreshJob
<1> QED
  BY <1>3, <1>4, <1>5, FreshJobs

LEMMA PlanOrder ==
  ASSUME TypeOK, Serial, NEW b \in Buckets, PlanTransitions(b)
  PROVE  Serial' /\ Fresh'
<1> DEFINE resolve == {id \in IncidentIds : Quiet(id, b) /\ ~LostVolume(id, jobs[b].gaps)}
           giveUp  == {id \in IncidentIds : Quiet(id, b) /\ LostVolume(id, jobs[b].gaps)}
           pc == IF resolve # {} THEN "resolve" ELSE IF giveUp # {} THEN "giveUp" ELSE "launch"
<1>1. jobs[b] \in Job /\ Runnable(b) /\ ~HasEvidence(b) /\ rows' = rows /\ bucket' = bucket
  BY DEF TypeOK, PlanTransitions
<1>2. jobs' = [jobs EXCEPT ![b].resolve = resolve, ![b].inconclusive = giveUp, ![b].pc = pc]
  BY DEF PlanTransitions
<1>3. /\ \A id \in IncidentIds : id \in resolve <=> Quiet(id, b) /\ ~LostVolume(id, jobs[b].gaps)
      /\ \A id \in IncidentIds : id \in giveUp <=> Quiet(id, b) /\ LostVolume(id, jobs[b].gaps)
      /\ resolve \subseteq IncidentIds /\ giveUp \subseteq IncidentIds
  OBVIOUS
<1>4. /\ pc = "resolve" \/ (pc = "giveUp" /\ resolve = {})
                       \/ (pc = "launch" /\ resolve = {} /\ giveUp = {})
  OBVIOUS
<1> HIDE DEF resolve, giveUp, pc
<1>5. /\ \A c \in Buckets : c # b => jobs'[c] = jobs[c]
      /\ jobs'[b].pc = pc
      /\ jobs'[b].resolve = resolve
      /\ jobs'[b].inconclusive = giveUp
      /\ jobs'[b].gaps = jobs[b].gaps
      /\ jobs'[b].evidence = jobs[b].evidence
      /\ jobs'[b].opened = jobs[b].opened
  BY <1>1, <1>2 DEF TypeOK, Job
<1>6. Serial'
  BY <1>1, <1>4, <1>5, SerialJob DEF HasEvidence
<1>7. FreshJob(b)'
  BY <1>1, <1>3, <1>4, <1>5 DEF FreshJob, Quiet, Active, LostVolume
<1> QED
  BY <1>1, <1>5, <1>6, <1>7, FreshJobs

LEMMA ResolveOrder ==
  ASSUME TypeOK, Serial, Fresh, NEW b \in Buckets, ResolveQuiet(b)
  PROVE  Serial' /\ Fresh'
<1>1. jobs[b] \in Job /\ Runnable(b) /\ ~HasEvidence(b) /\ bucket' = bucket
  BY DEF TypeOK, ResolveQuiet, Serial
<1>2. /\ \A c \in Buckets : c # b => jobs'[c] = jobs[c]
      /\ jobs'[b].pc = IF jobs[b].inconclusive # {} THEN "giveUp" ELSE "launch"
      /\ jobs'[b].inconclusive = jobs[b].inconclusive
      /\ jobs'[b].gaps = jobs[b].gaps
      /\ jobs'[b].evidence = jobs[b].evidence
      /\ jobs'[b].opened = jobs[b].opened
  BY <1>1 DEF ResolveQuiet, TypeOK, Job
<1>3. /\ \A id \in IncidentIds : id \in jobs[b].resolve <=>
           Quiet(id, b) /\ ~LostVolume(id, jobs[b].gaps)
      /\ \A id \in IncidentIds : id \in jobs[b].inconclusive <=>
           Quiet(id, b) /\ LostVolume(id, jobs[b].gaps)
  BY DEF ResolveQuiet, Fresh, FreshJob
<1>4. \A id \in IncidentIds :
        rows'[id] = IF id \in jobs[b].resolve /\ Active(id)
                      THEN [rows[id] EXCEPT !.status = "resolved", !.resolvedAt = b]
                      ELSE rows[id]
  BY DEF ResolveQuiet
<1>5. \A id \in IncidentIds :
        IF id \in jobs[b].resolve THEN ~Active(id)' ELSE rows'[id] = rows[id]
  <2>1. \A id \in IncidentIds : Active(id) => rows[id] \in Row
    BY LiveIsRow DEF Live, Active, LiveStatuses
  <2>2. \A id \in IncidentIds : id \in jobs[b].resolve => Active(id)
    BY <1>3 DEF Quiet
  <2> QED
    BY <1>4, <2>1, <2>2 DEF Active, ActiveStatuses, Row
<1>6. Serial'
  BY <1>1, <1>2, SerialJob DEF HasEvidence
<1>7. \A id \in IncidentIds :
        /\ Quiet(id, b)' <=> Quiet(id, b) /\ id \notin jobs[b].resolve
        /\ id \notin jobs[b].resolve => rows'[id] = rows[id]
  BY <1>5 DEF Quiet, Active
<1>8. \A id \in IncidentIds : Quiet(id, b)' => id \in jobs[b].inconclusive
  BY <1>3, <1>7
<1>9. \A id \in IncidentIds : id \in jobs[b].inconclusive =>
        Quiet(id, b)' /\ rows'[id] = rows[id]
  BY <1>3, <1>7
<1>10. FreshJob(b)'
  <2>1. jobs'[b].pc = "launch" => \A id \in IncidentIds : ~Quiet(id, b)'
    BY <1>2, <1>8
  <2>2. \A id \in IncidentIds : id \in jobs[b].inconclusive =>
          \E g \in jobs'[b].gaps : SameCell(rows'[id].dims, g)
    BY <1>2, <1>3, <1>9 DEF LostVolume
  <2> QED
    BY <1>2, <1>8, <1>9, <2>1, <2>2 DEF FreshJob, LostVolume
<1> QED
  BY <1>1, <1>2, <1>6, <1>10, FreshJobs

LEMMA GiveUpOrder ==
  ASSUME TypeOK, Serial, Fresh, NEW b \in Buckets, GiveUpQuiet(b)
  PROVE  Serial' /\ Fresh'
<1>1. jobs[b] \in Job /\ Runnable(b) /\ ~HasEvidence(b) /\ bucket' = bucket
  BY DEF TypeOK, GiveUpQuiet, Serial
<1>2. /\ \A c \in Buckets : c # b => jobs'[c] = jobs[c]
      /\ jobs'[b].pc = "launch"
      /\ jobs'[b].gaps = jobs[b].gaps
      /\ jobs'[b].evidence = jobs[b].evidence
      /\ jobs'[b].opened = jobs[b].opened
  BY <1>1 DEF GiveUpQuiet, TypeOK, Job
<1>3. \A id \in IncidentIds : Quiet(id, b) => id \in jobs[b].inconclusive
  BY DEF GiveUpQuiet, Fresh, FreshJob
<1>4. ASSUME NEW id \in IncidentIds PROVE ~Quiet(id, b)'
  <2>1. CASE Active(id) /\ id \in jobs[b].inconclusive
    <3>1. rows[id] \in Row
      BY <2>1, LiveIsRow DEF Live, Active, LiveStatuses
    <3>2. rows'[id] = [rows[id] EXCEPT !.status = "inconclusive"]
      BY <2>1 DEF GiveUpQuiet
    <3> QED
      BY <3>1, <3>2 DEF Quiet, Active, ActiveStatuses, Row
  <2>2. CASE ~(Active(id) /\ id \in jobs[b].inconclusive)
    <3>1. rows'[id] = rows[id]
      BY <2>2 DEF GiveUpQuiet
    <3> QED
      BY <1>3, <2>2, <3>1 DEF Quiet, Active
  <2> QED
    BY <2>1, <2>2
<1>5. Serial'
  BY <1>1, <1>2, SerialJob DEF HasEvidence
<1>6. FreshJob(b)'
  BY <1>2, <1>4 DEF FreshJob
<1> QED
  BY <1>1, <1>2, <1>5, <1>6, FreshJobs

\* The job is over, one way or the other.
LEMMA IdleOrder ==
  ASSUME TypeOK, Serial, NEW b \in Buckets, Runnable(b),
         jobs' = [jobs EXCEPT ![b] = IdleJob], UNCHANGED bucket
  PROVE  Serial' /\ Fresh'
<1>1. /\ \A c \in Buckets : c # b => jobs'[c] = jobs[c]
      /\ jobs'[b] = IdleJob /\ jobs'[b].pc = "idle"
  BY DEF TypeOK, IdleJob
<1>2. Serial'
  BY <1>1, SerialJob
<1>3. FreshJob(b)'
  BY <1>1 DEF FreshJob
<1> QED
  BY <1>1, <1>2, <1>3, FreshJobs

LEMMA JobOrder ==
  ASSUME TypeOK, Shape, Serial, Fresh, NEW b \in Buckets, JobStep(b)
  PROVE  Serial' /\ Fresh'
<1>1. CASE FindLiveIncident(b)
  BY <1>1, FindLiveOrder
<1>2. CASE ConfirmWider(b)
  BY <1>2, WrittenOrder DEF ConfirmWider
<1>3. CASE Remeasure(b)
  BY <1>3, WrittenOrder DEF Remeasure
<1>4. CASE InsertIncident(b)
  BY <1>4, WrittenOrder DEF InsertIncident
<1>5. CASE PlanTransitions(b)
  BY <1>5, PlanOrder
<1>6. CASE ResolveQuiet(b)
  BY <1>6, ResolveOrder
<1>7. CASE GiveUpQuiet(b)
  BY <1>7, GiveUpOrder
<1>8. CASE Launch(b)
  BY <1>8, IdleOrder DEF Launch
<1>9. CASE FailJob(b)
  BY <1>9, IdleOrder DEF FailJob
<1> QED
  BY <1>1, <1>2, <1>3, <1>4, <1>5, <1>6, <1>7, <1>8, <1>9 DEF JobStep

------------------------------------------------------------------------------
(* The inductive invariant. *)

LEMMA HandOverOrder ==
  ASSUME TypeOK, Serial, Fresh, HandOver
  PROVE  Serial' /\ Fresh'
<1>1. /\ bucket \in Nat /\ bucket + 1 \in Buckets /\ bucket' = bucket + 1
      /\ rows' = rows
  BY IncidentsAssumption DEF TypeOK, HandOver, Buckets
<1>2. PICK diagnoses \in Diagnoses, gaps \in GapSets :
        jobs' = [jobs EXCEPT ![bucket + 1] = NewJob(EvidenceOf(diagnoses, bucket + 1), gaps)]
  BY DEF HandOver
<1>3. /\ \A c \in Buckets : c # bucket + 1 => jobs'[c] = jobs[c]
      /\ jobs'[bucket + 1].pc = "select"
      /\ jobs'[bucket + 1].gaps = gaps
  BY <1>1, <1>2 DEF TypeOK, NewJob
<1>4. Serial'
  <2>1. \A c \in Buckets : c > bucket' => jobs'[c].pc = "idle"
    BY <1>1, <1>3 DEF Serial, Buckets
  <2>2. ASSUME NEW c \in Buckets, jobs'[c].pc \notin {"idle", "select"}
        PROVE  Runnable(c)'
    <3>1. jobs'[c] = jobs[c] /\ Runnable(c)
      BY <1>3, <2>2 DEF Serial
    <3>2. c <= bucket
      BY <1>1, <3>1 DEF Serial, Runnable, Buckets
    <3> QED
      BY <1>1, <1>3, <3>1, <3>2 DEF Runnable, Buckets
  <2> QED
    BY <1>3, <2>1, <2>2 DEF Serial, HasEvidence
<1>5. ASSUME NEW c \in Buckets PROVE FreshJob(c)'
  <2>1. CASE c = bucket + 1
    BY <1>3, <2>1 DEF FreshJob
  <2>2. CASE c # bucket + 1
    <3>1. jobs'[c] = jobs[c] /\ NextEvidence(c)' = NextEvidence(c) /\ FreshJob(c)
      BY <1>3, <2>2 DEF NextEvidence, Fresh
    <3>2. Matches(NextEvidence(c))' = Matches(NextEvidence(c))
      BY <1>1, <3>1 DEF Matches, Live
    <3> QED
      BY <1>1, <3>1, <3>2 DEF FreshJob, Quiet, Active, LostVolume
  <2> QED
    BY <2>1, <2>2
<1> QED
  BY <1>4, <1>5 DEF Fresh

\* Whatever neither writes a row nor touches a job.
LEMMA OtherOrder ==
  ASSUME TypeOK, Serial, Fresh, UNCHANGED <<rows, jobs>>,
         bucket' = bucket \/ bucket' = bucket + 1
  PROVE  Serial' /\ Fresh'
<1>1. Serial'
  <2>1. \A c \in Buckets : c > bucket' => c > bucket
    BY DEF TypeOK, Buckets
  <2> QED
    BY <2>1 DEF Serial, Runnable, HasEvidence
<1>2. ASSUME NEW c \in Buckets PROVE FreshJob(c)'
  <2>1. NextEvidence(c)' = NextEvidence(c) /\ FreshJob(c)
    BY DEF NextEvidence, Fresh
  <2>2. Matches(NextEvidence(c))' = Matches(NextEvidence(c))
    BY <2>1 DEF Matches, Live
  <2> QED
    BY <2>1, <2>2 DEF FreshJob, Quiet, Active, LostVolume
<1> QED
  BY <1>1, <1>2 DEF Fresh

LEMMA OrderStep ==
  ASSUME TypeOK, Shape, Serial, Fresh, [Next]_vars
  PROVE  Serial' /\ Fresh'
<1>1. CASE HandOver
  BY <1>1, HandOverOrder
<1>2. CASE MissWindow
  BY <1>2, OtherOrder DEF MissWindow
<1>3. CASE \E b \in Buckets : JobStep(b)
  BY <1>3, JobOrder
<1>4. CASE \E id \in IncidentIds : InvestigationStep(id)
  BY <1>4, OtherOrder
     DEF InvestigationStep, SelectForNarrative, AttachNarrative, FinishInvestigation,
         FailInvestigation
<1>5. CASE Restart
  <2>1. \A b \in Buckets : jobs'[b] = IdleJob /\ jobs'[b].pc = "idle"
    BY <1>5 DEF Restart, IdleJob
  <2> QED
    BY <2>1 DEF Serial, Fresh, FreshJob
<1>6. CASE UNCHANGED vars
  BY <1>6, OtherOrder DEF vars
<1> QED
  BY <1>1, <1>2, <1>3, <1>4, <1>5, <1>6 DEF Next

\* In every reachable state the tail runs one job at a time, and what that job
\* has read of the table still holds.
THEOREM Order == Spec => []IInv
<1>1. Init => Serial /\ Fresh
  BY InitOrder
<1>2. TypeOK /\ Shape /\ Serial /\ Fresh /\ [Next]_vars => Serial' /\ Fresh'
  BY OrderStep
<1>3. Spec => [](Serial /\ Fresh)
  BY <1>1, <1>2, TypeCorrect, PTL DEF Spec
<1> QED
  BY <1>3, TypeCorrect, PTL DEF IInv

------------------------------------------------------------------------------
(* The properties. *)

\* After a completed reconcile pass no incident is overdue.
THEOREM NoneStale == Spec => []ReconcileLeavesNoneStale
<1>1. IInv => ReconcileLeavesNoneStale
  <2> SUFFICES ASSUME IInv, NEW b \in Buckets, jobs[b].pc = "launch",
                      NEW id \in IncidentIds, Active(id)
               PROVE  b < rows[id].detectedAt + ResolveAfterQuietWindows
    BY DEF ReconcileLeavesNoneStale
  <2>1. ~Quiet(id, b)
    BY DEF IInv, Fresh, FreshJob
  <2>2. rows[id] \in Row
    BY LiveIsRow DEF IInv, Live, Active, LiveStatuses
  <2> QED
    BY <2>1, <2>2, IncidentsAssumption DEF Quiet, Row, Buckets
<1> QED
  BY <1>1, Order, PTL

LEMMA ResolvedStep ==
  ASSUME IInv, [Next]_vars
  PROVE  KeepResolved
<1> SUFFICES ASSUME NEW id \in IncidentIds, rows[id].status = "resolved"
             PROVE  rows'[id] = rows[id]
  BY DEF KeepResolved
<1> USE DEF IInv
<1>1. ~Live(id) /\ ~Active(id)
  BY DEF Live, Active, LiveStatuses, ActiveStatuses
<1>2. ASSUME NEW b \in Buckets, ConfirmWider(b) \/ Remeasure(b) PROVE rows'[id] = rows[id]
  <2>1. Live(jobs[b].existing.id)
    BY <1>2 DEF ConfirmWider, Remeasure, Fresh, FreshJob, Matches
  <2>2. \E row : rows' = [rows EXCEPT ![jobs[b].existing.id] = row]
    BY <1>2 DEF ConfirmWider, Remeasure
  <2> QED
    BY <1>1, <2>1, <2>2 DEF TypeOK
<1>3. ASSUME NEW b \in Buckets, InsertIncident(b) PROVE rows'[id] = rows[id]
  BY <1>3 DEF InsertIncident, Exists, NoRow, TypeOK
<1>4. ASSUME NEW b \in Buckets, ResolveQuiet(b) \/ GiveUpQuiet(b) PROVE rows'[id] = rows[id]
  BY <1>1, <1>4 DEF ResolveQuiet, GiveUpQuiet
<1> QED
  BY <1>2, <1>3, <1>4
     DEF Next, JobStep, InvestigationStep, HandOver, MissWindow, FindLiveIncident,
         PlanTransitions, Launch, FailJob, SelectForNarrative, AttachNarrative,
         FinishInvestigation, FailInvestigation, Restart, vars

\* A resolved incident is never touched again, not even by an UPDATE whose
\* SELECT ran before it was resolved.
THEOREM Resolved == Spec => ResolvedIsFinal
<1>1. IInv /\ [Next]_vars => [KeepResolved]_vars
  BY ResolvedStep
<1> QED
  BY <1>1, Order, PTL DEF Spec, ResolvedIsFinal

LEMMA OpenStep ==
  ASSUME IInv, [Next]_vars
  PROVE  OpenOnlyUncovered
<1> SUFFICES ASSUME NEW id \in IncidentIds, ~Exists(id), rows'[id] # NoRow
             PROVE  Matches(triple'[id].evidence) = {}
  BY DEF OpenOnlyUncovered
<1> USE DEF IInv
<1>1. ASSUME NEW b \in Buckets, ConfirmWider(b) \/ Remeasure(b) PROVE FALSE
  <2>1. jobs[b].existing.id \in IncidentIds /\ Exists(jobs[b].existing.id)
    BY <1>1 DEF ConfirmWider, Remeasure, Shape, JobShape, Snapshot
  <2>2. \E row : rows' = [rows EXCEPT ![jobs[b].existing.id] = row]
    BY <1>1 DEF ConfirmWider, Remeasure
  <2> QED
    BY <2>1, <2>2 DEF TypeOK, Exists
<1>2. ASSUME NEW b \in Buckets, InsertIncident(b)
      PROVE  Matches(triple'[id].evidence) = {}
  <2> DEFINE e == NextEvidence(b)
  <2>1. Matches(e) = {}
    BY <1>2 DEF InsertIncident, Fresh, FreshJob
  <2>2. PICK new \in IncidentIds :
          /\ \E row : rows' = [rows EXCEPT ![new] = row]
          /\ triple' = [triple EXCEPT ![new] = [evidence |-> e, narrative |-> NoEvidence]]
    BY <1>2 DEF InsertIncident
  <2> HIDE DEF e
  <2>3. id = new
    BY <2>2 DEF TypeOK, Exists
  <2>4. triple'[id].evidence = e
    BY <2>2, <2>3 DEF TypeOK
  <2> QED
    BY <2>1, <2>4
<1>3. ASSUME NEW b \in Buckets, ResolveQuiet(b) \/ GiveUpQuiet(b) PROVE FALSE
  <2>1. ~Active(id)
    BY DEF Exists, Active, ActiveStatuses, NoRow
  <2> QED
    BY <1>3, <2>1 DEF ResolveQuiet, GiveUpQuiet, Exists
<1> QED
  BY <1>1, <1>2, <1>3
     DEF Next, JobStep, InvestigationStep, HandOver, MissWindow, FindLiveIncident,
         PlanTransitions, Launch, FailJob, SelectForNarrative, AttachNarrative,
         FinishInvestigation, FailInvestigation, Restart, vars, Exists

\* A row is inserted only for a reading no live incident covers, although the
\* SELECT that said so is an older statement.
THEOREM OnePerPlace == Spec => OneIncidentPerPlace
<1>1. IInv /\ [Next]_vars => [OpenOnlyUncovered]_vars
  BY OpenStep
<1> QED
  BY <1>1, Order, PTL DEF Spec, OneIncidentPerPlace

LEMMA RetireStep ==
  ASSUME IInv, [Next]_vars
  PROVE  RetireOnlyQuiet
<1> SUFFICES ASSUME NEW id \in IncidentIds, NEW c \in Buckets, Active(id),
                    rows'[id].status \notin ActiveStatuses, jobs'[c] # jobs[c]
             PROVE  /\ Quiet(id, c)
                    /\ \A earlier \in 1 .. c : Pending(earlier) = {}
  BY DEF RetireOnlyQuiet
<1> USE DEF IInv
<1>1. rows[id] \in Row /\ Exists(id)
  BY LiveIsRow DEF Live, Active, LiveStatuses
<1>2. ASSUME NEW b \in Buckets, ConfirmWider(b) \/ Remeasure(b) PROVE FALSE
  <2>1. jobs[b].existing.id \in IncidentIds /\ Exists(jobs[b].existing.id)
    BY <1>2 DEF ConfirmWider, Remeasure, Shape, JobShape, Snapshot
  <2>2. rows[jobs[b].existing.id] \in Row
    BY <2>1 DEF TypeOK, Exists
  <2> DEFINE confirmed == jobs[b].existing.id
             e == NextEvidence(b)
             wider == [rows[confirmed] EXCEPT !.detectedAt = e.at, !.status = "monitoring"]
             exact == [Measured(rows[confirmed], e) EXCEPT !.status = "monitoring"]
  <2>3. \/ rows' = [rows EXCEPT ![confirmed] = wider]
        \/ rows' = [rows EXCEPT ![confirmed] = exact]
    BY <1>2 DEF ConfirmWider, Remeasure
  <2> HIDE DEF confirmed, e
  <2>4. wider.status = "monitoring" /\ exact.status = "monitoring"
    BY <2>2 DEF Measured, Row, confirmed
  <2> HIDE DEF wider, exact
  <2> QED
    BY <2>1, <2>3, <2>4 DEF TypeOK, Active, ActiveStatuses, confirmed
<1>3. ASSUME NEW b \in Buckets, InsertIncident(b) PROVE FALSE
  BY <1>1, <1>3 DEF InsertIncident, Active, TypeOK
<1>4. ASSUME NEW b \in Buckets, ResolveQuiet(b) \/ GiveUpQuiet(b)
      PROVE  /\ Quiet(id, c)
             /\ \A earlier \in 1 .. c : Pending(earlier) = {}
  <2>1. c = b /\ Runnable(b) /\ ~HasEvidence(b)
    BY <1>4 DEF ResolveQuiet, GiveUpQuiet, TypeOK, Serial
  <2>2. rows'[id] # rows[id]
    BY DEF Active
  <2>3. Quiet(id, b)
    BY <1>4, <2>2 DEF ResolveQuiet, GiveUpQuiet, Fresh, FreshJob
  <2>4. ASSUME NEW earlier \in 1 .. c PROVE Pending(earlier) = {}
    <3>1. jobs[earlier] \in Job /\ jobs[b] \in Job
      BY <2>1, IncidentsAssumption DEF TypeOK, Buckets
    <3>2. CASE earlier = b
      BY <2>1, <3>1, <3>2 DEF Pending, HasEvidence, Job
    <3>3. CASE earlier # b
      <4>1. jobs[earlier] = IdleJob
        BY <2>1, <3>3, IncidentsAssumption DEF Runnable, Serial, Buckets
      <4> QED
        BY <4>1 DEF Pending, IdleJob
    <3> QED
      BY <3>2, <3>3
  <2> QED
    BY <2>1, <2>3, <2>4
<1> QED
  BY <1>2, <1>3, <1>4
     DEF Next, JobStep, InvestigationStep, HandOver, MissWindow, FindLiveIncident,
         PlanTransitions, Launch, FailJob, SelectForNarrative, AttachNarrative,
         FinishInvestigation, FailInvestigation, Restart, vars, Active

\* No incident is retired while evidence that would reconfirm it is queued.
THEOREM NotRetired == Spec => ReconfirmedNotRetired
<1>1. IInv /\ [Next]_vars => [RetireOnlyQuiet]_vars
  BY RetireStep
<1> QED
  BY <1>1, Order, PTL DEF Spec, ReconfirmedNotRetired

------------------------------------------------------------------------------
(* The refinement. *)

LEMMA BoardInitRefines == Init => Board!BoardInit
BY DEF Init, Board!BoardInit, NoRow, Board!NoEntry

\* The board judges cells by the same operators.
LEMMA SameCellAlgebra ==
  ASSUME NEW l, NEW r
  PROVE  /\ Board!Rooted(l) <=> Rooted(l)
         /\ Board!SharesRoot(l, r) <=> SharesRoot(l, r)
         /\ Board!Compatible(l, r) <=> Compatible(l, r)
         /\ Board!SameCell(l, r) <=> SameCell(l, r)
         /\ Board!Specificity(l) = Specificity(l)
<1>1. Board!Rooted(l) <=> Rooted(l)
  BY DEF Board!Rooted, Rooted
<1>2. Board!SharesRoot(l, r) <=> SharesRoot(l, r)
  BY DEF Board!SharesRoot, SharesRoot, Board!Rooted, Rooted
<1>3. Board!Compatible(l, r) <=> Compatible(l, r)
  BY DEF Board!Compatible, Compatible
<1>4. Board!SameCell(l, r) <=> SameCell(l, r)
  BY DEF Board!SameCell, SameCell
<1>5. Board!Specificity(l) = Specificity(l)
  BY DEF Board!Specificity, Specificity, Board!Cardinality, Cardinality
<1> QED
  BY <1>1, <1>2, <1>3, <1>4, <1>5

\* A row the job's reading matches is an entry that covers it, and conversely.
LEMMA MatchesCovers ==
  ASSUME NEW e, NEW id \in IncidentIds,
         NEW reading, reading = [cell |-> e.cell, code |-> e.code, at |-> e.at]
  PROVE  id \in Matches(e) <=> Board!Covers(rows[id], reading)
<1>1. reading.cell = e.cell /\ reading.code = e.code
  OBVIOUS
<1>2. /\ Board!Rooted(e.cell) <=> Rooted(e.cell)
      /\ Board!SharesRoot(rows[id].dims, e.cell) <=> SharesRoot(rows[id].dims, e.cell)
      /\ Board!Compatible(rows[id].dims, e.cell) <=> Compatible(rows[id].dims, e.cell)
  BY SameCellAlgebra
<1>3. rows[id].status \in Board!LiveStatuses <=> Live(id)
  BY DEF Live, LiveStatuses, ActiveStatuses, Board!LiveStatuses, Board!ActiveStatuses
<1> QED
  BY <1>1, <1>2, <1>3 DEF Matches, Board!Covers

\* ConfirmWider and Remeasure confirm the incident the SELECT found.
LEMMA ConfirmRefines ==
  ASSUME IInv, NEW b \in Buckets, ConfirmWider(b) \/ Remeasure(b)
  PROVE  Board!BoardNext
<1> USE DEF IInv
<1> DEFINE e == NextEvidence(b)
           id == jobs[b].existing.id
           reading == [cell |-> e.cell, code |-> e.code, at |-> e.at]
<1>1. e \in Evidence
  BY NextEvidenceType DEF ConfirmWider, Remeasure, Shape, JobShape
<1>2. /\ id \in IncidentIds /\ id \in Matches(e)
      /\ jobs[b].existing.dims = rows[id].dims
  BY DEF ConfirmWider, Remeasure, Fresh, FreshJob, Matches
<1>3. rows[id] \in Row
  BY <1>2, LiveIsRow DEF Matches
<1>4. \/ /\ Specificity(rows[id].dims) > Specificity(e.cell)
         /\ rows' = [rows EXCEPT ![id] =
              [@ EXCEPT !.detectedAt = e.at, !.status = "monitoring"]]
      \/ /\ ~(Specificity(rows[id].dims) > Specificity(e.cell))
         /\ rows' = [rows EXCEPT ![id] = [Measured(@, e) EXCEPT !.status = "monitoring"]]
  BY <1>2 DEF ConfirmWider, Remeasure
<1> HIDE DEF e, id
<1>5. /\ reading \in Board!Readings
      /\ reading.cell = e.cell /\ reading.code = e.code /\ reading.at = e.at
  BY <1>1 DEF Evidence, Board!Readings, Board!Buckets, Buckets
<1>6. Board!Covers(rows[id], reading)
  BY <1>2, MatchesCovers
<1> HIDE DEF reading
<1>7. /\ Board!Specificity(rows[id].dims) = Specificity(rows[id].dims)
      /\ Board!Specificity(reading.cell) = Specificity(e.cell)
  BY <1>5, SameCellAlgebra
<1>8. Board!Confirm(id, reading)
  <2>1. CASE /\ Specificity(rows[id].dims) > Specificity(e.cell)
             /\ rows' = [rows EXCEPT ![id] =
                  [@ EXCEPT !.detectedAt = e.at, !.status = "monitoring"]]
    <3>1. [rows[id] EXCEPT !.detectedAt = e.at, !.status = "monitoring"]
            = [rows[id] EXCEPT !.status = "monitoring", !.detectedAt = e.at]
      BY <1>3 DEF Row
    <3>2. rows' = [rows EXCEPT ![id].status = "monitoring", ![id].detectedAt = e.at]
      BY <1>2, <2>1, <3>1 DEF TypeOK
    <3> QED
      BY <1>5, <1>6, <1>7, <2>1, <3>2 DEF Board!Confirm
  <2>2. CASE /\ ~(Specificity(rows[id].dims) > Specificity(e.cell))
             /\ rows' = [rows EXCEPT ![id] = [Measured(@, e) EXCEPT !.status = "monitoring"]]
    <3>1. [Measured(rows[id], e) EXCEPT !.status = "monitoring"]
            = [rows[id] EXCEPT !.status = "monitoring", !.detectedAt = e.at,
                               !.dims = e.cell, !.code = e.code]
      BY <1>3 DEF Row, Measured
    <3>2. rows' = [rows EXCEPT ![id].status = "monitoring", ![id].detectedAt = e.at,
                               ![id].dims = e.cell, ![id].code = e.code]
      BY <1>2, <2>2, <3>1 DEF TypeOK
    <3> QED
      BY <1>5, <1>6, <1>7, <2>2, <3>2 DEF Board!Confirm
  <2> QED
    BY <1>4, <2>1, <2>2
<1> QED
  BY <1>2, <1>5, <1>8 DEF Board!BoardNext

\* InsertIncident opens an incident nobody covers.
LEMMA InsertRefines ==
  ASSUME IInv, NEW b \in Buckets, InsertIncident(b)
  PROVE  Board!BoardNext
<1> USE DEF IInv
<1> DEFINE e == NextEvidence(b)
           reading == [cell |-> e.cell, code |-> e.code, at |-> e.at]
<1>1. e \in Evidence
  BY NextEvidenceType DEF InsertIncident, Shape, JobShape
<1>2. Matches(e) = {}
  BY DEF InsertIncident, Fresh, FreshJob
<1>3. PICK id \in IncidentIds :
        /\ ~Exists(id)
        /\ rows' = [rows EXCEPT ![id] =
             [status |-> "open", dims |-> e.cell, code |-> e.code,
              detectedAt |-> e.at, resolvedAt |-> 0]]
  BY DEF InsertIncident
<1> HIDE DEF e
<1>4. /\ reading \in Board!Readings
      /\ reading.cell = e.cell /\ reading.code = e.code /\ reading.at = e.at
  BY <1>1 DEF Evidence, Board!Readings, Board!Buckets, Buckets
<1>5. \A other \in IncidentIds : ~Board!Covers(rows[other], reading)
  BY <1>2, MatchesCovers
<1> HIDE DEF reading
<1>6. Board!Open(id, reading)
  BY <1>3, <1>4, <1>5 DEF Board!Open, Exists, NoRow, Board!NoEntry
<1> QED
  BY <1>4, <1>6 DEF Board!BoardNext

\* Both UPDATEs of reconcile retire what the board says is stale now.
LEMMA RetireRefines ==
  ASSUME IInv, NEW b \in Buckets, ResolveQuiet(b) \/ GiveUpQuiet(b)
  PROVE  Board!BoardNext
<1> USE DEF IInv
<1> DEFINE gaps == jobs[b].gaps
<1>1. gaps \in GapSets /\ b \in Board!Buckets
  BY DEF ResolveQuiet, GiveUpQuiet, Runnable, Serial, Buckets, Board!Buckets
<1>2. ASSUME NEW id \in IncidentIds
      PROVE  /\ Board!Stale(rows[id], b) <=> Quiet(id, b)
             /\ Board!LostVolume(rows[id], gaps) <=> LostVolume(id, gaps)
  <2>1. Board!Stale(rows[id], b) <=> Quiet(id, b)
    BY DEF Board!Stale, Quiet, Active, ActiveStatuses, Board!ActiveStatuses
  <2>2. Board!LostVolume(rows[id], gaps) <=> LostVolume(id, gaps)
    BY SameCellAlgebra DEF Board!LostVolume, LostVolume
  <2> QED
    BY <2>1, <2>2
<1> HIDE DEF gaps
<1>3. CASE ResolveQuiet(b)
  <2>1. \A id \in IncidentIds : id \in jobs[b].resolve <=>
          Board!Stale(rows[id], b) /\ ~Board!LostVolume(rows[id], gaps)
    BY <1>2, <1>3 DEF ResolveQuiet, Fresh, FreshJob, gaps
  <2>2. \A id \in IncidentIds : Quiet(id, b) => Active(id)
    BY DEF Quiet
  <2>3. Board!Resolve(b, gaps)
    BY <1>2, <1>3, <2>1, <2>2 DEF ResolveQuiet, Board!Resolve
  <2> QED
    BY <1>1, <2>3 DEF Board!BoardNext
<1>4. CASE GiveUpQuiet(b)
  <2>1. \A id \in IncidentIds :
          id \in jobs[b].inconclusive /\ Active(id) <=>
            Board!Stale(rows[id], b) /\ Board!LostVolume(rows[id], gaps)
    BY <1>2, <1>4 DEF GiveUpQuiet, Fresh, FreshJob, Quiet, gaps
  <2>2. Board!GiveUp(b, gaps)
    BY <1>4, <2>1 DEF GiveUpQuiet, Board!GiveUp
  <2> QED
    BY <1>1, <2>2 DEF Board!BoardNext
<1> QED
  BY <1>3, <1>4

LEMMA BoardStep ==
  ASSUME IInv, [Next]_vars
  PROVE  [Board!BoardNext]_rows
<1>1. ASSUME NEW b \in Buckets, ConfirmWider(b) \/ Remeasure(b) PROVE Board!BoardNext
  BY <1>1, ConfirmRefines
<1>2. ASSUME NEW b \in Buckets, InsertIncident(b) PROVE Board!BoardNext
  BY <1>2, InsertRefines
<1>3. ASSUME NEW b \in Buckets, ResolveQuiet(b) \/ GiveUpQuiet(b) PROVE Board!BoardNext
  BY <1>3, RetireRefines
<1> QED
  BY <1>1, <1>2, <1>3
     DEF Next, JobStep, InvestigationStep, HandOver, MissWindow, FindLiveIncident,
         PlanTransitions, Launch, FailJob, SelectForNarrative, AttachNarrative,
         FinishInvestigation, FailInvestigation, Restart, vars

\* The incidents table, written by interleaved SELECTs and UPDATEs, implements
\* the board whose operations are atomic.
THEOREM Refinement == Spec => AtomicBoard
<1>1. Init => Board!BoardInit
  BY BoardInitRefines
<1>2. IInv /\ [Next]_vars => [Board!BoardNext]_rows
  BY BoardStep
<1> QED
  BY <1>1, <1>2, Order, PTL DEF Spec, AtomicBoard, Board!BoardSpec
==============================================================================

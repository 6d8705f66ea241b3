------------------------------ MODULE Incidents ------------------------------
(***************************************************************************)
(* The incidents table and the three parties that write it                 *)
(* (orchestrate/incidents.ts, orchestrate/lifecycle.ts, the onResult       *)
(* callback of run.ts, and the attachNarrative calls of                    *)
(* agent/coordinator.ts).                                                  *)
(*                                                                         *)
(* Each scheduler window hands its diagnoses and evidence gaps to a job on *)
(* orchestrationTail, a promise chain.  A job awaits one database          *)
(* statement at a time, so other work lands between any two of them; the   *)
(* model therefore gives every SELECT and every UPDATE a step of its own.  *)
(* The investigations a job launches are not awaited and write the table   *)
(* whenever they finish.  Any statement may fail, and the process may      *)
(* restart at any moment: jobs and investigations live in its memory, the  *)
(* table does not.                                                         *)
(***************************************************************************)
EXTENDS Cells, Sequences

CONSTANTS IncidentIds,               \* the uuids rows are created under
          Codes,                     \* dominant decline codes
          ResolveAfterQuietWindows,  \* lifecycle.ts: 3
          MaxBucket,                 \* bound: windows the model runs for
          MaxQueued,                 \* bound: windows waiting on the tail at once
          Diagnoses,                 \* sequences of diagnoses one window yields
          GapSets,                   \* sets of cells one window calls too thin
          FallbackEnabled            \* AGENT_FALLBACK_ENABLED

Buckets == 1 .. MaxBucket

Sources == {"agent", "beam_search"}

\* The evidence object: what of it the table's readers can tell apart.
Evidence == [cell : Cells, code : Codes, source : Sources, at : Buckets]

ASSUME IncidentsAssumption ==
  /\ ResolveAfterQuietWindows \in Nat \ {0}
  /\ MaxBucket \in Nat
  /\ MaxQueued \in Nat
  /\ FallbackEnabled \in BOOLEAN
  /\ Diagnoses \subseteq Seq([cell : Cells, code : Codes])
  /\ GapSets \subseteq SUBSET Cells

\* Operators named Fault... are the definition that follows with
\* a plausible bug in it; they take no part in the specification.

VARIABLES rows,            \* the incidents table: status and measured columns
          triple,          \* the same rows' evidence, narrative and playbook
          bucket,          \* the newest window the scheduler has handed over
          jobs,            \* orchestrationTail: one entry per queued window
          investigated,    \* the coordinator's set of ids already taken on
          investigations   \* the coordinator's unawaited handleSignal calls

vars == <<rows, triple, bucket, jobs, investigated, investigations>>

------------------------------------------------------------------------------
(* The table. *)

NoRow      == [status |-> "none"]
NoEvidence == [source |-> "none"]

ActiveStatuses == {"open", "monitoring"}
LiveStatuses   == ActiveStatuses \cup {"inconclusive"}

\* resolvedAt = 0 is SQL null.
Row == [status     : LiveStatuses \cup {"resolved"},
        dims       : Cells,
        code       : Codes,
        detectedAt : Buckets,
        resolvedAt : Buckets \cup {0}]

\* `narrative` stands for the narrative and playbook columns: the evidence
\* object their text was written from.
Triple == [evidence : Evidence \cup {NoEvidence}, narrative : Evidence \cup {NoEvidence}]

Exists(id) == rows[id] # NoRow

Live(id)   == rows[id].status \in LiveStatuses
Active(id) == rows[id].status \in ActiveStatuses

\* measuredColumns: what a reading writes over a row's diagnosis.
Measured(row, e) ==
  [row EXCEPT !.dims = e.cell, !.code = e.code, !.detectedAt = e.at]

\* The rows findLiveIncident filters down to.
Matches(e) ==
  {id \in IncidentIds :
     /\ Live(id)
     /\ IF Rooted(e.cell)
          THEN /\ SharesRoot(rows[id].dims, e.cell)
               /\ Compatible(rows[id].dims, e.cell)
          ELSE rows[id].dims = e.cell /\ rows[id].code = e.code}

\* The order it sorts them in: narrowest first, then most recently confirmed.
Outranks(e, a, b) ==
  \/ /\ Rooted(e.cell)
     /\ Specificity(rows[a].dims) > Specificity(rows[b].dims)
  \/ /\ ~Rooted(e.cell) \/ Specificity(rows[a].dims) = Specificity(rows[b].dims)
     /\ rows[a].detectedAt > rows[b].detectedAt

\* The rows it may return: ties on both keys come in any order.
LiveIncidents(e) ==
  {id \in Matches(e) : \A other \in Matches(e) : ~Outranks(e, other, id)}

------------------------------------------------------------------------------
(* The orchestration jobs. *)

NoMatch == [id |-> "none"]

\* What findLiveIncident's SELECT hands to the UPDATE that follows it.
Snapshot == [id : IncidentIds, dims : Cells, source : Sources]

IdleJob == [pc |-> "idle", evidence |-> <<>>, gaps |-> {}, existing |-> NoMatch,
            opened |-> <<>>, resolve |-> {}, inconclusive |-> {}]

\* onResult's closure over one window.
NewJob(evidence, gaps) ==
  [pc |-> "select", evidence |-> evidence, gaps |-> gaps, existing |-> NoMatch,
   opened |-> <<>>, resolve |-> {}, inconclusive |-> {}]

\* What the detector sends down: an evidence object no agent has touched.
Reading == [cell : Cells, code : Codes, source : {"beam_search"}, at : Buckets]

\* opened: the incident each evidence object written so far went to (the map
\* of run.ts).  resolve, inconclusive: planTransitions' answer.
Job == [pc : {"idle", "select", "write", "resolve", "giveUp", "launch"},
        evidence : Seq(Reading), gaps : SUBSET Cells,
        existing : Snapshot \cup {NoMatch}, opened : Seq(IncidentIds),
        resolve : SUBSET IncidentIds, inconclusive : SUBSET IncidentIds]

\* Every job starts as soon as it is handed over.
FaultRunnable(b) == jobs[b].pc # "idle"

\* orchestrationTail.then(work): a job starts once those before it settled.
Runnable(b) == /\ jobs[b].pc # "idle"
               /\ \A earlier \in Buckets : earlier < b => jobs[earlier].pc = "idle"

\* The evidence objects of window b, highest priority first.
EvidenceOf(diagnoses, b) ==
  [i \in 1 .. Len(diagnoses) |->
     [cell |-> diagnoses[i].cell, code |-> diagnoses[i].code,
      source |-> "beam_search", at |-> b]]

\* onResult for the next window: the deterministic evidence joins the chain
\* together with the window's gaps.
HandOver ==
  /\ bucket < MaxBucket
  /\ Cardinality({b \in Buckets : jobs[b].pc # "idle"}) < MaxQueued
  /\ bucket' = bucket + 1
  /\ \E diagnoses \in Diagnoses, gaps \in GapSets :
       jobs' = [jobs EXCEPT ![bucket + 1] = NewJob(EvidenceOf(diagnoses, bucket + 1), gaps)]
  /\ UNCHANGED <<rows, triple, investigated, investigations>>

\* The window's tick failed, or fell behind the catch-up cap: no onResult.
MissWindow ==
  /\ bucket < MaxBucket
  /\ bucket' = bucket + 1
  /\ UNCHANGED <<rows, triple, jobs, investigated, investigations>>

\* The evidence object the job's for loop is at, while there is one.
HasEvidence(b)  == Len(jobs[b].opened) < Len(jobs[b].evidence)
NextEvidence(b) == jobs[b].evidence[Len(jobs[b].opened) + 1]

\* openOrUpdate's SELECT.
FindLiveIncident(b) ==
  /\ Runnable(b) /\ jobs[b].pc = "select" /\ HasEvidence(b)
  /\ LET e == NextEvidence(b) IN
       \/ /\ Matches(e) = {}
          /\ jobs' = [jobs EXCEPT ![b].pc = "write"]
       \/ \E id \in LiveIncidents(e) :
            jobs' = [jobs EXCEPT ![b].pc = "write", ![b].existing =
              [id |-> id, dims |-> rows[id].dims, source |-> triple[id].evidence.source]]
  /\ UNCHANGED <<rows, triple, bucket, investigated, investigations>>

\* openOrUpdate has written the evidence object to `id`.
Written(b, id) ==
  jobs' = [jobs EXCEPT ![b].pc = "select", ![b].existing = NoMatch,
                       ![b].opened = Append(@, id)]

\* A wider reading overwrites the diagnosis as well.
FaultConfirmWider(b) ==
  /\ Runnable(b) /\ jobs[b].pc = "write" /\ jobs[b].existing # NoMatch
  /\ LET e == NextEvidence(b)
         existing == jobs[b].existing
     IN /\ Specificity(existing.dims) > Specificity(e.cell)
        /\ rows' = [rows EXCEPT ![existing.id] =
             [Measured(@, e) EXCEPT !.status = "monitoring"]]
        /\ Written(b, existing.id)
  /\ UNCHANGED <<triple, bucket, investigated, investigations>>

\* A wider reading of a fault only proves it is still running.
ConfirmWider(b) ==
  /\ Runnable(b) /\ jobs[b].pc = "write" /\ jobs[b].existing # NoMatch
  /\ LET e == NextEvidence(b)
         existing == jobs[b].existing
     IN /\ Specificity(existing.dims) > Specificity(e.cell)
        /\ rows' = [rows EXCEPT ![existing.id] =
             [@ EXCEPT !.detectedAt = e.at, !.status = "monitoring"]]
        /\ Written(b, existing.id)
  /\ UNCHANGED <<triple, bucket, investigated, investigations>>

\* The reading names the place at least as precisely: it replaces the
\* diagnosis, and the evidence too unless the SELECT saw the agent's there.
Remeasure(b) ==
  /\ Runnable(b) /\ jobs[b].pc = "write" /\ jobs[b].existing # NoMatch
  /\ LET e == NextEvidence(b)
         existing == jobs[b].existing
     IN /\ ~(Specificity(existing.dims) > Specificity(e.cell))
        /\ rows' = [rows EXCEPT ![existing.id] =
             [Measured(@, e) EXCEPT !.status = "monitoring"]]
        /\ triple' = IF existing.source = "agent" THEN triple
                     ELSE [triple EXCEPT ![existing.id].evidence = e]
        /\ Written(b, existing.id)
  /\ UNCHANGED <<bucket, investigated, investigations>>

\* Nothing live covers the reading: INSERT under a fresh uuid.
InsertIncident(b) ==
  /\ Runnable(b) /\ jobs[b].pc = "write" /\ jobs[b].existing = NoMatch
  /\ LET e == NextEvidence(b) IN
       \E id \in IncidentIds :
         /\ ~Exists(id)
         /\ rows' = [rows EXCEPT ![id] =
              [status |-> "open", dims |-> e.cell, code |-> e.code,
               detectedAt |-> e.at, resolvedAt |-> 0]]
         /\ triple' = [triple EXCEPT ![id] =
              [evidence |-> e, narrative |-> NoEvidence]]
         /\ Written(b, id)
  /\ UNCHANGED <<bucket, investigated, investigations>>

\* One window more than the constant says.
FaultQuiet(id, b) == /\ Active(id)
                     /\ b > rows[id].detectedAt + ResolveAfterQuietWindows

\* planTransitions: enough quiet windows have passed since the row was confirmed.
Quiet(id, b) == /\ Active(id)
                /\ b >= rows[id].detectedAt + ResolveAfterQuietWindows

LostVolume(id, gaps) == \E g \in gaps : SameCell(rows[id].dims, g)

\* reconcile's SELECT and planTransitions.  An empty list costs no UPDATE.
PlanTransitions(b) ==
  /\ Runnable(b) /\ jobs[b].pc = "select" /\ ~HasEvidence(b)
  /\ LET gaps    == jobs[b].gaps
         resolve == {id \in IncidentIds : Quiet(id, b) /\ ~LostVolume(id, gaps)}
         giveUp  == {id \in IncidentIds : Quiet(id, b) /\ LostVolume(id, gaps)}
     IN jobs' = [jobs EXCEPT ![b].resolve = resolve, ![b].inconclusive = giveUp,
          ![b].pc = IF resolve # {} THEN "resolve"
                    ELSE IF giveUp # {} THEN "giveUp" ELSE "launch"]
  /\ UNCHANGED <<rows, triple, bucket, investigated, investigations>>

\* reconcile's first UPDATE.
ResolveQuiet(b) ==
  /\ Runnable(b) /\ jobs[b].pc = "resolve"
  /\ rows' = [id \in IncidentIds |->
       IF id \in jobs[b].resolve /\ Active(id)
         THEN [rows[id] EXCEPT !.status = "resolved", !.resolvedAt = b]
         ELSE rows[id]]
  /\ jobs' = [jobs EXCEPT ![b].pc =
       IF jobs[b].inconclusive # {} THEN "giveUp" ELSE "launch"]
  /\ UNCHANGED <<triple, bucket, investigated, investigations>>

\* reconcile's second UPDATE.
GiveUpQuiet(b) ==
  /\ Runnable(b) /\ jobs[b].pc = "giveUp"
  /\ rows' = [id \in IncidentIds |->
       IF id \in jobs[b].inconclusive /\ Active(id)
         THEN [rows[id] EXCEPT !.status = "inconclusive"]
         ELSE rows[id]]
  /\ jobs' = [jobs EXCEPT ![b].pc = "launch"]
  /\ UNCHANGED <<triple, bucket, investigated, investigations>>

------------------------------------------------------------------------------
(* The investigations, as far as they reach the table. *)

IdleInvestigation == [pc |-> "idle", stage |-> "none", at |-> 0, input |-> NoEvidence]

\* stage: "agent" is the investigator's own answer; "fallback" the beam search
\* after a FAILED run, which the catch block may repeat; "last" that repeat.
Investigation ==
  [pc : {"idle", "investigating", "attaching", "recording"},
   stage : {"none", "agent", "fallback", "last"},
   at : Buckets \cup {0},
   input : Evidence \cup {NoEvidence}]

\* The job's last, synchronous stretch: handleSignal for every incident of the
\* window nobody has taken on yet.  Its root's signal always finds it.
Launch(b) ==
  /\ Runnable(b) /\ jobs[b].pc = "launch"
  /\ LET opened == {jobs[b].opened[i] : i \in DOMAIN jobs[b].opened}
         fresh  == opened \ investigated
     IN
       /\ investigated' = investigated \cup fresh
       /\ investigations' = [id \in IncidentIds |->
            IF id \in fresh
              THEN [pc |-> "investigating", stage |-> "agent", at |-> b,
                    input |-> NoEvidence]
              ELSE investigations[id]]
  /\ jobs' = [jobs EXCEPT ![b] = IdleJob]
  /\ UNCHANGED <<rows, triple, bucket>>

SourceOf(stage) == IF stage = "agent" THEN "agent" ELSE "beam_search"

\* attachNarrative's refusals, judged on the row its SELECT returned.
Refused(id, e) ==
  \/ triple[id].evidence.source = "agent" /\ e.source = "beam_search"
  \/ ~Compatible(rows[id].dims, e.cell)
  \/ Specificity(e.cell) < Specificity(rows[id].dims)

\* The run ends with a diagnosis of some cell under the incident's root, and
\* attachNarrative SELECTs the row it is meant for.
SelectForNarrative(id) ==
  /\ investigations[id].pc = "investigating"
  /\ \E cell \in Cells, code \in Codes :
       LET e == [cell |-> cell, code |-> code, at |-> investigations[id].at,
                 source |-> SourceOf(investigations[id].stage)]
       IN /\ SharesRoot(cell, rows[id].dims)
          /\ investigations' = [investigations EXCEPT ![id] =
               IF Refused(id, e) THEN [@ EXCEPT !.pc = "recording"]
               ELSE [@ EXCEPT !.pc = "attaching", !.input = e]]
  /\ UNCHANGED <<rows, triple, bucket, jobs, investigated>>

\* The guard against losing the agent's evidence covers the evidence only.
FaultAttachNarrative(id) ==
  /\ investigations[id].pc = "attaching"
  /\ triple' = [triple EXCEPT ![id] =
       [evidence |-> IF @.evidence.source = "agent" THEN @.evidence
                     ELSE investigations[id].input,
        narrative |-> investigations[id].input]]
  /\ investigations' = [investigations EXCEPT ![id].pc = "recording",
                                              ![id].input = NoEvidence]
  /\ UNCHANGED <<rows, bucket, jobs, investigated>>

\* attachNarrative's UPDATE: evidence, narratives and playbook together.
AttachNarrative(id) ==
  /\ investigations[id].pc = "attaching"
  /\ triple' = [triple EXCEPT ![id] =
       [evidence |-> investigations[id].input, narrative |-> investigations[id].input]]
  /\ investigations' = [investigations EXCEPT ![id].pc = "recording",
                                              ![id].input = NoEvidence]
  /\ UNCHANGED <<rows, bucket, jobs, investigated>>

\* completeRun and linkRunToIncident went through.
FinishInvestigation(id) ==
  /\ investigations[id].pc = "recording"
  /\ investigations' = [investigations EXCEPT ![id] = IdleInvestigation]
  /\ UNCHANGED <<rows, triple, bucket, jobs, investigated>>

\* The stages executeFallback may run at after a failure at `stage` and `pc`.
\* Before createRun returns there is no catch block yet, hence no stage at all.
NextStages(stage, pc) ==
  CASE ~FallbackEnabled                            -> {"none"}
    [] stage = "agent" /\ pc = "investigating"     -> {"none", "fallback", "last"}
    [] stage = "agent" /\ pc # "investigating"     -> {"last"}
    [] stage = "fallback"                          -> {"last"}
    [] OTHER                                       -> {"none"}

\* The investigator gave up, or a query threw: executeFallback, or the end.
FailInvestigation(id) ==
  /\ investigations[id].pc # "idle"
  /\ \E stage \in NextStages(investigations[id].stage, investigations[id].pc) :
       investigations' = [investigations EXCEPT ![id] =
         IF stage = "none" THEN IdleInvestigation
         ELSE [@ EXCEPT !.pc = "investigating", !.stage = stage,
                        !.input = NoEvidence]]
  /\ UNCHANGED <<rows, triple, bucket, jobs, investigated>>

------------------------------------------------------------------------------
(* Failures, and the whole. *)

\* The rejection stays on the tail.
FaultFailJob(b) ==
  /\ Runnable(b) /\ jobs[b].pc # "launch"
  /\ jobs' = [jobs EXCEPT ![b].pc = "rejected"]
  /\ UNCHANGED <<rows, triple, bucket, investigated, investigations>>

\* An awaited statement of the job throws: the tail logs it and moves on.
FailJob(b) ==
  /\ Runnable(b) /\ jobs[b].pc # "launch"
  /\ jobs' = [jobs EXCEPT ![b] = IdleJob]
  /\ UNCHANGED <<rows, triple, bucket, investigated, investigations>>

\* The process restarts: only the table survives.
Restart ==
  /\ jobs' = [b \in Buckets |-> IdleJob]
  /\ investigated' = {}
  /\ investigations' = [id \in IncidentIds |-> IdleInvestigation]
  /\ UNCHANGED <<rows, triple, bucket>>

Init ==
  /\ rows = [id \in IncidentIds |-> NoRow]
  /\ triple = [id \in IncidentIds |-> [evidence |-> NoEvidence, narrative |-> NoEvidence]]
  /\ bucket = 0
  /\ jobs = [b \in Buckets |-> IdleJob]
  /\ investigated = {}
  /\ investigations = [id \in IncidentIds |-> IdleInvestigation]

JobStep(b) ==
  \/ FindLiveIncident(b) \/ ConfirmWider(b) \/ Remeasure(b) \/ InsertIncident(b)
  \/ PlanTransitions(b)  \/ ResolveQuiet(b) \/ GiveUpQuiet(b)
  \/ Launch(b)           \/ FailJob(b)

InvestigationStep(id) ==
  \/ SelectForNarrative(id) \/ AttachNarrative(id)
  \/ FinishInvestigation(id) \/ FailInvestigation(id)

Next ==
  \/ HandOver
  \/ MissWindow
  \/ \E b \in Buckets : JobStep(b)
  \/ \E id \in IncidentIds : InvestigationStep(id)
  \/ Restart

Spec == Init /\ [][Next]_vars

\* The event loop runs whatever is ready: the job at the head of the tail keeps
\* taking steps, each ending in an answer or an error.
FairSpec == Spec /\ WF_vars(\E b \in Buckets : JobStep(b))

------------------------------------------------------------------------------
(* Properties. *)

TypeOK ==
  /\ rows \in [IncidentIds -> Row \cup {NoRow}]
  /\ triple \in [IncidentIds -> Triple]
  /\ bucket \in Buckets \cup {0}
  /\ jobs \in [Buckets -> Job]
  /\ investigated \subseteq IncidentIds
  /\ investigations \in [IncidentIds -> Investigation]

\* Evidence, narrative and playbook travel together (incidents.ts:210): while
\* the agent's object is in the evidence column, the prose beside it was
\* written from that very object, whatever ticks and fallbacks did meanwhile.
AgentTripleTogether ==
  \A id \in IncidentIds :
    triple[id].evidence.source = "agent" => triple[id].narrative = triple[id].evidence

\* A window that got through its reconcile pass leaves no incident active that
\* has been quiet for the required windows: one failed bucket is made up for
\* by the next (run.ts:87).
ReconcileLeavesNoneStale ==
  \A b \in Buckets : jobs[b].pc = "launch" => \A id \in IncidentIds :
    Active(id) => b < rows[id].detectedAt + ResolveAfterQuietWindows

\* Evidence of window b that has not reached the table yet.
Pending(b) ==
  {jobs[b].evidence[i] : i \in (Len(jobs[b].opened) + 1) .. Len(jobs[b].evidence)}

RetireOnlyQuiet ==
  \A id \in IncidentIds, b \in Buckets :
    Active(id) /\ rows'[id].status \notin ActiveStatuses /\ jobs'[b] # jobs[b]
      => /\ Quiet(id, b)
         /\ \A earlier \in 1 .. b : \A e \in Pending(earlier) : id \notin Matches(e)

\* A cell still down is never retired (run.ts:75, run.ts:180): at the UPDATE
\* that retires an incident it is still quiet, and no window up to that one
\* holds unwritten evidence the incident covers.
ReconfirmedNotRetired == [][RetireOnlyQuiet]_vars

KeepResolved ==
  \A id \in IncidentIds : rows[id].status = "resolved" => rows'[id] = rows[id]

\* No statement issued on an older reading of the table re-opens, re-dates or
\* re-names an incident that has been resolved.
ResolvedIsFinal == [][KeepResolved]_vars

OpenOnlyUncovered ==
  \A id \in IncidentIds :
    ~Exists(id) /\ rows'[id] # NoRow => Matches(triple'[id].evidence) = {}

\* Two readings of one place never both INSERT (run.ts:79): when a row appears,
\* no live incident covers it.
OneIncidentPerPlace == [][OpenOnlyUncovered]_vars

\* Although every operation is a SELECT and a later UPDATE, the measured
\* columns change only as on a board whose operations are atomic.
Board == INSTANCE IncidentBoard WITH board <- rows

AtomicBoard == Board!BoardSpec

\* The tail stays fulfilled: a failed bucket never blocks the ones behind it
\* (run.ts:85), so every window handed over is done with.
EveryBucketSettles ==
  \A b \in Buckets : jobs[b].pc # "idle" ~> jobs[b].pc = "idle"
==============================================================================

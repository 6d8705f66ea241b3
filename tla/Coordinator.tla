------------------------------ MODULE Coordinator -----------------------------
(***************************************************************************)
(* The agent coordinator and the table of investigation runs               *)
(* (agent/coordinator.ts, agent/persistence.ts, and the start of run.ts).  *)
(*                                                                         *)
(* handleSignal records a run, lets the investigator work, writes the      *)
(* outcome to the incident and closes the run; if anything throws, a       *)
(* fallback run may take its place.  Every await is a point where other    *)
(* calls proceed, where the statement may fail with or without having      *)
(* taken effect, and where the process may die.  At its next start,        *)
(* recoverOrphanRuns closes what it finds still running.                   *)
(***************************************************************************)
EXTENDS Naturals, FiniteSets

CONSTANTS IncidentIds,      \* incidents a tick has opened
          Calls,            \* handleSignal calls that could be in flight at once
          Recovery,         \* the recoverOrphanRuns call of this process
          MaxRuns,          \* bound: rows of investigation_runs
          FallbackEnabled   \* AGENT_FALLBACK_ENABLED

ASSUME CoordinatorAssumption ==
  /\ Recovery \notin Calls
  /\ MaxRuns \in Nat \ {0}
  /\ FallbackEnabled \in BOOLEAN

RunIds   == 1 .. MaxRuns
Flows    == Calls \cup {Recovery}

\* Operators named Fault... are the definition that follows with
\* a plausible bug in it; they take no part in the specification.

VARIABLES up,            \* the process runs
          runs,          \* the investigation_runs table
          source,        \* diagnosisSource in the evidence column of each incident
          investigated,  \* the coordinator's set of ids already taken on
          flows,         \* the control state of every call
          orphans        \* what is left of recoverOrphanRuns' list

vars == <<up, runs, source, investigated, flows, orphans>>

------------------------------------------------------------------------------
(* The runs. *)

NoRun == [status |-> "none"]

\* request: the incident the run is about.  linked: its incident_id is set.
\* mine and cause are history: created by the process that is up; and the run
\* a fallback stands in for, an agent's run being its own.
Run == [actor : {"agent", "fallback"}, status : {"running", "completed", "failed"},
        request : IncidentIds, linked : BOOLEAN, mine : BOOLEAN, cause : RunIds]

Recorded == {r \in RunIds : runs[r] # NoRun}
Running  == {r \in Recorded : runs[r].status = "running"}

\* createRun, under the next free uuid.
NewRun == Cardinality(Recorded) + 1
Created(actor, incident, cause) ==
  [runs EXCEPT ![NewRun] = [actor |-> actor, status |-> "running", request |-> incident,
                            linked |-> FALSE, mine |-> TRUE, cause |-> cause]]

------------------------------------------------------------------------------
(* The calls. *)

\* request, agentRun: what the call works on.  run: the run whose outcome it
\* writes, agentRun's or its fallback's.  toLink: the rest of persistOutcome's
\* runIds.  inTry: an exception has a catch block to go to.
Flow == [pc : {"idle", "list", "close", "create", "investigate", "fail",
               "attach", "link", "complete", "relink", "createFallback", "diagnose"},
         request : IncidentIds \cup {0}, agentRun : RunIds \cup {0},
         run : RunIds \cup {0}, toLink : SUBSET RunIds, inTry : BOOLEAN]

Idle == [pc |-> "idle", request |-> 0, agentRun |-> 0, run |-> 0, toLink |-> {},
         inTry |-> FALSE]

\* diagnosisSource: runIds.length > 1.
IsFallback(f) == f.run # f.agentRun
SourceOf(f)   == IF IsFallback(f) THEN "beam_search" ELSE "agent"

\* The call is through with its request.
Finished(x) == IF x = Recovery THEN [Idle EXCEPT !.pc = "close"] ELSE Idle

\* executeFallback, with the agent's run as previousRunIds.
ExecuteFallback(x, f) ==
  IF FallbackEnabled THEN [f EXCEPT !.pc = "createFallback", !.toLink = {}] ELSE Finished(x)

Go(x, f) == /\ flows' = [flows EXCEPT ![x] = f]
            /\ UNCHANGED <<up, investigated, orphans>>

\* The process ends; what is in its memory goes with it.
Exit ==
  /\ up' = FALSE
  /\ flows' = [x \in Flows |-> Idle]
  /\ investigated' = {}
  /\ orphans' = {}

\* handleSignal's catch runs the fallback, without a try of its own around it;
\* elsewhere the call rejects: recovery's rejection is a top-level await's.
Throw(x) ==
  CASE flows[x].inTry -> Go(x, ExecuteFallback(x, [flows[x] EXCEPT !.inTry = FALSE]))
    [] ~flows[x].inTry /\ x # Recovery -> Go(x, Idle)
    [] ~flows[x].inTry /\ x = Recovery -> Exit

\* One statement on the table, and the SELECT that reads the row back: the call
\* goes on to f, or the statement throws with or without having taken effect.
Statement(x, written, f) ==
  /\ \/ runs' = written /\ Go(x, f)
     \/ runs' \in {runs, written} /\ Throw(x)
  /\ UNCHANGED source

\* The call goes on, or what it awaits throws.
Await(x, f) ==
  /\ Go(x, f) \/ Throw(x)
  /\ UNCHANGED <<runs, source>>

\* The mark is set only once the run is recorded.
FaultHandleSignal(c, i) ==
  /\ up /\ flows[Recovery].pc # "list"
  /\ flows[c].pc = "idle" /\ i \notin {runs[r].request : r \in {s \in Recorded : runs[s].mine}}
  /\ flows' = [flows EXCEPT ![c] = [Idle EXCEPT !.pc = "create", !.request = i]]
  /\ UNCHANGED <<up, runs, source, orphans, investigated>>

\* handleSignal, up to its first await, in a free slot.  The list of orphans is
\* asked for at the start; no signal comes before the timer has fired.
HandleSignal(c, i) ==
  /\ up /\ flows[Recovery].pc # "list"
  /\ flows[c].pc = "idle" /\ c = CHOOSE d \in Calls : flows[d].pc = "idle"
  /\ i \notin investigated
  /\ investigated' = investigated \cup {i}
  /\ flows' = [flows EXCEPT ![c] = [Idle EXCEPT !.pc = "create", !.request = i]]
  /\ UNCHANGED <<up, runs, source, orphans>>

\* The agent's run is recorded.  At the bound the INSERT can only fail.
CreateRun(x) ==
  /\ flows[x].pc = "create"
  /\ IF NewRun \in RunIds
       THEN Statement(x, Created("agent", flows[x].request, NewRun),
              [flows[x] EXCEPT !.pc = "investigate", !.agentRun = NewRun, !.run = NewRun,
                               !.inTry = TRUE])
       ELSE Throw(x) /\ UNCHANGED <<runs, source>>

\* runInvestigation ends FAILED, or throws.
Investigate(x) ==
  /\ flows[x].pc = "investigate"
  /\ Await(x, [flows[x] EXCEPT !.pc = "fail"])

\* failRun, then executeFallback, still inside the try.
FailRun(x) ==
  /\ flows[x].pc = "fail"
  /\ Statement(x, [runs EXCEPT ![flows[x].agentRun].status = "failed"],
               ExecuteFallback(x, flows[x]))

\* executeFallback's createRun.
CreateFallback(x) ==
  /\ flows[x].pc = "createFallback"
  /\ IF NewRun \in RunIds
       THEN Statement(x, Created("fallback", flows[x].request, flows[x].agentRun),
              [flows[x] EXCEPT !.pc = "diagnose", !.run = NewRun])
       ELSE Throw(x) /\ UNCHANGED <<runs, source>>

\* The investigator, or the beam search, has a diagnosis, the narrator has put it
\* into words, and attachNarrative's SELECT is back: it refuses a fallback's
\* evidence where the agent's is, and may refuse any for the sake of its cell.
PersistOutcome(x) ==
  /\ flows[x].pc \in {"investigate", "diagnose"}
  /\ LET f == [flows[x] EXCEPT !.toLink = {flows[x].agentRun, flows[x].run}] IN
       \/ Await(x, [f EXCEPT !.pc = "link"])
       \/ /\ ~(IsFallback(f) /\ source[f.request] = "agent")
          /\ Await(x, [f EXCEPT !.pc = "attach"])

\* attachNarrative's UPDATE.
AttachNarrative(x) ==
  LET written == [source EXCEPT ![flows[x].request] = SourceOf(flows[x])] IN
    /\ flows[x].pc = "attach"
    /\ \/ source' = written /\ Go(x, [flows[x] EXCEPT !.pc = "link"])
       \/ source' \in {source, written} /\ Throw(x)
    /\ UNCHANGED runs

\* The run is completed first and linked afterwards, as the code does once more
\* at its end.
FaultLinkRun(x) ==
  /\ flows[x].pc = "link"
  /\ Await(x, [flows[x] EXCEPT !.pc = "complete", !.toLink = {}])

\* persistOutcome's loop of linkRunToIncident, the earlier run first.
LinkRun(x) ==
  /\ flows[x].pc = "link"
  /\ \E r \in flows[x].toLink :
       /\ \A s \in flows[x].toLink : r <= s
       /\ Statement(x, [runs EXCEPT ![r].linked = TRUE],
            [flows[x] EXCEPT !.toLink = @ \ {r},
                             !.pc = IF flows[x].toLink = {r} THEN "complete" ELSE "link"])

\* completeRun.  The fallback returns from there.
CompleteRun(x) ==
  /\ flows[x].pc = "complete"
  /\ Statement(x, [runs EXCEPT ![flows[x].run].status = "completed"],
               IF IsFallback(flows[x]) THEN Finished(x) ELSE [flows[x] EXCEPT !.pc = "relink"])

\* handleSignal's own linkRunToIncident, after the one in persistOutcome.
RelinkRun(x) ==
  /\ flows[x].pc = "relink"
  /\ Statement(x, [runs EXCEPT ![flows[x].run].linked = TRUE], Finished(x))

------------------------------------------------------------------------------
(* Starting, dying and recovering. *)

\* The next process; its recovery is under way.
Start ==
  /\ ~up
  /\ up' = TRUE
  /\ runs' = [r \in RunIds |-> IF r \in Recorded THEN [runs[r] EXCEPT !.mine = FALSE]
                               ELSE runs[r]]
  /\ flows' = [flows EXCEPT ![Recovery] = [Idle EXCEPT !.pc = "list"]]
  /\ UNCHANGED <<source, investigated, orphans>>

\* The list is not restricted to one status.
FaultListOrphanRuns ==
  /\ flows[Recovery].pc = "list"
  /\ orphans' = Recorded
  /\ flows' = [flows EXCEPT ![Recovery].pc = "close"]
  /\ UNCHANGED <<up, runs, source, investigated>>

\* Only the agent's runs are looked for.
FaultListAgentRuns ==
  /\ flows[Recovery].pc = "list"
  /\ orphans' = {r \in Running : runs[r].actor = "agent"}
  /\ flows' = [flows EXCEPT ![Recovery].pc = "close"]
  /\ UNCHANGED <<up, runs, source, investigated>>

\* listOrphanRuns: of either actor.
ListOrphanRuns ==
  /\ flows[Recovery].pc = "list"
  /\ orphans' = Running
  /\ flows' = [flows EXCEPT ![Recovery].pc = "close"]
  /\ UNCHANGED <<up, runs, source, investigated>>

\* The query throws, and with it the process's start.
FailToList ==
  /\ flows[Recovery].pc = "list"
  /\ Exit
  /\ UNCHANGED <<runs, source>>

\* A fallback's orphan gets a fallback too.
FaultAfterClosing(r) ==
  IF ~runs[r].linked THEN Finished(Recovery)
  ELSE ExecuteFallback(Recovery,
         [Idle EXCEPT !.request = runs[r].request, !.agentRun = r, !.run = r])

\* What recoverOrphanRuns does with an orphan once it is closed: nothing more, if
\* it is a fallback or was never linked.
AfterClosing(r) ==
  IF runs[r].actor = "fallback" \/ ~runs[r].linked THEN Finished(Recovery)
  ELSE ExecuteFallback(Recovery,
         [Idle EXCEPT !.request = runs[r].request, !.agentRun = r, !.run = r])

\* A failure on one orphan is skipped over.
FaultCloseOrphan(r) ==
  /\ flows[Recovery].pc = "close" /\ r \in orphans
  /\ orphans' = orphans \ {r}
  /\ \/ /\ runs' = [runs EXCEPT ![r].status = "failed"]
        /\ flows' = [flows EXCEPT ![Recovery] = AfterClosing(r)]
     \/ UNCHANGED <<runs, flows>>
  /\ UNCHANGED <<up, source, investigated>>

\* failRun of the next orphan, in the order the rows came in.
CloseOrphan(r) ==
  /\ flows[Recovery].pc = "close" /\ r \in orphans
  /\ runs' = [runs EXCEPT ![r].status = "failed"]
  /\ flows' = [flows EXCEPT ![Recovery] = AfterClosing(r)]
  /\ orphans' = orphans \ {r}
  /\ UNCHANGED <<up, source, investigated>>

\* failRun throws, with or without effect.
FailToClose(r) ==
  /\ flows[Recovery].pc = "close" /\ r \in orphans
  /\ runs' \in {runs, [runs EXCEPT ![r].status = "failed"]}
  /\ Exit
  /\ UNCHANGED source

\* The list is worked off: the server listens.
Recovered ==
  /\ flows[Recovery].pc = "close" /\ orphans = {}
  /\ Go(Recovery, Idle)
  /\ UNCHANGED <<runs, source>>

\* The process is killed.
Crash ==
  /\ up
  /\ Exit
  /\ UNCHANGED <<runs, source>>

Init ==
  /\ up = FALSE
  /\ runs = [r \in RunIds |-> NoRun]
  /\ source = [i \in IncidentIds |-> "beam_search"]
  /\ investigated = {}
  /\ flows = [x \in Flows |-> Idle]
  /\ orphans = {}

FlowStep(x) ==
  \/ CreateRun(x) \/ Investigate(x) \/ FailRun(x)
  \/ CreateFallback(x) \/ PersistOutcome(x) \/ AttachNarrative(x)
  \/ LinkRun(x) \/ CompleteRun(x) \/ RelinkRun(x)

Next ==
  \/ Start \/ Crash \/ ListOrphanRuns \/ FailToList \/ Recovered
  \/ \E r \in RunIds : CloseOrphan(r) \/ FailToClose(r)
  \/ \E c \in Calls, i \in IncidentIds : HandleSignal(c, i)
  \/ \E x \in Flows : FlowStep(x)

Spec == Init /\ [][Next]_vars

\* The platform restarts the process; every await settles; and a database that is
\* asked again at every start eventually answers.
FairSpec ==
  /\ Spec
  /\ WF_vars(Start) /\ SF_vars(ListOrphanRuns)
  /\ \A r \in RunIds : SF_vars(CloseOrphan(r))
  /\ WF_vars(FlowStep(Recovery))

------------------------------------------------------------------------------
(* Properties. *)

TypeOK ==
  /\ up \in BOOLEAN
  /\ runs \in [RunIds -> Run \cup {NoRun}]
  /\ source \in [IncidentIds -> {"agent", "beam_search"}]
  /\ investigated \subseteq IncidentIds
  /\ flows \in [Flows -> Flow]
  /\ orphans \subseteq RunIds

\* A live incident is investigated once, however many ticks confirm it while the
\* first investigation is still under way (coordinator.ts:216).
InvestigatedOnce ==
  \A r, s \in Recorded :
    /\ runs[r].mine /\ runs[r].actor = "agent"
    /\ runs[s].mine /\ runs[s].actor = "agent"
    /\ runs[r].request = runs[s].request
    => r = s

\* A run that is over stays as it ended: neither a late step of its own call nor
\* a recovery with an old list changes it.
TerminalIsFinal ==
  [][\A r \in Recorded : runs[r].status # "running"
       => runs'[r].status = runs[r].status]_vars

\* A completed run can be found from its incident: it was linked before it was
\* closed.
CompletedIsLinked == \A r \in Recorded : runs[r].status = "completed" => runs[r].linked

\* Fallbacks do not chain, across exceptions and restarts (coordinator.ts:295):
\* each stands in for a run of the agent, and none of those gets more than two.
FallbacksDoNotChain ==
  \A r \in Recorded :
    LET fallbacks == {s \in Recorded : runs[s].actor = "fallback" /\ runs[s].cause = r}
    IN fallbacks # {} => runs[r].actor = "agent" /\ Cardinality(fallbacks) <= 2

\* Once a process is up, no run of an earlier one is left in `running`, of either
\* actor (persistence.ts:406).
RecoveryLeavesNoOrphan ==
  up /\ flows[Recovery].pc = "idle" => \A r \in Running : runs[r].mine

\* And a run whose process died is closed eventually, even if recovery itself
\* fails over and over.
OrphansGetClosed ==
  \A r \in RunIds : r \in Running /\ ~runs[r].mine ~> r \notin Running

------------------------------------------------------------------------------
(* What a comment says and the code does not do. *)

\* coordinator.ts:166: with the fallback off "the failed run is still recorded".
\* When a call leaves its try block, its run is not in `running` any more.
FailedRunIsRecorded ==
  [][\A c \in Calls : flows[c].inTry /\ ~flows'[c].inTry /\ up'
       => runs'[flows[c].agentRun].status # "running"]_vars
==============================================================================

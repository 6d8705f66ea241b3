----------------------------- MODULE ControlTower -----------------------------
(***************************************************************************)
(* Detector, orchestration tail and incident board in one model (run.ts).  *)
(*                                                                         *)
(* The detector confirms a drop after PersistenceWindows windows and its   *)
(* memory dies with the process; the board, which survives, drops an       *)
(* incident after ResolveAfterQuietWindows windows without confirmation;   *)
(* between them a queue of jobs that also dies with the process.  Here the *)
(* detector is Detector.tla, and the table is the atomic board that        *)
(* Incidents.tla implements (AtomicBoard), so a job's every operation on   *)
(* it is one step.                                                         *)
(***************************************************************************)
EXTENDS Detector, Cells

CONSTANTS IncidentIds,               \* the uuids rows are created under
          Codes,                     \* dominant decline codes
          ResolveAfterQuietWindows,  \* lifecycle.ts: 3
          Diagnoses,                 \* sequences of diagnoses one window yields
          MaxRestarts                \* bound: processes that read a window

\* Rollups are cut along merchant and country and at most one more dimension,
\* so every slice has a root.
ASSUME TowerAssumption ==
  /\ Slices \subseteq {c \in Cells : Rooted(c)}
  /\ Diagnoses \subseteq Seq([cell : Cells, code : Codes])
  /\ ResolveAfterQuietWindows \in Nat \ {0}
  /\ MaxRestarts \in Nat

\* Three windows each (detect/constants.ts, lifecycle.ts).  lifecycle.ts:9 calls
\* a coupling of the two accidental; a fault outlives a restart only under it.
ASSUME RestartAssumption == PersistenceWindows <= ResolveAfterQuietWindows

\* Operators named Fault... are the definition that follows with
\* a plausible bug in it; they take no part in the specification.

VARIABLES board,  \* the incidents table
          tail,   \* orchestrationTail: the windows' jobs, the running one first
          log     \* history: the windows read, by every process so far

towerVars == <<vars, board, tail, log>>

Board == INSTANCE IncidentBoard WITH MaxBucket <- MaxClock, GapSets <- SUBSET Slices

Active(id) == board[id].status \in Board!ActiveStatuses

\* cold: the window a process reads first.  done: its job reached its end.
LogEntry == [bucket : Buckets, reading : Readings, cold : BOOLEAN, done : BOOLEAN]

------------------------------------------------------------------------------
(* The detector's steps, and what each adds. *)

DetectorOnly ==
  /\ \/ CloseMinute
     \/ \E t \in Ticks : StartTick(t) \/ LoadConfig(t) \/ FailTick(t)
  /\ UNCHANGED <<board, tail, log>>

Read(t) ==
  /\ ReadWindow(t)
  /\ log' = Append(log, [bucket  |-> lastProcessedBucket',
                         reading |-> processed'[Len(processed')].reading,
                         cold    |-> processed = <<>>,
                         done    |-> FALSE])
  /\ UNCHANGED <<board, tail>>

\* rootsOf and the loop over its roots: each root a signal names yields at least
\* one diagnosis, of a cell under that root, and nothing else is diagnosed.
Diagnosed(signals) ==
  {d \in Diagnoses :
     /\ \A i \in DOMAIN d : \E s \in signals : SharesRoot(d[i].cell, s)
     /\ \A s \in signals : \E i \in DOMAIN d : SharesRoot(d[i].cell, s)}

\* onResult: the evidence and the gaps of the window join the tail.  `window` is
\* the window's place in the log.
HandOver(t) ==
  /\ Deliver(t)
  /\ \E evidence \in Diagnosed(ticks[t].output.signals) :
       tail' = Append(tail, [pc |-> "write", window |-> Len(log),
                             evidence |-> evidence, gaps |-> ticks[t].output.gaps])
  /\ UNCHANGED <<board, log>>

\* The process restarts: the table is what is left of it.
RestartTower ==
  /\ Cardinality({n \in DOMAIN log : log[n].cold}) <= MaxRestarts
  /\ Restart
  /\ tail' = <<>>
  /\ UNCHANGED <<board, log>>

------------------------------------------------------------------------------
(* The job at the head of the tail. *)

Job == [pc : {"write", "giveUp"}, window : Nat \ {0},
        evidence : Seq([cell : Cells, code : Codes]), gaps : SUBSET Slices]

BucketOf(job) == log[job.window].bucket

\* The evidence is dated by what the detector has read by now.
FaultNextReading(job) ==
  [cell |-> Head(job.evidence).cell, code |-> Head(job.evidence).code,
   at |-> log[Len(log)].bucket]

\* What openOrUpdate gets: the next evidence object, dated by its window.
NextReading(job) ==
  [cell |-> Head(job.evidence).cell, code |-> Head(job.evidence).code,
   at |-> BucketOf(job)]

\* openOrUpdate for one evidence object.
WriteEvidence ==
  /\ tail # <<>> /\ Head(tail).evidence # <<>>
  /\ \E id \in IncidentIds : \/ Board!Open(id, NextReading(Head(tail)))
                             \/ Board!Confirm(id, NextReading(Head(tail)))
  /\ tail' = [tail EXCEPT ![1].evidence = Tail(@)]
  /\ UNCHANGED <<vars, log>>

\* reconcile goes by what the detector has read by now.
FaultResolveQuiet ==
  /\ tail # <<>> /\ Head(tail).pc = "write" /\ Head(tail).evidence = <<>>
  /\ Board!Resolve(log[Len(log)].bucket, Head(tail).gaps)
  /\ tail' = [tail EXCEPT ![1].pc = "giveUp"]
  /\ UNCHANGED <<vars, log>>

\* reconcile, after the last openOrUpdate: the incidents that recovered.
ResolveQuiet ==
  /\ tail # <<>> /\ Head(tail).pc = "write" /\ Head(tail).evidence = <<>>
  /\ Board!Resolve(BucketOf(Head(tail)), Head(tail).gaps)
  /\ tail' = [tail EXCEPT ![1].pc = "giveUp"]
  /\ UNCHANGED <<vars, log>>

\* reconcile's second half, the incidents nothing can be said of; the job ends.
GiveUpQuiet ==
  /\ tail # <<>> /\ Head(tail).pc = "giveUp"
  /\ Board!GiveUp(BucketOf(Head(tail)), Head(tail).gaps)
  /\ tail' = Tail(tail)
  /\ log' = [log EXCEPT ![Head(tail).window].done = TRUE]
  /\ UNCHANGED vars

\* A statement throws: the tail logs it and goes on to the next job.
FailJob ==
  /\ tail # <<>>
  /\ tail' = Tail(tail)
  /\ UNCHANGED <<vars, board, log>>

------------------------------------------------------------------------------

TowerInit == Init /\ Board!BoardInit /\ tail = <<>> /\ log = <<>>

JobStep == WriteEvidence \/ ResolveQuiet \/ GiveUpQuiet \/ FailJob

TowerNext ==
  \/ DetectorOnly
  \/ \E t \in Ticks : Read(t) \/ HandOver(t)
  \/ JobStep
  \/ RestartTower

TowerSpec == TowerInit /\ [][TowerNext]_towerVars

------------------------------------------------------------------------------
(* Properties. *)

\* The drops of s up to window n that its process has read without a recovery
\* between them.
DropsOf(n, s) ==
  {i \in 1 .. n : /\ log[i].reading[s] = "drop"
                  /\ \A j \in i .. n : log[j].reading[s] # "clear" /\ (log[j].cold => j = i)}

Confirmed(n, s) ==
  log[n].reading[s] = "drop" /\ Cardinality(DropsOf(n, s)) >= PersistenceWindows

\* An incident was last confirmed by a window in which some slice under its
\* merchant and country was down, and for long enough in the memory of one
\* process: neither a restart nor a failed job nor a late one dates an incident
\* by a window that did not see the fault (run.ts:158).
IncidentsGoBackToDrops ==
  \A id \in IncidentIds : board[id] # Board!NoEntry =>
    \E n \in DOMAIN log, s \in Slices :
      /\ log[n].bucket = board[id].detectedAt
      /\ SharesRoot(board[id].dims, s)
      /\ Confirmed(n, s)

\* What window n said of the incident's own slice; of a cell that is not one of
\* the slices, nothing.
OwnVerdict(n, cell) == {log[n].reading[s] : s \in {t \in Slices : SameCell(cell, t)}}

\* An incident leaves the board on the word of one window, read the required
\* number of windows later, whenever that window's job runs.  A resolved incident
\* is dated by that window, which did not find its slice too thin to judge; of
\* one given up, the window saw too little of the slice or nothing
\* (lifecycle.ts:55).  Which of the two becomes of a slice the window saw nothing
\* of is left open: the code resolves it, the comment at lifecycle.ts:58 does not.
RetiredByItsWindow ==
  \A id \in IncidentIds :
    LET entry == board[id] IN
      entry.status \in {"resolved", "inconclusive"} =>
        \E n \in DOMAIN log :
          /\ log[n].bucket >= entry.detectedAt + ResolveAfterQuietWindows
          /\ entry.status = "resolved" =>
               log[n].bucket = entry.resolvedAt /\ "gap" \notin OwnVerdict(n, entry.dims)
          /\ entry.status = "inconclusive" =>
               OwnVerdict(n, entry.dims) \cap {"gap", "absent"} # {}

\* The fault at s still shows in window n: the window confirms it, or the process
\* restarted in window c, right after the last one had confirmed and recorded it,
\* and has read nothing but the drop since, a window for every minute.
ShowsAt(n, s) ==
  \/ Confirmed(n, s)
  \/ \E c \in 2 .. n :
       /\ log[c].cold /\ log[c - 1].done /\ Confirmed(c - 1, s)
       /\ log[n].bucket - log[c - 1].bucket <= n - c + 1
       /\ \A k \in c .. n : log[k].reading[s] = "drop" /\ (log[k].cold => k = c)

ShowThrough ==
  tail # <<>> /\ Head(tail).evidence = <<>> =>
    \A s \in Slices : ShowsAt(Head(tail).window, s) =>
      \E id \in IncidentIds : /\ board'[id].status \in Board!ActiveStatuses
                              /\ SharesRoot(board'[id].dims, s)

\* A fault that shows in a window has an active incident under its merchant and
\* country from the moment the window's evidence is written and through its
\* reconcile pass, not least when a restart has just emptied the streaks and the
\* fault is not confirmed again yet (scheduler.ts:130, run.ts:180).
OutageStaysOnTheBoard == [][ShowThrough]_towerVars
==============================================================================

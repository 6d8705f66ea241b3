# The control tower in TLA+

The control tower watches card payments. A generator writes synthetic
transactions to a Redis stream; one Node process (`packages/app`) ingests them
into per-minute rollups, looks for drops in approval every minute, keeps a table
of incidents, lets an agent investigate each of them, and serves the result over
REST and SSE to a dashboard (`packages/web`). This directory holds TLA+ modules
of the parts of it whose order of steps matters, the TLC runs that check them,
and TLAPS proofs of the most important results.

Paths below are relative to `packages/app/src` unless they start with
`packages/`.

## 1. The system

### Components, their state and operations

| component | state | operations |
|---|---|---|
| **Ingest** `ingest/consumer.ts`, `process-batch.ts`, `insert-transactions.ts`, `upsert-rollups.ts`, `rollup.ts` | Redis stream, group cursor and pending list; tables `transactions`, `rollup_minute`, `rollup_declines_minute` | reclaim pending pages at start; read a batch; write it in one transaction; retry, exit or drop a poison batch; acknowledge |
| **Retention** `ingest/retention.ts` | — | delete rows of `transactions` older than the cutoff, in batches |
| **Detector** `detect/scheduler.ts`, `persistence.ts`, `tick.ts` | cursor `lastProcessedBucket`, a streak per fingerprint, the `running` guard | every minute: read the windows since the cursor, step the streaks, diagnose, call `onResult` |
| **Detection statistics** `detect/trigger.ts`, `wilson.ts`, `family-wise.ts`, `expected.ts`, `aggregate.ts`, `onset-scan.ts` | none | the lenses that decide whether a slice of a window dropped |
| **Diagnosis** `diagnose/*` | none | peel the causes of a drop, beam search, parsimony, residual, decline mix, cost, evidence object, trail |
| **Wiring** `run.ts` | `orchestrationTail`, a promise chain | start-up order; `onResult`: store and broadcast at once, then queue a job on the tail |
| **Incidents** `orchestrate/incidents.ts`, `lifecycle.ts`, `cell.ts` | table `incidents` | `openOrUpdate`, `reconcile`, `attachNarrative` |
| **Memory** `orchestrate/memory.ts` | — | recall similar incidents; its failure is absorbed |
| **Coordinator** `agent/coordinator.ts`, `persistence.ts` | the `investigated` set; tables `investigation_runs`, `investigation_steps` | `handleSignal`, `executeFallback`, `recoverOrphanRuns` |
| **Investigator** `agent/investigator.ts`, `tools.ts`, `audit.ts`, `config.ts`, `mastra.ts` | tool budget, step trail | run the language model against a deadline, record every tool call, validate the conclusion |
| **Playbooks, narrator** `agent/playbooks.ts`, `narrator.ts` | none | match a recommendation; put evidence into words, with a template fallback |
| **API** `api/*` | capped signal, gap, evidence and pending stores; the set of SSE clients | REST routes, broadcast |
| **Database** `db/*` | — | schema, queries, waiting for the database at start |
| **Generator** `packages/generator` | emission backlog, active injected incidents | emit transactions by volume and time |
| **Dashboard** `packages/web` | the stream route's timers, the client's view | poll snapshots, forward them as SSE |

### How they interact

The generator and the app share only the Redis stream. Ingest and detector share
the rollup tables: the detector reads a minute once, a grace period after it
closed. The detector calls `onResult` synchronously; from there every database
write of a window is a job on `orchestrationTail`, so windows are written in
order. A job opens or confirms incidents, retires quiet ones and then launches
the coordinator without awaiting it, so investigations write the incidents table
and the run table whenever they are done. All of it lives in one process: a crash
loses cursor, streaks, tail, the `investigated` set and all calls in flight, and
keeps the tables, the stream and the consumer group.

### What is hard

* Node runs one stretch of code at a time, but every `await` lets others in: a
  row read by a SELECT may have changed before the UPDATE that relies on it.
* Any statement can fail, before or after it took effect.
* The process can die between any two statements and restart; what it had
  promised in memory is then gone.
* The timer does not wait for slow ticks; a catch-up is capped.
* The stream delivers at least once, is trimmed, and its deduplicating table is
  pruned.

### What makes each component correct

* *Ingest*: a transaction is counted at most once, whatever is redelivered, and at
  least once before its entry is acknowledged; nothing pending is forgotten.
* *Detector*: a confirmation follows from the windows read and from nothing else;
  windows are delivered in order and once; it never stops.
* *Incidents*: one live incident per place; what is still down is not retired, what
  is quiet is; a resolved incident stays resolved; evidence and prose agree.
* *Coordinator*: one investigation per incident; runs are closed and stay as they
  ended; fallbacks do not chain; a restart leaves no run behind.
* *Diagnosis*: the causes peeled off a drop share no traffic, a single fault is named
  for exactly what it is, and what is computed twice in two ways agrees.
* *Investigator*: an accepted answer rests on recorded steps, the deadline ends every
  run, and only the search's own cells and figures are written.
* *Dashboard*: a page holds one connection, no handler or timer outlives it, and the
  screen catches up with the database.
* *Generator*: traffic follows the catalog's weights, and emission neither piles up
  behind a slow sink nor stops.

Every hazard behind these lines, with its place in the source, is listed in
`PROJECT.json` under `hazards`.

## 2. The modules

| module | models | proofs |
|---|---|---|
| `Cells` | `orchestrate/cell.ts` and the comparisons of cells in `lifecycle.ts` and `incidents.ts` | |
| `IncidentBoard` | the abstract specification: an incident board with atomic operations | |
| `Incidents` | the incidents table, the jobs on the tail, the investigations as far as they write it | `IncidentsProofs` |
| `Detector` | scheduler, persistence rule, and what a window's verdicts become | `DetectorProofs` |
| `ControlTower` | the two before it put together: detector, orchestration tail and board, across restarts | `DetectorProofs` |
| `Ingest` | stream, consumer group, consumer, tables, retention | `IngestProofs` |
| `Coordinator` | `handleSignal`, fallback, run records, orphan recovery | `CoordinatorProofs` |
| `Investigator` | one agent run: loop, deadline, tool calls, trail, validation | `InvestigatorProofs` |
| `AgentPass` | extends `Investigator` by what the coordinator makes of its result: diagnosis, playbook, prose | `InvestigatorProofs` |
| `Rollups` | aggregation, slices, Wilson's test, expected rates, residual, onset scan | |
| `CauseSearch` | beam search, parsimony, echoes | |
| `DeclineMix` | decline mix, outage attribution, causal dimension | |
| `InvestigationTools` | what the agent's six tools answer; cost; trail | |
| `Diagnosis` | the lenses of the detector and `runDiagnosis`, as a state machine over the four above | `DiagnosisProofs` |
| `Dashboard` | the stream route's handlers and the page's hook | `DashboardProofs` |
| `Generator` | the catalog's weights, injected incidents, the emission loop | `GeneratorProofs` |
| `MC...` | instances for TLC | |

`Rollups`, `CauseSearch`, `DeclineMix`, `InvestigationTools` and `Diagnosis` extend one
another in this order; `AgentPass` extends `Investigator`; `Incidents` extends
`Cells` and implements `IncidentBoard`; `ControlTower` extends `Detector` and instantiates
`IncidentBoard`, so the board stands in for the `Incidents` that implement it.

In each module, operators named `Fault...` are a definition with a plausible bug.
They take no part in the specification; `PROJECT.json` lists, for each property,
the one that breaks it.

### Incidents

`rows` holds the measured columns and status of the table, `triple` its evidence
and narrative columns (they are written by different parties). `jobs[b]` is the
job of window `b`: `HandOver` is `onResult`; `FindLiveIncident` is `openOrUpdate`'s
SELECT, and `ConfirmWider`, `Remeasure` and `InsertIncident` are the statement that
follows it; `PlanTransitions`, `ResolveQuiet` and `GiveUpQuiet` are `reconcile`'s
SELECT and UPDATEs; `Launch` starts the investigations. `Runnable` is the promise
chain. `SelectForNarrative` and `AttachNarrative` are the two statements of
`attachNarrative`. `FailJob`, `FailInvestigation` and `Restart` may strike anywhere.

A cell is a function from the dimensions it fixes to their values. A narrative is
represented by the evidence object its text was written from, and an agent's
diagnosis by any cell under the incident's root: what the model picks is free.

Abstracted: run records (in `Coordinator`), the fallback that orphan recovery
starts (in `Coordinator`), a process that restarts within a minute and reads the
same window twice (windows only go forward here).

### IncidentBoard

The promise: a reading opens an incident only if no live one covers it; a live one
is confirmed or made more precise, never widened; a pass retires exactly what is
quiet, as resolved or, if a gap says the cell lost its volume, as inconclusive.
`Incidents!AtomicBoard` is this specification with `board <- rows`.

### Detector

`ticks[t]` is one `runOnce` call: `load` (configuration), `read` (rollups of the
next window), `diagnose` (queries before `onResult`). A window's verdict per slice
(`drop`, `clear`, `gap`, `absent`) is the input: the statistics that reach it are
in `Rollups` and `Diagnosis`. `ReadWindow` steps the streaks and the cursor in one stretch of code,
as `runOnce` does, and `Deliver` is `onResult`. `processed` and `delivered` are
history variables. There are two tick slots so that a timer that fires during a
slow tick can be seen; the guard keeps the second unused.

### ControlTower

What happens between a window's read and its incident: `Read` adds a window to `log`,
`HandOver` is `onResult`, which puts the window's evidence and gaps on `tail`, and the job
at the head of the tail writes one evidence object at a time (`WriteEvidence`), then runs
`reconcile` in two parts (`ResolveQuiet`, `GiveUpQuiet`) or fails (`FailJob`). Meanwhile the detector
goes on (`DetectorOnly`, `Read`, `HandOver`), so a job may write for a window that is long past.
`RestartTower` empties the detector's memory and the tail and leaves the board. Each
operation on the table is one step of `IncidentBoard`. `log` is a history of the
windows read by every process so far: `cold` marks the first of a process, `done` the end
of the window's job.

A diagnosis is any cell under the root of a signal: `Diagnosed` says of `runDiagnosis` that it
diagnoses each root that a signal names and no other. The agent, and gaps and
diagnoses of a window that is never handed over, play no part.

`RestartAssumption`, `PersistenceWindows <= ResolveAfterQuietWindows`, holds of the constants in the code,
which are both 3. The code does not say it depends on it: `orchestrate/lifecycle.ts:9` calls
a coupling of the two accidental, and `PERSISTENCE_WINDOWS_OVERRIDE` (`run.ts:63`) can raise one of
them alone. Only `OutageStaysOnTheBoard` needs it, and without it the property fails.

### Ingest

`entries` is the stream from its beginning, of which ids up to `trimmed` are gone.
`pending` and `lastDelivered` are the consumer group. The consumer goes through
`reclaim`, `read`, `write` and `ack`; a page or batch is the set of its ids. A
transaction's rollups are one counter, `rollup[t]`, for all the rows it is added
to. The database transaction is atomic; its answer may be lost
(`CommitUnanswered`). Redis is external and modelled from the commands the code
sends. `LoseReply` is a read whose answer is lost: the client sends it again, and
the first one's entries stay pending.

The one assumption is in the code's own words, "It has to dwarf any redelivery"
(`ingest/retention.ts:15`): an entry is settled while younger than
`RedeliveryWithin`, and `RedeliveryWithin < Retention`. `Settled` is acknowledged, or
trimmed from the stream and in no batch: a trimmed entry that a batch still holds
will be written once more. Time (`Tick`) stands still for an entry that is not; nothing
in the code enforces this, a consumer that is down for longer than the retention
breaks it, and then `CountedOnce` is not claimed.

### Coordinator

`flows` holds the control state of every `handleSignal` call and of
`recoverOrphanRuns`; `executeFallback` and `persistOutcome` are stretches of both.
`Statement` is one write and the SELECT that reads it back: it succeeds, or throws
with or without having taken effect. `Throw` is the catch block, a rejected call,
or, in recovery, the end of the process. In a run record, `mine` and `cause` are
history. Three kinds of failure (`failed`, `timed_out`, `exhausted`) are one.
Whether `attachNarrative` refuses for the sake of cells is free here; `Incidents`
has the rule.

`HandleSignal` waits for recovery's list to have been read: the list is asked for
when the process starts, and the first signal comes no sooner than the timer's
first tick, a minute later.

### Investigator and AgentPass

`loop` is `agent.generate` at work and `pc` the code that awaits it: the two race, and
`Deadline` is the timer that wins against a loop which may go on. A tool call is in
flight in `call`: `StartCall` raises the counter and then checks the budget; `ToolStep` takes
the call through the check of its references, the data source and the INSERT of its
step, each of which may fail. `steps` is the table, `Validate` the SELECT of the trail and
the checks of the answer against it, `Fail` the catch block with its own SELECT and
classification. The language model is external: it calls what it likes with any
references, answers anything or fails at any time. Calls come one at a time, since
the loop is started with `toolCallConcurrency: 1`.

`AgentPass` goes on where `runInvestigation` returns. `Materialize` is the choice of the
diagnosis (the agent's cell if the search confirms it on its own reading, the
search's first otherwise) and `ExecuteFallback` the pass without the agent;
`MatchRecommendation` is the playbook; `Narrate`, `NarratorFails` and `WriteTemplate` are the
narrators' cascade. A number is a value and the way it is spoken (a rate, its
complement, a count), which is what the evidence check tells apart. `Coordinator` has
the run records of the same pass.

### Rollups to Diagnosis

A window is a set of rollup rows under one merchant and country. A rate is a
fraction and a verdict exact: Wilson's bound against a limit is an inequality between
integers, for z = 2 instead of 1.96 and without the correction of z for the number of
tests. `Init` chooses a window with its history. `Detect` applies the lenses (`AbsoluteTrigger`,
`CrossSectionalSweep`, `TemporalSweep`, and `Retry` of thin cells over a longer window) and lets any
of the drops come in as persisted signals; that is the only choice, the rest of
`Next` is the sequence of `runDiagnosis`' loops: `Peel` after peel off the root, `PeelEnds`, then
the `Rescue` of signals the peels have not explained. `CauseSearch!Search` is the beam with
its width and depth, `SelectCausal` parsimony, `SuppressedEchoes` the residual test with the
cause carved out. `InvestigationTools` computes what the agent would see of the same
rows.

### Dashboard

`handlers[c]` is one run of the route's `start()`: its interval, its self-close timer, whether
it has stopped, and the snapshots it awaits (`reads`). The four ways to its end, the request's abort,
the stream's cancel, the self-close timer and an enqueue that throws, may come in any
order and before the timers are armed. `live` holds the page's open EventSources and
`page` what the hook has to do; the wire between them delivers in order, breaks, or
ends. A snapshot is a version of the incidents and one of the pending list; the two
are read at different moments, and a failing half is absent. `RestartApp` empties the
pending list.

### Generator

`cells` is the catalog built by `buildTransactionCells`, with its shares. `Tick` is the timer's callback:
it adds the volume due to `carry`, caps it, and unless a batch is in flight takes the
whole events off and hands them to the sink together. `Answer` is one answer of the
sink or its failure, `Settle` the `finally` when the batch's promise settles, which comes
before any further timer. `Inject` and `Remove` are the console's requests. Volume is counted in
parts of an event (`Unit`) and latency in parts of a millisecond (`Whole`); an event
whose latency is not a whole number is one the contract refuses.

## 3. What TLC checks

`tlc -config X.cfg M` in this directory. Bounds are CONSTANTS and named there.

| run | result | shows |
|---|---|---|
| `incidents` (`MCIncidents.cfg`) | holds | `AgentTripleTogether`; `ReconcileLeavesNoneStale`; `ReconfirmedNotRetired`; `OneIncidentPerPlace`; `AtomicBoard` (refinement); `EveryBucketSettles` (liveness) |
| `control_tower` (`MCControlTower.cfg`) | holds | `IncidentsGoBackToDrops`; `RetiredByItsWindow`; `OutageStaysOnTheBoard` |
| `detector` (`MCDetector.cfg`) | holds | `ConfirmedIsJustified`; `DeliveredInOrder`; `OnlyTheCapSkips`; `KeepsUp` (liveness) |
| `ingest` (`MCIngest.cfg`) | holds | `CountedOnce`; `AcknowledgedIsCounted`; `NothingStaysPending`; `EveryEntrySettles` (liveness) |
| `coordinator` (`MCCoordinator.cfg`) | holds | `InvestigatedOnce`; `CompletedIsLinked`; `FallbacksDoNotChain`; `RecoveryLeavesNoOrphan`; `TerminalIsFinal`; `OrphansGetClosed` (liveness) |
| `investigator` (`MCInvestigator.cfg`) | holds | `EvidenceStands`; `OnlyTheDeadlineLeavesStepsBehind`; `ProseIsFromTheEvidence`; `PassMovesOn` (liveness) |
| `diagnosis` (`MCDiagnosis.cfg`) | holds | `OneFaultIsNamedExactly`; `CausesShareNoAttempt`; `EvidenceArguesForTheCause`; `BeamIsWideEnough`; `TemporalOnlyAdds`; `OnsetsAgree` |
| `dashboard` (`MCDashboard.cfg`) | holds | `OneConnection`; `EveryHandlerEnds`, `ScreenCatchesUp` (liveness) |
| `generator` (`MCGenerator.cfg`) | holds | `TrafficFollowsWeights`; `InFlightIsCapped`; `VolumeIsKept`; `EmissionGoesOn` (liveness) |
| `failed_bucket` (`MCFailedBucket.cfg`) | violated | a window whose diagnosis fails is lost, against `detect/scheduler.ts:174` |
| `failed_run` (`MCFailedRun.cfg`) | violated | with the fallback off, a run that ends by an exception stays `running`, against `agent/coordinator.ts:166` |
| `inflated_cost` (`MCInflatedCost.cfg`) | violated | a second cause is charged with the first one's losses, against `diagnose/cost.ts:31` |

Each property is stated, with the code it is about, in the comment above its
definition.

### Bounds

* *incidents*: the root itself, a provider and a method under it, so that readings cover,
  sharpen, widen and contradict each other; two incident ids, so two can be live at
  once; three windows with `ResolveAfterQuietWindows = 1` (3 in the code), so that quiet,
  retirement and a reconfirmation at the last moment all happen; two windows on the
  tail at once.
* *control_tower*: one slice, diagnosed as itself or narrower; four minutes, confirmation
  after two windows, retirement after two and a cap of two, one restart: a fault confirmed
  before the restart is confirmed again after it, or shows without being, or ends. Incident
  ids are symmetric. `MCView` leaves the detector's own histories out of the state: nothing the
  tower does or claims depends on them.
* *detector*: one slice (a slice's streak depends on no other), five minutes,
  confirmation after two windows (3) and a cap of two (10), so that an outage longer
  than the cap, a streak across a gap and a restart in the middle all fit.
* *ingest*: three entries, pages of one and batches of two (100 and 1000), so that a
  page and a batch both overflow; two attempts (5); a stream that may lose its oldest
  entry; a clock that runs to two with a retention of one and redelivery within the
  same minute, so that rows are pruned while other entries are still redelivered.
* *coordinator*: one incident and two call slots (slots are interchangeable: a call is
  its control state); four rows, which is one run of the
  agent with one fallback more than allowed. Crashes and restarts are unbounded.
* *investigator*: one tool that a conclusion requires and one it does not, a budget of two
  calls and a loop that makes three, so that a call beyond the budget, a wasted one and
  one that is late all happen; two cells of which the search may confirm any.
* *diagnosis*: 292 inputs: every set of failing keys under two providers, one or two of
  them under three, histories in which the failing key was quiet, thin, healthy or
  failing, a severe fault next to a milder and a diluting provider, and three decline
  codes over three windows. Card has two issuers and PIX none. The thresholds are
  scaled so that eight attempts are enough volume and six are not.
* *dashboard*: two connections, of which one handler may linger while the page uses the
  other; two versions of each source, two snapshots that overlap, one frame on the wire, one drop.
* *generator*: two catalogs; one and three half events per tick against a cap of three, so
  that whole and partial events, a full backlog and shed volume occur; six ticks and three
  batches, two of which can be in flight when an event cannot be made.

Deadlock is checked in `detector` and `ingest`. Elsewhere there may be nothing left
to do (the last window is over, every incident is investigated, the diagnoses are
made, the page is closed, the generator stopped), so it is switched off there.

### Fairness

* `Incidents!FairSpec`: the event loop runs the job at the head of the tail.
* `Detector!FairSpec`: minutes pass, the timer fires, every query ends in an answer or
  an error; and a query asked over and over is answered over and over.
* `Ingest!FairSpec`: the platform restarts the process, and a command or transaction
  that is tried again and again succeeds in the end (the client reconnects for ever,
  `consumer.ts:180`; a failing consumer exits and is restarted, `run.ts`). Crashes
  stay possible throughout.
* `Coordinator!FairSpec`: the platform restarts the process; awaits settle; and the
  UPDATE that closes an orphan, issued at start after start, succeeds in the end.
* `AgentPass!PassSpec`: the deadline's timer fires and the queries after the loop settle.
  Nothing is assumed of the model, the tools or the narrator: the property is that the
  deadline is enough. The narrator's calls are under none.
* `Dashboard!FairSpec`: queries settle and, asked again and again by an open stream,
  succeed; timers fire; the page receives, notices a broken connection and retries.
  Nothing is assumed of abort and cancel, which the runtime may never report, nor
  that the network breaks or the user leaves.
* `Generator!FairSpec`: callbacks run and the sink answers each call, with success or failure.

## 4. What is proved

TLAPS checks these for every value of the constants (`tlapm M.tla`). Hardly one of the
properties is inductive alone; each proof module states the strengthening it needs as an
operator of its own, and an action property follows from the same strengthening, step
by step. Induction over data (sums over sets, the beam's walk) is the choice of a
minimal counterexample: a
nonempty family of finite sets has a minimal member and a nonempty set of numbers a
least one (`FiniteHasMinimal`, `NatHasLeast`), which needs no theorem with an operator as
its parameter. The strengthenings hold in the runs too: named as an INVARIANT of the
module's run, each passes TLC (`DetectorProofs!Justified` with its `\E f` ranging over the
streak, `TowerInv` without the conjuncts that give its sequences a type).

`IncidentsProofs`:
* `TypeSafety`: `Spec => []TypeOK`.
* `AgentTriple`: `Spec => []AgentTripleTogether`. Evidence and narrative change in one
  UPDATE or, by a tick, only where the SELECT saw no agent evidence and the row was
  not the agent's since; the strengthening says which `source` a snapshot may carry.
* `Order`: `Spec => []IInv`. The inductive invariant says that one job runs at a time,
  that earlier windows are settled, and that what the running job has read of the
  table (its `existing` row, its retirement lists) still holds when it writes,
  because investigations never touch the measured columns. None of the properties that
  follow is inductive alone: each speaks of a write, and the read it relied on is one
  step earlier.
* From it: `NoneStale` (`ReconcileLeavesNoneStale`), `Resolved` (`ResolvedIsFinal`),
  `OnePerPlace` (`OneIncidentPerPlace`), `NotRetired` (`ReconfirmedNotRetired`), and
  `Refinement` (`AtomicBoard`). `Resolved` also follows from the refinement, which is why no run
  names it.

`IngestProofs`:
* `TypeSafety`: `Spec => []TypeOK`. The strengthening `Reach` says that the batch is part
  of the pending list, that of what was delivered, and that of the stream.
* `PendingIsTakenBack`: `Spec => []NothingStaysPending`. `Swept` says where the pending
  entries of an earlier process are: ahead of XAUTOCLAIM's cursor, or in the batch.
* `NothingIsLost`: `Spec => []AcknowledgedIsCounted`. The property speaks of an
  acknowledged entry; `Heard` adds what has been counted when the XACK is due and that
  each row of the table has been counted.
* `NoDoubleCount`: `Spec => []CountedOnce`, if the generator's client never repeats a
  command (`Resends = FALSE`; see section 5).
  The table is what prevents a second count, and retention empties it; so `Counted`
  says that a counted transaction is still in the table or settled for good
  (`SettledStays`), and `Aged` that an unsettled entry is too young to be pruned, which
  is where `RetentionAssumption` is used.

`DetectorProofs`:
* `TypeSafety`: `Spec => []TypeOK`.
* `WindowsGoOutInOrder` (`DeliveredInOrder`), `NothingElseIsSkipped` (`OnlyTheCapSkips`) and
  `ConfirmedByTheHistory` (`ConfirmedIsJustified`). The inductive invariant ties the
  process's memory to the history of windows it has read: one tick in flight at most;
  the cursor is the last window read; what a tick has yet to do is what cursor and
  target say, after every window anew; and a kept streak is the run of drops that the
  history shows. None of the properties mentions the streaks or the guard, and each
  needs them.
* `GuardNeverSticks`: the guard is up exactly while one tick is in flight, whichever of
  its queries throws. This is the safety half of `KeepsUp`.

and about `ControlTower!TowerSpec`:
* `TowerIsADetector`, `TowerUsesTheBoard`: every behaviour of the tower is one of `Detector!Spec` and
  one of `IncidentBoard!BoardSpec`, so what is proved of the parts holds in the whole.
* `IncidentsAreDrops` (`IncidentsGoBackToDrops`), `OneWindowRetires` (`RetiredByItsWindow`) and
  `OutagesStayOnTheBoard` (`OutageStaysOnTheBoard`). They follow from one inductive invariant, `TowerInv`. `LogOK` says that
  time never goes back, also not over a restart; `Memory` that the streaks in memory count the
  drops the log shows since the process began. `TailOK` says of every queued job that each slice
  its window confirmed still has its evidence in the job or its incident on the board
  (`OnBoard`), and that jobs queue in the order of their windows. `BoardOK` dates each entry by a window
  of the log, none newer than a window a pass may still judge by (`Ahead`). `Shown` says
  that what a finished window confirmed is on the board, and has left it only if
  it is quiet as every window ahead sees it. None of this is in the properties:
  `OutageStaysOnTheBoard` speaks of one pass, and what spares the incident there is what a window of an
  earlier process wrote, before its memory was lost.
* The argument of `OutagesStayOnTheBoard` (`StillShown`): a window that confirms the fault has just dated its
  incident. One that does not yet comes fewer than `PersistenceWindows` windows after the last that did,
  since as many drops in one process would confirm it (`LongRunConfirms`); so fewer than
  `ResolveAfterQuietWindows` minutes have passed, and the pass spares it (`PassSpares`).

`CoordinatorProofs`:
* `TypeSafety`, `OneInvestigation` (`InvestigatedOnce`), `CompletedRunsAreLinked`
  (`CompletedIsLinked`), `FallbacksStayFew` (`FallbacksDoNotChain`), `NoOrphanIsLeft`
  (`RecoveryLeavesNoOrphan`) and `EndedRunsStay` (`TerminalIsFinal`). The invariant is
  about ownership: an open run belongs to the one call that will close it, or to
  the list of orphans, whose runs are of an earlier process. From there `Linked` follows
  the order of the two writes that complete a run, `Taken` the set `investigated`, and
  `Counted` the fallbacks of a run through exceptions and recoveries.

`InvestigatorProofs`, about `Investigator!Spec`:
* `TypeSafety`; `ReferencesAlwaysStand`: a recorded step refers only to completed earlier
  ones. The check runs before the step is written; what keeps it true is that calls come
  one at a time, so the counter is the number of the call in flight and no row is above it.
* `EvidenceAlwaysStands` (`EvidenceStands`) and `OnlyTheDeadlineCutsOff`
  (`OnlyTheDeadlineLeavesStepsBehind`): a run that got past the loop other than by the
  deadline has nothing left that could write a step.

and about `AgentPass!PassSpec`:
* `PassIsARun`: every behaviour of a pass is one of `Investigator!Spec`, so the results
  above hold in it, also while the narrator is at work and a loop that missed its
  deadline still calls tools.
* `ProseIsAlwaysFromTheEvidence` (`ProseIsFromTheEvidence`). `PassInv` says that by then the answer
  is final (`Answered`, `AfterTheRun`), that the diagnosis put in place is one the search
  confirmed (`Confirmed`), and that a draft which got through was checked against that
  very diagnosis (`Spoken`), so that no retry carries numbers over from another cell.

`DiagnosisProofs`, for every window, history, threshold, width and depth of the beam:
* `CausesNeverShareAnAttempt` (`CausesShareNoAttempt`). A cell the beam reaches extends the
  one its search began with: by induction over the beam's walk, through every layer and
  every parsimony candidate. A peeled cause is read on the rows its predecessors left,
  and a rescued one begins below a signal that no earlier diagnosis is compatible with
  (`Apart`).
* `OnsetsAlwaysAgree` (`OnsetsAgree`): where the detector's scan claims to be exact, it and
  the agent's tool come to the same minute (`Dated`).
* `CausesAreDrops`: the counts a diagnosis reports are those of its rows, and they are a
  material drop against the cause's siblings (`IsADrop`).
* `EverySignalIsAnswered`: a finished run has a diagnosis, and every confirmed signal below
  the root is compatible with one, unless the drill under it finds no cause. `SignalsInv`
  follows a signal from `waiting` through its own drill.
* `TemporalAlwaysOnlyAdds` (`TemporalOnlyAdds`).

`DashboardProofs`:
* `HookHoldsOne` (`OneConnection`): the hook's half of the state is inductive alone.
* `EveryHandlerCanEnd`: a handler that is open has its first snapshot under way, which will
  arm the timers, or has both armed; a stopped one has none. This is the safety half
  of `EveryHandlerEnds`. `TypeSafety` adds the frames on the wire.
* `PageIsNeverForgotten`: an open page is about to retry, or has a connection that is
  served or on whose wire the end is on its way. This is the safety half of `ScreenCatchesUp`.

`GeneratorProofs`, for every catalog, rate, cap and number of ticks:
* `TrafficFollowsWeightsAlways` (`TrafficFollowsWeights`): a merchant's cells are the disjoint
  union of its routes' cells, and a route's of its issuers'; the sum over them is the
  merchant's weight in the catalog's units.
* `InFlightIsCappedAlways` (`InFlightIsCapped`) and `VolumeIsKeptAlways` (`VolumeIsKept`). `EmissionInv` says that
  the guard is up exactly while one batch is awaited (`OneAwaited`, itself the theorem
  `GuardMeansAwaited`, the safety half of `EmissionGoesOn`), that a batch settles before its
  last answer only by a failure, and that without an event that cannot be made there
  is none.

Assumptions, each named in its module and evaluated by TLC in the runs:
`CellsAssumption` (a cell fixes finitely many dimensions), `IncidentsAssumption`
(numbers are numbers, diagnoses name known cells), `IngestAssumption` (sizes and
limits are positive), `RetentionAssumption` (see Ingest above),
`DetectorAssumption`, `TowerAssumption` (slices name their merchant and country, spans are
numbers), `RestartAssumption` (see ControlTower above), `CoordinatorAssumption`,
`InvestigatorAssumption`, `AgentPassAssumption`,
`DashboardAssumption`, `GeneratorAssumption` (bounds are numbers, the recovery is not a
call slot), `CatalogAssumption` (routes and issuers are finite, a route is named by its
provider, country and method, weights are numbers), and for the search `RollupsAssumption`,
`CauseSearchAssumption`, `DeclineMixAssumption`, `InvestigationToolsAssumption` and
`DiagnosisAssumption` (rows count attempts, thresholds and widths are numbers).

Only model-checked:
* all liveness, which is out of TLAPS's reach: `EveryBucketSettles`, `KeepsUp`, `EveryEntrySettles`,
  `OrphansGetClosed`, `PassMovesOn`, `EveryHandlerEnds`, `ScreenCatchesUp`, `EmissionGoesOn`. Of
  four of them the safety half is proved, as said above;
* `BeamIsWideEnough`, `OneFaultIsNamedExactly` and `EvidenceArguesForTheCause`: whether a beam of a
  given width misses nothing, and whether a fault stands out of its window, depends on
  the numbers. They are claims about the instances TLC enumerates and false for
  arbitrary widths and thresholds.

## 5. Where the code and its words part

Three runs show a disagreement (section 3). While modelling, these were met as well. The
models follow the code, and no property of a passing run claims the contrary:

* `orchestrate/lifecycle.ts:58` says that "without volume the system cannot claim the cell
  recovered"; `orchestrate/lifecycle.test.ts:69` and the orchestrate design say so of any volume
  below `MIN_VOLUME`. A slice with no rows at all is no value the sweeps find
  (`detect/trigger.ts:23`), so it is neither a candidate nor a gap (`detect/tick.ts:42`), and its
  incident is resolved: a provider that gets no traffic any more counts as recovered, one
  that gets a single attempt does not. In `ControlTower` it takes two windows with a drop and
  two without rows, no restart and no failure. `RetiredByItsWindow` leaves open what becomes of
  such an incident, so it holds of this code and of one that follows the comment; the
  stronger fact about this code is `RetiredBy` in `DetectorProofs`, a conjunct of `TowerInv`.
* `orchestrate/incidents.ts:149` promises that a tick never overwrites the agent's
  evidence. The guard at :158 reads the row that was SELECTed before; an
  `attachNarrative` in between is overwritten, and the narrative stays. What holds is
  `AgentTripleTogether`: the agent's evidence never stands beside other prose.
* `orchestrate/incidents.ts:71` says two contradicting causes of one window stay two
  incidents. A live incident wide enough to contain both takes the first, then
  the second (:112).
* An incident's cell may be sharpened by a tick after its prose was written
  (`orchestrate/incidents.ts:226` checks at that moment only), so cell and prose can
  come to name different slices.
* One batch with two copies of a transaction counts both: `processBatch` filters by the
  set of inserted ids (`ingest/process-batch.ts:12`), while
  `ingest/process-batch.integration.test.ts:112` has only the genuinely new events
  affect the rollup. The generator's client produces such a pair only if it
  repeats a command whose answer was lost (`Resends`).
* `packages/generator/src/inject-api.ts:48` accepts a fractional `latencyMsIncrease` that
  `packages/contracts/src/transaction.ts:32` refuses in an event. The event is made outside the inner `try`
  (`engine.ts:115`), so the batch rejects at once, `running` falls and the next tick emits beside it,
  against `engine.ts:18`. `InFlightIsCapped` excepts that case.
* An echo of one cause can come back as a cause of its own in a later peel when there
  are three providers, which `docs/superpowers/specs/2026-08-30-diagnose-design.md:100`
  excludes; its attempts are disjoint all the same (`CausesShareNoAttempt`).
* `orchestrate/lifecycle.ts:9` sees no real coupling between the windows that confirm a drop and the
  quiet windows that retire it. A restart couples them (`RestartAssumption`): with more of the
  former than of the latter, an outage's incident is resolved while the outage goes on.
* Impact and onset are read off the rows as they were, not as earlier peels left
  them (`diagnose/run.ts:278`; the run `inflated_cost`).

## 6. What is not modelled

* Floating point: Wilson's interval is exact and its z fixed (section 2); the correction of z
  for the number of tests (`detect/family-wise.ts`) is left out.
* The language model, Mastra's loop and what they answer, beyond that it is arbitrary.
* Wording: evidence texts, prompts, templates, the components that draw a snapshot.
* `orchestrate/memory.ts`: one read-only query whose failure is absorbed.
* Database queries and pure I/O; start-up and shutdown order, `wait-for-db.ts`.
* The API's other stores, which are capped lists, and the SSE hub, a set of clients no
  page of this repository subscribes to.
* The generator's random draws, amounts and decline mixes.

Two hazards in `PROJECT.json` have no property, since what one would claim does not hold: the
two contradicting causes (`orchestrate/incidents.ts:112`) and the slice that lost all of its
traffic (`detect/trigger.ts:23`), both in section 5.

## 7. What is left

Every part of the plan is written. The tower could be taken on to the agent: the investigations
that `Incidents` launches and `Coordinator` records meet only in the rows they write, and
`ControlTower` leaves them out.

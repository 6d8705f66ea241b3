------------------------------- MODULE Detector ------------------------------
(***************************************************************************)
(* The detector's scheduler and the persistence rule it drives             *)
(* (detect/scheduler.ts, detect/persistence.ts, and what detect/tick.ts    *)
(* makes of a window).                                                     *)
(*                                                                         *)
(* A timer starts a tick every minute unless one is still in flight.  A    *)
(* tick loads its configuration, reads the windows between its cursor and  *)
(* the newest closed minute, keeps a streak per slice, and hands the       *)
(* result of each window to onResult.  It awaits the database before each  *)
(* window and again while it diagnoses one, and any of those queries may   *)
(* fail.  Cursor and streaks live in the process's memory.                 *)
(***************************************************************************)
EXTENDS Naturals, Sequences, FiniteSets

CONSTANTS Slices,              \* the fingerprints under test
          PersistenceWindows,  \* detect/constants.ts: 3, unless overridden
          CatchUpCap,          \* scheduler.ts: 10
          MaxClock,            \* bound: minutes the model runs for
          Ticks                \* runOnce calls that could be in flight at once

Buckets == 1 .. MaxClock

ASSUME DetectorAssumption ==
  /\ PersistenceWindows \in Nat \ {0}
  /\ CatchUpCap \in Nat \ {0}
  /\ MaxClock \in Nat \ {0}

\* Operators named Fault... are the definition that follows with
\* a plausible bug in it; they take no part in the specification.

VARIABLES clock,                \* the newest minute past the ingest grace
          lastProcessedBucket,  \* the cursor; 0 is null
          persistence,          \* the streak of every slice
          running,              \* startScheduler's reentrancy guard
          ticks,                \* the runOnce calls in flight
          processed,            \* history: the windows this process has read
          delivered             \* history: the onResult calls it has made

vars == <<clock, lastProcessedBucket, persistence, running, ticks, processed, delivered>>

------------------------------------------------------------------------------
(* A window, and the streaks. *)

\* What a window says of a slice once the lenses are merged and a thin drop has
\* been retried: a confident drop, a confident anything else, too little to
\* tell (an evidence gap), or no rows at all.
Verdicts == {"drop", "clear", "gap", "absent"}
Readings == [Slices -> Verdicts]

\* A fingerprint with no entry has count 0.
NoStreak == [count |-> 0, firstBucket |-> 0, emitted |-> FALSE]

Streak == [count : 0 .. MaxClock, firstBucket : 0 .. MaxClock, emitted : BOOLEAN]

Extended(entry, b) ==
  [count       |-> entry.count + 1,
   firstBucket |-> IF entry = NoStreak THEN b ELSE entry.firstBucket,
   emitted     |-> entry.emitted \/ entry.count + 1 >= PersistenceWindows]

\* A window without a reading discards the streak.
FaultStep(streaks, reading, b) ==
  [s \in Slices |-> IF reading[s] = "drop" THEN Extended(streaks[s], b) ELSE NoStreak]

\* persistence.ts: a drop extends the streak, a confident other verdict leaves
\* the entry out, and a slice with no candidate carries its streak forward.
Step(streaks, reading, b) ==
  [s \in Slices |-> CASE reading[s] = "drop"  -> Extended(streaks[s], b)
                      [] reading[s] = "clear" -> NoStreak
                      [] OTHER                -> streaks[s]]

Promoted(streaks, reading) ==
  {s \in Slices : reading[s] = "drop" /\ streaks[s].count >= PersistenceWindows}

\* The watching cards: streaks that have not been confirmed yet.
Pending(streaks) ==
  {[slice |-> s, firstBucket |-> streaks[s].firstBucket, count |-> streaks[s].count] :
     s \in {t \in Slices : streaks[t] # NoStreak /\ ~streaks[t].emitted}}

PendingSignal == [slice : Slices, firstBucket : Buckets, count : 1 .. MaxClock]

\* What runDetectionTick makes of window b, given the streaks after it.
Output(streaks, reading, b) ==
  [bucket  |-> b,
   signals |-> Promoted(streaks, reading),
   gaps    |-> {s \in Slices : reading[s] = "gap"},
   pending |-> Pending(streaks)]

Result == [bucket  : Buckets, signals : SUBSET Slices, gaps : SUBSET Slices,
           pending : SUBSET PendingSignal]

------------------------------------------------------------------------------
(* The ticks. *)

\* The target itself is left for the next tick.
FaultBeforeTarget(last, target) ==
  IF last = 0 THEN {target}
  ELSE {b \in Buckets : last < b /\ b < target /\ target - b < CatchUpCap}

\* Only the target on a cold start, else everything since the cursor, of which
\* the cap keeps the most recent.
BucketsToProcess(last, target) ==
  IF last = 0 THEN {target}
  ELSE {b \in Buckets : last < b /\ b <= target /\ target - b < CatchUpCap}

NoOutput == [bucket |-> 0]
IdleTick == [pc |-> "idle", target |-> 0, todo |-> {}, output |-> NoOutput]

Tick == [pc     : {"idle", "load", "read", "diagnose"},
         target : 0 .. MaxClock,
         todo   : SUBSET Buckets,
         output : Result \cup {NoOutput}]

\* The minute is over and its ingest grace too.
CloseMinute ==
  /\ clock < MaxClock
  /\ clock' = clock + 1
  /\ UNCHANGED <<lastProcessedBucket, persistence, running, ticks, processed, delivered>>

\* The timer fires whether or not a tick is in flight.
FaultStartTick(t) ==
  /\ ticks[t].pc = "idle"
  /\ running' = TRUE
  /\ ticks' = [ticks EXCEPT ![t] = [IdleTick EXCEPT !.pc = "load", !.target = clock]]
  /\ UNCHANGED <<clock, lastProcessedBucket, persistence, processed, delivered>>

\* The timer fires: runOnce fixes its target and awaits the configuration.
StartTick(t) ==
  /\ ~running
  /\ ticks[t].pc = "idle"
  /\ running' = TRUE
  /\ ticks' = [ticks EXCEPT ![t] = [IdleTick EXCEPT !.pc = "load", !.target = clock]]
  /\ UNCHANGED <<clock, lastProcessedBucket, persistence, processed, delivered>>

\* The loop goes on to the next window, or runOnce returns and `finally` lowers
\* the guard.
Continue(t, todo) ==
  IF todo = {}
    THEN /\ ticks' = [ticks EXCEPT ![t] = IdleTick]
         /\ running' = FALSE
    ELSE /\ ticks' = [ticks EXCEPT ![t].pc = "read", ![t].todo = todo,
                                   ![t].output = NoOutput]
         /\ running' = running

\* The configuration arrived: the windows to process are fixed here.
LoadConfig(t) ==
  /\ ticks[t].pc = "load"
  /\ Continue(t, BucketsToProcess(lastProcessedBucket, ticks[t].target))
  /\ UNCHANGED <<clock, lastProcessedBucket, persistence, processed, delivered>>

\* The cursor jumps to the end of the catch-up.
FaultReadWindow(t) ==
  /\ ticks[t].pc = "read"
  /\ \E b \in ticks[t].todo, reading \in Readings :
       /\ \A other \in ticks[t].todo : b <= other
       /\ LET streaks == Step(persistence, reading, b) IN
            /\ persistence' = streaks
            /\ ticks' = [ticks EXCEPT ![t].pc = "diagnose", ![t].todo = @ \ {b},
                                      ![t].output = Output(streaks, reading, b)]
       /\ processed' = Append(processed,
            [bucket |-> b, target |-> ticks[t].target, reading |-> reading])
  /\ lastProcessedBucket' = ticks[t].target
  /\ UNCHANGED <<clock, running, delivered>>

\* The window's rollups arrived.  Streaks and cursor move in the same stretch of
\* code, before the diagnosis is awaited.
ReadWindow(t) ==
  /\ ticks[t].pc = "read"
  /\ \E b \in ticks[t].todo, reading \in Readings :
       /\ \A other \in ticks[t].todo : b <= other
       /\ LET streaks == Step(persistence, reading, b) IN
            /\ persistence' = streaks
            /\ ticks' = [ticks EXCEPT ![t].pc = "diagnose", ![t].todo = @ \ {b},
                                      ![t].output = Output(streaks, reading, b)]
       /\ lastProcessedBucket' = b
       /\ processed' = Append(processed,
            [bucket |-> b, target |-> ticks[t].target, reading |-> reading])
  /\ UNCHANGED <<clock, running, delivered>>

\* The diagnosis is there: onResult.
Deliver(t) ==
  /\ ticks[t].pc = "diagnose"
  /\ delivered' = Append(delivered, ticks[t].output)
  /\ Continue(t, ticks[t].todo)
  /\ UNCHANGED <<clock, lastProcessedBucket, persistence, processed>>

\* One of the awaited queries throws: the tick ends where it is.  A window with
\* no confirmed signal has nothing to query for.
FailTick(t) ==
  /\ \/ ticks[t].pc \in {"load", "read"}
     \/ ticks[t].pc = "diagnose" /\ ticks[t].output.signals # {}
  /\ ticks' = [ticks EXCEPT ![t] = IdleTick]
  /\ running' = FALSE
  /\ UNCHANGED <<clock, lastProcessedBucket, persistence, processed, delivered>>

\* The process restarts with an empty memory.
Restart ==
  /\ lastProcessedBucket' = 0
  /\ persistence' = [s \in Slices |-> NoStreak]
  /\ running' = FALSE
  /\ ticks' = [t \in Ticks |-> IdleTick]
  /\ processed' = <<>>
  /\ delivered' = <<>>
  /\ UNCHANGED clock

Init ==
  /\ clock = 1
  /\ lastProcessedBucket = 0
  /\ persistence = [s \in Slices |-> NoStreak]
  /\ running = FALSE
  /\ ticks = [t \in Ticks |-> IdleTick]
  /\ processed = <<>>
  /\ delivered = <<>>

TickStep(t) == LoadConfig(t) \/ ReadWindow(t) \/ Deliver(t) \/ FailTick(t)

Next ==
  \/ CloseMinute
  \/ \E t \in Ticks : StartTick(t) \/ TickStep(t)
  \/ Restart

Spec == Init /\ [][Next]_vars

\* Every query ends, with an answer or an error; minutes pass and the timer keeps
\* firing; and a query asked again and again is answered again and again.
FairSpec ==
  /\ Spec
  /\ WF_vars(CloseMinute)
  /\ WF_vars(\E t \in Ticks : StartTick(t))
  /\ WF_vars(\E t \in Ticks : TickStep(t))
  /\ SF_vars(\E t \in Ticks : LoadConfig(t))
  /\ SF_vars(\E t \in Ticks : ReadWindow(t))

------------------------------------------------------------------------------
(* Properties. *)

TypeOK ==
  /\ clock \in Buckets
  /\ lastProcessedBucket \in 0 .. MaxClock
  /\ persistence \in [Slices -> Streak]
  /\ running \in BOOLEAN
  /\ ticks \in [Ticks -> Tick]
  /\ processed \in Seq([bucket : Buckets, target : Buckets, reading : Readings])
  /\ delivered \in Seq(Result)

\* The windows up to the n-th this process read that count towards the streak of
\* s: the drops nothing confident has contradicted since.
Streaking(n, s) ==
  {i \in 1 .. n : /\ processed[i].reading[s] = "drop"
                  /\ \A j \in i .. n : processed[j].reading[s] # "clear"}

\* A signal is confirmed in exactly the windows that read its drop and in which
\* enough drops have run up without a recovery between them, however many
\* unreadable windows, failed ticks and catch-ups lay in between; until then it
\* is a watching card dated from the first of them (persistence.ts:18, :35).
ConfirmedIsJustified ==
  \A d \in {delivered[i] : i \in DOMAIN delivered} :
    \E n \in DOMAIN processed :
      /\ processed[n].bucket = d.bucket
      /\ d.signals = {s \in Slices : /\ processed[n].reading[s] = "drop"
                                     /\ Cardinality(Streaking(n, s)) >= PersistenceWindows}
      /\ d.pending =
           {[slice |-> s, count |-> Cardinality(Streaking(n, s)),
             firstBucket |-> processed[CHOOSE i \in Streaking(n, s) :
                               \A j \in Streaking(n, s) : i <= j].bucket] :
              s \in {t \in Slices :
                       Cardinality(Streaking(n, t)) \in 1 .. PersistenceWindows - 1}}

\* No window is delivered twice or after a later one, although the timer may
\* fire while a slow tick is in flight (scheduler.ts:200).
DeliveredInOrder ==
  \A i, j \in DOMAIN delivered : i < j => delivered[i].bucket < delivered[j].bucket

\* A window is passed over only by a catch-up longer than the cap, and then it is
\* the oldest that go (scheduler.ts:79): a tick that fails half way through one
\* leaves the rest for the next.
OnlyTheCapSkips ==
  \A i \in 1 .. Len(processed) - 1 :
    LET here  == processed[i].bucket
        there == processed[i + 1]
    IN there.bucket # here + 1
         => /\ there.target - here > CatchUpCap
            /\ there.bucket = there.target + 1 - CatchUpCap

\* The detector keeps coming back to the newest minute, through failures and
\* restarts.
KeepsUp == []<>(lastProcessedBucket = MaxClock)

------------------------------------------------------------------------------
(* What a comment says and the code does not do. *)

\* scheduler.ts:174: after an error "The cursor deliberately stays put: the next
\* tick's catch-up retries this bucket".  With no tick in flight, every window
\* the cursor has passed was delivered.
FailedBucketIsRetried ==
  ~running => {processed[i].bucket : i \in DOMAIN processed}
                = {delivered[i].bucket : i \in DOMAIN delivered}
==============================================================================

---------------------------- MODULE DetectorProofs ---------------------------
(***************************************************************************)
(* What the detector's scheduler guarantees for any slices, any number of  *)
(* windows to persist for, any cap and any number of ticks the timer could *)
(* start; then what the tower guarantees that puts the orchestration tail  *)
(* and the incident board behind the detector.                             *)
(*                                                                         *)
(* The detector's inductive invariant (Strong) ties the process's memory   *)
(* to the history of the windows it has read: one tick is in flight at     *)
(* most (OneTick); the cursor is the last window read (Cursor); what a     *)
(* tick has still to do is what the cursor and its target say, after each  *)
(* window anew (TickOK); and every streak is the run of drops the history  *)
(* shows (StreakOK).                                                       *)
(*                                                                         *)
(* The tower's (TowerInv) adds three things that outlive a process.  The   *)
(* log of the windows never goes back in time and holds the streaks of the *)
(* living process (LogOK, Memory).  A queued job still argues for exactly  *)
(* the slices its window confirmed: each has its evidence in the job or    *)
(* its incident on the board (TailOK).  And what a finished window         *)
(* confirmed is on the board until every window a pass may still judge by  *)
(* is past its quiet span (Shown, OnBoard), which is what carries an       *)
(* incident over a restart.                                                *)
(***************************************************************************)
EXTENDS ControlTower, FiniteSetTheorems, TLAPS

Entry == [bucket : Buckets, target : Buckets, reading : Readings]

\* Streaking, of any history q.
StreakIn(q, n, s) ==
  {i \in 1 .. n : /\ q[i].reading[s] = "drop"
                  /\ \A j \in i .. n : q[j].reading[s] # "clear"}

\* The first of a streak's windows, and the one ConfirmedIsJustified names.
IsFirst(f, S) == f \in S /\ \A j \in S : f <= j
Oldest(S)     == CHOOSE i \in S : \A j \in S : i <= j

\* A streak as kept, and as the history has it.
StreakOK(entry, q, s) ==
  LET S == StreakIn(q, Len(q), s) IN
    /\ entry.count = Cardinality(S)
    /\ S = {} => entry = NoStreak
    /\ S # {} => /\ entry.count > 0
                 /\ entry.emitted <=> entry.count >= PersistenceWindows
                 /\ \E f \in S : IsFirst(f, S) /\ entry.firstBucket = q[f].bucket

Cursor ==
  /\ processed = <<>> => lastProcessedBucket = 0
  /\ processed # <<>> => lastProcessedBucket = processed[Len(processed)].bucket
  /\ Len(processed) <= lastProcessedBucket

OneTick ==
  \A t, u \in Ticks :
    /\ ticks[t].pc # "idle" => running
    /\ ticks[t].pc # "idle" /\ ticks[u].pc # "idle" => t = u

TickOK(t) ==
  LET k == ticks[t] IN
    /\ k.pc # "idle" => k.target \in Buckets
    /\ k.pc = "read" => k.todo # {}
    /\ k.pc \in {"read", "diagnose"} => k.todo = BucketsToProcess(lastProcessedBucket, k.target)
    /\ k.pc = "diagnose" =>
         /\ processed # <<>>
         /\ k.output = Output(persistence, processed[Len(processed)].reading, lastProcessedBucket)
         /\ \A i \in DOMAIN delivered : delivered[i].bucket < lastProcessedBucket

Delivered == \A i \in DOMAIN delivered : delivered[i].bucket <= lastProcessedBucket

Streaks == \A s \in Slices : StreakOK(persistence[s], processed, s)

\* What an onResult call says is what the first n windows of the history say.
Justified(d, q, n) ==
  /\ \A s \in Slices : StreakIn(q, n, s) # {} => \E f : IsFirst(f, StreakIn(q, n, s))
  /\ q[n].bucket = d.bucket
  /\ d.signals = {s \in Slices : /\ q[n].reading[s] = "drop"
                                 /\ Cardinality(StreakIn(q, n, s)) >= PersistenceWindows}
  /\ d.pending =
       {[slice |-> s, count |-> Cardinality(StreakIn(q, n, s)),
         firstBucket |-> q[Oldest(StreakIn(q, n, s))].bucket] :
          s \in {t \in Slices : Cardinality(StreakIn(q, n, t)) \in 1 .. PersistenceWindows - 1}}

AllJustified ==
  \A i \in DOMAIN delivered : \E n \in DOMAIN processed : Justified(delivered[i], processed, n)

Strong ==
  /\ TypeOK /\ Cursor /\ OneTick /\ (\A t \in Ticks : TickOK(t))
  /\ Delivered /\ DeliveredInOrder /\ OnlyTheCapSkips
  /\ Streaks /\ AllJustified

------------------------------------------------------------------------------
(* Histories and streaks. *)

LEMMA Appended ==
  ASSUME NEW S, NEW q \in Seq(S), NEW e \in S
  PROVE  /\ Append(q, e) \in Seq(S) /\ Append(q, e) # <<>>
         /\ Len(q) \in Nat /\ Len(Append(q, e)) = Len(q) + 1
         /\ DOMAIN q = 1 .. Len(q) /\ DOMAIN Append(q, e) = 1 .. (Len(q) + 1)
         /\ \A i \in 1 .. Len(q) : Append(q, e)[i] = q[i] /\ q[i] \in S
         /\ Append(q, e)[Len(q) + 1] = e
OBVIOUS

\* The first n windows' streaks do not depend on the windows after them.
LEMMA StreakKept ==
  ASSUME NEW q \in Seq(Entry), NEW e \in Entry, NEW n \in 1 .. Len(q), NEW s
  PROVE  StreakIn(Append(q, e), n, s) = StreakIn(q, n, s)
BY Appended DEF StreakIn

\* A window extends a streak, ends it, or leaves it as it is.
LEMMA StreakExtended ==
  ASSUME NEW q \in Seq(Entry), NEW e \in Entry, NEW s \in Slices
  PROVE  LET S == StreakIn(q, Len(q), s)
             T == StreakIn(Append(q, e), Len(q) + 1, s)
         IN /\ e.reading[s] = "drop"  => T = S \cup {Len(q) + 1}
            /\ e.reading[s] = "clear" => T = {}
            /\ e.reading[s] \notin {"drop", "clear"} => T = S
<1> DEFINE n == Len(q)
           p == Append(q, e)
<1>1. n \in Nat /\ p[n + 1] = e /\ \A i \in 1 .. n : p[i] = q[i]
  BY Appended
<1> HIDE DEF n, p
<1>2. ASSUME e.reading[s] # "clear", NEW i \in 1 .. n
      PROVE  i \in StreakIn(p, n + 1, s) <=> i \in StreakIn(q, n, s)
  <2>1. i .. (n + 1) = (i .. n) \cup {n + 1} /\ (i .. n) \subseteq 1 .. n
    BY <1>1
  <2> QED
    BY <1>1, <1>2, <2>1 DEF StreakIn
<1>3. n + 1 \in StreakIn(p, n + 1, s) <=> e.reading[s] = "drop"
  BY <1>1 DEF StreakIn
<1>4. e.reading[s] = "clear" => StreakIn(p, n + 1, s) = {}
  BY <1>1 DEF StreakIn
<1>5. StreakIn(p, n + 1, s) \subseteq (1 .. n) \cup {n + 1} /\ StreakIn(q, n, s) \subseteq 1 .. n
  BY <1>1 DEF StreakIn
<1> DEFINE S == StreakIn(q, n, s)
           T == StreakIn(p, n + 1, s)
<1>9. /\ e.reading[s] # "clear" => \A i \in 1 .. n : i \in T <=> i \in S
      /\ n + 1 \in T <=> e.reading[s] = "drop"
      /\ e.reading[s] = "clear" => T = {}
      /\ T \subseteq (1 .. n) \cup {n + 1} /\ S \subseteq 1 .. n
  BY <1>2, <1>3, <1>4, <1>5
<1> HIDE DEF S, T
<1>6. e.reading[s] = "drop" => T = S \cup {n + 1}
  BY <1>9
<1>7. e.reading[s] = "clear" => T = {}
  BY <1>9
<1>8. e.reading[s] \notin {"drop", "clear"} => T = S
  BY <1>9
<1> QED
  BY <1>6, <1>7, <1>8 DEF n, p, S, T

LEMMA StreakFinite ==
  ASSUME NEW q, NEW n \in Nat, NEW s
  PROVE  /\ StreakIn(q, n, s) \subseteq 1 .. n
         /\ IsFiniteSet(StreakIn(q, n, s))
         /\ Cardinality(StreakIn(q, n, s)) \in 0 .. n
<1>1. StreakIn(q, n, s) \subseteq 1 .. n
  BY DEF StreakIn
<1>2. IsFiniteSet(1 .. n) /\ Cardinality(1 .. n) = n
  BY FS_Interval
<1>3. IsFiniteSet(StreakIn(q, n, s)) /\ Cardinality(StreakIn(q, n, s)) <= Cardinality(1 .. n)
  BY <1>1, <1>2, FS_Subset
<1>4. Cardinality(StreakIn(q, n, s)) \in Nat
  BY <1>3, FS_CardinalityType
<1> QED
  BY <1>1, <1>2, <1>3, <1>4

\* The streak kept follows the history.
LEMMA StreakFollows ==
  ASSUME NEW q \in Seq(Entry), NEW e \in Entry, NEW s \in Slices,
         NEW streaks \in [Slices -> Streak], StreakOK(streaks[s], q, s)
  PROVE  StreakOK(Step(streaks, e.reading, e.bucket)[s], Append(q, e), s)
<1> DEFINE n == Len(q)
           p == Append(q, e)
           S == StreakIn(q, n, s)
           T == StreakIn(p, n + 1, s)
           old == streaks[s]
           new == Step(streaks, e.reading, e.bucket)[s]
<1>1. /\ n \in Nat /\ Len(p) = n + 1 /\ p[n + 1] = e
      /\ \A i \in 1 .. n : p[i] = q[i]
  BY Appended
<1>2. /\ S \subseteq 1 .. n /\ IsFiniteSet(S) /\ Cardinality(S) \in Nat
  BY <1>1, StreakFinite
<1>3. /\ e.reading[s] = "drop"  => T = S \cup {n + 1}
      /\ e.reading[s] = "clear" => T = {}
      /\ e.reading[s] \notin {"drop", "clear"} => T = S
  BY StreakExtended
<1>4. /\ old \in Streak /\ old.count = Cardinality(S) /\ (S = {} => old = NoStreak)
      /\ S # {} => /\ old.count > 0
                   /\ old.emitted <=> old.count >= PersistenceWindows
                   /\ \E f \in S : IsFirst(f, S) /\ old.firstBucket = q[f].bucket
  BY DEF StreakOK
<1>5. /\ e.reading[s] = "drop"  => new = Extended(old, e.bucket)
      /\ e.reading[s] = "clear" => new = NoStreak
      /\ e.reading[s] \notin {"drop", "clear"} => new = old
  BY DEF Step
<1>6. Cardinality({}) = 0
  BY FS_EmptySet
<1> SUFFICES /\ new.count = Cardinality(T)
             /\ T = {} => new = NoStreak
             /\ T # {} => /\ new.count > 0
                          /\ new.emitted <=> new.count >= PersistenceWindows
                          /\ \E f \in T : IsFirst(f, T) /\ new.firstBucket = p[f].bucket
  BY <1>1 DEF StreakOK
<1> HIDE DEF n, p, S, T, old, new
<1>7. CASE e.reading[s] = "drop"
  <2>1. T = S \cup {n + 1} /\ T # {} /\ n + 1 \notin S
    BY <1>1, <1>2, <1>3, <1>7
  <2>2. Cardinality(T) = Cardinality(S) + 1
    BY <1>2, <2>1, FS_AddElement
  <2>3. /\ new.count = old.count + 1
        /\ new.firstBucket = IF old = NoStreak THEN e.bucket ELSE old.firstBucket
        /\ new.emitted = (old.emitted \/ old.count + 1 >= PersistenceWindows)
    BY <1>5, <1>7 DEF Extended
  <2>4. new.emitted <=> new.count >= PersistenceWindows
    <3>1. old.emitted => old.count >= PersistenceWindows
      BY <1>4, DetectorAssumption DEF NoStreak
    <3>2. old.emitted => old.count + 1 >= PersistenceWindows
      BY <1>2, <1>4, <3>1, DetectorAssumption
    <3> QED
      BY <2>3, <3>2
  <2>5. \E f \in T : IsFirst(f, T) /\ new.firstBucket = p[f].bucket
    <3>1. CASE S = {}
      <4>1. T = {n + 1} /\ new.firstBucket = e.bucket
        BY <1>4, <2>1, <2>3, <3>1
      <4>2. IsFirst(n + 1, T)
        BY <1>1, <4>1 DEF IsFirst
      <4> QED
        BY <1>1, <4>1, <4>2
    <3>2. CASE S # {}
      <4>1. PICK f \in S : IsFirst(f, S) /\ old.firstBucket = q[f].bucket
        BY <1>4, <3>2
      <4>2. IsFirst(f, T)
        BY <1>1, <1>2, <2>1, <4>1 DEF IsFirst
      <4>3. old # NoStreak
        BY <1>4, <3>2 DEF NoStreak
      <4>4. new.firstBucket = p[f].bucket
        BY <1>1, <1>2, <2>3, <4>1, <4>3
      <4> QED
        BY <2>1, <4>2, <4>4
    <3> QED
      BY <3>1, <3>2
  <2>6. new.count > 0
    BY <1>2, <1>4, <2>3
  <2> QED
    BY <1>4, <2>1, <2>2, <2>3, <2>4, <2>5, <2>6
<1>8. CASE e.reading[s] = "clear"
  <2>1. T = {} /\ new = NoStreak /\ Cardinality(T) = 0
    BY <1>3, <1>5, <1>6, <1>8
  <2>2. new.count = 0
    BY <2>1 DEF NoStreak
  <2> QED
    BY <2>1, <2>2
<1>9. CASE e.reading[s] \notin {"drop", "clear"}
  <2>1. T = S /\ new = old
    BY <1>3, <1>5, <1>9
  <2>2. \A f \in S : p[f] = q[f]
    BY <1>1, <1>2
  <2> QED
    BY <1>4, <2>1, <2>2
<1> QED
  BY <1>7, <1>8, <1>9

\* Streaks stay in range.
LEMMA StreaksTyped ==
  ASSUME NEW q \in Seq(Entry), NEW e \in Entry, Len(q) < MaxClock,
         NEW streaks \in [Slices -> Streak], \A s \in Slices : StreakOK(streaks[s], q, s)
  PROVE  /\ Step(streaks, e.reading, e.bucket) \in [Slices -> Streak]
         /\ \A s \in Slices : StreakOK(Step(streaks, e.reading, e.bucket)[s], Append(q, e), s)
<1> DEFINE next == Step(streaks, e.reading, e.bucket)
<1>1. ASSUME NEW s \in Slices
      PROVE  next[s] \in Streak /\ StreakOK(next[s], Append(q, e), s)
  <2> DEFINE S == StreakIn(Append(q, e), Len(q) + 1, s)
             old == streaks[s]
             new == next[s]
  <2>1. StreakOK(new, Append(q, e), s)
    BY StreakFollows
  <2>2. /\ Len(q) \in Nat /\ MaxClock \in Nat /\ Len(Append(q, e)) = Len(q) + 1
    BY Appended, DetectorAssumption
  <2>3. /\ S \subseteq 1 .. (Len(q) + 1)
        /\ Cardinality(S) \in 0 .. (Len(q) + 1)
    <3>1. Len(q) + 1 \in Nat
      BY <2>2
    <3> QED
      BY <3>1, StreakFinite
  <2>4. new.count \in 0 .. MaxClock
    BY <2>1, <2>2, <2>3 DEF StreakOK
  <2>5. \/ new = Extended(old, e.bucket)
        \/ new = NoStreak
        \/ new = old
    BY DEF Step
  <2>6. old \in Streak
    OBVIOUS
  <2>7. NoStreak \in Streak
    BY DetectorAssumption DEF NoStreak, Streak
  <2> HIDE DEF S, old, new
  <2>8. ASSUME new = Extended(old, e.bucket)
        PROVE  new \in Streak
    <3> DEFINE c == old.count + 1
               f == IF old = NoStreak THEN e.bucket ELSE old.firstBucket
               m == old.emitted \/ old.count + 1 >= PersistenceWindows
    <3>1. new = [count |-> c, firstBucket |-> f, emitted |-> m]
      BY <2>8 DEF Extended
    <3>2. m \in BOOLEAN
      BY <2>6 DEF Streak
    <3>3. f \in 0 .. MaxClock
      BY <2>6 DEF Streak, Entry, Buckets
    <3> HIDE DEF c, f, m
    <3> QED
      BY <2>4, <3>1, <3>2, <3>3 DEF Streak
  <2>9. new \in Streak
    BY <2>5, <2>6, <2>7, <2>8
  <2> QED
    BY <2>1, <2>9 DEF new
<1>2. next = [s \in Slices |-> next[s]]
  BY DEF Step
<1> QED
  BY <1>1, <1>2

\* The first window of a streak is the one the history's expression names.
LEMMA FirstIsChosen ==
  ASSUME NEW S \in SUBSET Nat, NEW f, IsFirst(f, S)
  PROVE  f = Oldest(S)
<1>1. \E i \in S : \A j \in S : i <= j
  BY DEF IsFirst
<1>2. \A i \in S : (\A j \in S : i <= j) => i = f
  BY DEF IsFirst
<1> QED
  BY <1>1, <1>2 DEF Oldest

\* What a window's result says is what the history says, and well formed.
LEMMA OutputJustified ==
  ASSUME NEW q \in Seq(Entry), q # <<>>, NEW streaks \in [Slices -> Streak],
         \A s \in Slices : StreakOK(streaks[s], q, s)
  PROVE  /\ Justified(Output(streaks, q[Len(q)].reading, q[Len(q)].bucket), q, Len(q))
         /\ Output(streaks, q[Len(q)].reading, q[Len(q)].bucket) \in Result
<1> DEFINE n == Len(q)
           d == Output(streaks, q[n].reading, q[n].bucket)
           C(s) == Cardinality(StreakIn(q, n, s))
           First(s) == Oldest(StreakIn(q, n, s))
           card(s) == [slice |-> s, firstBucket |-> streaks[s].firstBucket,
                       count |-> streaks[s].count]
           told(s) == [slice |-> s, count |-> C(s), firstBucket |-> q[First(s)].bucket]
           open == {t \in Slices : streaks[t] # NoStreak /\ ~streaks[t].emitted}
           below == {t \in Slices : C(t) \in 1 .. PersistenceWindows - 1}
<1>1. n \in Nat /\ n \in 1 .. n /\ \A i \in 1 .. n : q[i] \in Entry
  OBVIOUS
<1>2. ASSUME NEW s \in Slices
      PROVE  /\ C(s) \in Nat /\ streaks[s].count = C(s)
             /\ StreakIn(q, n, s) = {} => C(s) = 0 /\ streaks[s] = NoStreak
             /\ StreakIn(q, n, s) # {} =>
                  /\ C(s) > 0 /\ streaks[s] # NoStreak
                  /\ streaks[s].emitted <=> C(s) >= PersistenceWindows
                  /\ streaks[s].firstBucket = q[First(s)].bucket
                  /\ First(s) \in 1 .. n
  <2> DEFINE S == StreakIn(q, n, s)
  <2>1. S \subseteq 1 .. n /\ Cardinality(S) \in Nat
    BY <1>1, StreakFinite
  <2>2. S = {} => Cardinality(S) = 0
    BY FS_EmptySet
  <2>3. /\ streaks[s].count = Cardinality(S) /\ (S = {} => streaks[s] = NoStreak)
        /\ S # {} =>
             /\ streaks[s].count > 0
             /\ streaks[s].emitted <=> streaks[s].count >= PersistenceWindows
             /\ \E f \in S : IsFirst(f, S) /\ streaks[s].firstBucket = q[f].bucket
    BY DEF StreakOK
  <2> HIDE DEF n
  <2>4. ASSUME S # {}
        PROVE  streaks[s].firstBucket = q[First(s)].bucket /\ First(s) \in 1 .. n
    <3>1. PICK f \in S : IsFirst(f, S) /\ streaks[s].firstBucket = q[f].bucket
      BY <2>3, <2>4
    <3>2. S \in SUBSET Nat
      BY <1>1, <2>1
    <3>3. f = First(s)
      BY <3>1, <3>2, FirstIsChosen
    <3> QED
      BY <2>1, <3>1, <3>3
  <2>5. S # {} => streaks[s] # NoStreak
    BY <2>1, <2>3 DEF NoStreak
  <2> HIDE DEF First
  <2> QED
    BY <2>1, <2>2, <2>3, <2>4, <2>5
<1> HIDE DEF n, C, First
<1>3. \A s \in Slices : C(s) >= PersistenceWindows => StreakIn(q, n, s) # {}
  BY <1>2, DetectorAssumption
<1>4. d.signals = {s \in Slices : q[n].reading[s] = "drop" /\ C(s) >= PersistenceWindows}
  BY <1>2 DEF Output, Promoted
<1>5. open = below
  <2>1. ASSUME NEW s \in Slices
        PROVE  (streaks[s] # NoStreak /\ ~streaks[s].emitted)
                 <=> C(s) \in 1 .. PersistenceWindows - 1
    BY <1>2, <2>1, DetectorAssumption
  <2> QED
    BY <2>1
<1>6. \A s \in below : card(s) = told(s)
  BY <1>2, DetectorAssumption
<1>7. d.pending = {card(s) : s \in open} /\ d.bucket = q[n].bucket
  BY DEF Output, Pending
<1>8. d.pending = {told(s) : s \in below}
  BY <1>5, <1>6, <1>7
<1>9. Justified(d, q, n)
  <2>1. \A s \in Slices : StreakIn(q, n, s) # {} => \E f : IsFirst(f, StreakIn(q, n, s))
    BY DEF StreakOK, n
  <2> QED
    BY <1>4, <1>7, <1>8, <2>1 DEF Justified, C, First
<1>10. d \in Result
  <2>1. \A s \in below : card(s) \in PendingSignal
    <3> SUFFICES ASSUME NEW s \in below
                 PROVE  card(s) \in PendingSignal
      OBVIOUS
    <3>1. streaks[s] \in Streak /\ s \in Slices /\ C(s) \in 1 .. PersistenceWindows - 1
      OBVIOUS
    <3>2. /\ streaks[s].count = C(s) /\ streaks[s].firstBucket = q[First(s)].bucket
          /\ First(s) \in 1 .. n
      BY <1>2, <3>1, DetectorAssumption
    <3>3. streaks[s].count \in 1 .. MaxClock
      BY <3>1, <3>2, DetectorAssumption DEF Streak
    <3>4. streaks[s].firstBucket \in Buckets
      BY <1>1, <3>2 DEF Entry
    <3> QED
      BY <3>1, <3>3, <3>4 DEF PendingSignal
  <2>2. d.pending \subseteq PendingSignal
    BY <1>5, <1>7, <2>1
  <2>3. /\ d.bucket \in Buckets /\ d.signals \subseteq Slices /\ d.gaps \subseteq Slices
        /\ d = [bucket |-> d.bucket, signals |-> d.signals, gaps |-> d.gaps,
                pending |-> d.pending]
    BY <1>1, <1>4, <1>7 DEF Output, Entry
  <2> HIDE DEF d
  <2> QED
    BY <2>2, <2>3 DEF Result
<1> QED
  BY <1>9, <1>10 DEF n

------------------------------------------------------------------------------
(* The steps. *)

LEMMA IdleType == IdleTick \in Tick /\ IdleTick.pc = "idle"
<1>1. 0 \in 0 .. MaxClock /\ {} \in SUBSET Buckets /\ NoOutput \in Result \cup {NoOutput}
  BY DetectorAssumption
<1>2. IdleTick \in Tick
  BY <1>1 DEF IdleTick, Tick
<1>3. IdleTick.pc = "idle"
  BY DEF IdleTick
<1> QED
  BY <1>2, <1>3

LEMMA TickType ==
  ASSUME NEW k \in Tick, NEW pc \in {"idle", "load", "read", "diagnose"},
         NEW todo \in SUBSET Buckets, NEW output \in Result \cup {NoOutput}
  PROVE  LET new == [k EXCEPT !.pc = pc, !.todo = todo, !.output = output]
         IN /\ new \in Tick /\ new.pc = pc /\ new.todo = todo /\ new.output = output
            /\ new.target = k.target
BY DEF Tick

LEMMA NewTickType ==
  ASSUME NEW k \in Tick, NEW target \in Buckets
  PROVE  LET new == [k EXCEPT !.pc = "load", !.target = target]
         IN new \in Tick /\ new.pc = "load" /\ new.target = target
<1>1. target \in 0 .. MaxClock
  BY DEF Buckets
<1> QED
  BY <1>1 DEF Tick

LEMMA StrongInit == Init => Strong
<1> SUFFICES ASSUME Init
             PROVE  Strong
  OBVIOUS
<1>1. TypeOK
  <2>1. NoStreak \in Streak /\ 1 \in Buckets /\ 0 \in 0 .. MaxClock
    BY DetectorAssumption DEF NoStreak, Streak, Buckets
  <2>2. /\ processed \in Seq([bucket : Buckets, target : Buckets, reading : Readings])
        /\ delivered \in Seq(Result)
    BY DEF Init
  <2>3. ticks \in [Ticks -> Tick] /\ persistence \in [Slices -> Streak]
    BY <2>1, IdleType DEF Init
  <2> QED
    BY <2>1, <2>2, <2>3 DEF Init, TypeOK
<1>2. /\ processed = <<>> /\ Len(processed) = 0 /\ DOMAIN delivered = {}
      /\ \A t \in Ticks : ticks[t].pc = "idle"
  BY IdleType DEF Init
<1>3. Cursor /\ OneTick /\ Delivered
  BY <1>2 DEF Init, Cursor, OneTick, Delivered
<1>4. DeliveredInOrder /\ OnlyTheCapSkips /\ AllJustified
  BY <1>2 DEF DeliveredInOrder, OnlyTheCapSkips, AllJustified
<1>5. \A t \in Ticks : TickOK(t)
  BY <1>2 DEF TickOK
<1>6. Streaks
  <2>1. \A s : StreakIn(<<>>, Len(<<>>), s) = {}
    BY DEF StreakIn
  <2>2. Cardinality({}) = 0
    BY FS_EmptySet
  <2> QED
    BY <2>1, <2>2 DEF Init, Streaks, StreakOK, NoStreak
<1> QED
  BY <1>1, <1>3, <1>4, <1>5, <1>6 DEF Strong

\* A step that touches none of what has been read and delivered.
LEMMA SameHistory ==
  ASSUME Strong, UNCHANGED <<lastProcessedBucket, persistence, processed, delivered>>,
         TypeOK', OneTick', \A t \in Ticks : TickOK(t)'
  PROVE  Strong'
<1>1. Cursor' /\ Delivered' /\ DeliveredInOrder' /\ OnlyTheCapSkips'
  BY DEF Strong, Cursor, Delivered, DeliveredInOrder, OnlyTheCapSkips
<1>2. Streaks' /\ AllJustified'
  BY DEF Strong, Streaks, AllJustified
<1> QED
  BY <1>1, <1>2 DEF Strong

\* The steps of one tick leave the others idle.
LEMMA OthersIdle ==
  ASSUME Strong, NEW t \in Ticks, ticks[t].pc # "idle" \/ ~running
  PROVE  \A u \in Ticks : u # t => ticks[u].pc = "idle"
BY DEF Strong, OneTick

LEMMA SoleTick ==
  ASSUME Strong, NEW t \in Ticks, ticks[t].pc # "idle" \/ ~running,
         NEW k \in Tick, ticks' = [ticks EXCEPT ![t] = k], k.pc # "idle" => running'
  PROVE  /\ OneTick' /\ ticks' \in [Ticks -> Tick] /\ ticks'[t] = k
         /\ \A u \in Ticks : u # t => TickOK(u)'
<1>1. \A u \in Ticks : u # t => ticks[u].pc = "idle"
  BY OthersIdle
<1>2. /\ ticks' \in [Ticks -> Tick] /\ ticks'[t] = k
      /\ \A u \in Ticks : u # t => ticks'[u] = ticks[u]
  BY DEF Strong, TypeOK
<1>3. OneTick'
  BY <1>1, <1>2 DEF OneTick
<1>4. \A u \in Ticks : u # t => TickOK(u)'
  BY <1>1, <1>2 DEF TickOK
<1> QED
  BY <1>2, <1>3, <1>4

LEMMA CloseMinuteStep ==
  ASSUME Strong, CloseMinute
  PROVE  Strong'
<1>1. TypeOK'
  BY DetectorAssumption DEF Strong, TypeOK, CloseMinute, Buckets
<1>2. OneTick' /\ \A t \in Ticks : TickOK(t)'
  BY DEF Strong, OneTick, TickOK, CloseMinute
<1> QED
  BY <1>1, <1>2, SameHistory DEF CloseMinute

LEMMA StartTickStep ==
  ASSUME Strong, NEW t \in Ticks, StartTick(t)
  PROVE  Strong'
<1> DEFINE k == [IdleTick EXCEPT !.pc = "load", !.target = clock]
<1>1. clock \in Buckets
  BY DEF Strong, TypeOK
<1>2. k \in Tick /\ k.pc = "load" /\ k.target = clock
  BY <1>1, IdleType, NewTickType
<1>3. ~running /\ running' /\ ticks' = [ticks EXCEPT ![t] = k]
  BY DEF StartTick
<1> HIDE DEF k
<1>4. /\ OneTick' /\ ticks' \in [Ticks -> Tick] /\ ticks'[t] = k
      /\ \A u \in Ticks : u # t => TickOK(u)'
  BY <1>2, <1>3, SoleTick
<1>5. TickOK(t)'
  BY <1>1, <1>2, <1>4 DEF TickOK
<1>6. TypeOK'
  BY <1>4 DEF Strong, TypeOK, StartTick
<1> QED
  BY <1>4, <1>5, <1>6, SameHistory DEF StartTick

\* Continue, to a next window or to the tick's end.
LEMMA ContinueTick ==
  ASSUME Strong, NEW t \in Ticks, ticks[t].pc # "idle", NEW todo \in SUBSET Buckets,
         todo = BucketsToProcess(lastProcessedBucket, ticks[t].target),
         lastProcessedBucket' = lastProcessedBucket, Continue(t, todo)
  PROVE  /\ OneTick' /\ ticks' \in [Ticks -> Tick] /\ running' \in BOOLEAN
         /\ \A u \in Ticks : TickOK(u)'
<1>1. ticks[t] \in Tick /\ ticks \in [Ticks -> Tick] /\ running /\ ticks[t].target \in Buckets
  BY DEF Strong, TypeOK, OneTick, TickOK
<1>2. CASE todo = {}
  <2>1. ticks' = [ticks EXCEPT ![t] = IdleTick] /\ ~running' /\ running' \in BOOLEAN
    BY <1>2 DEF Continue
  <2>2. /\ OneTick' /\ ticks' \in [Ticks -> Tick] /\ ticks'[t] = IdleTick
        /\ \A u \in Ticks : u # t => TickOK(u)'
    BY <2>1, IdleType, SoleTick
  <2>3. TickOK(t)'
    BY <2>2, IdleType DEF TickOK
  <2> QED
    BY <2>1, <2>2, <2>3
<1>3. CASE todo # {}
  <2> DEFINE k == [ticks[t] EXCEPT !.pc = "read", !.todo = todo, !.output = NoOutput]
  <2>1. ticks' = [ticks EXCEPT ![t] = k] /\ running' = running
    BY <1>1, <1>3 DEF Continue
  <2>2. k \in Tick /\ k.pc = "read" /\ k.todo = todo /\ k.target = ticks[t].target
    <3>1. "read" \in {"idle", "load", "read", "diagnose"} /\ NoOutput \in Result \cup {NoOutput}
      OBVIOUS
    <3> QED
      BY <1>1, <3>1 DEF Tick
  <2> HIDE DEF k
  <2>3. /\ OneTick' /\ ticks' \in [Ticks -> Tick] /\ ticks'[t] = k
        /\ \A u \in Ticks : u # t => TickOK(u)'
    BY <1>1, <2>1, <2>2, SoleTick
  <2>4. TickOK(t)'
    BY <1>1, <1>3, <2>2, <2>3 DEF TickOK
  <2> QED
    BY <1>1, <2>1, <2>3, <2>4
<1> QED
  BY <1>2, <1>3

LEMMA LoadConfigStep ==
  ASSUME Strong, NEW t \in Ticks, LoadConfig(t)
  PROVE  Strong'
<1> DEFINE todo == BucketsToProcess(lastProcessedBucket, ticks[t].target)
<1>1. ticks[t].pc = "load" /\ Continue(t, todo)
      /\ UNCHANGED <<clock, lastProcessedBucket, persistence, processed, delivered>>
  BY DEF LoadConfig
<1>2. ticks[t].target \in Buckets
  BY <1>1 DEF Strong, TickOK
<1>3. todo \in SUBSET Buckets
  BY <1>2 DEF BucketsToProcess
<1>4. /\ OneTick' /\ ticks' \in [Ticks -> Tick] /\ running' \in BOOLEAN
      /\ \A u \in Ticks : TickOK(u)'
  BY <1>1, <1>3, ContinueTick
<1>5. TypeOK'
  BY <1>1, <1>4 DEF Strong, TypeOK
<1> QED
  BY <1>1, <1>4, <1>5, SameHistory

LEMMA FailTickStep ==
  ASSUME Strong, NEW t \in Ticks, FailTick(t)
  PROVE  Strong'
<1>1. /\ ticks[t].pc # "idle" /\ ticks' = [ticks EXCEPT ![t] = IdleTick] /\ ~running'
      /\ running' \in BOOLEAN
      /\ UNCHANGED <<clock, lastProcessedBucket, persistence, processed, delivered>>
  BY DEF FailTick
<1>2. /\ OneTick' /\ ticks' \in [Ticks -> Tick] /\ ticks'[t] = IdleTick
      /\ \A u \in Ticks : u # t => TickOK(u)'
  BY <1>1, IdleType, SoleTick
<1>3. TickOK(t)'
  BY <1>2, IdleType DEF TickOK
<1>4. TypeOK'
  BY <1>1, <1>2 DEF Strong, TypeOK
<1> QED
  BY <1>1, <1>2, <1>3, <1>4, SameHistory

LEMMA RestartStep ==
  ASSUME Strong, Restart
  PROVE  Strong'
<1>1. /\ processed' = <<>> /\ Len(processed') = 0 /\ DOMAIN delivered' = {}
      /\ \A t \in Ticks : ticks'[t].pc = "idle"
  BY IdleType DEF Restart
<1>2. TypeOK'
  <2>1. NoStreak \in Streak /\ 0 \in 0 .. MaxClock
    BY DetectorAssumption DEF NoStreak, Streak
  <2>2. /\ processed' \in Seq([bucket : Buckets, target : Buckets, reading : Readings])
        /\ delivered' \in Seq(Result)
    BY DEF Restart
  <2>3. ticks' \in [Ticks -> Tick] /\ persistence' \in [Slices -> Streak]
    BY <2>1, IdleType DEF Restart
  <2> QED
    BY <2>1, <2>2, <2>3 DEF Restart, Strong, TypeOK
<1>3. Cursor' /\ OneTick' /\ Delivered'
  BY <1>1 DEF Restart, Cursor, OneTick, Delivered
<1>4. DeliveredInOrder' /\ OnlyTheCapSkips' /\ AllJustified'
  BY <1>1 DEF DeliveredInOrder, OnlyTheCapSkips, AllJustified
<1>5. \A t \in Ticks : TickOK(t)'
  BY <1>1 DEF TickOK
<1>6. Streaks'
  <2>1. \A s : StreakIn(<<>>, Len(<<>>), s) = {}
    BY DEF StreakIn
  <2>2. Cardinality({}) = 0
    BY FS_EmptySet
  <2> QED
    BY <2>1, <2>2 DEF Restart, Streaks, StreakOK, NoStreak
<1> QED
  BY <1>2, <1>3, <1>4, <1>5, <1>6 DEF Strong

\* The diagnosed window is the newest that was read, and newer than all that went
\* out before it.
LEMMA DeliverStep ==
  ASSUME Strong, NEW t \in Ticks, Deliver(t)
  PROVE  Strong'
<1> DEFINE d == ticks[t].output
           q == processed
           n == Len(processed)
<1>1. /\ ticks[t].pc = "diagnose" /\ delivered' = Append(delivered, d)
      /\ Continue(t, ticks[t].todo)
      /\ UNCHANGED <<clock, lastProcessedBucket, persistence, processed>>
  BY DEF Deliver
<1>2. /\ ticks[t] \in Tick /\ processed \in Seq(Entry) /\ delivered \in Seq(Result)
      /\ persistence \in [Slices -> Streak]
  BY DEF Strong, TypeOK, Entry
<1>3. /\ ticks[t].todo = BucketsToProcess(lastProcessedBucket, ticks[t].target)
      /\ processed # <<>> /\ lastProcessedBucket = q[n].bucket
      /\ d = Output(persistence, q[n].reading, q[n].bucket)
      /\ \A i \in DOMAIN delivered : delivered[i].bucket < lastProcessedBucket
  BY <1>1 DEF Strong, TickOK, Cursor
<1>4. Justified(d, q, n) /\ d \in Result /\ d.bucket = lastProcessedBucket
  <2>1. \A s \in Slices : StreakOK(persistence[s], q, s)
    BY DEF Strong, Streaks
  <2>2. Justified(d, q, n) /\ d \in Result
    BY <1>2, <1>3, <2>1, OutputJustified
  <2> QED
    BY <1>3, <2>2 DEF Justified
<1>5. ticks[t].todo \in SUBSET Buckets
  BY <1>2 DEF Tick
<1>6. n \in DOMAIN processed
  BY <1>2, <1>3
<1> HIDE DEF d, q, n
<1>7. /\ OneTick' /\ ticks' \in [Ticks -> Tick] /\ running' \in BOOLEAN
      /\ \A u \in Ticks : TickOK(u)'
  BY <1>1, <1>3, <1>5, ContinueTick
<1>8. /\ delivered' \in Seq(Result) /\ Len(delivered) \in Nat
      /\ DOMAIN delivered = 1 .. Len(delivered)
      /\ DOMAIN delivered' = 1 .. (Len(delivered) + 1)
      /\ \A i \in DOMAIN delivered : delivered'[i] = delivered[i] /\ delivered[i] \in Result
      /\ delivered'[Len(delivered) + 1] = d
  BY <1>1, <1>2, <1>4, Appended
<1>9. TypeOK'
  BY <1>1, <1>7, <1>8 DEF Strong, TypeOK
<1>10. DeliveredInOrder'
  <2> SUFFICES ASSUME NEW i \in DOMAIN delivered', NEW j \in DOMAIN delivered', i < j
               PROVE  delivered'[i].bucket < delivered'[j].bucket
    BY DEF DeliveredInOrder
  <2>1. i \in DOMAIN delivered
    BY <1>8
  <2>2. CASE j \in DOMAIN delivered
    BY <1>8, <2>1, <2>2 DEF Strong, DeliveredInOrder
  <2>3. CASE j = Len(delivered) + 1
    BY <1>3, <1>4, <1>8, <2>1, <2>3
  <2> QED
    BY <1>8, <2>2, <2>3
<1>11. Delivered'
  <2> SUFFICES ASSUME NEW i \in DOMAIN delivered'
               PROVE  delivered'[i].bucket <= lastProcessedBucket
    BY <1>1 DEF Delivered
  <2>1. lastProcessedBucket \in Nat
    BY DEF Strong, TypeOK
  <2>2. CASE i \in DOMAIN delivered
    BY <1>8, <2>2 DEF Strong, Delivered
  <2>3. CASE i = Len(delivered) + 1
    BY <1>4, <1>8, <2>1, <2>3
  <2> QED
    BY <1>8, <2>2, <2>3
<1>12. AllJustified'
  <2> SUFFICES ASSUME NEW i \in DOMAIN delivered'
               PROVE  \E k \in DOMAIN processed : Justified(delivered'[i], processed, k)
    BY <1>1 DEF AllJustified
  <2>1. CASE i \in DOMAIN delivered
    BY <1>8, <2>1 DEF Strong, AllJustified
  <2>2. CASE i = Len(delivered) + 1
    BY <1>4, <1>6, <1>8, <2>2 DEF q
  <2> QED
    BY <1>8, <2>1, <2>2
<1>13. Cursor' /\ OnlyTheCapSkips' /\ Streaks'
  BY <1>1 DEF Strong, Cursor, OnlyTheCapSkips, Streaks
<1> QED
  BY <1>7, <1>9, <1>10, <1>11, <1>12, <1>13 DEF Strong

\* The oldest of the windows to process is the next one, unless the cap cut the
\* ones before it off.
LEMMA OldestToProcess ==
  ASSUME NEW last \in 0 .. MaxClock, NEW target \in Buckets,
         NEW b \in BucketsToProcess(last, target),
         \A other \in BucketsToProcess(last, target) : b <= other
  PROVE  /\ b \in Buckets /\ last < b
         /\ BucketsToProcess(last, target) \ {b} = BucketsToProcess(b, target)
         /\ last # 0 /\ b # last + 1 => target - last > CatchUpCap /\ b = target + 1 - CatchUpCap
<1>1. MaxClock \in Nat \ {0} /\ CatchUpCap \in Nat \ {0}
  BY DetectorAssumption
<1>2. CASE last = 0
  BY <1>1, <1>2 DEF BucketsToProcess, Buckets
<1>3. CASE last # 0
  <2>1. /\ b \in Buckets /\ last < b /\ b <= target /\ target - b < CatchUpCap
        /\ \A c \in Buckets : last < c /\ c <= target /\ target - c < CatchUpCap => b <= c
    BY <1>3 DEF BucketsToProcess
  <2>2. BucketsToProcess(last, target) \ {b}
          = {c \in Buckets : b < c /\ c <= target /\ target - c < CatchUpCap}
    BY <1>1, <1>3, <2>1 DEF BucketsToProcess, Buckets
  <2>3. b # 0
    BY <2>1 DEF Buckets
  <2>4. b # last + 1 => target - last > CatchUpCap /\ b = target + 1 - CatchUpCap
    <3> SUFFICES ASSUME b # last + 1
                 PROVE  target - last > CatchUpCap /\ b = target + 1 - CatchUpCap
      OBVIOUS
    <3>1. b - 1 \in Buckets /\ last < b - 1 /\ b - 1 <= target
      BY <1>1, <1>3, <2>1 DEF Buckets
    <3>2. ~(target - (b - 1) < CatchUpCap)
      BY <1>1, <2>1, <3>1 DEF Buckets
    <3> QED
      BY <1>1, <2>1, <3>1, <3>2 DEF Buckets
  <2> QED
    BY <2>1, <2>2, <2>3, <2>4 DEF BucketsToProcess
<1> QED
  BY <1>2, <1>3

LEMMA ReadWindowStep ==
  ASSUME Strong, NEW t \in Ticks, ReadWindow(t)
  PROVE  Strong'
<1>1. PICK b \in ticks[t].todo, reading \in Readings :
        /\ \A other \in ticks[t].todo : b <= other
        /\ persistence' = Step(persistence, reading, b)
        /\ ticks' = [ticks EXCEPT ![t].pc = "diagnose", ![t].todo = @ \ {b},
                       ![t].output = Output(Step(persistence, reading, b), reading, b)]
        /\ lastProcessedBucket' = b
        /\ processed' = Append(processed,
             [bucket |-> b, target |-> ticks[t].target, reading |-> reading])
  BY DEF ReadWindow
<1>2. ticks[t].pc = "read" /\ UNCHANGED <<clock, running, delivered>>
  BY DEF ReadWindow
<1> DEFINE last == lastProcessedBucket
           target == ticks[t].target
           q == processed
           n == Len(processed)
           e == [bucket |-> b, target |-> target, reading |-> reading]
           streaks == Step(persistence, reading, b)
           d == Output(streaks, reading, b)
           todo == ticks[t].todo \ {b}
           k == [ticks[t] EXCEPT !.pc = "diagnose", !.todo = todo, !.output = d]
<1>3. /\ ticks[t] \in Tick /\ q \in Seq(Entry) /\ delivered \in Seq(Result)
      /\ persistence \in [Slices -> Streak] /\ last \in 0 .. MaxClock
      /\ running /\ target \in Buckets /\ ticks[t].todo = BucketsToProcess(last, target)
      /\ \A s \in Slices : StreakOK(persistence[s], q, s)
  BY <1>2 DEF Strong, TypeOK, Entry, OneTick, TickOK, Streaks
<1>4. /\ b \in Buckets /\ last < b /\ todo = BucketsToProcess(b, target)
      /\ last # 0 /\ b # last + 1 => target - last > CatchUpCap /\ b = target + 1 - CatchUpCap
  BY <1>1, <1>3, OldestToProcess
<1>5. e \in Entry /\ e.bucket = b /\ e.target = target /\ e.reading = reading
  BY <1>3, <1>4 DEF Entry
<1> HIDE DEF e
<1>6. processed' = Append(q, e)
  BY <1>1 DEF e
<1>7. /\ processed' \in Seq(Entry) /\ processed' # <<>>
      /\ n \in Nat /\ Len(processed') = n + 1
      /\ DOMAIN processed = 1 .. n /\ DOMAIN processed' = 1 .. (n + 1)
      /\ \A i \in 1 .. n : processed'[i] = q[i] /\ q[i] \in Entry
      /\ processed'[n + 1] = e
  BY <1>3, <1>5, <1>6, Appended
<1>8. n <= last /\ (q # <<>> => last = q[n].bucket)
  BY DEF Strong, Cursor
<1>9. n < MaxClock /\ b \in 1 .. MaxClock
  BY <1>4, <1>7, <1>8, <1>3, DetectorAssumption DEF Buckets
<1>10. /\ persistence' \in [Slices -> Streak]
       /\ \A s \in Slices : StreakOK(persistence'[s], processed', s)
  BY <1>1, <1>3, <1>5, <1>6, <1>9, StreaksTyped
<1>11. /\ d = Output(persistence', processed'[Len(processed')].reading,
                     processed'[Len(processed')].bucket)
       /\ d \in Result
  <2>1. d = Output(persistence', processed'[Len(processed')].reading,
                   processed'[Len(processed')].bucket)
    BY <1>1, <1>5, <1>7
  <2> QED
    BY <1>7, <1>10, <2>1, OutputJustified
<1> HIDE DEF d, todo, n, q, last, target, streaks
<1>12. /\ k \in Tick /\ k.pc = "diagnose" /\ k.todo = todo /\ k.output = d
       /\ k.target = ticks[t].target
  <2>1. todo \in SUBSET Buckets
    BY <1>3 DEF todo, Tick
  <2> QED
    BY <1>3, <1>11, <2>1 DEF Tick
<1>13. ticks' = [ticks EXCEPT ![t] = k]
  BY <1>1, <1>3 DEF d, streaks, todo
<1> HIDE DEF k
<1>14. /\ OneTick' /\ ticks' \in [Ticks -> Tick] /\ ticks'[t] = k
       /\ \A u \in Ticks : u # t => TickOK(u)'
  BY <1>2, <1>3, <1>12, <1>13, SoleTick
<1>15. \A i \in DOMAIN delivered : delivered[i] \in Result /\ delivered[i].bucket < b
  <2>1. \A i \in DOMAIN delivered : delivered[i] \in Result /\ delivered[i].bucket <= last
    BY <1>3 DEF Strong, Delivered, last
  <2> QED
    BY <1>3, <1>4, <2>1 DEF Result, Buckets
<1>16. TickOK(t)'
  <2>1. /\ ticks'[t].pc = "diagnose" /\ ticks'[t].target \in Buckets
        /\ ticks'[t].todo = BucketsToProcess(lastProcessedBucket', ticks'[t].target)
    BY <1>1, <1>3, <1>4, <1>12, <1>14 DEF target
  <2>2. /\ processed' # <<>>
        /\ ticks'[t].output = Output(persistence', processed'[Len(processed')].reading,
                                     lastProcessedBucket')
    BY <1>1, <1>5, <1>7, <1>11, <1>12, <1>14
  <2>3. \A i \in DOMAIN delivered' : delivered'[i].bucket < lastProcessedBucket'
    BY <1>1, <1>2, <1>15
  <2> QED
    BY <2>1, <2>2, <2>3 DEF TickOK
<1>17. TypeOK'
  BY <1>1, <1>2, <1>7, <1>9, <1>10, <1>14 DEF Strong, TypeOK, Entry
<1>18. Cursor'
  BY <1>1, <1>3, <1>4, <1>5, <1>7, <1>8, <1>9 DEF Cursor
<1>19. Delivered' /\ DeliveredInOrder'
  BY <1>1, <1>2, <1>9, <1>15 DEF Strong, Delivered, DeliveredInOrder, Result, Buckets
<1>20. Streaks'
  BY <1>10 DEF Streaks
<1>21. AllJustified'
  <2> SUFFICES ASSUME NEW i \in DOMAIN delivered
               PROVE  \E m \in DOMAIN processed' : Justified(delivered[i], processed', m)
    BY <1>2 DEF AllJustified
  <2>1. PICK m \in 1 .. n : Justified(delivered[i], q, m)
    BY <1>7 DEF Strong, AllJustified, q
  <2>2. \A s \in Slices : StreakIn(processed', m, s) = StreakIn(q, m, s)
    BY <1>3, <1>5, <1>6, <2>1, StreakKept DEF n, q
  <2>3. processed'[m] = q[m] /\ m \in DOMAIN processed'
    BY <1>7, <2>1
  <2>4. Justified(delivered[i], processed', m)
    <3> DEFINE First(s) == Oldest(StreakIn(q, m, s))
               below == {s \in Slices :
                           Cardinality(StreakIn(q, m, s)) \in 1 .. PersistenceWindows - 1}
               told(p, s) == [slice |-> s, count |-> Cardinality(StreakIn(q, m, s)),
                              firstBucket |-> p[First(s)].bucket]
    <3>1. ASSUME NEW s \in below
          PROVE  processed'[First(s)] = q[First(s)]
      <4>1. s \in Slices /\ StreakIn(q, m, s) # {}
        BY FS_EmptySet
      <4>2. PICK f : IsFirst(f, StreakIn(q, m, s))
        BY <2>1, <4>1 DEF Justified
      <4>3. StreakIn(q, m, s) \in SUBSET Nat /\ StreakIn(q, m, s) \subseteq 1 .. n
        BY <1>7, <2>1 DEF StreakIn
      <4>4. f = First(s) /\ f \in StreakIn(q, m, s)
        BY <4>2, <4>3, FirstIsChosen DEF IsFirst
      <4> QED
        BY <1>7, <4>3, <4>4
    <3>2. {told(q, s) : s \in below} = {told(processed', s) : s \in below}
      BY <3>1
    <3>3. delivered[i].pending = {told(q, s) : s \in below}
      BY <2>1 DEF Justified
    <3>4. {told(processed', s) : s \in below} =
            {[slice |-> s, count |-> Cardinality(StreakIn(processed', m, s)),
              firstBucket |-> processed'[Oldest(StreakIn(processed', m, s))].bucket] :
               s \in {r \in Slices :
                        Cardinality(StreakIn(processed', m, r)) \in 1 .. PersistenceWindows - 1}}
      BY <2>2
    <3>5. delivered[i].signals =
            {s \in Slices : /\ processed'[m].reading[s] = "drop"
                            /\ Cardinality(StreakIn(processed', m, s)) >= PersistenceWindows}
      BY <2>1, <2>2, <2>3 DEF Justified
    <3>6. \A s \in Slices : StreakIn(processed', m, s) # {}
                              => \E f : IsFirst(f, StreakIn(processed', m, s))
      BY <2>1, <2>2 DEF Justified
    <3>7. processed'[m].bucket = delivered[i].bucket
      BY <2>1, <2>3 DEF Justified
    <3> HIDE DEF told, below
    <3> QED
      BY <3>2, <3>3, <3>4, <3>5, <3>6, <3>7 DEF Justified
  <2> QED
    BY <2>3, <2>4
<1>22. OnlyTheCapSkips'
  <2> SUFFICES ASSUME NEW i \in 1 .. n
               PROVE  processed'[i + 1].bucket # processed'[i].bucket + 1
                        => /\ processed'[i + 1].target - processed'[i].bucket > CatchUpCap
                           /\ processed'[i + 1].bucket
                                = processed'[i + 1].target + 1 - CatchUpCap
    BY <1>7 DEF OnlyTheCapSkips
  <2>1. CASE i + 1 \in 1 .. n
    <3>1. processed'[i] = q[i] /\ processed'[i + 1] = q[i + 1] /\ i \in 1 .. n - 1
      BY <1>7, <2>1
    <3> QED
      BY <3>1 DEF Strong, OnlyTheCapSkips, q, n
  <2>2. CASE i = n
    <3>1. /\ processed'[i].bucket = last /\ processed'[i].bucket \in Buckets
          /\ processed'[i + 1] = e
      <4>1. /\ processed'[i] = q[n] /\ q[n] \in Entry /\ processed'[i + 1] = e
        BY <1>7, <2>2
      <4>2. q # <<>>
        BY <1>7, <2>2 DEF n, q
      <4> QED
        BY <1>8, <4>1, <4>2 DEF Entry
    <3>2. last # 0
      BY <3>1 DEF Buckets
    <3> QED
      BY <1>4, <1>5, <3>1, <3>2
  <2> QED
    BY <1>7, <2>1, <2>2
<1> QED
  BY <1>14, <1>16, <1>17, <1>18, <1>19, <1>20, <1>21, <1>22 DEF Strong

LEMMA StrongStep == Strong /\ [Next]_vars => Strong'
<1> SUFFICES ASSUME Strong, [Next]_vars
             PROVE  Strong'
  OBVIOUS
<1>1. CASE UNCHANGED vars
  <2>1. TypeOK' /\ OneTick' /\ \A t \in Ticks : TickOK(t)'
    BY <1>1 DEF vars, Strong, TypeOK, OneTick, TickOK
  <2> QED
    BY <1>1, <2>1, SameHistory DEF vars
<1> QED
  BY <1>1, CloseMinuteStep, StartTickStep, LoadConfigStep, ReadWindowStep, DeliverStep,
     FailTickStep, RestartStep DEF Next, TickStep

LEMMA StrongAlways == Spec => []Strong
BY StrongInit, StrongStep, PTL DEF Spec

------------------------------------------------------------------------------
(* The theorems. *)

\* Cursor, streaks, ticks and results keep their types: no streak outgrows the
\* windows there were.
THEOREM TypeSafety == Spec => []TypeOK
<1>1. Strong => TypeOK
  BY DEF Strong
<1> QED
  BY <1>1, StrongAlways, PTL

\* onResult hears of every window at most once and in order, however slow a tick
\* is and however often the timer fires.
THEOREM WindowsGoOutInOrder == Spec => []DeliveredInOrder
<1>1. Strong => DeliveredInOrder
  BY DEF Strong
<1> QED
  BY <1>1, StrongAlways, PTL

\* No window is passed over but the oldest of a catch-up longer than the cap.
THEOREM NothingElseIsSkipped == Spec => []OnlyTheCapSkips
<1>1. Strong => OnlyTheCapSkips
  BY DEF Strong
<1> QED
  BY <1>1, StrongAlways, PTL

\* Whatever was confirmed, or shown as a watching card, is what the windows read
\* since the process started say.
THEOREM ConfirmedByTheHistory == Spec => []ConfirmedIsJustified
<1>1. ASSUME Strong
      PROVE  ConfirmedIsJustified
  <2>1. ASSUME NEW i \in DOMAIN delivered
        PROVE  \E n \in DOMAIN processed :
          /\ processed[n].bucket = delivered[i].bucket
          /\ delivered[i].signals =
               {s \in Slices : /\ processed[n].reading[s] = "drop"
                               /\ Cardinality(Streaking(n, s)) >= PersistenceWindows}
          /\ delivered[i].pending =
               {[slice |-> s, count |-> Cardinality(Streaking(n, s)),
                 firstBucket |-> processed[CHOOSE k \in Streaking(n, s) :
                                   \A j \in Streaking(n, s) : k <= j].bucket] :
                  s \in {t \in Slices :
                           Cardinality(Streaking(n, t)) \in 1 .. PersistenceWindows - 1}}
    <3>1. PICK n \in DOMAIN processed : Justified(delivered[i], processed, n)
      BY <1>1, <2>1 DEF Strong, AllJustified
    <3>2. \A s : StreakIn(processed, n, s) = Streaking(n, s)
      BY DEF StreakIn, Streaking
    <3>3. /\ processed[n].bucket = delivered[i].bucket
          /\ delivered[i].signals =
               {s \in Slices : /\ processed[n].reading[s] = "drop"
                               /\ Cardinality(Streaking(n, s)) >= PersistenceWindows}
      BY <3>1, <3>2 DEF Justified
    <3>4. delivered[i].pending =
            {[slice |-> s, count |-> Cardinality(Streaking(n, s)),
              firstBucket |-> processed[Oldest(Streaking(n, s))].bucket] :
               s \in {t \in Slices :
                        Cardinality(Streaking(n, t)) \in 1 .. PersistenceWindows - 1}}
      BY <3>1, <3>2 DEF Justified
    <3>5. delivered[i].pending =
            {[slice |-> s, count |-> Cardinality(Streaking(n, s)),
              firstBucket |-> processed[CHOOSE k \in Streaking(n, s) :
                                \A j \in Streaking(n, s) : k <= j].bucket] :
               s \in {t \in Slices :
                        Cardinality(Streaking(n, t)) \in 1 .. PersistenceWindows - 1}}
      BY <3>4, Zenon DEF Oldest
    <3> QED
      BY <3>3, <3>5, Zenon
  <2> QED
    BY <2>1, Zenon DEF ConfirmedIsJustified
<1> QED
  BY <1>1, StrongAlways, PTL

------------------------------------------------------------------------------
(* The guard. *)

\* `running` is raised exactly while a tick is in flight, and that tick is the
\* only one: whichever query of it throws, and whenever the process restarts, the
\* next interval finds the guard down (scheduler.ts:198).
GuardIsTheTick ==
  /\ running => \E t \in Ticks : ticks[t].pc # "idle"
  /\ \A t, u \in Ticks : ticks[t].pc # "idle" /\ ticks[u].pc # "idle" => running /\ t = u

RaisedByATick == running => \E t \in Ticks : ticks[t].pc # "idle"

\* Either runOnce goes on, or it returns and lowers the guard.
LEMMA ContinueGuard ==
  ASSUME Strong, NEW t \in Ticks, NEW todo, Continue(t, todo)
  PROVE  RaisedByATick'
<1>1. CASE todo = {}
  BY <1>1 DEF Continue, RaisedByATick
<1>2. CASE todo # {}
  <2>1. ticks' = [ticks EXCEPT ![t].pc = "read", ![t].todo = todo, ![t].output = NoOutput]
    BY <1>2 DEF Continue
  <2>2. ticks'[t].pc = "read"
    BY <2>1 DEF Strong, TypeOK, Tick
  <2> QED
    BY <2>2 DEF RaisedByATick
<1> QED
  BY <1>1, <1>2

LEMMA GuardStep == Strong /\ RaisedByATick /\ [Next]_vars => RaisedByATick'
<1> SUFFICES ASSUME Strong, RaisedByATick, [Next]_vars
             PROVE  RaisedByATick'
  OBVIOUS
<1>1. ASSUME NEW t \in Ticks, StartTick(t)
      PROVE  RaisedByATick'
  <2>1. ticks' = [ticks EXCEPT ![t] = [IdleTick EXCEPT !.pc = "load", !.target = clock]]
    BY <1>1 DEF StartTick
  <2>2. ticks'[t].pc = "load"
    BY <2>1 DEF Strong, TypeOK, IdleTick
  <2> QED
    BY <2>2 DEF RaisedByATick
<1>2. ASSUME NEW t \in Ticks, LoadConfig(t) \/ Deliver(t)
      PROVE  RaisedByATick'
  BY <1>2, ContinueGuard DEF LoadConfig, Deliver
<1>3. ASSUME NEW t \in Ticks, ReadWindow(t)
      PROVE  RaisedByATick'
  <2>1. PICK todo, output :
          ticks' = [ticks EXCEPT ![t].pc = "diagnose", ![t].todo = todo, ![t].output = output]
    BY <1>3 DEF ReadWindow
  <2>2. ticks'[t].pc = "diagnose"
    BY <2>1 DEF Strong, TypeOK, Tick
  <2> QED
    BY <2>2 DEF RaisedByATick
<1>4. ASSUME NEW t \in Ticks, FailTick(t)
      PROVE  RaisedByATick'
  BY <1>4 DEF FailTick, RaisedByATick
<1>5. CASE CloseMinute \/ UNCHANGED vars
  BY <1>5 DEF CloseMinute, vars, RaisedByATick
<1>6. CASE Restart
  BY <1>6 DEF Restart, RaisedByATick
<1> QED
  BY <1>1, <1>2, <1>3, <1>4, <1>5, <1>6 DEF Next, TickStep

\* The scheduler never stops itself with the guard, for any number of ticks,
\* windows to catch up on and failures: the safety half of KeepsUp.
THEOREM GuardNeverSticks == Spec => []GuardIsTheTick
<1>1. Init => RaisedByATick
  BY DEF Init, RaisedByATick
<1>2. Strong /\ RaisedByATick => GuardIsTheTick
  BY DEF Strong, OneTick, RaisedByATick, GuardIsTheTick
<1> QED
  BY <1>1, <1>2, GuardStep, StrongAlways, PTL DEF Spec

------------------------------------------------------------------------------
(* The tower: each of its steps is a step of the detector and a step of the *)
(* board, or leaves one of them alone.                                      *)

LEMMA TowerStepsTheDetector == [TowerNext]_towerVars => [Next]_vars
<1>1. ASSUME DetectorOnly
      PROVE  Next
  BY <1>1 DEF DetectorOnly, Next, TickStep
<1>2. ASSUME NEW t \in Ticks, Read(t) \/ HandOver(t)
      PROVE  Next
  BY <1>2 DEF Read, HandOver, Next, TickStep
<1>3. JobStep => UNCHANGED vars
  BY DEF JobStep, WriteEvidence, ResolveQuiet, GiveUpQuiet, FailJob
<1>4. RestartTower => Next
  BY DEF RestartTower, Next
<1>5. UNCHANGED towerVars => UNCHANGED vars
  BY DEF towerVars
<1> QED
  BY <1>1, <1>2, <1>3, <1>4, <1>5 DEF TowerNext

\* Composed with the tail and the board the detector behaves as it does alone, so
\* what is proved of Detector holds in the tower.
THEOREM TowerIsADetector == TowerSpec => Spec
<1>1. TowerInit => Init
  BY DEF TowerInit
<1> QED
  BY <1>1, TowerStepsTheDetector, PTL DEF TowerSpec, Spec

LEMMA TowerStrong == TowerSpec => []Strong
BY TowerIsADetector, StrongAlways, PTL

------------------------------------------------------------------------------
(* Histories that grow. *)

\* DropsOf, of any history q.
DropsIn(q, n, s) ==
  {i \in 1 .. n : /\ q[i].reading[s] = "drop"
                  /\ \A j \in i .. n : q[j].reading[s] # "clear" /\ (q[j].cold => j = i)}

\* What a window read stays as it is; only `done` may still change.
Extends(p, q) ==
  /\ Len(q) <= Len(p)
  /\ \A i \in 1 .. Len(q) : /\ p[i].bucket = q[i].bucket
                            /\ p[i].reading = q[i].reading
                            /\ p[i].cold = q[i].cold

LEMMA DropsKept ==
  ASSUME NEW p \in Seq(LogEntry), NEW q \in Seq(LogEntry), Extends(p, q),
         NEW n \in 1 .. Len(q), NEW s
  PROVE  DropsIn(p, n, s) = DropsIn(q, n, s)
<1>1. \A i \in 1 .. n : p[i].reading[s] = q[i].reading[s] /\ p[i].cold = q[i].cold
  BY DEF Extends
<1>2. \A i \in 1 .. n : i .. n \subseteq 1 .. n
  OBVIOUS
<1>3. ASSUME NEW i \in 1 .. n
      PROVE  i \in DropsIn(p, n, s) <=> i \in DropsIn(q, n, s)
  BY <1>1, <1>2 DEF DropsIn
<1> QED
  BY <1>3 DEF DropsIn

ConfirmedIn(q, n, s) ==
  q[n].reading[s] = "drop" /\ Cardinality(DropsIn(q, n, s)) >= PersistenceWindows

LEMMA ConfirmedKept ==
  ASSUME NEW p \in Seq(LogEntry), NEW q \in Seq(LogEntry), Extends(p, q),
         NEW n \in 1 .. Len(q), NEW s
  PROVE  ConfirmedIn(p, n, s) <=> ConfirmedIn(q, n, s)
<1>1. DropsIn(p, n, s) = DropsIn(q, n, s)
  BY DropsKept
<1>2. p[n].reading = q[n].reading
  BY DEF Extends
<1> QED
  BY <1>1, <1>2 DEF ConfirmedIn

LEMMA ConfirmedInLog ==
  ASSUME NEW n, NEW s
  PROVE  Confirmed(n, s) <=> ConfirmedIn(log, n, s)
BY DEF Confirmed, ConfirmedIn, DropsOf, DropsIn

\* A window extends the drops, ends them, starts them afresh in a new process, or
\* leaves them as they are.
LEMMA DropsExtended ==
  ASSUME NEW q \in Seq(LogEntry), NEW e \in LogEntry, NEW s \in Slices
  PROVE  LET S == DropsIn(q, Len(q), s)
             T == DropsIn(Append(q, e), Len(q) + 1, s)
         IN /\ e.reading[s] = "drop" /\ ~e.cold => T = S \cup {Len(q) + 1}
            /\ e.reading[s] = "drop" /\ e.cold  => T = {Len(q) + 1}
            /\ e.reading[s] = "clear" => T = {}
            /\ e.reading[s] \notin {"drop", "clear"} /\ ~e.cold => T = S
            /\ e.reading[s] # "drop" /\ e.cold => T = {}
<1> DEFINE n == Len(q)
           p == Append(q, e)
           S == DropsIn(q, n, s)
           T == DropsIn(p, n + 1, s)
<1>1. n \in Nat /\ p[n + 1] = e /\ \A i \in 1 .. n : p[i] = q[i]
  BY Appended
<1> HIDE DEF n, p
<1>2. ASSUME e.reading[s] # "clear", ~e.cold, NEW i \in 1 .. n
      PROVE  i \in DropsIn(p, n + 1, s) <=> i \in DropsIn(q, n, s)
  <2>1. /\ i .. (n + 1) = (i .. n) \cup {n + 1} /\ (i .. n) \subseteq 1 .. n
        /\ i \in 1 .. (n + 1) /\ p[i] = q[i] /\ n + 1 # i
    BY <1>1
  <2>2. (\A j \in i .. (n + 1) : p[j].reading[s] # "clear" /\ (p[j].cold => j = i))
        <=> (\A j \in i .. n : q[j].reading[s] # "clear" /\ (q[j].cold => j = i))
    <3>1. \A j \in i .. n : p[j] = q[j]
      BY <1>1, <2>1
    <3>2. p[n + 1].reading[s] # "clear" /\ ~p[n + 1].cold
      BY <1>1, <1>2
    <3> QED
      BY <2>1, <3>1, <3>2
  <2> QED
    BY <2>1, <2>2 DEF DropsIn
<1>3. n + 1 \in T <=> e.reading[s] = "drop"
  BY <1>1 DEF DropsIn
<1>4. ASSUME e.reading[s] = "clear" \/ e.cold, NEW i \in 1 .. n
      PROVE  i \notin T
  <2>1. n + 1 \in i .. (n + 1) /\ n + 1 # i
    BY <1>1
  <2> QED
    BY <1>1, <1>4, <2>1 DEF DropsIn
<1>5. T \subseteq (1 .. n) \cup {n + 1} /\ S \subseteq 1 .. n
  BY <1>1 DEF DropsIn
<1>6. e.reading[s] # "clear" /\ ~e.cold => \A i \in 1 .. n : i \in T <=> i \in S
  BY <1>2
<1>7. e.reading[s] = "clear" \/ e.cold => \A i \in 1 .. n : i \notin T
  BY <1>4
<1>8. n + 1 \notin S
  BY <1>1, <1>5
<1> HIDE DEF S, T
<1>9. /\ e.reading[s] = "drop" /\ ~e.cold => T = S \cup {n + 1}
      /\ e.reading[s] = "drop" /\ e.cold  => T = {n + 1}
      /\ e.reading[s] = "clear" => T = {}
      /\ e.reading[s] \notin {"drop", "clear"} /\ ~e.cold => T = S
      /\ e.reading[s] # "drop" /\ e.cold => T = {}
  BY <1>3, <1>5, <1>6, <1>7, <1>8
<1> QED
  BY <1>9 DEF n, p, S, T

LEMMA DropsFinite ==
  ASSUME NEW q, NEW n \in Nat, NEW s
  PROVE  /\ DropsIn(q, n, s) \subseteq 1 .. n
         /\ IsFiniteSet(DropsIn(q, n, s))
         /\ Cardinality(DropsIn(q, n, s)) \in Nat
<1>1. DropsIn(q, n, s) \subseteq 1 .. n
  BY DEF DropsIn
<1>2. IsFiniteSet(DropsIn(q, n, s))
  BY <1>1, FS_Interval, FS_Subset
<1> QED
  BY <1>1, <1>2, FS_CardinalityType

\* A run of k drops read by one process is a streak of k at least.
LEMMA LongRunConfirms ==
  ASSUME NEW q \in Seq(LogEntry), NEW n \in DOMAIN q, NEW c \in 1 .. n, NEW s,
         n - c + 1 >= PersistenceWindows,
         \A k \in c .. n : q[k].reading[s] = "drop" /\ (q[k].cold => k = c)
  PROVE  ConfirmedIn(q, n, s)
<1>1. n \in Nat /\ c \in Nat /\ n \in c .. n /\ DOMAIN q = 1 .. Len(q)
  OBVIOUS
<1>2. c .. n \subseteq DropsIn(q, n, s)
  <2> SUFFICES ASSUME NEW i \in c .. n
               PROVE  i \in DropsIn(q, n, s)
    OBVIOUS
  <2>1. \A j \in i .. n : j \in c .. n /\ (q[j].cold => j = i)
    BY <1>1
  <2> QED
    BY <1>1, <2>1 DEF DropsIn
<1>3. IsFiniteSet(DropsIn(q, n, s)) /\ Cardinality(DropsIn(q, n, s)) \in Nat
  BY <1>1, DropsFinite
<1>4. IsFiniteSet(c .. n) /\ Cardinality(c .. n) = n - c + 1
  BY <1>1, FS_Interval
<1>5. Cardinality(c .. n) <= Cardinality(DropsIn(q, n, s))
  BY <1>2, <1>3, FS_Subset
<1>6. Cardinality(DropsIn(q, n, s)) >= PersistenceWindows
  BY <1>1, <1>3, <1>4, <1>5, DetectorAssumption
<1> QED
  BY <1>1, <1>6 DEF ConfirmedIn

------------------------------------------------------------------------------
(* The invariant of the tower. *)

\* The windows a reconcile pass may yet judge the board by: the queued ones and
\* those still to come, which are no older than the newest.
Ahead == {Len(log)} \cup {tail[i].window : i \in DOMAIN tail}

\* Some entry under the root of s was confirmed in minute b or later; it has left
\* the board at most because it is quiet as every window ahead sees it.
OnBoard(s, b) ==
  \E id \in IncidentIds :
    /\ board[id] # Board!NoEntry
    /\ SharesRoot(board[id].dims, s)
    /\ b <= board[id].detectedAt
    /\ \/ Active(id)
       \/ \A n \in Ahead : board[id].detectedAt + ResolveAfterQuietWindows <= log[n].bucket

LogOK ==
  /\ log \in Seq(LogEntry)
  /\ \A i, j \in DOMAIN log : i <= j => log[i].bucket <= log[j].bucket

\* The process's memory against the log, and the ticks against the clock.
Memory ==
  /\ processed # <<>> =>
       /\ log # <<>>
       /\ log[Len(log)].bucket = lastProcessedBucket
       /\ log[Len(log)].reading = processed[Len(processed)].reading
       /\ \A s \in Slices : persistence[s].count = Cardinality(DropsIn(log, Len(log), s))
  /\ log # <<>> => log[Len(log)].bucket <= clock
  /\ \A t \in Ticks : ticks[t].pc # "idle" =>
       /\ ticks[t].target <= clock
       /\ log # <<>> /\ processed = <<>> => log[Len(log)].bucket <= ticks[t].target

Queued == {tail[i] : i \in DOMAIN tail}

\* A job's closure against its window: evidence for the slices confirmed there
\* and for no others, of which what is gone is on the board.
JobOK(job) ==
  /\ job \in Job /\ job.window \in DOMAIN log
  /\ job.pc = "giveUp" => job.evidence = <<>>
  /\ job.gaps = {s \in Slices : log[job.window].reading[s] = "gap"}
  /\ \A i \in DOMAIN job.evidence : \E s \in Slices :
       ConfirmedIn(log, job.window, s) /\ SharesRoot(job.evidence[i].cell, s)
  /\ \A s \in Slices : ConfirmedIn(log, job.window, s) =>
       \/ \E i \in DOMAIN job.evidence : SharesRoot(job.evidence[i].cell, s)
       \/ OnBoard(s, log[job.window].bucket)

TailOK ==
  /\ tail \in Seq(Job)
  /\ \A job \in Queued : JobOK(job)
  /\ \A i, j \in DOMAIN tail : i <= j => tail[i].window <= tail[j].window

\* What the log says of an entry of the board.
GoesBack(q, entry) ==
  \E n \in DOMAIN q, s \in Slices :
    /\ q[n].bucket = entry.detectedAt /\ SharesRoot(entry.dims, s)
    /\ ConfirmedIn(q, n, s)

RetiredBy(q, entry) ==
  entry.status \in {"resolved", "inconclusive"} =>
    \E n \in DOMAIN q :
      /\ q[n].bucket >= entry.detectedAt + ResolveAfterQuietWindows
      /\ entry.status = "resolved" => q[n].bucket = entry.resolvedAt
      /\ (\E s \in Slices : SameCell(entry.dims, s) /\ q[n].reading[s] = "gap")
           <=> entry.status = "inconclusive"

BoardOK ==
  /\ board \in [IncidentIds -> Board!Entry \cup {Board!NoEntry}]
  /\ \A id \in IncidentIds : board[id] # Board!NoEntry =>
       /\ log # <<>> /\ \A n \in Ahead : board[id].detectedAt <= log[n].bucket
       /\ GoesBack(log, board[id]) /\ RetiredBy(log, board[id])

Shown ==
  \A n \in DOMAIN log, s \in Slices :
    log[n].done /\ ConfirmedIn(log, n, s) => OnBoard(s, log[n].bucket)

\* What does not depend on the detector's own state.
Records == LogOK /\ TailOK /\ BoardOK /\ Shown

TowerInv == Strong /\ Memory /\ Records

LEMMA TowerInitial == TowerInit => TowerInv
<1> SUFFICES ASSUME TowerInit
             PROVE  TowerInv
  OBVIOUS
<1>1. Init /\ tail = <<>> /\ log = <<>> /\ board = [id \in IncidentIds |-> Board!NoEntry]
  BY DEF TowerInit, Board!BoardInit
<1>2. Strong
  BY <1>1, StrongInit
<1>3. Memory
  BY <1>1 DEF Init, Memory, IdleTick
<1>4. LogOK /\ TailOK /\ BoardOK /\ Shown
  BY <1>1 DEF LogOK, TailOK, BoardOK, Shown, Queued
<1> QED
  BY <1>2, <1>3, <1>4 DEF TowerInv, Records

\* Facts every step needs.
LEMMA LogFacts ==
  ASSUME LogOK
  PROVE  /\ Len(log) \in Nat /\ DOMAIN log = 1 .. Len(log)
         /\ \A n \in DOMAIN log : /\ log[n] \in LogEntry /\ log[n].bucket \in Buckets
                                  /\ log[n].bucket <= log[Len(log)].bucket
<1>1. Len(log) \in Nat /\ DOMAIN log = 1 .. Len(log)
  BY DEF LogOK
<1>2. \A n \in DOMAIN log : log[n] \in LogEntry /\ n \in 1 .. Len(log) /\ Len(log) \in DOMAIN log
  BY <1>1 DEF LogOK
<1> QED
  BY <1>1, <1>2 DEF LogOK, LogEntry

LEMMA AheadFacts ==
  ASSUME LogOK, TailOK
  PROVE  /\ log # <<>> => Ahead \subseteq DOMAIN log
         /\ tail # <<>> => log # <<>>
         /\ \A i \in DOMAIN tail : tail[i].window \in Ahead
         /\ Len(log) \in Ahead
         /\ tail # <<>> => \A n \in Ahead :
              n \in DOMAIN log /\ BucketOf(Head(tail)) <= log[n].bucket
<1>1. Len(log) \in Nat /\ DOMAIN log = 1 .. Len(log) /\ (log # <<>> => Len(log) \in DOMAIN log)
  BY DEF LogOK
<1>2. \A i \in DOMAIN tail : tail[i].window \in DOMAIN log
  BY DEF TailOK, JobOK, Queued
<1>3. tail # <<>> => 1 \in DOMAIN tail /\ Head(tail) = tail[1] /\ \A i \in DOMAIN tail : 1 <= i
  BY DEF TailOK
<1>4. tail # <<>> => \A n \in Ahead :
        n \in DOMAIN log /\ BucketOf(Head(tail)) <= log[n].bucket
  <2> SUFFICES ASSUME tail # <<>>, NEW n \in Ahead
               PROVE  n \in DOMAIN log /\ tail[1].window <= n
    BY <1>2, <1>3 DEF LogOK, BucketOf
  <2>1. CASE n = Len(log)
    BY <1>1, <1>2, <1>3, <2>1
  <2>2. CASE n # Len(log)
    <3>1. PICK i \in DOMAIN tail : n = tail[i].window
      BY <2>2 DEF Ahead
    <3> QED
      BY <1>2, <1>3, <3>1 DEF TailOK
  <2> QED
    BY <2>1, <2>2
<1> QED
  BY <1>1, <1>2, <1>3, <1>4 DEF Ahead

------------------------------------------------------------------------------
(* What a step keeps of the records. *)

\* The log only grows, its buckets ascending, and the board is judged by no
\* window older than those that were ahead.
LogMoves ==
  /\ LogOK /\ LogOK' /\ Extends(log', log)
  /\ Ahead \subseteq DOMAIN log
  /\ \A n \in Ahead' : n \in DOMAIN log' /\ \E m \in Ahead : log[m].bucket <= log'[n].bucket

\* An entry stays under its root and is never dated back; one that leaves the
\* board is quiet as every window ahead sees it.
EntryMoves(id) ==
  /\ board'[id] # Board!NoEntry
  /\ board'[id].detectedAt \in Buckets /\ board[id].detectedAt <= board'[id].detectedAt
  /\ \A s \in Slices : SharesRoot(board[id].dims, s) => SharesRoot(board'[id].dims, s)
  /\ \/ board'[id].status \in Board!ActiveStatuses
     \/ ~Active(id) /\ board'[id].detectedAt = board[id].detectedAt
     \/ \A n \in Ahead' : board'[id].detectedAt + ResolveAfterQuietWindows <= log'[n].bucket

BoardMoves == \A id \in IncidentIds : board[id] # Board!NoEntry => EntryMoves(id)

LEMMA ExtendsFacts ==
  ASSUME NEW p \in Seq(LogEntry), NEW q \in Seq(LogEntry), Extends(p, q)
  PROVE  /\ \A n \in DOMAIN p : p[n].bucket \in Buckets
         /\ \A n \in DOMAIN q : /\ n \in DOMAIN p /\ n \in 1 .. Len(q)
                               /\ q[n].bucket \in Buckets
                               /\ p[n].bucket = q[n].bucket
                               /\ p[n].reading = q[n].reading
<1>1. /\ DOMAIN p = 1 .. Len(p) /\ DOMAIN q = 1 .. Len(q) /\ Len(p) \in Nat /\ Len(q) \in Nat
      /\ \A n \in DOMAIN p : p[n] \in LogEntry
      /\ \A n \in DOMAIN q : q[n] \in LogEntry
  OBVIOUS
<1>2. Len(q) <= Len(p)
  BY DEF Extends
<1>3. \A n \in DOMAIN q : p[n].bucket = q[n].bucket /\ p[n].reading = q[n].reading
  BY <1>1 DEF Extends
<1> QED
  BY <1>1, <1>2, <1>3 DEF LogEntry

\* The same of the log.
LEMMA LogMovesFacts ==
  ASSUME LogMoves
  PROVE  /\ log \in Seq(LogEntry) /\ log' \in Seq(LogEntry) /\ Extends(log', log)
         /\ \A n \in DOMAIN log' : log'[n].bucket \in Buckets
         /\ \A n \in DOMAIN log : /\ n \in DOMAIN log' /\ n \in 1 .. Len(log)
                                 /\ log[n].bucket \in Buckets
                                 /\ log'[n].bucket = log[n].bucket
                                 /\ log'[n].reading = log[n].reading
<1>1. log \in Seq(LogEntry) /\ log' \in Seq(LogEntry) /\ Extends(log', log)
  BY DEF LogMoves, LogOK
<1> QED
  BY <1>1, ExtendsFacts

LEMMA EntryTyped ==
  ASSUME BoardOK, NEW id \in IncidentIds, board[id] # Board!NoEntry
  PROVE  /\ board[id] \in Board!Entry /\ board[id].detectedAt \in Buckets
         /\ board[id].dims \in Cells /\ board[id].code \in Codes
         /\ board[id].status \in {"open", "monitoring", "inconclusive", "resolved"}
BY DEF BoardOK, Board!Entry, Board!Buckets, Buckets, Board!LiveStatuses, Board!ActiveStatuses

LEMMA BoardStays == BoardOK /\ board' = board => BoardMoves
BY EntryTyped DEF BoardMoves, EntryMoves, Active, Buckets

LEMMA OnBoardKept ==
  ASSUME LogMoves, BoardOK, BoardMoves, NEW s \in Slices, NEW b \in Buckets, OnBoard(s, b)
  PROVE  OnBoard(s, b)'
<1>1. PICK id \in IncidentIds :
        /\ board[id] # Board!NoEntry /\ SharesRoot(board[id].dims, s)
        /\ b <= board[id].detectedAt
        /\ \/ Active(id)
           \/ \A n \in Ahead : board[id].detectedAt + ResolveAfterQuietWindows <= log[n].bucket
  BY DEF OnBoard
<1>2. EntryMoves(id) /\ board[id].detectedAt \in Buckets
  BY <1>1, EntryTyped DEF BoardMoves
<1>3. b <= board'[id].detectedAt
  BY <1>1, <1>2 DEF EntryMoves, Buckets
<1>4. \/ Active(id)'
      \/ \A n \in Ahead' : board'[id].detectedAt + ResolveAfterQuietWindows <= log'[n].bucket
  <2>1. CASE /\ ~Active(id) /\ board'[id].detectedAt = board[id].detectedAt
    <3> SUFFICES ASSUME NEW n \in Ahead'
                 PROVE  board[id].detectedAt + ResolveAfterQuietWindows <= log'[n].bucket
      BY <2>1
    <3>1. PICK m \in Ahead : log[m].bucket <= log'[n].bucket
      BY DEF LogMoves
    <3>2. board[id].detectedAt + ResolveAfterQuietWindows <= log[m].bucket
      BY <1>1, <2>1
    <3>3. log[m].bucket \in Buckets /\ log'[n].bucket \in Buckets
      <4>1. m \in DOMAIN log /\ n \in DOMAIN log'
        BY DEF LogMoves
      <4> QED
        BY <4>1, LogMovesFacts
    <3> QED
      BY <1>2, <3>1, <3>2, <3>3, TowerAssumption DEF Buckets
  <2> QED
    BY <1>2, <2>1 DEF EntryMoves, Active
<1> QED
  BY <1>1, <1>2, <1>3, <1>4 DEF OnBoard, EntryMoves

LEMMA JobKept ==
  ASSUME LogMoves, BoardOK, BoardMoves, NEW job, JobOK(job)
  PROVE  JobOK(job)'
<1> DEFINE w == job.window
<1>1. /\ job \in Job /\ w \in DOMAIN log /\ w \in DOMAIN log' /\ w \in 1 .. Len(log)
      /\ log'[w].bucket = log[w].bucket /\ log[w].bucket \in Buckets
      /\ log'[w].reading = log[w].reading
  BY LogMovesFacts DEF JobOK
<1>2. \A s \in Slices : ConfirmedIn(log', w, s) <=> ConfirmedIn(log, w, s)
  BY <1>1, LogMovesFacts, ConfirmedKept
<1>3. \A s \in Slices : OnBoard(s, log[w].bucket) => OnBoard(s, log[w].bucket)'
  <2> SUFFICES ASSUME NEW s \in Slices, NEW b \in Buckets, OnBoard(s, b)
               PROVE  OnBoard(s, b)'
    BY <1>1
  <2> QED
    BY OnBoardKept
<1> QED
  BY <1>1, <1>2, <1>3 DEF JobOK

LEMMA EntryKept ==
  ASSUME LogMoves, NEW entry
  PROVE  /\ GoesBack(log, entry) => GoesBack(log', entry)
         /\ RetiredBy(log, entry) => RetiredBy(log', entry)
<1>1. \A n \in DOMAIN log : /\ n \in DOMAIN log' /\ log'[n].bucket = log[n].bucket
                            /\ log'[n].reading = log[n].reading
                            /\ n \in 1 .. Len(log)
  BY LogMovesFacts
<1>2. \A n \in DOMAIN log : \A s \in Slices : ConfirmedIn(log', n, s) <=> ConfirmedIn(log, n, s)
  BY <1>1, LogMovesFacts, ConfirmedKept
<1>3. GoesBack(log, entry) => GoesBack(log', entry)
  BY <1>1, <1>2 DEF GoesBack
<1>4. RetiredBy(log, entry) => RetiredBy(log', entry)
  BY <1>1 DEF RetiredBy
<1> QED
  BY <1>3, <1>4

\* What was done stays on the board, and so does what the step finishes.
LEMMA ShownKept ==
  ASSUME LogMoves, BoardOK, BoardMoves, Shown,
         \A n \in DOMAIN log' : log'[n].done =>
           /\ n \in DOMAIN log
           /\ \/ log[n].done
              \/ \A s \in Slices : ConfirmedIn(log, n, s) => OnBoard(s, log[n].bucket)
  PROVE  Shown'
<1>1. ASSUME NEW n \in DOMAIN log', NEW s \in Slices, log'[n].done, ConfirmedIn(log', n, s)
      PROVE  \E b \in Buckets : b = log'[n].bucket /\ OnBoard(s, b)'
  <2>1. n \in DOMAIN log /\ n \in 1 .. Len(log)
    BY <1>1, LogMovesFacts
  <2>2. ConfirmedIn(log, n, s) /\ log'[n].bucket = log[n].bucket /\ log[n].bucket \in Buckets
    BY <1>1, <2>1, ConfirmedKept, LogMovesFacts
  <2>3. OnBoard(s, log[n].bucket)
    BY <1>1, <2>1, <2>2 DEF Shown
  <2> SUFFICES ASSUME NEW b \in Buckets, OnBoard(s, b)
               PROVE  OnBoard(s, b)'
    BY <2>2, <2>3
  <2> QED
    BY OnBoardKept
<1> QED
  BY <1>1 DEF Shown

\* The same of a whole entry the step leaves alone.
LEMMA EntryStays ==
  ASSUME LogMoves, BoardOK, NEW id \in IncidentIds, board'[id] = board[id],
         board[id] # Board!NoEntry
  PROVE  /\ log' # <<>> /\ \A n \in Ahead' : board'[id].detectedAt <= log'[n].bucket
         /\ GoesBack(log', board'[id]) /\ RetiredBy(log', board'[id])
<1>1. board[id].detectedAt \in Buckets /\ log # <<>> /\ Len(log) \in Nat
  BY EntryTyped DEF BoardOK, LogMoves, LogOK
<1>2. log' # <<>>
  BY <1>1, LogMovesFacts DEF Extends
<1>3. ASSUME NEW n \in Ahead'
      PROVE  board[id].detectedAt <= log'[n].bucket
  <2>1. PICK m \in Ahead : log[m].bucket <= log'[n].bucket
    BY DEF LogMoves
  <2>2. m \in DOMAIN log /\ n \in DOMAIN log'
    BY DEF LogMoves
  <2>3. board[id].detectedAt <= log[m].bucket
    BY DEF BoardOK
  <2> QED
    BY <1>1, <2>1, <2>2, <2>3, LogMovesFacts DEF Buckets
<1>4. GoesBack(log', board[id]) /\ RetiredBy(log', board[id])
  <2>1. GoesBack(log, board[id]) /\ RetiredBy(log, board[id])
    BY DEF BoardOK
  <2> QED
    BY <2>1, EntryKept
<1> QED
  BY <1>2, <1>3, <1>4

------------------------------------------------------------------------------
(* The detector's steps. *)

LEMMA RecordsStay ==
  Records /\ UNCHANGED <<board, tail, log>> => Records'
<1> SUFFICES ASSUME Records, board' = board, tail' = tail, log' = log
             PROVE  Records'
  OBVIOUS
<1>1. LogOK'
  BY DEF Records, LogOK
<1>2. Ahead' = Ahead
  BY DEF Ahead
<1>3. \A s \in Slices : \A b : OnBoard(s, b) <=> OnBoard(s, b)'
  BY <1>2 DEF OnBoard, Active
<1>4. TailOK'
  <2>1. \A job : JobOK(job) => JobOK(job)'
    BY <1>3 DEF JobOK
  <2>2. Queued' = Queued
    BY DEF Queued
  <2> QED
    BY <2>1, <2>2 DEF Records, TailOK
<1>5. BoardOK'
  BY <1>2 DEF Records, BoardOK
<1>6. Shown'
  BY <1>3 DEF Records, Shown
<1> QED
  BY <1>1, <1>4, <1>5, <1>6 DEF Records

\* A tick keeps its target until it ends.
LEMMA TargetsKept ==
  ASSUME Strong, NEW t \in Ticks,
         LoadConfig(t) \/ Deliver(t) \/ FailTick(t) \/ ReadWindow(t)
  PROVE  \A u \in Ticks : ticks'[u].pc # "idle" =>
           ticks[u].pc # "idle" /\ ticks'[u].target = ticks[u].target
<1>1. ticks \in [Ticks -> Tick] /\ \A u \in Ticks : ticks[u] \in Tick
  BY DEF Strong, TypeOK
<1>2. ASSUME NEW todo, Continue(t, todo), ticks[t].pc # "idle"
      PROVE  \A u \in Ticks : ticks'[u].pc # "idle" =>
               ticks[u].pc # "idle" /\ ticks'[u].target = ticks[u].target
  <2>1. CASE todo = {}
    BY <1>1, <1>2, <2>1 DEF Continue, IdleTick
  <2>2. CASE todo # {}
    BY <1>1, <1>2, <2>2 DEF Continue, Tick
  <2> QED
    BY <2>1, <2>2
<1>3. CASE LoadConfig(t) \/ Deliver(t)
  BY <1>2, <1>3 DEF LoadConfig, Deliver
<1>4. CASE FailTick(t)
  BY <1>1, <1>4 DEF FailTick, IdleTick
<1>5. CASE ReadWindow(t)
  <2>1. PICK todo, output :
          ticks' = [ticks EXCEPT ![t].pc = "diagnose", ![t].todo = todo, ![t].output = output]
    BY <1>5 DEF ReadWindow
  <2>2. ticks[t].pc # "idle"
    BY <1>5 DEF ReadWindow
  <2> QED
    BY <1>1, <2>1, <2>2 DEF Tick
<1> QED
  BY <1>3, <1>4, <1>5

LEMMA MemoryStays ==
  ASSUME Strong, LogOK, Memory, log' = log, clock \in Buckets,
         \/ CloseMinute \/ Restart \/ UNCHANGED vars
         \/ \E t \in Ticks : StartTick(t) \/ LoadConfig(t) \/ Deliver(t) \/ FailTick(t)
  PROVE  Memory'
<1>1. /\ log # <<>> => log[Len(log)].bucket \in Buckets
      /\ ticks \in [Ticks -> Tick] /\ \A t \in Ticks : ticks[t] \in Tick
  BY LogFacts DEF Strong, TypeOK, LogOK
<1>2. CASE CloseMinute \/ UNCHANGED vars
  BY <1>1, <1>2 DEF Memory, CloseMinute, vars, Buckets, Tick
<1>3. CASE Restart
  BY <1>3 DEF Memory, Restart, IdleTick
<1>4. ASSUME NEW t \in Ticks, StartTick(t)
      PROVE  Memory'
  <2>1. /\ ticks' = [ticks EXCEPT ![t] = [IdleTick EXCEPT !.pc = "load", !.target = clock]]
        /\ UNCHANGED <<clock, lastProcessedBucket, persistence, processed>>
    BY <1>4 DEF StartTick
  <2>2. /\ ticks'[t].target = clock
        /\ \A u \in Ticks : u # t => ticks'[u] = ticks[u]
    BY <1>1, <2>1 DEF IdleTick
  <2> QED
    BY <1>1, <2>1, <2>2 DEF Memory, Buckets
<1>5. ASSUME NEW t \in Ticks, LoadConfig(t) \/ Deliver(t) \/ FailTick(t)
      PROVE  Memory'
  <2>1. UNCHANGED <<clock, lastProcessedBucket, persistence, processed>>
    BY <1>5 DEF LoadConfig, Deliver, FailTick
  <2> QED
    BY <1>5, <2>1, TargetsKept DEF Memory
<1> QED
  BY <1>2, <1>3, <1>4, <1>5

LEMMA DetectorOnlyStep ==
  ASSUME TowerInv, DetectorOnly \/ UNCHANGED towerVars
  PROVE  Memory' /\ Records'
<1>1. UNCHANGED <<board, tail, log>>
  BY DEF DetectorOnly, towerVars
<1>2. Records'
  BY <1>1, RecordsStay DEF TowerInv
<1>3. Memory'
  <2>1. /\ \/ CloseMinute \/ UNCHANGED vars
           \/ \E t \in Ticks : StartTick(t) \/ LoadConfig(t) \/ FailTick(t)
        /\ log' = log
    BY <1>1 DEF DetectorOnly, towerVars
  <2> QED
    BY <2>1, MemoryStays DEF TowerInv, Records, Strong, TypeOK
<1> QED
  BY <1>2, <1>3

\* The queue and the history it points into die with the process; log and board
\* stay.
LEMMA RestartTowerStep ==
  ASSUME TowerInv, RestartTower
  PROVE  Memory' /\ Records'
<1>1. Restart /\ tail' = <<>> /\ log' = log /\ board' = board
  BY DEF RestartTower
<1>2. Memory'
  BY <1>1, MemoryStays DEF TowerInv, Records, Strong, TypeOK
<1>3. LogOK /\ LogOK' /\ TailOK' /\ BoardOK /\ Shown
  BY <1>1 DEF TowerInv, Records, LogOK, TailOK, Queued
<1>4. Ahead' = {Len(log)} /\ Len(log) \in Ahead
  BY <1>1 DEF Ahead
<1>5. BoardOK'
  BY <1>1, <1>3, <1>4 DEF BoardOK
<1>6. Shown'
  BY <1>1, <1>3, <1>4 DEF Shown, OnBoard, Active
<1> QED
  BY <1>2, <1>3, <1>5, <1>6 DEF Records

\* The window read is the newest of the log: it follows the cursor, and the first
\* of a process is the newest minute of all.
LEMMA ReadFacts ==
  ASSUME TowerInv, NEW t \in Ticks, Read(t)
  PROVE  \E e \in LogEntry :
           /\ log' = Append(log, e) /\ (e.cold <=> processed = <<>>) /\ ~e.done
           /\ e.bucket = lastProcessedBucket' /\ processed' # <<>>
           /\ e.reading = processed'[Len(processed')].reading
           /\ persistence' = Step(persistence, e.reading, e.bucket)
           /\ e.bucket <= clock /\ clock' = clock
           /\ log # <<>> => log[Len(log)].bucket <= e.bucket
<1> DEFINE q == processed
           target == ticks[t].target
<1>1. PICK b \in ticks[t].todo, reading \in Readings :
        /\ \A other \in ticks[t].todo : b <= other
        /\ persistence' = Step(persistence, reading, b)
        /\ lastProcessedBucket' = b
        /\ processed' = Append(q, [bucket |-> b, target |-> target, reading |-> reading])
  BY DEF Read, ReadWindow
<1>2. ticks[t].pc = "read" /\ clock' = clock
  BY DEF Read, ReadWindow
<1>3. /\ q \in Seq(Entry) /\ lastProcessedBucket \in 0 .. MaxClock /\ target \in Buckets
      /\ clock \in Buckets /\ ticks[t].todo = BucketsToProcess(lastProcessedBucket, target)
  BY <1>2 DEF TowerInv, Strong, TypeOK, Entry, TickOK
<1>4. b \in Buckets /\ lastProcessedBucket < b
  BY <1>1, <1>3, OldestToProcess
<1>5. b <= target /\ (lastProcessedBucket = 0 => b = target)
  BY <1>1, <1>3 DEF BucketsToProcess, Buckets
<1>6. /\ processed' # <<>> /\ processed'[Len(processed')].reading = reading
  <2> DEFINE w == [bucket |-> b, target |-> target, reading |-> reading]
  <2>1. w \in Entry /\ w.reading = reading
    BY <1>3, <1>4 DEF Entry
  <2> HIDE DEF w
  <2>2. processed' = Append(q, w)
    BY <1>1 DEF w
  <2> QED
    BY <1>3, <2>1, <2>2, Appended
<1> DEFINE e == [bucket |-> lastProcessedBucket',
                 reading |-> processed'[Len(processed')].reading,
                 cold |-> q = <<>>, done |-> FALSE]
<1>7. log' = Append(log, e)
  BY DEF Read
<1>8. /\ e.bucket = b /\ e.reading = reading /\ (e.cold <=> q = <<>>) /\ ~e.done
      /\ e \in LogEntry
  BY <1>1, <1>4, <1>6 DEF LogEntry
<1>9. /\ target <= clock
      /\ log # <<>> /\ q = <<>> => log[Len(log)].bucket <= target
      /\ log # <<>> /\ q # <<>> => log[Len(log)].bucket = lastProcessedBucket
  BY <1>2 DEF TowerInv, Memory
<1>10. q = <<>> => lastProcessedBucket = 0
  BY DEF TowerInv, Strong, Cursor
<1>11. b <= clock
  BY <1>3, <1>4, <1>5, <1>9 DEF Buckets
<1>12. log # <<>> => log[Len(log)].bucket <= b
  BY <1>3, <1>4, <1>5, <1>9, <1>10 DEF Buckets
<1> HIDE DEF e
<1> QED
  BY <1>1, <1>2, <1>6, <1>7, <1>8, <1>11, <1>12

\* The count a process keeps is that of the log's drops.
LEMMA ReadMemory ==
  ASSUME TowerInv, NEW t \in Ticks, Read(t)
  PROVE  Memory'
<1>1. PICK e \in LogEntry :
           /\ log' = Append(log, e) /\ (e.cold <=> processed = <<>>) /\ ~e.done
           /\ e.bucket = lastProcessedBucket' /\ processed' # <<>>
           /\ e.reading = processed'[Len(processed')].reading
           /\ persistence' = Step(persistence, e.reading, e.bucket)
           /\ e.bucket <= clock /\ clock' = clock
           /\ log # <<>> => log[Len(log)].bucket <= e.bucket
  BY ReadFacts
<1> DEFINE n == Len(log)
<1>2. /\ log \in Seq(LogEntry) /\ n \in Nat /\ log' # <<>> /\ Len(log') = n + 1
      /\ log'[n + 1] = e
  BY <1>1, Appended DEF TowerInv, Records, LogOK
<1>3. ASSUME NEW s \in Slices
      PROVE  persistence'[s].count = Cardinality(DropsIn(log', n + 1, s))
  <2> DEFINE S == DropsIn(log, n, s)
             T == DropsIn(log', n + 1, s)
             old == persistence[s]
  <2>1. /\ e.reading[s] = "drop" /\ ~e.cold => T = S \cup {n + 1}
        /\ e.reading[s] = "drop" /\ e.cold  => T = {n + 1}
        /\ e.reading[s] = "clear" => T = {}
        /\ e.reading[s] \notin {"drop", "clear"} /\ ~e.cold => T = S
        /\ e.reading[s] # "drop" /\ e.cold => T = {}
    BY <1>1, <1>2, DropsExtended
  <2>2. S \subseteq 1 .. n /\ IsFiniteSet(S) /\ Cardinality(S) \in Nat
    BY <1>2, DropsFinite
  <2>3. e.cold => old.count = 0
    <3>1. e.cold => StreakIn(processed, Len(processed), s) = {}
      BY <1>1 DEF StreakIn
    <3>2. old.count = Cardinality(StreakIn(processed, Len(processed), s))
      BY DEF TowerInv, Strong, Streaks, StreakOK
    <3> QED
      BY <3>1, <3>2, FS_EmptySet
  <2>4. ~e.cold => old.count = Cardinality(S)
    BY <1>1 DEF TowerInv, Memory
  <2>5. persistence'[s].count =
          IF e.reading[s] = "drop" THEN old.count + 1
          ELSE IF e.reading[s] = "clear" THEN 0 ELSE old.count
    BY <1>1 DEF Step, Extended, NoStreak
  <2>6. Cardinality({}) = 0 /\ Cardinality({n + 1}) = 1
    BY FS_EmptySet, FS_Singleton
  <2>7. Cardinality(S \cup {n + 1}) = Cardinality(S) + 1
    <3>1. n + 1 \notin S
      BY <1>2, <2>2
    <3> QED
      BY <2>2, <3>1, FS_AddElement
  <2> HIDE DEF S, T, n, old
  <2> QED
    BY <2>1, <2>2, <2>3, <2>4, <2>5, <2>6, <2>7 DEF T
<1>4. \A u \in Ticks : ticks'[u].pc # "idle" => ticks'[u].target <= clock'
  BY <1>1, TargetsKept DEF TowerInv, Memory, Read
<1> QED
  BY <1>1, <1>2, <1>3, <1>4 DEF Memory

LEMMA ReadStep ==
  ASSUME TowerInv, NEW t \in Ticks, Read(t)
  PROVE  Memory' /\ Records'
<1>1. PICK e \in LogEntry :
        /\ log' = Append(log, e) /\ ~e.done
        /\ log # <<>> => log[Len(log)].bucket <= e.bucket
  BY ReadFacts
<1>2. board' = board /\ tail' = tail
  BY DEF Read
<1> DEFINE n == Len(log)
<1>3. /\ log \in Seq(LogEntry) /\ n \in Nat /\ log' # <<>> /\ Len(log') = n + 1
      /\ log' \in Seq(LogEntry)
      /\ log'[n + 1] = e /\ \A i \in 1 .. n : log'[i] = log[i] /\ log[i] \in LogEntry
      /\ DOMAIN log = 1 .. n /\ DOMAIN log' = 1 .. (n + 1)
  BY <1>1, Appended DEF TowerInv, Records, LogOK
<1>4. LogOK'
  <2>1. \A i \in 1 .. n : log[i].bucket \in Buckets /\ log[i].bucket <= log[n].bucket
    BY <1>3, LogFacts DEF TowerInv, Records
  <2>2. log # <<>> => n \in 1 .. n
    BY <1>3
  <2>3. \A i \in 1 .. n : log[i].bucket <= e.bucket
    <3>1. ASSUME NEW i \in 1 .. n
          PROVE  log[i].bucket <= e.bucket
      <4>1. log # <<>> /\ n \in 1 .. n
        BY <1>3, <3>1
      <4>2. log[i].bucket <= log[n].bucket /\ log[n].bucket <= e.bucket
        BY <1>1, <2>1, <4>1
      <4> QED
        BY <2>1, <4>1, <4>2 DEF Buckets, LogEntry
    <3> QED
      BY <3>1
  <2>4. e.bucket <= e.bucket
    BY DEF LogEntry, Buckets
  <2>5. \A i, j \in 1 .. n : i <= j => log[i].bucket <= log[j].bucket
    BY <1>3 DEF TowerInv, Records, LogOK
  <2>6. \A i, j \in 1 .. (n + 1) : i <= j => log'[i].bucket <= log'[j].bucket
    <3> SUFFICES ASSUME NEW i \in 1 .. (n + 1), NEW j \in 1 .. (n + 1), i <= j
                 PROVE  log'[i].bucket <= log'[j].bucket
      OBVIOUS
    <3>1. CASE j \in 1 .. n
      <4>1. i \in 1 .. n
        BY <1>3, <3>1
      <4> QED
        BY <1>3, <2>5, <3>1, <4>1
    <3>2. CASE j = n + 1
      BY <1>3, <2>3, <2>4, <3>2
    <3> QED
      BY <1>3, <3>1, <3>2
  <2> QED
    BY <1>3, <2>6 DEF LogOK
<1>5. CASE log = <<>>
  <2>1. tail = <<>> /\ \A id \in IncidentIds : board[id] = Board!NoEntry
    BY <1>5, AheadFacts DEF TowerInv, Records, BoardOK
  <2>2. TailOK' /\ BoardOK'
    BY <1>2, <2>1 DEF TowerInv, Records, TailOK, Queued, BoardOK
  <2>3. Shown'
    BY <1>1, <1>3, <1>5 DEF Shown
  <2> QED
    BY <1>4, <2>2, <2>3, ReadMemory DEF Records
<1>6. CASE log # <<>>
  <2>1. LogMoves
    <3>1. Ahead \subseteq DOMAIN log /\ n \in Ahead
      BY <1>6, AheadFacts DEF TowerInv, Records
    <3>2. Extends(log', log)
      BY <1>3 DEF Extends
    <3>3. \A m \in Ahead' : m = n + 1 \/ m \in Ahead
      BY <1>2, <1>3 DEF Ahead
    <3>4. \A m \in Ahead : m \in DOMAIN log' /\ log[m].bucket <= log'[m].bucket
      BY <1>3, <3>1, LogFacts DEF TowerInv, Records, Buckets
    <3>5. n + 1 \in DOMAIN log' /\ log[n].bucket <= log'[n + 1].bucket
      BY <1>1, <1>3, <1>6
    <3> QED
      BY <1>4, <3>1, <3>2, <3>3, <3>4, <3>5 DEF LogMoves, TowerInv, Records
  <2>2. BoardOK /\ BoardMoves /\ TailOK /\ Shown
    BY <1>2, BoardStays DEF TowerInv, Records
  <2>3. TailOK'
    <3>1. \A job : JobOK(job) => JobOK(job)'
      BY <2>1, <2>2, JobKept
    <3>2. Queued' = Queued
      BY <1>2 DEF Queued
    <3> QED
      BY <1>2, <2>2, <3>1, <3>2 DEF TailOK
  <2>4. BoardOK'
    BY <1>2, <1>3, <2>1, <2>2, EntryStays DEF BoardOK
  <2>5. Shown'
    BY <1>1, <1>3, <2>1, <2>2, ShownKept
  <2> QED
    BY <1>4, <2>3, <2>4, <2>5, ReadMemory DEF Records
<1> QED
  BY <1>5, <1>6

\* A step that leaves the log alone and adds no window to those ahead.
LEMMA LogStays ==
  ASSUME LogOK, log' = log, Ahead \subseteq DOMAIN log, Ahead' \subseteq Ahead
  PROVE  LogMoves
<1>1. LogOK'
  BY DEF LogOK
<1>2. Extends(log', log)
  BY LogFacts DEF Extends
<1>3. \A n \in Ahead' : n \in DOMAIN log' /\ \E m \in Ahead : log[m].bucket <= log'[n].bucket
  BY LogFacts DEF Buckets
<1> QED
  BY <1>1, <1>2, <1>3 DEF LogMoves

\* The evidence handed over is that of the slices the window confirms.
LEMMA HandOverFacts ==
  ASSUME TowerInv, NEW t \in Ticks, HandOver(t)
  PROVE  \E job : JobOK(job) /\ job.window = Len(log) /\ tail' = Append(tail, job)
<1> DEFINE n == Len(log)
           output == ticks[t].output
<1>1. PICK evidence \in Diagnosed(output.signals) :
        tail' = Append(tail, [pc |-> "write", window |-> n,
                              evidence |-> evidence, gaps |-> output.gaps])
  BY DEF HandOver
<1>2. ticks[t].pc = "diagnose"
  BY DEF HandOver, Deliver
<1>3. /\ processed # <<>>
      /\ output = Output(persistence, processed[Len(processed)].reading, lastProcessedBucket)
  BY <1>2 DEF TowerInv, Strong, TickOK
<1>4. /\ log # <<>> /\ log[n].reading = processed[Len(processed)].reading
      /\ \A s \in Slices : persistence[s].count = Cardinality(DropsIn(log, n, s))
  BY <1>3 DEF TowerInv, Memory
<1>5. /\ output.signals = {s \in Slices : ConfirmedIn(log, n, s)}
      /\ output.gaps = {s \in Slices : log[n].reading[s] = "gap"}
  BY <1>3, <1>4 DEF Output, Promoted, ConfirmedIn
<1>6. /\ evidence \in Seq([cell : Cells, code : Codes])
      /\ \A i \in DOMAIN evidence : \E s \in output.signals : SharesRoot(evidence[i].cell, s)
      /\ \A s \in output.signals : \E i \in DOMAIN evidence : SharesRoot(evidence[i].cell, s)
  BY TowerAssumption DEF Diagnosed
<1>7. n \in DOMAIN log /\ n \in Nat \ {0}
  BY <1>4 DEF TowerInv, Records, LogOK
<1> DEFINE job == [pc |-> "write", window |-> n, evidence |-> evidence, gaps |-> output.gaps]
<1>8. job \in Job /\ job.pc = "write" /\ job.window = n /\ job.evidence = evidence
      /\ job.gaps = output.gaps
  BY <1>5, <1>6, <1>7 DEF Job
<1>9. tail' = Append(tail, job)
  BY <1>1
<1> HIDE DEF job, output, n
<1>10. JobOK(job)
  BY <1>5, <1>6, <1>7, <1>8 DEF JobOK
<1> QED
  BY <1>8, <1>9, <1>10 DEF n

LEMMA HandOverStep ==
  ASSUME TowerInv, NEW t \in Ticks, HandOver(t)
  PROVE  Memory' /\ Records'
<1>1. PICK job : JobOK(job) /\ job.window = Len(log) /\ tail' = Append(tail, job)
  BY HandOverFacts
<1>2. board' = board /\ log' = log /\ Deliver(t)
  BY DEF HandOver
<1>3. Memory'
  BY <1>2, MemoryStays DEF TowerInv, Records, Strong, TypeOK
<1> DEFINE k == Len(tail)
<1>4. /\ tail \in Seq(Job) /\ job \in Job
      /\ tail' \in Seq(Job) /\ k \in Nat /\ Len(tail') = k + 1
      /\ DOMAIN tail = 1 .. k /\ DOMAIN tail' = 1 .. (k + 1)
      /\ \A i \in 1 .. k : tail'[i] = tail[i]
      /\ tail'[k + 1] = job
  <2>1. tail \in Seq(Job) /\ job \in Job
    BY <1>1 DEF TowerInv, Records, TailOK, JobOK
  <2> QED
    BY <1>1, <2>1, Appended
<1>5. log # <<>> /\ Len(log) \in DOMAIN log
  BY <1>1 DEF JobOK, TowerInv, Records, LogOK
<1>6. Ahead' = Ahead
  BY <1>1, <1>2, <1>4 DEF Ahead
<1>7. LogMoves
  BY <1>2, <1>5, <1>6, LogStays, AheadFacts DEF TowerInv, Records
<1>8. BoardOK /\ BoardMoves /\ Shown
  BY <1>2, BoardStays DEF TowerInv, Records
<1>9. TailOK'
  <2>1. \A other : JobOK(other) => JobOK(other)'
    BY <1>7, <1>8, JobKept
  <2>2. \A other \in Queued' : other \in Queued \/ other = job
    BY <1>4 DEF Queued
  <2>3. \A other \in Queued' : JobOK(other)
    BY <1>1, <2>2 DEF TowerInv, Records, TailOK
  <2>4. \A i, j \in DOMAIN tail' : i <= j => tail'[i].window <= tail'[j].window
    <3>1. \A i \in 1 .. k : tail[i].window \in DOMAIN log
      BY <1>4 DEF TowerInv, Records, TailOK, Queued, JobOK
    <3>2. \A i \in 1 .. (k + 1) : tail'[i].window \in 1 .. Len(log)
      BY <1>1, <1>4, <1>5, <3>1 DEF TowerInv, Records, LogOK
    <3> SUFFICES ASSUME NEW i \in 1 .. (k + 1), NEW j \in 1 .. (k + 1), i <= j
                 PROVE  tail'[i].window <= tail'[j].window
      BY <1>4
    <3>3. CASE j = k + 1
      BY <1>1, <1>4, <3>2, <3>3
    <3>4. CASE j # k + 1
      <4>1. i \in 1 .. k /\ j \in 1 .. k
        BY <1>4, <3>4
      <4> QED
        BY <1>4, <4>1 DEF TowerInv, Records, TailOK
    <3> QED
      BY <3>3, <3>4
  <2> QED
    BY <1>4, <2>1, <2>3, <2>4 DEF TailOK
<1>10. BoardOK'
  BY <1>2, <1>7, <1>8, EntryStays DEF BoardOK
<1>11. Shown'
  BY <1>2, <1>7, <1>8, ShownKept
<1> QED
  BY <1>3, <1>7, <1>9, <1>10, <1>11 DEF Records, LogMoves

------------------------------------------------------------------------------
(* The tail. *)

LEMMA TailSeq ==
  ASSUME NEW q \in Seq(Job), q # <<>>
  PROVE  /\ Tail(q) \in Seq(Job) /\ Len(q) \in Nat /\ Len(Tail(q)) = Len(q) - 1
         /\ DOMAIN q = 1 .. Len(q) /\ DOMAIN Tail(q) = 1 .. (Len(q) - 1)
         /\ \A i \in 1 .. (Len(q) - 1) : Tail(q)[i] = q[i + 1] /\ i + 1 \in DOMAIN q
         /\ 1 \in DOMAIN q /\ Head(q) = q[1]
OBVIOUS

LEMMA HeadSeq ==
  ASSUME NEW q \in Seq(Job), q # <<>>, NEW job \in Job
  PROVE  LET p == [q EXCEPT ![1] = job] IN
         /\ p \in Seq(Job) /\ DOMAIN p = DOMAIN q
         /\ p[1] = job /\ \A i \in DOMAIN q : i # 1 => p[i] = q[i]
OBVIOUS

\* The head leaves the tail.
LEMMA HeadLeaves ==
  ASSUME TailOK, tail # <<>>, tail' = Tail(tail), Len(log') = Len(log)
  PROVE  /\ Ahead' \subseteq Ahead
         /\ LogMoves /\ BoardOK /\ BoardMoves => TailOK'
<1>1. tail \in Seq(Job)
  BY DEF TailOK
<1>2. /\ tail' \in Seq(Job) /\ Len(tail) \in Nat /\ DOMAIN tail' = 1 .. (Len(tail) - 1)
      /\ DOMAIN tail = 1 .. Len(tail)
      /\ \A i \in DOMAIN tail' : tail'[i] = tail[i + 1] /\ i + 1 \in DOMAIN tail
  BY <1>1, TailSeq
<1>3. Ahead' \subseteq Ahead
  BY <1>2 DEF Ahead
<1>4. ASSUME LogMoves, BoardOK, BoardMoves
      PROVE  TailOK'
  <2>1. \A job : JobOK(job) => JobOK(job)'
    BY <1>4, JobKept
  <2>2. Queued' \subseteq Queued
    BY <1>2 DEF Queued
  <2>3. \A i, j \in DOMAIN tail' : i <= j => tail'[i].window <= tail'[j].window
    <3> SUFFICES ASSUME NEW i \in DOMAIN tail', NEW j \in DOMAIN tail', i <= j
                 PROVE  tail[i + 1].window <= tail[j + 1].window
      BY <1>2
    <3>1. i + 1 \in DOMAIN tail /\ j + 1 \in DOMAIN tail /\ i + 1 <= j + 1
      BY <1>2
    <3> QED
      BY <3>1 DEF TailOK
  <2> QED
    BY <1>2, <2>1, <2>2, <2>3 DEF TailOK
<1> QED
  BY <1>3, <1>4

\* The head moves on, still the job of its window.
LEMMA HeadMoves ==
  ASSUME TailOK, tail # <<>>, NEW job \in Job, job.window = Head(tail).window,
         tail' = [tail EXCEPT ![1] = job], Len(log') = Len(log)
  PROVE  /\ Ahead' \subseteq Ahead
         /\ LogMoves /\ BoardOK /\ BoardMoves /\ JobOK(job)' => TailOK'
<1>1. tail \in Seq(Job)
  BY DEF TailOK
<1>2. /\ tail' \in Seq(Job) /\ DOMAIN tail' = DOMAIN tail /\ 1 \in DOMAIN tail
      /\ tail'[1] = job /\ \A i \in DOMAIN tail : i # 1 => tail'[i] = tail[i]
      /\ Head(tail) = tail[1]
  BY <1>1, HeadSeq, TailSeq
<1>3. \A i \in DOMAIN tail : tail'[i].window = tail[i].window
  BY <1>2
<1>4. Ahead' \subseteq Ahead
  BY <1>2, <1>3 DEF Ahead
<1>5. ASSUME LogMoves, BoardOK, BoardMoves, JobOK(job)'
      PROVE  TailOK'
  <2>1. \A other : JobOK(other) => JobOK(other)'
    BY <1>5, JobKept
  <2>2. \A other \in Queued' : other = job \/ other \in Queued
    BY <1>2 DEF Queued
  <2>3. \A other \in Queued' : JobOK(other)'
    BY <1>5, <2>1, <2>2 DEF TailOK
  <2>4. \A i, j \in DOMAIN tail' : i <= j => tail'[i].window <= tail'[j].window
    BY <1>2, <1>3 DEF TailOK
  <2> QED
    BY <1>2, <2>3, <2>4 DEF TailOK
<1> QED
  BY <1>4, <1>5

\* What a job step starts from.
LEMMA HeadFacts ==
  ASSUME TowerInv, tail # <<>>
  PROVE  LET job == Head(tail) IN
         /\ JobOK(job) /\ job \in Job /\ job.window \in Ahead
         /\ Ahead \subseteq DOMAIN log /\ log # <<>>
         /\ BucketOf(job) \in Buckets
         /\ \A n \in Ahead : BucketOf(job) <= log[n].bucket
<1>1. Head(tail) \in Queued /\ TailOK /\ LogOK /\ 1 \in DOMAIN tail /\ Head(tail) = tail[1]
  BY TailSeq DEF TowerInv, Records, TailOK, Queued
<1>2. JobOK(Head(tail)) /\ Head(tail) \in Job
  BY <1>1 DEF TailOK, JobOK
<1>3. BucketOf(Head(tail)) \in Buckets
  BY <1>1, <1>2, LogFacts DEF JobOK, BucketOf
<1> QED
  BY <1>1, <1>2, <1>3, AheadFacts

LEMMA FailJobStep ==
  ASSUME TowerInv, FailJob
  PROVE  Memory' /\ Records'
<1>1. tail # <<>> /\ tail' = Tail(tail) /\ log' = log /\ board' = board /\ UNCHANGED vars
  BY DEF FailJob
<1>2. Memory'
  BY <1>1, MemoryStays DEF TowerInv, Records, Strong, TypeOK
<1>3. Ahead' \subseteq Ahead
  BY <1>1, HeadLeaves DEF TowerInv, Records
<1>4. LogMoves
  BY <1>1, <1>3, LogStays, HeadFacts DEF TowerInv, Records
<1>5. BoardOK /\ BoardMoves /\ Shown
  BY <1>1, BoardStays DEF TowerInv, Records
<1>6. TailOK'
  BY <1>1, <1>4, <1>5, HeadLeaves DEF TowerInv, Records
<1>7. BoardOK'
  BY <1>1, <1>4, <1>5, EntryStays DEF BoardOK
<1>8. Shown'
  BY <1>1, <1>4, <1>5, ShownKept
<1> QED
  BY <1>2, <1>4, <1>6, <1>7, <1>8 DEF Records, LogMoves

------------------------------------------------------------------------------
(* The reconcile pass. *)

\* The job's window takes an entry off the board.
Leaves(id, job) ==
  /\ Board!Stale(board[id], BucketOf(job))
  /\ \/ /\ ~Board!LostVolume(board[id], job.gaps)
        /\ board'[id] = [board[id] EXCEPT !.status = "resolved", !.resolvedAt = BucketOf(job)]
     \/ /\ Board!LostVolume(board[id], job.gaps)
        /\ board'[id] = [board[id] EXCEPT !.status = "inconclusive"]

LEMMA LeavesFacts ==
  ASSUME TowerInv, tail # <<>>, NEW id \in IncidentIds, Leaves(id, Head(tail))
  PROVE  /\ board[id] # Board!NoEntry /\ Active(id)
         /\ board'[id] \in Board!Entry /\ board'[id] # Board!NoEntry
         /\ board'[id].dims = board[id].dims
         /\ board'[id].detectedAt = board[id].detectedAt
         /\ board[id].detectedAt + ResolveAfterQuietWindows <= BucketOf(Head(tail))
         /\ RetiredBy(log, board'[id])
<1> DEFINE job == Head(tail)
           b == BucketOf(job)
           old == board[id]
           new == board'[id]
<1>1. Active(id) /\ old # Board!NoEntry /\ b >= old.detectedAt + ResolveAfterQuietWindows
  BY DEF Leaves, Board!Stale, Active, Board!NoEntry, Board!ActiveStatuses
<1>2. old \in Board!Entry /\ old.detectedAt \in Buckets /\ b \in Buckets
  BY <1>1, EntryTyped, HeadFacts DEF TowerInv, Records
<1>3. \/ new = [old EXCEPT !.status = "resolved", !.resolvedAt = b]
      \/ new = [old EXCEPT !.status = "inconclusive"]
  BY DEF Leaves
<1> HIDE DEF b, job, old, new
<1>4. new \in Board!Entry /\ new.dims = old.dims /\ new.detectedAt = old.detectedAt
  BY <1>2, <1>3 DEF Board!Entry, Board!LiveStatuses, Board!ActiveStatuses, Board!Buckets, Buckets
<1>5. new.status \in {"resolved", "inconclusive"} /\ new # Board!NoEntry
  BY <1>2, <1>3 DEF Board!Entry, Board!NoEntry
<1>6. /\ job.window \in DOMAIN log /\ log[job.window].bucket = b
      /\ Board!LostVolume(old, job.gaps) <=>
           \E s \in Slices : SameCell(old.dims, s) /\ log[job.window].reading[s] = "gap"
  <2>1. JobOK(job)
    BY HeadFacts DEF job
  <2>2. job.gaps = {s \in Slices : log[job.window].reading[s] = "gap"}
    BY <2>1 DEF JobOK
  <2> QED
    BY <2>1, <2>2 DEF JobOK, b, BucketOf, Board!LostVolume, Board!SameCell, SameCell
<1>7. \/ /\ ~Board!LostVolume(old, job.gaps) /\ new.status = "resolved" /\ new.resolvedAt = b
      \/ Board!LostVolume(old, job.gaps) /\ new.status = "inconclusive"
  BY <1>2 DEF Leaves, Board!Entry, old, new, b, job
<1>8. RetiredBy(log, new)
  BY <1>1, <1>4, <1>6, <1>7 DEF RetiredBy
<1>9. old.detectedAt + ResolveAfterQuietWindows <= b
  BY <1>1, <1>2, TowerAssumption DEF Buckets
<1> QED
  BY <1>1, <1>4, <1>5, <1>8, <1>9 DEF old, new, b, job

LEMMA RetireKeeps ==
  ASSUME TowerInv, tail # <<>>, LogMoves, board' = [id \in IncidentIds |-> board'[id]],
         \A id \in IncidentIds : board'[id] = board[id] \/ Leaves(id, Head(tail))
  PROVE  BoardMoves /\ BoardOK'
<1>1. BoardOK
  BY DEF TowerInv, Records
<1>2. ASSUME NEW n \in Ahead'
      PROVE  /\ BucketOf(Head(tail)) <= log'[n].bucket
             /\ BucketOf(Head(tail)) \in Buckets /\ log'[n].bucket \in Buckets
  <2>1. PICK m \in Ahead : log[m].bucket <= log'[n].bucket
    BY DEF LogMoves
  <2>2. /\ m \in DOMAIN log /\ n \in DOMAIN log'
        /\ BucketOf(Head(tail)) <= log[m].bucket /\ BucketOf(Head(tail)) \in Buckets
    BY HeadFacts DEF LogMoves
  <2> QED
    BY <2>1, <2>2, LogMovesFacts DEF Buckets
<1>3. ASSUME NEW id \in IncidentIds, board[id] # Board!NoEntry
      PROVE  EntryMoves(id)
  <2>1. board[id].detectedAt \in Buckets
    BY <1>1, <1>3, EntryTyped
  <2>2. CASE board'[id] = board[id]
    BY <1>3, <2>1, <2>2 DEF EntryMoves, Active, Buckets
  <2>3. CASE Leaves(id, Head(tail))
    <3>1. /\ board'[id] # Board!NoEntry /\ board'[id].dims = board[id].dims
          /\ board'[id].detectedAt = board[id].detectedAt
          /\ board[id].detectedAt + ResolveAfterQuietWindows <= BucketOf(Head(tail))
      BY <2>3, LeavesFacts
    <3>2. ASSUME NEW n \in Ahead'
          PROVE  board[id].detectedAt + ResolveAfterQuietWindows <= log'[n].bucket
      BY <1>2, <2>1, <3>1, TowerAssumption DEF Buckets
    <3> QED
      BY <2>1, <3>1, <3>2 DEF EntryMoves, Buckets
  <2> QED
    BY <2>2, <2>3
<1>4. \A id \in IncidentIds : board'[id] \in Board!Entry \cup {Board!NoEntry}
  BY <1>1, LeavesFacts DEF BoardOK
<1>5. ASSUME NEW id \in IncidentIds, board'[id] # Board!NoEntry
      PROVE  /\ log' # <<>> /\ \A n \in Ahead' : board'[id].detectedAt <= log'[n].bucket
             /\ GoesBack(log', board'[id]) /\ RetiredBy(log', board'[id])
  <2>1. CASE board'[id] = board[id]
    BY <1>1, <1>5, <2>1, EntryStays
  <2>2. CASE Leaves(id, Head(tail))
    <3>1. /\ board[id] # Board!NoEntry /\ board'[id].dims = board[id].dims
          /\ board'[id].detectedAt = board[id].detectedAt
          /\ board[id].detectedAt + ResolveAfterQuietWindows <= BucketOf(Head(tail))
          /\ RetiredBy(log, board'[id])
      BY <2>2, LeavesFacts
    <3>2. board[id].detectedAt \in Buckets
      BY <1>1, <3>1, EntryTyped
    <3>3. \A n \in Ahead' : board'[id].detectedAt <= log'[n].bucket
      BY <1>2, <3>1, <3>2, TowerAssumption DEF Buckets
    <3>4. GoesBack(log, board'[id])
      BY <1>1, <3>1 DEF BoardOK, GoesBack
    <3>5. GoesBack(log', board'[id]) /\ RetiredBy(log', board'[id])
      <4> SUFFICES ASSUME NEW entry, GoesBack(log, entry), RetiredBy(log, entry)
                   PROVE  GoesBack(log', entry) /\ RetiredBy(log', entry)
        BY <3>1, <3>4
      <4> QED
        BY EntryKept
    <3>6. log' # <<>>
      <4>1. log # <<>> /\ Len(log) \in Nat
        BY HeadFacts DEF TowerInv, Records, LogOK
      <4> QED
        BY <4>1, LogMovesFacts DEF Extends
    <3> QED
      BY <3>3, <3>5, <3>6
  <2> QED
    BY <2>1, <2>2
<1> QED
  BY <1>3, <1>4, <1>5 DEF BoardMoves, BoardOK

LEMMA ResolveQuietStep ==
  ASSUME TowerInv, ResolveQuiet
  PROVE  Memory' /\ Records'
<1>1. /\ tail # <<>> /\ Head(tail).pc = "write" /\ Head(tail).evidence = <<>>
      /\ tail' = [tail EXCEPT ![1].pc = "giveUp"] /\ log' = log /\ UNCHANGED vars
  BY DEF ResolveQuiet
<1>2. Memory'
  BY <1>1, MemoryStays DEF TowerInv, Records, Strong, TypeOK
<1>3. JobOK(Head(tail)) /\ Head(tail) \in Job /\ Ahead \subseteq DOMAIN log /\ tail \in Seq(Job)
  BY <1>1, HeadFacts DEF TowerInv, Records, TailOK
<1>4. PICK old \in Job : old = Head(tail)
  BY <1>3
<1> DEFINE job == [old EXCEPT !.pc = "giveUp"]
<1>5. /\ job \in Job /\ job.window = old.window /\ job.evidence = <<>> /\ job.gaps = old.gaps
      /\ old.evidence = <<>>
  BY <1>1, <1>4 DEF Job
<1>6. tail' = [tail EXCEPT ![1] = job]
  BY <1>1, <1>3, <1>4, TailSeq
<1> HIDE DEF job
<1>7. Ahead' \subseteq Ahead
  BY <1>1, <1>4, <1>5, <1>6, HeadMoves DEF TowerInv, Records
<1>8. LogMoves
  BY <1>1, <1>3, <1>7, LogStays DEF TowerInv, Records
<1>9. BoardMoves /\ BoardOK'
  <2>1. Board!Resolve(BucketOf(Head(tail)), Head(tail).gaps)
    BY DEF ResolveQuiet
  <2>2. /\ board' = [id \in IncidentIds |-> board'[id]]
        /\ \A id \in IncidentIds : board'[id] = board[id] \/ Leaves(id, Head(tail))
    BY <2>1 DEF Board!Resolve, Leaves
  <2> QED
    BY <1>1, <1>8, <2>2, RetireKeeps
<1>10. BoardOK /\ Shown /\ TailOK
  BY DEF TowerInv, Records
<1>11. JobOK(job)'
  <2>1. JobOK(old)'
    <3>1. JobOK(old)
      BY <1>3, <1>4
    <3> QED
      BY <1>8, <1>9, <1>10, <3>1, JobKept
  <2> QED
    BY <1>5, <2>1 DEF JobOK
<1>12. TailOK'
  BY <1>1, <1>4, <1>5, <1>6, <1>8, <1>9, <1>10, <1>11, HeadMoves
<1>13. Shown'
  BY <1>1, <1>8, <1>9, <1>10, ShownKept
<1> QED
  BY <1>2, <1>8, <1>9, <1>12, <1>13 DEF Records, LogMoves

\* A window is marked done; nothing else of the log changes.
LEMMA LogDone ==
  ASSUME NEW q \in Seq(LogEntry), NEW w \in DOMAIN q
  PROVE  LET p == [q EXCEPT ![w].done = TRUE] IN
         /\ p \in Seq(LogEntry) /\ DOMAIN p = DOMAIN q /\ Len(p) = Len(q)
         /\ DOMAIN q = 1 .. Len(q)
         /\ \A n \in DOMAIN q : /\ p[n].bucket = q[n].bucket
                                /\ p[n].reading = q[n].reading
                                /\ p[n].cold = q[n].cold
                                /\ n # w => p[n].done = q[n].done
                                /\ q[n].bucket \in Buckets
<1>1. \A n \in DOMAIN q : q[n] \in LogEntry /\ q[n].bucket \in Buckets
  <2>1. \A n \in DOMAIN q : q[n] \in LogEntry
    OBVIOUS
  <2> QED
    BY <2>1 DEF LogEntry
<1>2. PICK e \in LogEntry : e = [q[w] EXCEPT !.done = TRUE]
  BY <1>1 DEF LogEntry
<1>3. e.bucket = q[w].bucket /\ e.reading = q[w].reading /\ e.cold = q[w].cold
  BY <1>1, <1>2 DEF LogEntry
<1> DEFINE p == [q EXCEPT ![w] = e]
<1>4. [q EXCEPT ![w].done = TRUE] = p
  BY <1>2
<1>5. /\ p \in Seq(LogEntry) /\ DOMAIN p = DOMAIN q /\ Len(p) = Len(q)
      /\ DOMAIN q = 1 .. Len(q)
      /\ p[w] = e /\ \A n \in DOMAIN q : n # w => p[n] = q[n]
  OBVIOUS
<1> HIDE DEF p
<1>6. \A n \in DOMAIN q : /\ p[n].bucket = q[n].bucket
                          /\ p[n].reading = q[n].reading
                          /\ p[n].cold = q[n].cold
                          /\ n # w => p[n].done = q[n].done
  <2> SUFFICES ASSUME NEW n \in DOMAIN q
               PROVE  /\ p[n].bucket = q[n].bucket /\ p[n].reading = q[n].reading
                      /\ p[n].cold = q[n].cold /\ (n # w => p[n].done = q[n].done)
    OBVIOUS
  <2>1. CASE n = w
    BY <1>3, <1>5, <2>1
  <2>2. CASE n # w
    BY <1>5, <2>2
  <2> QED
    BY <2>1, <2>2
<1> QED
  BY <1>1, <1>4, <1>5, <1>6

LEMMA GiveUpQuietStep ==
  ASSUME TowerInv, GiveUpQuiet
  PROVE  Memory' /\ Records'
<1> DEFINE w == Head(tail).window
<1>1. /\ tail # <<>> /\ Head(tail).pc = "giveUp" /\ tail' = Tail(tail)
      /\ log' = [log EXCEPT ![w].done = TRUE] /\ UNCHANGED vars
  BY DEF GiveUpQuiet
<1>2. /\ JobOK(Head(tail)) /\ Ahead \subseteq DOMAIN log /\ log # <<>>
      /\ w \in DOMAIN log /\ Head(tail).evidence = <<>>
  BY <1>1, HeadFacts DEF JobOK
<1>3. /\ log \in Seq(LogEntry) /\ log' \in Seq(LogEntry)
      /\ DOMAIN log' = DOMAIN log /\ Len(log') = Len(log) /\ DOMAIN log = 1 .. Len(log)
      /\ \A n \in DOMAIN log : /\ log'[n].bucket = log[n].bucket
                               /\ log'[n].reading = log[n].reading
                               /\ log'[n].cold = log[n].cold
                               /\ n # w => log'[n].done = log[n].done
                               /\ log[n].bucket \in Buckets
  <2>1. log \in Seq(LogEntry)
    BY DEF TowerInv, Records, LogOK
  <2>2. w \in DOMAIN log /\ log' = [log EXCEPT ![w].done = TRUE]
    BY <1>1, <1>2
  <2> HIDE DEF w
  <2>3. log' \in Seq(LogEntry) /\ DOMAIN log' = DOMAIN log /\ Len(log') = Len(log)
    BY <2>1, <2>2, LogDone, Zenon
  <2>4. DOMAIN log = 1 .. Len(log)
    BY <2>1
  <2>5. \A n \in DOMAIN log : /\ log'[n].bucket = log[n].bucket
                              /\ log'[n].reading = log[n].reading
                              /\ log'[n].cold = log[n].cold
                              /\ n # w => log'[n].done = log[n].done
                              /\ log[n].bucket \in Buckets
    BY <2>1, <2>2, LogDone, Zenon
  <2> QED
    BY <2>1, <2>3, <2>4, <2>5
<1> HIDE DEF w
<1>4. LogOK'
  BY <1>3 DEF TowerInv, Records, LogOK
<1>5. Ahead' \subseteq Ahead
  BY <1>1, <1>3, HeadLeaves DEF TowerInv, Records
<1>6. LogMoves
  <2>1. Extends(log', log)
    BY <1>3 DEF Extends
  <2>2. \A n \in Ahead' : n \in DOMAIN log' /\ \E m \in Ahead : log[m].bucket <= log'[n].bucket
    BY <1>2, <1>3, <1>5 DEF Buckets
  <2> QED
    BY <1>2, <1>4, <2>1, <2>2 DEF LogMoves, TowerInv, Records
<1>7. BoardMoves /\ BoardOK'
  <2>1. Board!GiveUp(BucketOf(Head(tail)), Head(tail).gaps)
    BY DEF GiveUpQuiet
  <2>2. /\ board' = [id \in IncidentIds |-> board'[id]]
        /\ \A id \in IncidentIds : board'[id] = board[id] \/ Leaves(id, Head(tail))
    BY <2>1 DEF Board!GiveUp, Leaves
  <2> QED
    BY <1>1, <1>6, <2>2, RetireKeeps
<1>8. BoardOK /\ Shown /\ TailOK
  BY DEF TowerInv, Records
<1>9. TailOK'
  BY <1>1, <1>3, <1>6, <1>7, <1>8, HeadLeaves
<1>10. Shown'
  <2>1. \A s \in Slices : ConfirmedIn(log, w, s) => OnBoard(s, log[w].bucket)
    BY <1>2 DEF JobOK, w
  <2>2. \A n \in DOMAIN log' : log'[n].done =>
          /\ n \in DOMAIN log
          /\ \/ log[n].done
             \/ \A s \in Slices : ConfirmedIn(log, n, s) => OnBoard(s, log[n].bucket)
    BY <1>3, <2>1
  <2> QED
    BY <1>6, <1>7, <1>8, <2>2, ShownKept
<1>11. Memory'
  <2>1. \A s \in Slices : log # <<>> => DropsIn(log', Len(log), s) = DropsIn(log, Len(log), s)
    <3>1. log # <<>> => Len(log) \in 1 .. Len(log)
      BY <1>3
    <3> QED
      BY <1>3, <1>6, <3>1, DropsKept DEF LogMoves
  <2>2. /\ Len(log) \in DOMAIN log /\ Len(log') = Len(log) /\ log' # <<>>
        /\ log'[Len(log)].bucket = log[Len(log)].bucket
        /\ log'[Len(log)].reading = log[Len(log)].reading
    BY <1>2, <1>3
  <2>3. UNCHANGED <<clock, lastProcessedBucket, persistence, processed, ticks>>
    BY <1>1 DEF vars
  <2>4. Memory
    BY DEF TowerInv
  <2>5. processed # <<>> =>
          /\ log'[Len(log')].bucket = lastProcessedBucket
          /\ log'[Len(log')].reading = processed[Len(processed)].reading
          /\ \A s \in Slices : persistence[s].count = Cardinality(DropsIn(log', Len(log'), s))
    BY <1>2, <2>1, <2>2, <2>4 DEF Memory
  <2>6. log'[Len(log')].bucket <= clock
    BY <1>2, <2>2, <2>4 DEF Memory
  <2>7. \A t \in Ticks : ticks[t].pc # "idle" =>
          /\ ticks[t].target <= clock
          /\ processed = <<>> => log'[Len(log')].bucket <= ticks[t].target
    BY <1>2, <2>2, <2>4 DEF Memory
  <2> QED
    BY <2>2, <2>3, <2>5, <2>6, <2>7 DEF Memory
<1> QED
  BY <1>4, <1>7, <1>9, <1>10, <1>11 DEF Records

------------------------------------------------------------------------------
(* The evidence. *)

LEMMA SharesRootMeets ==
  ASSUME NEW a, NEW b, NEW c, SharesRoot(a, b)
  PROVE  SharesRoot(b, a) /\ (SharesRoot(b, c) => SharesRoot(a, c))
BY DEF SharesRoot

LEMMA TailOfSeq ==
  ASSUME NEW S, NEW q \in Seq(S), q # <<>>
  PROVE  /\ Tail(q) \in Seq(S)
         /\ \A i \in DOMAIN Tail(q) : i + 1 \in DOMAIN q /\ Tail(q)[i] = q[i + 1]
         /\ \A i \in DOMAIN q : i = 1 \/ (i - 1 \in DOMAIN Tail(q) /\ Tail(q)[i - 1] = q[i])
         /\ 1 \in DOMAIN q /\ Head(q) = q[1] /\ q[1] \in S
<1>1. /\ Tail(q) \in Seq(S)
      /\ Len(q) \in Nat \ {0} /\ Len(Tail(q)) = Len(q) - 1
      /\ DOMAIN q = 1 .. Len(q) /\ DOMAIN Tail(q) = 1 .. (Len(q) - 1)
      /\ \A i \in 1 .. (Len(q) - 1) : Tail(q)[i] = q[i + 1]
  OBVIOUS
<1>2. \A i \in DOMAIN q : i = 1 \/ (i - 1 \in DOMAIN Tail(q) /\ Tail(q)[i - 1] = q[i])
  <2> SUFFICES ASSUME NEW i \in DOMAIN q, i # 1
               PROVE  i - 1 \in DOMAIN Tail(q) /\ Tail(q)[i - 1] = q[i]
    OBVIOUS
  <2>1. i - 1 \in 1 .. (Len(q) - 1) /\ (i - 1) + 1 = i
    BY <1>1
  <2> QED
    BY <1>1, <2>1
<1>3. 1 \in DOMAIN q /\ Head(q) = q[1]
  OBVIOUS
<1>4. \A i \in DOMAIN q : q[i] \in S
  OBVIOUS
<1> QED
  BY <1>1, <1>2, <1>3, <1>4

\* The reading of the evidence written next: under the root of a slice its window
\* confirms, and dated by it.
LEMMA NextReadingFacts ==
  ASSUME TowerInv, tail # <<>>, Head(tail).evidence # <<>>
  PROVE  LET r == NextReading(Head(tail)) IN
         /\ r \in Board!Readings /\ r.at = BucketOf(Head(tail))
         /\ r.cell = Head(tail).evidence[1].cell /\ 1 \in DOMAIN Head(tail).evidence
         /\ Rooted(r.cell)
         /\ \E s \in Slices : ConfirmedIn(log, Head(tail).window, s) /\ SharesRoot(r.cell, s)
<1> DEFINE job == Head(tail)
<1>1. JobOK(job) /\ job \in Job
  BY HeadFacts
<1>2. job.evidence \in Seq([cell : Cells, code : Codes])
  BY <1>1 DEF Job
<1>3. /\ 1 \in DOMAIN job.evidence /\ Head(job.evidence) = job.evidence[1]
      /\ job.evidence[1] \in [cell : Cells, code : Codes]
  BY <1>2, TailOfSeq
<1>4. \E s \in Slices : ConfirmedIn(log, job.window, s) /\ SharesRoot(job.evidence[1].cell, s)
  BY <1>1, <1>3 DEF JobOK
<1> HIDE DEF job
<1>5. /\ NextReading(job).cell = job.evidence[1].cell
      /\ NextReading(job).code = job.evidence[1].code
      /\ NextReading(job).at = BucketOf(job)
      /\ NextReading(job) \in Board!Readings
  <2>1. BucketOf(job) \in Board!Buckets
    BY HeadFacts DEF job, Board!Buckets, Buckets
  <2> QED
    BY <1>3, <2>1 DEF NextReading, Board!Readings
<1> QED
  BY <1>3, <1>4, <1>5 DEF SharesRoot, job

\* The entry the evidence opens or confirms.
Written(id, r) ==
  /\ board'[id] \in Board!Entry /\ board'[id].status \in Board!ActiveStatuses
  /\ board'[id].detectedAt = r.at /\ SharesRoot(board'[id].dims, r.cell)
  /\ board[id] # Board!NoEntry =>
       \A s \in Slices : SharesRoot(board[id].dims, s) => SharesRoot(board'[id].dims, s)
  /\ DOMAIN board' = IncidentIds
  /\ \A other \in IncidentIds : other # id => board'[other] = board[other]

LEMMA EvidenceIsWritten ==
  ASSUME BoardOK, NEW id \in IncidentIds, NEW r \in Board!Readings, Rooted(r.cell),
         Board!Open(id, r) \/ Board!Confirm(id, r)
  PROVE  Written(id, r)
<1>1. board \in [IncidentIds -> Board!Entry \cup {Board!NoEntry}]
  BY DEF BoardOK
<1>2. /\ r.at \in Board!Buckets /\ r.cell \in Cells /\ r.code \in Codes
      /\ SharesRoot(r.cell, r.cell)
  BY DEF Board!Readings, SharesRoot
<1>3. CASE Board!Open(id, r)
  <2> DEFINE new == [status |-> "open", dims |-> r.cell, code |-> r.code,
                     detectedAt |-> r.at, resolvedAt |-> 0]
  <2>1. board[id] = Board!NoEntry /\ board' = [board EXCEPT ![id] = new]
    BY <1>3 DEF Board!Open
  <2>2. /\ new \in Board!Entry /\ new.status \in Board!ActiveStatuses
        /\ new.detectedAt = r.at /\ new.dims = r.cell
    BY <1>2 DEF Board!Entry, Board!LiveStatuses, Board!ActiveStatuses
  <2> HIDE DEF new
  <2> QED
    BY <1>1, <1>2, <2>1, <2>2 DEF Written
<1>4. CASE Board!Confirm(id, r)
  <2>1. SharesRoot(board[id].dims, r.cell) /\ board[id] \in Board!Entry
    <3>1. Board!Covers(board[id], r)
      BY <1>4 DEF Board!Confirm
    <3>2. board[id].status # "none"
      BY <3>1 DEF Board!Covers, Board!LiveStatuses, Board!ActiveStatuses
    <3>3. board[id] # Board!NoEntry
      BY <3>2 DEF Board!NoEntry
    <3> QED
      BY <1>1, <3>1, <3>3
         DEF Board!Covers, Board!Rooted, Board!SharesRoot, Rooted, SharesRoot
  <2>2. PICK old \in Board!Entry : old = board[id]
    BY <2>1
  <2>3. PICK new : /\ new = [old EXCEPT !.status = "monitoring", !.detectedAt = r.at] \/
                      new = [old EXCEPT !.status = "monitoring", !.detectedAt = r.at,
                                        !.dims = r.cell, !.code = r.code]
                   /\ board' = [board EXCEPT ![id] = new]
    <3>1. CASE board' = [board EXCEPT ![id].status = "monitoring", ![id].detectedAt = r.at]
      BY <1>1, <2>2, <3>1
    <3>2. CASE board' = [board EXCEPT ![id].status = "monitoring", ![id].detectedAt = r.at,
                                      ![id].dims = r.cell, ![id].code = r.code]
      BY <1>1, <2>2, <3>2
    <3> QED
      BY <1>4, <3>1, <3>2 DEF Board!Confirm
  <2>4. /\ new \in Board!Entry /\ new.status \in Board!ActiveStatuses
        /\ new.detectedAt = r.at /\ new.dims \in {old.dims, r.cell}
    BY <1>2, <2>2, <2>3 DEF Board!Entry, Board!LiveStatuses, Board!ActiveStatuses
  <2>5. SharesRoot(new.dims, r.cell) /\ SharesRoot(new.dims, old.dims)
    BY <1>2, <2>1, <2>2, <2>4, SharesRootMeets
  <2>6. \A s \in Slices : SharesRoot(old.dims, s) => SharesRoot(new.dims, s)
    BY <2>5, SharesRootMeets
  <2>7. /\ board'[id] = new /\ DOMAIN board' = IncidentIds
        /\ \A other \in IncidentIds : other # id => board'[other] = board[other]
    BY <1>1, <2>3
  <2> QED
    BY <2>2, <2>4, <2>5, <2>6, <2>7 DEF Written
<1> QED
  BY <1>3, <1>4

LEMMA WriteEvidenceStep ==
  ASSUME TowerInv, WriteEvidence
  PROVE  Memory' /\ Records'
<1>1. /\ tail # <<>> /\ Head(tail).evidence # <<>>
      /\ tail' = [tail EXCEPT ![1].evidence = Tail(@)] /\ log' = log /\ UNCHANGED vars
  BY DEF WriteEvidence
<1>2. Memory'
  BY <1>1, MemoryStays DEF TowerInv, Records, Strong, TypeOK
<1>3. /\ JobOK(Head(tail)) /\ Head(tail) \in Job /\ Head(tail).window \in Ahead
      /\ Ahead \subseteq DOMAIN log /\ log # <<>> /\ tail \in Seq(Job)
      /\ BucketOf(Head(tail)) \in Buckets
      /\ \A n \in Ahead : BucketOf(Head(tail)) <= log[n].bucket
  BY <1>1, HeadFacts DEF TowerInv, Records, TailOK
<1>4. PICK old \in Job : old = Head(tail)
  BY <1>3
<1> DEFINE w == old.window
           b == log[w].bucket
           job == [old EXCEPT !.evidence = Tail(@)]
<1>5. /\ old.evidence \in Seq([cell : Cells, code : Codes]) /\ old.evidence # <<>>
      /\ JobOK(old) /\ w \in DOMAIN log /\ b \in Buckets /\ b = BucketOf(Head(tail))
  BY <1>1, <1>3, <1>4 DEF Job, BucketOf
<1>6. /\ job \in Job /\ job.window = w /\ job.evidence = Tail(old.evidence)
      /\ job.gaps = old.gaps /\ job.pc = old.pc
  BY <1>5, TailOfSeq DEF Job
<1>7. tail' = [tail EXCEPT ![1] = job]
  BY <1>1, <1>3, <1>4, TailSeq
<1> HIDE DEF job
<1>8. Ahead' \subseteq Ahead
  BY <1>1, <1>4, <1>6, <1>7, HeadMoves DEF TowerInv, Records
<1>9. LogMoves
  BY <1>1, <1>3, <1>8, LogStays DEF TowerInv, Records
<1>10. BoardOK /\ Shown /\ TailOK /\ LogOK
  BY DEF TowerInv, Records
<1>11. PICK id \in IncidentIds, r \in Board!Readings :
         /\ Written(id, r) /\ r.at = b
         /\ 1 \in DOMAIN old.evidence /\ r.cell = old.evidence[1].cell
         /\ \E s \in Slices : ConfirmedIn(log, w, s) /\ SharesRoot(r.cell, s)
  <2> DEFINE r == NextReading(Head(tail))
  <2>1. /\ r \in Board!Readings /\ r.at = b /\ Rooted(r.cell)
        /\ r.cell = old.evidence[1].cell /\ 1 \in DOMAIN old.evidence
        /\ \E s \in Slices : ConfirmedIn(log, w, s) /\ SharesRoot(r.cell, s)
    BY <1>1, <1>4, <1>5, NextReadingFacts
  <2>2. PICK id \in IncidentIds : Board!Open(id, r) \/ Board!Confirm(id, r)
    BY DEF WriteEvidence
  <2> HIDE DEF r
  <2>3. Written(id, r)
    BY <1>5, <1>10, <2>1, <2>2, EvidenceIsWritten
  <2> QED
    BY <2>1, <2>3
<1> HIDE DEF w, b
<1>12. \A s \in Slices : SharesRoot(r.cell, s) => SharesRoot(board'[id].dims, s)
  BY <1>11, SharesRootMeets DEF Written
<1>13. /\ board'[id] # Board!NoEntry /\ board'[id].detectedAt = b
       /\ board'[id].status \in {"open", "monitoring"}
  BY <1>11 DEF Written, Board!Entry, Board!NoEntry, Board!ActiveStatuses
<1>14. BoardMoves
  <2> SUFFICES ASSUME NEW other \in IncidentIds, board[other] # Board!NoEntry
               PROVE  EntryMoves(other)
    BY DEF BoardMoves
  <2>1. board[other].detectedAt \in Buckets
    BY <1>10, EntryTyped
  <2>2. CASE other = id
    <3>1. board[id].detectedAt <= b
      <4>1. w \in Ahead
        BY <1>3, <1>4 DEF w
      <4> QED
        BY <1>10, <2>2, <4>1 DEF BoardOK, b
    <3> QED
      BY <1>5, <1>11, <1>13, <2>2, <3>1 DEF EntryMoves, Written
  <2>3. CASE other # id
    <3>1. board'[other] = board[other]
      BY <1>11, <2>3 DEF Written
    <3> QED
      BY <2>1, <3>1 DEF EntryMoves, Active, Buckets
  <2> QED
    BY <2>2, <2>3
<1>15. \A s \in Slices : SharesRoot(r.cell, s) => OnBoard(s, b)'
  <2>1. b' = b
    BY <1>1 DEF b, w
  <2>2. Active(id)' /\ b <= board'[id].detectedAt
    BY <1>5, <1>13 DEF Active, Board!ActiveStatuses, Buckets
  <2> QED
    BY <1>12, <1>13, <2>1, <2>2 DEF OnBoard
<1>16. BoardOK'
  <2>1. \A other \in IncidentIds : board'[other] \in Board!Entry \cup {Board!NoEntry}
    BY <1>10, <1>11 DEF BoardOK, Written
  <2>2. ASSUME NEW other \in IncidentIds, board'[other] # Board!NoEntry
        PROVE  /\ log' # <<>> /\ \A n \in Ahead' : board'[other].detectedAt <= log'[n].bucket
               /\ GoesBack(log', board'[other]) /\ RetiredBy(log', board'[other])
    <3>1. CASE other # id
      BY <1>9, <1>10, <1>11, <2>2, <3>1, EntryStays DEF Written
    <3>2. CASE other = id
      <4>1. log' # <<>> /\ \A n \in Ahead' : board'[id].detectedAt <= log'[n].bucket
        BY <1>1, <1>3, <1>5, <1>8, <1>13
      <4>2. GoesBack(log', board'[id])
        BY <1>1, <1>5, <1>11, <1>12, <1>13 DEF GoesBack, b
      <4>3. RetiredBy(log', board'[id])
        BY <1>13 DEF RetiredBy
      <4> QED
        BY <3>2, <4>1, <4>2, <4>3
    <3> QED
      BY <3>1, <3>2
  <2>3. board' = [other \in IncidentIds |-> board'[other]]
    BY <1>1, <1>10 DEF WriteEvidence, Board!Open, Board!Confirm, BoardOK
  <2> QED
    BY <2>1, <2>2, <2>3 DEF BoardOK
<1>17. JobOK(job)'
  <2>1. /\ old.pc = "giveUp" => old.evidence = <<>>
        /\ old.gaps = {s \in Slices : log[w].reading[s] = "gap"}
        /\ \A i \in DOMAIN old.evidence : \E s \in Slices :
             ConfirmedIn(log, w, s) /\ SharesRoot(old.evidence[i].cell, s)
        /\ \A s \in Slices : ConfirmedIn(log, w, s) =>
             \/ \E i \in DOMAIN old.evidence : SharesRoot(old.evidence[i].cell, s)
             \/ OnBoard(s, b)
    BY <1>5 DEF JobOK, w, b
  <2>2. /\ \A i \in DOMAIN job.evidence :
             i + 1 \in DOMAIN old.evidence /\ job.evidence[i] = old.evidence[i + 1]
        /\ \A i \in DOMAIN old.evidence :
             i = 1 \/ (i - 1 \in DOMAIN job.evidence /\ job.evidence[i - 1] = old.evidence[i])
    BY <1>5, <1>6, TailOfSeq
  <2>3. \A i \in DOMAIN job.evidence : \E s \in Slices :
          ConfirmedIn(log, w, s) /\ SharesRoot(job.evidence[i].cell, s)
    BY <2>1, <2>2
  <2>4. ASSUME NEW s \in Slices, ConfirmedIn(log, w, s)
        PROVE  \/ \E i \in DOMAIN job.evidence : SharesRoot(job.evidence[i].cell, s)
               \/ OnBoard(s, b)'
    <3>1. CASE OnBoard(s, b)
      <4>1. b' = b
        BY <1>1 DEF b, w
      <4> SUFFICES ASSUME NEW c \in Buckets, c = b, OnBoard(s, c)
                   PROVE  OnBoard(s, c)'
        BY <1>5, <3>1, <4>1
      <4> QED
        BY <1>9, <1>10, <1>14, OnBoardKept
    <3>2. CASE \E i \in DOMAIN old.evidence : SharesRoot(old.evidence[i].cell, s)
      BY <1>11, <1>15, <2>2, <3>2
    <3> QED
      BY <2>1, <2>4, <3>1, <3>2
  <2>5. b' = log'[w].bucket /\ log' = log /\ w' = w
    BY <1>1 DEF b, w
  <2> QED
    BY <1>5, <1>6, <2>1, <2>3, <2>4, <2>5 DEF JobOK
<1>18. TailOK'
  BY <1>1, <1>4, <1>6, <1>7, <1>9, <1>10, <1>14, <1>17, HeadMoves DEF w
<1>19. Shown'
  BY <1>1, <1>9, <1>10, <1>14, ShownKept
<1> QED
  BY <1>2, <1>9, <1>16, <1>18, <1>19 DEF Records, LogMoves

------------------------------------------------------------------------------
(* The invariant holds. *)

LEMMA TowerInvStep == TowerInv /\ [TowerNext]_towerVars => TowerInv'
<1> SUFFICES ASSUME TowerInv, [TowerNext]_towerVars
             PROVE  TowerInv'
  OBVIOUS
<1>1. Strong'
  <2>1. [Next]_vars
    BY TowerStepsTheDetector
  <2> QED
    BY <2>1, StrongStep DEF TowerInv
<1>2. CASE DetectorOnly \/ UNCHANGED towerVars
  BY <1>1, <1>2, DetectorOnlyStep DEF TowerInv
<1>3. ASSUME NEW t \in Ticks, Read(t) \/ HandOver(t)
      PROVE  TowerInv'
  BY <1>1, <1>3, ReadStep, HandOverStep DEF TowerInv
<1>4. CASE JobStep
  BY <1>1, <1>4, WriteEvidenceStep, ResolveQuietStep, GiveUpQuietStep, FailJobStep
     DEF JobStep, TowerInv
<1>5. CASE RestartTower
  BY <1>1, <1>5, RestartTowerStep DEF TowerInv
<1> QED
  BY <1>2, <1>3, <1>4, <1>5 DEF TowerNext

LEMMA TowerInvAlways == TowerSpec => []TowerInv
BY TowerInitial, TowerInvStep, PTL DEF TowerSpec

------------------------------------------------------------------------------
(* What the tower promises. *)

\* THEOREM: every incident of the board was last confirmed by a window in which
\* some slice under its root was confirmed, in the memory of one process
\* (run.ts:158-189).
THEOREM IncidentsAreDrops == TowerSpec => []IncidentsGoBackToDrops
<1>1. TowerInv => IncidentsGoBackToDrops
  <2> SUFFICES ASSUME TowerInv, NEW id \in IncidentIds, board[id] # Board!NoEntry
               PROVE  \E n \in DOMAIN log, s \in Slices :
                        /\ log[n].bucket = board[id].detectedAt
                        /\ SharesRoot(board[id].dims, s)
                        /\ Confirmed(n, s)
    BY DEF IncidentsGoBackToDrops
  <2>1. GoesBack(log, board[id])
    BY DEF TowerInv, Records, BoardOK
  <2> QED
    BY <2>1, ConfirmedInLog DEF GoesBack
<1> QED
  BY <1>1, TowerInvAlways, PTL

\* What the log says of a retired entry (RetiredBy) is what the property asks, and
\* more: the code gives up on the slices its window calls too thin and on no other.
LEMMA RetiredByGivesWindow ==
  ASSUME NEW id \in IncidentIds, RetiredBy(log, board[id]),
         board[id].status \in {"resolved", "inconclusive"}
  PROVE  \E n \in DOMAIN log :
           /\ log[n].bucket >= board[id].detectedAt + ResolveAfterQuietWindows
           /\ board[id].status = "resolved" =>
                /\ log[n].bucket = board[id].resolvedAt
                /\ "gap" \notin OwnVerdict(n, board[id].dims)
           /\ board[id].status = "inconclusive" =>
                OwnVerdict(n, board[id].dims) \cap {"gap", "absent"} # {}
<1>1. PICK n \in DOMAIN log :
        /\ log[n].bucket >= board[id].detectedAt + ResolveAfterQuietWindows
        /\ board[id].status = "resolved" => log[n].bucket = board[id].resolvedAt
        /\ (\E s \in Slices : SameCell(board[id].dims, s) /\ log[n].reading[s] = "gap")
             <=> board[id].status = "inconclusive"
  BY DEF RetiredBy
<1>2. "gap" \in OwnVerdict(n, board[id].dims) <=> board[id].status = "inconclusive"
  BY <1>1 DEF OwnVerdict
<1> QED
  BY <1>1, <1>2

\* THEOREM: an incident is retired by one window, old enough, that did not call its
\* slice too thin if it is resolved, and saw too little of it or nothing if it is
\* given up (lifecycle.ts:31-64).
THEOREM OneWindowRetires == TowerSpec => []RetiredByItsWindow
<1>1. TowerInv => RetiredByItsWindow
  <2> SUFFICES ASSUME TowerInv, NEW id \in IncidentIds,
                      board[id].status \in {"resolved", "inconclusive"}
               PROVE  RetiredBy(log, board[id])
    BY RetiredByGivesWindow DEF RetiredByItsWindow
  <2>1. board[id] # Board!NoEntry
    BY DEF Board!NoEntry
  <2> QED
    BY <2>1 DEF TowerInv, Records, BoardOK
<1> QED
  BY <1>1, TowerInvAlways, PTL

\* What shows in a window ahead, and is on the board if the window confirms it, is
\* not yet quiet as the window sees it: this is where the assumption on the two
\* spans is needed.
LEMMA StillShown ==
  ASSUME TowerInv, log # <<>>, NEW n \in Ahead, NEW s \in Slices, ShowsAt(n, s),
         ConfirmedIn(log, n, s) => OnBoard(s, log[n].bucket)
  PROVE  \E id \in IncidentIds : /\ board[id] # Board!NoEntry /\ Active(id)
                                 /\ SharesRoot(board[id].dims, s)
                                 /\ log[n].bucket < board[id].detectedAt + ResolveAfterQuietWindows
<1>1. /\ log \in Seq(LogEntry) /\ n \in DOMAIN log /\ DOMAIN log = 1 .. Len(log)
      /\ \A m \in DOMAIN log : log[m].bucket \in Buckets
  BY LogFacts, AheadFacts DEF TowerInv, Records, LogOK
<1>2. \A id \in IncidentIds : board[id] # Board!NoEntry => board[id].detectedAt \in Buckets
  BY EntryTyped DEF TowerInv, Records
<1>3. ASSUME NEW b \in Buckets, OnBoard(s, b), log[n].bucket < b + ResolveAfterQuietWindows
      PROVE  \E id \in IncidentIds :
               /\ board[id] # Board!NoEntry /\ Active(id)
               /\ SharesRoot(board[id].dims, s)
               /\ log[n].bucket < board[id].detectedAt + ResolveAfterQuietWindows
  <2>1. PICK id \in IncidentIds :
          /\ board[id] # Board!NoEntry /\ SharesRoot(board[id].dims, s)
          /\ b <= board[id].detectedAt
          /\ \/ Active(id)
             \/ board[id].detectedAt + ResolveAfterQuietWindows <= log[n].bucket
    BY <1>3 DEF OnBoard
  <2>2. log[n].bucket < board[id].detectedAt + ResolveAfterQuietWindows
    BY <1>1, <1>2, <1>3, <2>1, TowerAssumption DEF Buckets
  <2>3. ~(board[id].detectedAt + ResolveAfterQuietWindows <= log[n].bucket)
    BY <1>1, <1>2, <2>1, <2>2, TowerAssumption DEF Buckets
  <2> QED
    BY <2>1, <2>2, <2>3
<1>4. CASE ConfirmedIn(log, n, s)
  <2>1. log[n].bucket \in Buckets /\ log[n].bucket < log[n].bucket + ResolveAfterQuietWindows
    BY <1>1, TowerAssumption DEF Buckets
  <2> QED
    BY <1>3, <1>4, <2>1
<1>5. CASE ~ConfirmedIn(log, n, s)
  <2>1. PICK c \in 2 .. n :
          /\ log[c - 1].done /\ ConfirmedIn(log, c - 1, s)
          /\ log[n].bucket - log[c - 1].bucket <= n - c + 1
          /\ \A k \in c .. n : log[k].reading[s] = "drop" /\ (log[k].cold => k = c)
    BY <1>5, ConfirmedInLog DEF ShowsAt
  <2>2. n \in Nat /\ c \in Nat /\ c \in 1 .. n /\ c - 1 \in DOMAIN log
    BY <1>1
  <2>3. n - c + 1 < PersistenceWindows
    <3>1. ~(n - c + 1 >= PersistenceWindows)
      BY <1>1, <1>5, <2>1, <2>2, LongRunConfirms
    <3> QED
      BY <2>2, <3>1, DetectorAssumption
  <2>4. OnBoard(s, log[c - 1].bucket)
    BY <2>1, <2>2 DEF TowerInv, Records, Shown
  <2>5. /\ log[c - 1].bucket \in Buckets /\ log[n].bucket \in Buckets
        /\ n - c + 1 < ResolveAfterQuietWindows
    BY <1>1, <2>2, <2>3, DetectorAssumption, TowerAssumption, RestartAssumption
  <2>6. log[n].bucket < log[c - 1].bucket + ResolveAfterQuietWindows
    BY <2>1, <2>2, <2>5, TowerAssumption DEF Buckets
  <2> QED
    BY <1>3, <2>4, <2>5, <2>6
<1> QED
  BY <1>4, <1>5

\* A pass over the board retires nothing that its window does not see as quiet.
LEMMA PassSpares ==
  ASSUME TowerInv, tail # <<>>, ResolveQuiet \/ GiveUpQuiet, NEW id \in IncidentIds,
         board[id] # Board!NoEntry,
         BucketOf(Head(tail)) < board[id].detectedAt + ResolveAfterQuietWindows
  PROVE  board'[id] = board[id]
<1>1. BucketOf(Head(tail)) \in Buckets /\ board[id].detectedAt \in Buckets
  BY HeadFacts, EntryTyped DEF TowerInv, Records
<1>2. ~Board!Stale(board[id], BucketOf(Head(tail)))
  BY <1>1, TowerAssumption DEF Board!Stale, Buckets
<1> QED
  BY <1>2 DEF ResolveQuiet, GiveUpQuiet, Board!Resolve, Board!GiveUp

LEMMA ShowThroughStep == TowerInv /\ [TowerNext]_towerVars => [ShowThrough]_towerVars
<1> SUFFICES ASSUME TowerInv, TowerNext, tail # <<>>, Head(tail).evidence = <<>>,
                    NEW s \in Slices, ShowsAt(Head(tail).window, s)
             PROVE  \E id \in IncidentIds : /\ board'[id].status \in Board!ActiveStatuses
                                            /\ SharesRoot(board'[id].dims, s)
  BY DEF ShowThrough
<1>1. JobOK(Head(tail)) /\ Head(tail).window \in Ahead /\ log # <<>>
  BY HeadFacts
<1>2. ConfirmedIn(log, Head(tail).window, s) => OnBoard(s, log[Head(tail).window].bucket)
  BY <1>1 DEF JobOK
<1>3. PICK id \in IncidentIds :
        /\ board[id] # Board!NoEntry /\ Active(id) /\ SharesRoot(board[id].dims, s)
        /\ BucketOf(Head(tail)) < board[id].detectedAt + ResolveAfterQuietWindows
  BY <1>1, <1>2, StillShown DEF BucketOf
<1>4. board'[id] = board[id]
  <2>1. CASE ResolveQuiet \/ GiveUpQuiet
    BY <1>3, <2>1, PassSpares
  <2>2. CASE UNCHANGED board
    BY <2>2
  <2>3. ResolveQuiet \/ GiveUpQuiet \/ UNCHANGED board
    BY DEF TowerNext, DetectorOnly, Read, HandOver, JobStep, WriteEvidence, FailJob, RestartTower
  <2> QED
    BY <2>1, <2>2, <2>3
<1> QED
  BY <1>3, <1>4 DEF Active

\* THEOREM: a fault that shows in a window has an active incident under its root
\* through the window's reconcile pass, restarts included (scheduler.ts:130).
THEOREM OutagesStayOnTheBoard == TowerSpec => OutageStaysOnTheBoard
BY TowerInvAlways, ShowThroughStep, PTL DEF TowerSpec, OutageStaysOnTheBoard

LEMMA BoardStep == TowerInv /\ [TowerNext]_towerVars => [Board!BoardNext]_board
<1> SUFFICES ASSUME TowerInv, TowerNext, board' # board
             PROVE  Board!BoardNext
  BY DEF towerVars
<1>1. WriteEvidence \/ ResolveQuiet \/ GiveUpQuiet
  BY DEF TowerNext, DetectorOnly, Read, HandOver, JobStep, FailJob, RestartTower
<1>2. CASE WriteEvidence
  <2>1. NextReading(Head(tail)) \in Board!Readings
    BY <1>2, NextReadingFacts DEF WriteEvidence
  <2> QED
    BY <1>2, <2>1 DEF WriteEvidence, Board!BoardNext
<1>3. CASE ResolveQuiet \/ GiveUpQuiet
  <2>1. tail # <<>>
    BY <1>3 DEF ResolveQuiet, GiveUpQuiet
  <2>2. BucketOf(Head(tail)) \in Board!Buckets /\ Head(tail).gaps \in SUBSET Slices
    BY <2>1, HeadFacts DEF Board!Buckets, Buckets, Job
  <2> QED
    BY <1>3, <2>2 DEF ResolveQuiet, GiveUpQuiet, Board!BoardNext
<1> QED
  BY <1>1, <1>2, <1>3

\* THEOREM: with a detector and a tail in front of it that crash and fall behind,
\* the table still behaves as the atomic board, so what is proved of the board
\* holds in the tower; Incidents.tla is shown to be such a board too.
THEOREM TowerUsesTheBoard == TowerSpec => Board!BoardSpec
<1>1. TowerInit => Board!BoardInit
  BY DEF TowerInit
<1> QED
  BY <1>1, TowerInvAlways, BoardStep, PTL DEF TowerSpec, Board!BoardSpec
==============================================================================

-------------------------------- MODULE Rollups -------------------------------
(***************************************************************************)
(* Reading conversion out of the minute rollups (detect/aggregate.ts,      *)
(* detect/expected.ts, detect/wilson.ts, detect/onset-scan.ts,             *)
(* diagnose/residual.ts).                                                  *)
(*                                                                         *)
(* Merchant and country are left out: every reading here is under one root.*)
(* A rate is a fraction <<num, den>>, and a verdict is exact: a limit lies *)
(* outside Wilson's interval for k of n iff (k - n*limit)^2 exceeds        *)
(* z^2 * n * limit * (1 - limit).  z is 2, for the code's 1.96.            *)
(***************************************************************************)
EXTENDS Integers, FiniteSets, FiniteSetsExt

CONSTANTS MinVolume,            \* MIN_VOLUME
          DeltaPp,              \* minMaterialDropPp, in tenths of the unit
          PersistenceWindows,   \* PERSISTENCE_WINDOWS
          Lookback              \* ONSET_LOOKBACK_MIN

ASSUME RollupsAssumption ==
  /\ MinVolume \in Nat /\ DeltaPp \in 0 .. 10
  /\ PersistenceWindows \in Nat /\ Lookback \in Nat

\* Operators named Fault... are the definition that follows with
\* a plausible bug in it; they take no part in the specification.

------------------------------------------------------------------------------
(* Slices. *)

\* FREE_DIMENSIONS.  A cell fixes some of them; the root fixes none.
FreeDimensions == {"providerId", "paymentMethod", "issuerId"}
Root == [d \in {} |-> 0]

MatchesFilter(row, cell) == \A d \in DOMAIN cell : row[d] = cell[d]
Fix(cell, d, value)      == [x \in DOMAIN cell \cup {d} |-> IF x = d THEN value ELSE cell[x]]
Under(rows, cell)        == {row \in rows : MatchesFilter(row, cell)}

\* What is left of the rows once the cells are carved out.
Carve(rows, cells) == {row \in rows : \A c \in cells : ~MatchesFilter(row, c)}

Aggregate(rows, cell) ==
  LET slice == Under(rows, cell) IN
    [attempts |-> MapThenSumSet(LAMBDA row : row.attempts, slice),
     approved |-> MapThenSumSet(LAMBDA row : row.approved, slice)]

NoRate == <<0, 0>>
Rate(agg) == IF agg.attempts = 0 THEN NoRate ELSE <<agg.approved, agg.attempts>>

\* The siblings' rate, NoRate if there are none.
CrossSectionalExpected(rows, parent, d, value) ==
  Rate(Aggregate({row \in rows : row[d] # value}, parent))

------------------------------------------------------------------------------
(* Verdicts. *)

Gcd[a \in Nat, b \in Nat] == IF b = 0 THEN a ELSE Gcd[b, a % b]
Reduced(num, den) == LET g == Gcd[Max({num, -num}), den] IN <<num \div g, den \div g>>

\* expected - deltaPp / 100, in lowest terms
Limit(expected) == Reduced(10 * expected[1] - DeltaPp * expected[2], 10 * expected[2])

\* The limit is out of the interval on the side of `sign`.
Beyond(k, n, limit, sign) ==
  LET off == k * limit[2] - n * limit[1] IN
    /\ sign * off > 0
    /\ off * off > 4 * n * limit[1] * (limit[2] - limit[1])

Evaluate(agg, expected) ==
  LET limit == Limit(expected) IN
    CASE Beyond(agg.approved, agg.attempts, limit, -1) -> "MATERIAL_DROP"
      [] Beyond(agg.approved, agg.attempts, limit, 1)  -> "HEALTHY"
      [] OTHER -> IF agg.attempts < MinVolume THEN "INSUFFICIENT_EVIDENCE" ELSE "MONITORING"

\* Missed approvals, in units of one over the expected rate's denominator.
Deficit(agg, expected) ==
  Max({0, agg.attempts * expected[1] - agg.approved * expected[2]})

\* residualDeficit
Residual(rows, cell, expected, excluded) ==
  LET agg == Aggregate(Carve(rows, excluded), cell) IN
    [agg |-> agg, state |-> Evaluate(agg, expected), deficit |-> Deficit(agg, expected)]

------------------------------------------------------------------------------
(* When it began. *)

BucketsOf(rows) == {row.bucket : row \in rows}
At(rows, bucket, cell) == Aggregate({row \in rows : row.bucket = bucket}, cell)
Thick(agg) == agg.attempts >= MinVolume

\* A thick bucket at or above the limit: the walk back ends there.
Recovered(agg, expected) ==
  LET limit == Limit(expected) IN
    Thick(agg) /\ agg.attempts # 0 /\ agg.approved * limit[2] >= agg.attempts * limit[1]

\* The buckets of the series the walk passes, back from the detection's.
Walked(rows, cell, expected) ==
  {b \in BucketsOf(rows) : \A c \in BucketsOf(rows) :
     c >= b => ~Recovered(At(rows, c, cell), expected)}

\* Thin buckets count as evidence of the exact minute.
FaultOnsetScan(rollups, cell, detection, expected) ==
  LET rows  == {row \in rollups : row.bucket \in detection - Lookback .. detection}
      walked == Walked(rows, cell, expected)
  IN IF Cardinality(walked) < PersistenceWindows \/ walked = {}
       THEN [startedAt |-> detection, exact |-> FALSE]
       ELSE [startedAt |-> Min(walked), exact |-> TRUE]

\* onsetScan, of the detector and the diagnosis.
OnsetScan(rollups, cell, detection, expected) ==
  LET rows  == {row \in rollups : row.bucket \in detection - Lookback .. detection}
      walked == Walked(rows, cell, expected)
  IN IF Cardinality(walked) < PersistenceWindows \/ walked = {}
       THEN [startedAt |-> detection, exact |-> FALSE]
       ELSE [startedAt |-> Min(walked),
             exact |-> \A b \in walked : Thick(At(rows, b, cell))]
==============================================================================

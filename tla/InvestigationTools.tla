--------------------------- MODULE InvestigationTools --------------------------
(***************************************************************************)
(* What the agent's six tools answer (createDeterministicInvestigation-    *)
(* DataSource of agent/tools.ts), from the same rollups the deterministic  *)
(* search reads; what a cause costs (diagnose/cost.ts); and the trail that *)
(* is replayed for the search (diagnose/trail.ts).                         *)
(***************************************************************************)
EXTENDS DeclineMix, Functions

CONSTANT MaxPeels   \* MAX_INCIDENTS_PER_ROOT

ASSUME InvestigationToolsAssumption == MaxPeels \in Nat \ {0}

------------------------------------------------------------------------------
(* One slice, its past and its declines. *)

Without(cell, d) == [x \in DOMAIN cell \ {d} |-> cell[x]]

\* parentOf: the dimension a cell is split from its siblings by.
SplitDimension(cell) ==
  CASE "issuerId" \in DOMAIN cell -> "issuerId"
    [] DOMAIN cell \in {{"paymentMethod"}, {"paymentMethod", "providerId"}} -> "paymentMethod"
    [] DOMAIN cell = {"providerId"} -> "providerId"
    [] OTHER -> "none"

\* Siblings first, then the cell's past, then the merchant's own figure.
ComputeExpectation(rows, history, cell, conversion) ==
  LET d        == SplitDimension(cell)
      siblings == IF d = "none" THEN NoRate
                  ELSE CrossSectionalExpected(rows, Without(cell, d), d, cell[d])
      past     == Rate(Aggregate(history, cell))
  IN IF siblings # NoRate THEN siblings ELSE IF past # NoRate THEN past ELSE conversion

QueryConversionSlice(rows, history, cell, conversion) ==
  LET agg      == Aggregate(rows, cell)
      expected == ComputeExpectation(rows, history, cell, conversion)
  IN [agg |-> agg, expected |-> expected, state |-> Evaluate(agg, expected)]

QueryConversionHistory(rows, cell) == [b \in BucketsOf(rows) |-> At(rows, b, cell)]

QueryDeclineMix(declines, cell, now) ==
  DeclineMixShift(Current(declines, now), Reference(declines, now), cell, now)

------------------------------------------------------------------------------
(* Cause or echo. *)

\* peel, all rounds at once: the cells that come off.
Peeled(rows, root, expected) ==
  LET round[n \in 0 .. MaxPeels] ==
        IF n = 0 THEN {}
        ELSE LET so == round[n - 1] IN
               so \cup {c.cell : c \in SelectCausal(BeamSearch(rows, root, expected, so))}
  IN round[MaxPeels]

\* Any candidate under a root that is down counts as its cause.
FaultRunResidualTest(rows, root, d, value, conversion) ==
  LET whole == Residual(rows, root, conversion, {}) IN
    CASE whole.agg.attempts < MinVolume \/ whole.state # "MATERIAL_DROP" -> "INSUFFICIENT_EVIDENCE"
      [] OTHER -> "ROOT_CAUSE"

\* runResidualTest's verdict on one value of one dimension under a root of the
\* agent's choice.
RunResidualTest(rows, root, d, value, conversion) ==
  LET whole == Residual(rows, root, conversion, {}) IN
    CASE whole.agg.attempts < MinVolume \/ whole.state # "MATERIAL_DROP" -> "INSUFFICIENT_EVIDENCE"
      [] OTHER -> IF Fix(root, d, value) \in Peeled(rows, root, conversion)
                    THEN "ROOT_CAUSE" ELSE "ECHO"

------------------------------------------------------------------------------
(* When it began and what it costs. *)

\* scanIncidentOnset: one thick bucket makes it exact.
ScanIncidentOnset(rollups, cell, detection, expected) ==
  LET rows  == {row \in rollups : row.bucket \in detection - Lookback .. detection}
      walked == Walked(rows, cell, expected)
  IN [startedAt |-> IF walked = {} THEN detection ELSE Min(walked),
      exact |-> \E b \in walked : Thick(At(rows, b, cell)),
      evidenceBuckets |-> IF walked = {} THEN {detection} ELSE walked]

\* The approvals lost are those the interval's optimistic edge leaves, rounded: with
\* l of n lost, the edge lies below expected - (l - 1/2)/n.
LostApprovals(agg, expected) ==
  LET n == agg.attempts
      edge(l) == Reduced(2 * n * expected[1] - (2 * l - 1) * expected[2], 2 * n * expected[2])
  IN Max({0} \cup {l \in 1 .. n : Beyond(agg.approved, n, edge(l), -1)})

\* estimateImpact, also estimate_incident_impact's answer.
EstimateImpact(rollups, cell, expected, startedAt, now) ==
  LET agg == Aggregate({row \in rollups : row.bucket \in startedAt .. now}, cell) IN
    [durationMin |-> now - startedAt + 1, lostApprovals |-> LostApprovals(agg, expected)]

------------------------------------------------------------------------------
(* The trail of the deterministic search. *)

\* ratesBy: the values the dimension takes under a parent, and their rates.
RatesBy(rows, parent, d) ==
  [value \in {row[d] : row \in Under(rows, parent)} |->
     Rate(Aggregate(rows, Fix(parent, d, value)))]

DrillOrder == <<"providerId", "paymentMethod", "issuerId">>

\* buildTrail's drill-downs: one per dimension the cell fixes, in this order, or one
\* per dimension under the root if it fixes none.
BuildTrail(rows, cell) ==
  LET walked == SelectSeq(DrillOrder, LAMBDA d : cell = Root \/ d \in DOMAIN cell)
      parent(i) == [d \in {walked[j] : j \in 1 .. i - 1} \cap DOMAIN cell |-> cell[d]]
  IN [i \in DOMAIN walked |->
        [splitBy |-> walked[i], parent |-> parent(i), rates |-> RatesBy(rows, parent(i), walked[i])]]
==============================================================================

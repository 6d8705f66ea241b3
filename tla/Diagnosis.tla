------------------------------- MODULE Diagnosis ------------------------------
(***************************************************************************)
(* From one closed window to its diagnoses, under one merchant and country *)
(* (detect/trigger.ts, detect/tick.ts, diagnose/run.ts,                    *)
(* diagnose/peeling.ts).                                                   *)
(*                                                                         *)
(* The algorithms are deterministic; the steps of this specification are   *)
(* the iterations of runDiagnosis' loops.  Which of the window's drops     *)
(* have persisted, and so come in as signals, is left open.                *)
(***************************************************************************)
EXTENDS InvestigationTools

CONSTANTS Inputs,              \* [rollups, declines]: rows of the window and before
          Now,                 \* windowBucket
          ExpectedConversion,  \* the merchant's, a fraction
          ThinCellWindow,      \* THIN_CELL_WINDOW_MIN
          MaxSignals           \* bound: signals of a window

ASSUME DiagnosisAssumption ==
  /\ Now \in Nat /\ MaxSignals \in Nat \ {0}
  /\ ThinCellWindow \in Nat \ {0}

VARIABLES rollups,     \* history and window
          declines,
          signals,     \* the window's confirmed drops
          pc,
          search,      \* the peel under way
          peels,       \* the cells it has taken off
          waiting,     \* signals the rescue loop has yet to look at
          diagnoses

input == <<rollups, declines>>
vars  == <<input, signals, pc, search, peels, waiting, diagnoses>>

Window  == {row \in rollups : row.bucket = Now}
History == rollups \ Window

------------------------------------------------------------------------------
(* Detection: the three lenses, on the window. *)

Candidate(cell, expected, source) ==
  LET agg == Aggregate(Window, cell) IN
    [dimensions |-> cell, expected |-> expected, source |-> source,
     attempts |-> agg.attempts, approved |-> agg.approved, state |-> Evaluate(agg, expected)]

\* splitsOf, of a root where the method can be split: BR.
Splits == {<<Root, "providerId">>, <<Fix(Root, "paymentMethod", CARD), "issuerId">>,
           <<Root, "paymentMethod">>}

ChildValues(parent, d) ==
  LET present == {row[d] : row \in Under(Window, parent)} IN
    IF d = "issuerId" THEN present ELSE present \cap {c[d] : c \in Coverage}

AbsoluteTrigger == {Candidate(Root, ExpectedConversion, "absolute")}

CrossSectionalSweep ==
  UNION {LET values == ChildValues(s[1], s[2])
             expected(value) == CrossSectionalExpected(Window, s[1], s[2], value)
         IN IF Cardinality(values) < 2 THEN {}
            ELSE {Candidate(Fix(s[1], s[2], value), expected(value), "cross_sectional")
                  : value \in {v \in values : expected(v) # NoRate}}
         : s \in Splits}

TemporalSweep ==
  UNION {LET past(value) == Aggregate(History, Fix(s[1], s[2], value)) IN
           {Candidate(Fix(s[1], s[2], value), Rate(past(value)), "temporal")
            : value \in {v \in ChildValues(s[1], s[2]) :
                           past(v).attempts # 0 /\ Thick(past(v))}}
         : s \in Splits}

\* The cell's own past has the last word.
FaultPreferred(a, b) == b

\* preferred: of two readings of a cell, the sibling reading a, the temporal one b.
Preferred(a, b) ==
  IF a.state # b.state THEN IF a.state = "MATERIAL_DROP" THEN a ELSE b ELSE a

Dedupe(tested) ==
  {c \in tested : \A b \in tested :
     b.dimensions = c.dimensions /\ b # c
       => c = IF c.source = "temporal" THEN Preferred(b, c) ELSE Preferred(c, b)}

\* retry: a thin drop has to be one over the wider window too.
Retry(c) ==
  LET agg == Aggregate({row \in rollups : row.bucket > Now - ThinCellWindow}, c.dimensions) IN
    [c EXCEPT !.attempts = agg.attempts, !.approved = agg.approved,
              !.state = Evaluate(agg, c.expected)]

Drops ==
  LET down == {c \in Dedupe(AbsoluteTrigger \cup CrossSectionalSweep \cup TemporalSweep) :
                 c.state = "MATERIAL_DROP"}
  IN {c \in {IF Thick(d) THEN d ELSE Retry(d) : d \in down} :
        c.state = "MATERIAL_DROP" /\ Thick(c)}

\* runDetectionTick; the persistence that promotes a drop is Detector's.
Detect ==
  /\ pc = "detect"
  /\ \E S \in UNION {kSubset(n, Drops) : n \in 1 .. MaxSignals} :
       /\ signals' = S
       /\ waiting' = S
  /\ pc' = "peel"
  /\ search' = [cell |-> Root, expected |-> ExpectedConversion]
  /\ UNCHANGED <<input, peels, diagnoses>>

------------------------------------------------------------------------------
(* Diagnosis. *)

Compatible(a, b) == \A d \in DOMAIN a \cap DOMAIN b : a[d] = b[d]

\* confirmedDiagnosis.  counted is history: the window's rows behind its numbers.
ConfirmedDiagnosis(causal, candidates) ==
  [cell |-> causal.cell, confidence |-> "CONFIRMED", attempts |-> causal.attempts,
   explained |-> Explain(declines, causal.cell, Now),
   causalDimension |-> CausalDimension(causal.cell, Explain(declines, causal.cell, Now).attribution),
   onset |-> OnsetScan(rollups, causal.cell, Now, causal.expected), expected |-> causal.expected,
   impact |-> EstimateImpact(rollups, causal.cell, causal.expected,
                OnsetScan(rollups, causal.cell, Now, causal.expected).startedAt, Now),
   echoes |-> {e.cell : e \in SuppressedEchoes(Window, candidates, causal, peels)},
   counted |-> Under(Carve(Window, peels), causal.cell)]

\* rootSignal: the signal with the fewest dimensions, the earlier of two; its
\* numbers stand for the root's.
RootSignals ==
  {s \in signals : \A t \in signals :
     Cardinality(DOMAIN s.dimensions) <= Cardinality(DOMAIN t.dimensions)}

InconclusiveDiagnosis(signal) ==
  [cell |-> Root, confidence |-> "INCONCLUSIVE", attempts |-> signal.attempts,
   onset |-> OnsetScan(rollups, Root, Now, ExpectedConversion), expected |-> signal.expected,
   echoes |-> {}, counted |-> {},
   explained |-> [declineMix |-> NoCode, attribution |-> "none"], causalDimension |-> "none"]

\* The candidates of the next round of peel.
Found == BeamSearch(Window, search.cell, search.expected, peels)

\* One more cause is peeled off.
Peel ==
  /\ pc \in {"peel", "rescuing"}
  /\ Cardinality(peels) < MaxPeels
  /\ LET candidates == Found IN
       \E causal \in SelectCausal(candidates) :
         /\ peels' = peels \cup {causal.cell}
         /\ diagnoses' =
              IF \E d \in diagnoses : d.cell = causal.cell THEN diagnoses
              ELSE diagnoses \cup {ConfirmedDiagnosis(causal, candidates)}
  /\ UNCHANGED <<input, signals, pc, search, waiting>>

\* The residual is no drop any more, nothing in it separates, or the cap is reached.
PeelEnds ==
  /\ pc \in {"peel", "rescuing"}
  /\ Cardinality(peels) = MaxPeels \/ SelectCausal(Found) = {}
  /\ peels' = {}
  /\ \/ /\ pc = "peel" /\ diagnoses = {}
        /\ \E s \in RootSignals : diagnoses' = {InconclusiveDiagnosis(s)}
        /\ pc' = "done"
     \/ /\ pc = "rescuing" \/ diagnoses # {}
        /\ pc' = "rescue"
        /\ UNCHANGED diagnoses
  /\ UNCHANGED <<input, signals, search, waiting>>

\* Any narrow signal is drilled into.
FaultUnexplained(s) == DOMAIN s.dimensions # {}

\* A signal narrower than the root that no diagnosis so far is compatible with.
Unexplained(s) ==
  /\ DOMAIN s.dimensions # {}
  /\ \A d \in diagnoses : ~Compatible(s.dimensions, d.cell)

\* The rescue loop comes to the next signal: it is drilled into on its own, or
\* passed over.
Rescue ==
  /\ pc = "rescue"
  /\ \E s \in waiting :
       /\ waiting' = waiting \ {s}
       /\ \/ /\ Unexplained(s)
             /\ pc' = "rescuing"
             /\ search' = [cell |-> s.dimensions, expected |-> s.expected]
          \/ /\ ~Unexplained(s)
             /\ UNCHANGED <<pc, search>>
  /\ UNCHANGED <<input, signals, peels, diagnoses>>

Finish ==
  /\ pc = "rescue" /\ waiting = {}
  /\ pc' = "done"
  /\ UNCHANGED <<input, signals, search, peels, waiting, diagnoses>>

Init ==
  /\ \E given \in Inputs : rollups = given.rollups /\ declines = given.declines
  /\ signals = {} /\ waiting = {} /\ peels = {} /\ diagnoses = {}
  /\ search = [cell |-> Root, expected |-> ExpectedConversion]
  /\ pc = "detect"

Next == Detect \/ Peel \/ PeelEnds \/ Rescue \/ Finish

Spec == Init /\ [][Next]_vars

------------------------------------------------------------------------------
(* Properties. *)

\* No attempt of the window is counted for two causes, whether they were peeled
\* off the root or rescued from signals it had diluted (run.ts:222).
CausesShareNoAttempt ==
  \A a, b \in diagnoses : a # b => a.counted \cap b.counted = {}

\* The rows that fail, and whether they are the traffic of one cell.
Faulty   == {row \in Window : 2 * row.approved < row.attempts}
OneFault == \E D \in SUBSET FreeDimensions \ {{}} : \E cell \in [D -> 1 .. 3] :
              Faulty # {} /\ Under(Window, cell) = Faulty

\* A single fault, however many cells it drags down with it, is named for what it
\* is: one cause, whose traffic is the failing traffic (spec.md 7b).
OneFaultIsNamedExactly ==
  pc = "done" /\ OneFault =>
    \A x \in diagnoses :
      IF x.confidence = "CONFIRMED" THEN Under(Window, x.cell) = Faulty
      ELSE Residual(Window, Root, ExpectedConversion, {}).state # "MATERIAL_DROP"

\* The beam loses nothing: the cause chosen from it is the one a search without a
\* limit on its width would choose (constants.ts:1).
BeamIsWideEnough ==
  pc \in {"peel", "rescuing"} =>
    {c.cell : c \in SelectCausal(Found)} =
      {c.cell : c \in SelectCausal(Search(Window, search.cell, search.expected, peels, 1000))}

\* The lens on a cell's own past only adds drops: none that the lens on its
\* siblings sees is lost to it (tick.ts:19).
TemporalOnlyAdds ==
  LET seen == {c \in AbsoluteTrigger \cup CrossSectionalSweep : c.state = "MATERIAL_DROP" /\ Thick(c)}
  IN {c.dimensions : c \in seen} \subseteq {c.dimensions : c \in Drops}

\* The detector's walk back and the agent's tool agree on the minute whenever the
\* first calls it exact, and neither dates a drop outside the lookback
\* (onset-scan.ts:5, tools.ts:489).
OnsetsAgree ==
  \A x \in diagnoses :
    LET scanned == ScanIncidentOnset(rollups, x.cell, Now,
                     IF x.confidence = "CONFIRMED" THEN x.expected ELSE ExpectedConversion)
    IN /\ x.onset.startedAt \in Now - Lookback .. Now
       /\ scanned.startedAt <= x.onset.startedAt
       /\ x.onset.exact => scanned.exact /\ scanned.startedAt = x.onset.startedAt

\* What the agent's tools answer and what the evidence panel replays argues for a
\* single cause, and for no other: its slice reads as a drop; the residual test of
\* some step down to it, and of no other cell under the root, says root cause; each
\* drill-down shows the value it fixes at the worst rate (tools.ts:435, trail.ts:7,
\* coordinator.ts:111).
EvidenceArguesForTheCause ==
  pc = "done" /\ OneFault =>
    \A x \in {d \in diagnoses : d.confidence = "CONFIRMED"} :
      /\ QueryConversionSlice(Window, History, x.cell, ExpectedConversion).state = "MATERIAL_DROP"
      /\ \E d \in DOMAIN x.cell :
           RunResidualTest(Window, Without(x.cell, d), d, x.cell[d], ExpectedConversion) = "ROOT_CAUSE"
      /\ \A d \in FreeDimensions : \A value \in {row[d] : row \in Window} :
           RunResidualTest(Window, Root, d, value, ExpectedConversion) = "ROOT_CAUSE"
             => Fix(Root, d, value) = x.cell
      /\ \A step \in Range(BuildTrail(rollups, x.cell)) : \A value \in DOMAIN step.rates :
           LET fixed == step.rates[x.cell[step.splitBy]]
               other == step.rates[value]
           IN fixed[1] * other[2] <= other[1] * fixed[2]

\* The cost an executive reads is a floor: a cause that began with this window claims
\* no more lost approvals than the attempts its evidence counts fell short by
\* (cost.ts:30).
CostIsAFloor ==
  \A x \in diagnoses :
    x.confidence = "CONFIRMED" /\ x.impact.durationMin = 1 =>
      x.impact.lostApprovals * x.expected[2]
        <= Deficit(Aggregate(x.counted, Root), x.expected)

==============================================================================

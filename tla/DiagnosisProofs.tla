---------------------------- MODULE DiagnosisProofs ----------------------------
(***************************************************************************)
(* What the search for causes keeps for any window, catalog and width of   *)
(* the beam.  A cell the beam reaches extends the cell the search began    *)
(* with; that is why a rescued cause, which begins below a signal no       *)
(* earlier diagnosis is compatible with, shares no attempt with them, and  *)
(* a peeled one does not because its rows are those its predecessors left; *)
(* and that is why a signal that is drilled into is answered by whatever   *)
(* the drill finds.                                                        *)
(***************************************************************************)
EXTENDS Diagnosis, FiniteSetTheorems, WellFoundedInduction, TLAPS

------------------------------------------------------------------------------
(* Least numbers. *)

\* A nonempty set of numbers has a least one: induction over numbers, in the form
\* the provers can use.
LEMMA NatHasLeast ==
  ASSUME NEW T, T \subseteq Nat, T # {}
  PROVE  \E n \in T : \A m \in T : n <= m
<1> DEFINE F == {1 .. n : n \in T}
<1>1. \A n \in T : 1 .. n \subseteq Nat /\ IsFiniteSet(1 .. n)
  BY FS_Interval
<1>2. F \subseteq FiniteSubsetsOf(Nat) /\ F # {}
  BY <1>1 DEF FiniteSubsetsOf
<1>3. \E A \in F : \A B \in F : ~ (<<B, A>> \in StrictSubsetOrdering(Nat))
  <2> HIDE DEF F
  <2> QED BY <1>2, FS_StrictSubsetOrderingWellFounded, WFMin
<1>4. PICK n \in T : \A B \in F : B \subseteq 1 .. n => B = 1 .. n
  BY <1>2, <1>3 DEF StrictSubsetOrdering, FiniteSubsetsOf
<1>5. SUFFICES ASSUME NEW m \in T, m < n PROVE FALSE
  BY <1>4
<1>6. 1 .. m \in F /\ 1 .. m \subseteq 1 .. n /\ n \in 1 .. n /\ n \notin 1 .. m
  BY <1>5
<1> QED
  BY <1>4, <1>6

\* What Min picks from minutes of a window that reaches back to a.
LEMMA EarliestMinute ==
  ASSUME NEW a \in Int, NEW b \in Int, NEW S, S \subseteq a .. b, S # {}
  PROVE  Min(S) \in S /\ \A x \in S : Min(S) <= x
<1> DEFINE T == {x - a : x \in S}
<1>1. T \subseteq Nat /\ T # {}
  OBVIOUS
<1>2. PICK n \in T : \A m \in T : n <= m
  <2> HIDE DEF T
  <2> QED BY <1>1, NatHasLeast
<1>3. PICK y \in S : n = y - a
  OBVIOUS
<1>4. \A x \in S : y <= x
  <2> SUFFICES ASSUME NEW x \in S PROVE y <= x
    OBVIOUS
  <2>1. x - a \in T /\ x \in Int /\ y \in Int
    OBVIOUS
  <2>2. n <= x - a
    BY <1>2, <2>1
  <2> QED
    BY <1>3, <2>1, <2>2
<1> QED
  BY <1>4 DEF Min

------------------------------------------------------------------------------
(* When it began. *)

\* The detector's walk and the agent's tool read the same buckets.
LEMMA ScansAgree ==
  ASSUME NEW rows, NEW cell, NEW expected
  PROVE  LET onset   == OnsetScan(rows, cell, Now, expected)
             scanned == ScanIncidentOnset(rows, cell, Now, expected)
         IN /\ onset.startedAt \in Now - Lookback .. Now
            /\ scanned.startedAt <= onset.startedAt
            /\ onset.exact => scanned.exact /\ scanned.startedAt = onset.startedAt
<1> DEFINE near == {row \in rows : row.bucket \in Now - Lookback .. Now}
           walked == Walked(near, cell, expected)
           thick(b) == Thick(At(near, b, cell))
<1>1. Now \in Nat /\ Lookback \in Nat /\ Now - Lookback \in Int /\ Now \in Now - Lookback .. Now
  BY DiagnosisAssumption, RollupsAssumption
<1>2. walked \subseteq Now - Lookback .. Now
  BY DEF Walked, BucketsOf
<1>3. OnsetScan(rows, cell, Now, expected) =
        IF Cardinality(walked) < PersistenceWindows \/ walked = {}
          THEN [startedAt |-> Now, exact |-> FALSE]
          ELSE [startedAt |-> Min(walked), exact |-> \A b \in walked : thick(b)]
  BY Zenon DEF OnsetScan
<1>4. LET scanned == ScanIncidentOnset(rows, cell, Now, expected)
      IN /\ scanned.startedAt = IF walked = {} THEN Now ELSE Min(walked)
         /\ scanned.exact = \E b \in walked : thick(b)
  BY DEF ScanIncidentOnset
<1> HIDE DEF near, walked, thick
<1>5. ASSUME walked # {}
      PROVE  Min(walked) \in walked /\ Min(walked) \in Now - Lookback .. Now
  <2> DEFINE a == Now - Lookback
  <2>1. a \in Int /\ Now \in Int /\ walked \subseteq a .. Now
    BY <1>1, <1>2
  <2> HIDE DEF a
  <2>2. Min(walked) \in walked
    BY <2>1, <1>5, EarliestMinute
  <2> QED
    BY <1>2, <2>2
<1> QED
  BY <1>1, <1>3, <1>4, <1>5

------------------------------------------------------------------------------
(* The walk of the beam. *)

Extends(cell, root) ==
  /\ DOMAIN root \subseteq DOMAIN cell
  /\ \A d \in DOMAIN root : cell[d] = root[d]

LEMMA FixExtends ==
  ASSUME NEW root, NEW cell, Extends(cell, root), NEW d, d \notin DOMAIN cell, NEW value
  PROVE  Extends(Fix(cell, d, value), root)
<1>1. /\ DOMAIN Fix(cell, d, value) = DOMAIN cell \cup {d}
      /\ \A x \in DOMAIN cell : Fix(cell, d, value)[x] = cell[x]
  BY DEF Fix
<1> QED
  BY <1>1 DEF Extends

\* The candidate's numbers are those of its cell, of the rows the excluded left; and
\* it is called a drop only if they are one.
Genuine(c, rows, excluded) ==
  LET agg == Aggregate(Carve(rows, excluded), c.cell)
  IN c.attempts = agg.attempts /\ (c.drop => Evaluate(agg, c.expected) = "MATERIAL_DROP")

\* Every candidate of a level fixes one dimension more than some cell of the beam.
LEMMA LevelExtends ==
  ASSUME NEW rows, NEW root, NEW rootExpected, NEW excluded, NEW beam, NEW depth, NEW from,
         \A p \in beam : Extends(p.cell, from)
  PROVE  \A c \in Level(rows, root, rootExpected, excluded, beam, depth) :
           Extends(c.cell, from) /\ Genuine(c, rows, excluded)
<1> SUFFICES ASSUME NEW c \in Level(rows, root, rootExpected, excluded, beam, depth)
             PROVE  Extends(c.cell, from) /\ Genuine(c, rows, excluded)
  OBVIOUS
<1> DEFINE deficit == Residual(rows, root, rootExpected, excluded).deficit
           below(p) == Children(Carve(rows, excluded), p.cell)
           tested(p, ch) == Tested(rows, root, rootExpected, excluded, deficit, p.cell, ch, depth)
           found(p) == {tested(p, ch) : ch \in below(p)}
           first(b, p) == \A q \in beam \ {p} : Rank(q, p) =>
                            b.cell \notin {Fix(q.cell, ch[1], ch[2]) : ch \in below(q)}
<1>1. Level(rows, root, rootExpected, excluded, beam, depth)
        = UNION {{b \in found(p) : first(b, p)} : p \in beam}
  BY Zenon DEF Level
<1>2. \A p, ch : /\ tested(p, ch).cell = Fix(p.cell, ch[1], ch[2])
                 /\ Genuine(tested(p, ch), rows, excluded)
  <2> SUFFICES ASSUME NEW p, NEW ch
               PROVE  /\ tested(p, ch).cell = Fix(p.cell, ch[1], ch[2])
                      /\ Genuine(tested(p, ch), rows, excluded)
    OBVIOUS
  <2> DEFINE t == tested(p, ch)
             agg == Aggregate(Carve(rows, excluded), Fix(p.cell, ch[1], ch[2]))
  <2>1. t.cell = Fix(p.cell, ch[1], ch[2])
    BY DEF Tested
  <2>2. t.attempts = agg.attempts
    BY DEF Tested
  <2>3. t.drop = (Evaluate(agg, t.expected) = "MATERIAL_DROP")
    BY Zenon DEF Tested
  <2> HIDE DEF t
  <2> QED
    BY <2>1, <2>2, <2>3 DEF Genuine, t
<1> HIDE DEF tested, first
<1>3. PICK p \in beam : c \in found(p)
  <2> HIDE DEF found
  <2> QED BY <1>1
<1>4. PICK ch \in below(p) : c = tested(p, ch)
  BY <1>3
<1>5. c.cell = Fix(p.cell, ch[1], ch[2])
  BY <1>2, <1>4
<1>6. ch[1] \notin DOMAIN p.cell
  BY DEF Children
<1> QED
  BY <1>2, <1>4, <1>5, <1>6, FixExtends

\* w is the walk to depth n, as Search's recursion has it.
Walk(rows, root, rootExpected, excluded, width, w, n) ==
  w = [depth \in 0 .. n |->
         IF depth = 0 THEN Start(root)
         ELSE Deeper(rows, root, rootExpected, excluded, width, w[depth - 1], depth)]

\* There is one, to any depth.
LEMMA WalkExists ==
  ASSUME NEW rows, NEW root, NEW rootExpected, NEW excluded, NEW width, NEW n \in Nat
  PROVE  \E w : Walk(rows, root, rootExpected, excluded, width, w, n)
<1> DEFINE Is(w, k) == Walk(rows, root, rootExpected, excluded, width, w, k)
           Bad == {k \in Nat : ~ \E w : Is(w, k)}
           deeper(so, depth) == Deeper(rows, root, rootExpected, excluded, width, so, depth)
<1>1. SUFFICES ASSUME Bad # {} PROVE FALSE
  OBVIOUS
<1>2. PICK k \in Bad : \A m \in Bad : k <= m
  <2>1. Bad \subseteq Nat
    OBVIOUS
  <2> HIDE DEF Bad
  <2> QED BY <1>1, <2>1, NatHasLeast
<1>3. \A w, m : Is(w, m) <=>
        w = [depth \in 0 .. m |-> IF depth = 0 THEN Start(root) ELSE deeper(w[depth - 1], depth)]
  BY DEF Walk
<1> HIDE DEF Is, deeper
<1>4. CASE k = 0
  <2> DEFINE w == [depth \in 0 .. 0 |-> Start(root)]
  <2>1. w = [depth \in 0 .. 0 |-> IF depth = 0 THEN Start(root) ELSE deeper(w[depth - 1], depth)]
    OBVIOUS
  <2> HIDE DEF w
  <2> QED BY <1>2, <1>3, <1>4, <2>1
<1>5. CASE k > 0
  <2>1. k - 1 \in Nat /\ k - 1 \notin Bad
    BY <1>2, <1>5
  <2>2. PICK w : Is(w, k - 1)
    BY <2>1
  <2> DEFINE v == [depth \in 0 .. k |->
                     IF depth = 0 THEN Start(root) ELSE deeper(w[depth - 1], depth)]
  <2>3. \A depth \in 0 .. k - 1 : v[depth] = w[depth]
    BY <1>3, <2>1, <2>2
  <2>4. \A depth \in 0 .. k : depth # 0 => v[depth - 1] = w[depth - 1]
    <3> HIDE DEF v
    <3> QED BY <2>1, <2>3
  <2>5. v = [depth \in 0 .. k |-> IF depth = 0 THEN Start(root) ELSE deeper(v[depth - 1], depth)]
    BY <2>4
  <2> HIDE DEF v
  <2> QED BY <1>2, <1>3, <2>5
<1> QED
  BY <1>2, <1>4, <1>5

LEMMA WalkExtends ==
  ASSUME NEW rows, NEW root, NEW rootExpected, NEW excluded, NEW width, NEW n \in Nat,
         NEW w, Walk(rows, root, rootExpected, excluded, width, w, n)
  PROVE  \A k \in 0 .. n :
           /\ \A p \in w[k].beam : Extends(p.cell, root)
           /\ \A c \in w[k].found : Extends(c.cell, root) /\ c.drop /\ Genuine(c, rows, excluded)
<1> DEFINE Good(so) == /\ \A p \in so.beam : Extends(p.cell, root)
                       /\ \A c \in so.found :
                            Extends(c.cell, root) /\ c.drop /\ Genuine(c, rows, excluded)
           Bad == {k \in 0 .. n : ~Good(w[k])}
<1>1. SUFFICES ASSUME Bad # {} PROVE FALSE
  OBVIOUS
<1>2. PICK k \in Bad : \A m \in Bad : k <= m
  <2>1. Bad \subseteq Nat
    OBVIOUS
  <2> HIDE DEF Bad
  <2> QED BY <1>1, <2>1, NatHasLeast
<1>3. Good(Start(root))
  BY DEF Start, Extends
<1>4. k # 0
  BY <1>2, <1>3 DEF Walk
<1>5. k - 1 \in 0 .. n /\ Good(w[k - 1])
  <2>1. k - 1 \in 0 .. n /\ k - 1 \notin Bad
    BY <1>2, <1>4
  <2> QED BY <2>1
<1> DEFINE so == w[k - 1]
           level == Level(rows, root, rootExpected, excluded, so.beam, k)
<1>6. w[k] = Deeper(rows, root, rootExpected, excluded, width, so, k)
  BY <1>2, <1>4 DEF Walk
<1>7. \A c \in level : Extends(c.cell, root) /\ Genuine(c, rows, excluded)
  BY <1>5, LevelExtends
<1>8. /\ w[k].beam = NextBeam(level, width)
      /\ w[k].found = so.found \cup {c \in level : c.drop /\ c.explained > 0}
  BY <1>6 DEF Deeper
<1>9. NextBeam(level, width) \subseteq level
  BY DEF NextBeam
<1> HIDE DEF so, level
<1>10. Good(w[k])
  BY <1>5, <1>7, <1>8, <1>9 DEF so
<1> QED
  BY <1>2, <1>10

\* What the search admits extends the cell it began with, and is a drop.
LEMMA SearchExtends ==
  ASSUME NEW rows, NEW root, NEW rootExpected, NEW excluded, NEW width
  PROVE  \A c \in Search(rows, root, rootExpected, excluded, width) :
           Extends(c.cell, root) /\ c.drop /\ Genuine(c, rows, excluded)
<1> DEFINE Is(w) == w = [depth \in 0 .. MaxDepth |->
                           IF depth = 0 THEN Start(root)
                           ELSE Deeper(rows, root, rootExpected, excluded, width, w[depth - 1], depth)]
           walk == CHOOSE w : Is(w)
<1>1. MaxDepth \in Nat
  BY CauseSearchAssumption
<1>2. \A w : Is(w) <=> Walk(rows, root, rootExpected, excluded, width, w, MaxDepth)
  BY DEF Walk
<1> HIDE DEF Is
<1>3. Is(walk)
  BY <1>1, <1>2, WalkExists
<1>4. \A c \in walk[MaxDepth].found :
        Extends(c.cell, root) /\ c.drop /\ Genuine(c, rows, excluded)
  <2> HIDE DEF walk
  <2>1. MaxDepth \in 0 .. MaxDepth
    BY <1>1
  <2> QED BY <1>1, <1>2, <1>3, <2>1, WalkExtends
<1>5. Search(rows, root, rootExpected, excluded, width) \subseteq walk[MaxDepth].found
  BY Zenon DEF Search, Is
<1> QED
  BY <1>4, <1>5

\* The cause that is chosen is one of the candidates.
LEMMA ChosenIsFound ==
  ASSUME NEW causal \in SelectCausal(Found)
  PROVE  Extends(causal.cell, search.cell) /\ causal.drop /\ Genuine(causal, Window, peels)
<1>1. causal \in Found
  BY DEF SelectCausal
<1> QED
  BY <1>1, SearchExtends DEF Found, BeamSearch

------------------------------------------------------------------------------
(* The diagnoses. *)

\* What the rows behind a confirmed diagnosis say.
IsADrop(x) ==
  x.confidence = "CONFIRMED" =>
    /\ x.attempts = Aggregate(x.counted, Root).attempts
    /\ Evaluate(Aggregate(x.counted, Root), x.expected) = "MATERIAL_DROP"

Dated(x) ==
  x.onset = OnsetScan(rollups, x.cell, Now,
              IF x.confidence = "CONFIRMED" THEN x.expected ELSE ExpectedConversion)

\* Every cause so far is off the rows that are looked at, or lies beside the signal
\* that is drilled into.
Apart ==
  /\ pc = "detect"   => diagnoses = {}
  /\ pc = "peel"     => \A x \in diagnoses : x.cell \in peels
  /\ pc = "rescuing" => \A x \in diagnoses : x.cell \in peels \/ ~Compatible(search.cell, x.cell)

CausesInv ==
  /\ CausesShareNoAttempt /\ Apart
  /\ \A x \in diagnoses : x.counted \subseteq Under(Window, x.cell) /\ Dated(x) /\ IsADrop(x)

LEMMA CausesInit == Init => CausesInv
BY DEF Init, CausesInv, CausesShareNoAttempt, Apart

\* Reading a slice again reads all of it.
LEMMA SliceOfSlice ==
  ASSUME NEW rows, NEW cell
  PROVE  Aggregate(Under(rows, cell), Root) = Aggregate(rows, cell)
<1>1. Under(Under(rows, cell), Root) = Under(rows, cell)
  BY DEF Under, MatchesFilter, Root
<1> QED
  BY <1>1 DEF Aggregate

\* The new cause's rows are none of an earlier one's.
LEMMA NewCauseApart ==
  ASSUME CausesInv, pc \in {"peel", "rescuing"}, NEW causal, Extends(causal.cell, search.cell),
         NEW x \in diagnoses
  PROVE  x.counted \cap Under(Carve(Window, peels), causal.cell) = {}
<1> SUFFICES ASSUME NEW row \in x.counted, row \in Under(Carve(Window, peels), causal.cell)
             PROVE  FALSE
  OBVIOUS
<1>1. MatchesFilter(row, x.cell) /\ MatchesFilter(row, causal.cell)
      /\ \A c \in peels : ~MatchesFilter(row, c)
  BY DEF CausesInv, Under, Carve
<1>2. ~Compatible(search.cell, x.cell)
  BY <1>1 DEF CausesInv, Apart
<1>3. PICK d \in DOMAIN search.cell \cap DOMAIN x.cell : search.cell[d] # x.cell[d]
  BY <1>2 DEF Compatible
<1>4. row[d] = x.cell[d] /\ row[d] = search.cell[d]
  BY <1>1, <1>3 DEF MatchesFilter, Extends
<1> QED
  BY <1>3, <1>4

LEMMA PeelKeepsCauses ==
  ASSUME CausesInv, Peel
  PROVE  CausesInv'
<1>1. PICK causal \in SelectCausal(Found) :
        /\ peels' = peels \cup {causal.cell}
        /\ diagnoses' =
             IF \E d \in diagnoses : d.cell = causal.cell THEN diagnoses
             ELSE diagnoses \cup {ConfirmedDiagnosis(causal, Found)}
  BY DEF Peel
<1> DEFINE new == ConfirmedDiagnosis(causal, Found)
           kept == Carve(Window, peels)
<1>2. /\ pc \in {"peel", "rescuing"} /\ pc' = pc
      /\ rollups' = rollups /\ Window' = Window /\ search' = search
  BY DEF Peel, input, Window
<1>3. Extends(causal.cell, search.cell) /\ causal.drop /\ Genuine(causal, Window, peels)
  BY ChosenIsFound
<1>4. /\ new.cell = causal.cell /\ new.confidence = "CONFIRMED"
      /\ new.expected = causal.expected /\ new.attempts = causal.attempts
      /\ new.onset = OnsetScan(rollups, causal.cell, Now, causal.expected)
      /\ new.counted = Under(kept, causal.cell)
  BY DEF ConfirmedDiagnosis
<1> HIDE DEF new
<1>5. diagnoses' \subseteq diagnoses \cup {new}
  BY <1>1 DEF new
<1>6. CausesShareNoAttempt'
  <2>1. \A x \in diagnoses : x.counted \cap new.counted = {}
    BY <1>2, <1>3, <1>4, NewCauseApart
  <2> QED
    BY <1>5, <2>1 DEF CausesInv, CausesShareNoAttempt
<1>7. Apart'
  BY <1>1, <1>2, <1>4, <1>5 DEF CausesInv, Apart
<1>8. new.counted \subseteq Under(Window, new.cell)
  BY <1>4 DEF Under, Carve
<1>9. IsADrop(new)
  <2>1. Aggregate(new.counted, Root) = Aggregate(kept, causal.cell)
    BY <1>4, SliceOfSlice
  <2> QED
    BY <1>3, <1>4, <2>1 DEF IsADrop, Genuine
<1>10. Dated(new)
  BY <1>4 DEF Dated
<1>11. \A x \in diagnoses' :
         x.counted \subseteq Under(Window, x.cell) /\ Dated(x) /\ IsADrop(x)
  BY <1>5, <1>8, <1>9, <1>10 DEF CausesInv
<1> QED
  BY <1>2, <1>6, <1>7, <1>11 DEF CausesInv, Dated, IsADrop

LEMMA PeelEndsKeepsCauses ==
  ASSUME CausesInv, PeelEnds
  PROVE  CausesInv'
<1>1. rollups' = rollups /\ Window' = Window
  BY DEF PeelEnds, input, Window
<1>2. CASE pc' = "rescue" /\ UNCHANGED diagnoses
  BY <1>1, <1>2 DEF CausesInv, CausesShareNoAttempt, Apart, Dated, IsADrop
<1>3. CASE pc' = "done" /\ \E s \in RootSignals : diagnoses' = {InconclusiveDiagnosis(s)}
  <2>1. PICK s \in RootSignals : diagnoses' = {InconclusiveDiagnosis(s)}
    BY <1>3
  <2> DEFINE new == InconclusiveDiagnosis(s)
  <2>2. /\ new.counted = {} /\ new.cell = Root /\ new.confidence = "INCONCLUSIVE"
        /\ new.onset = OnsetScan(rollups, Root, Now, ExpectedConversion)
    BY DEF InconclusiveDiagnosis
  <2> HIDE DEF new
  <2>3. diagnoses' = {new}
    BY <2>1 DEF new
  <2>4. CausesShareNoAttempt' /\ Apart'
    BY <1>3, <2>3 DEF CausesShareNoAttempt, Apart
  <2>5. new.counted \subseteq Under(Window, new.cell) /\ Dated(new) /\ IsADrop(new)
    BY <2>2 DEF Dated, IsADrop
  <2> QED
    BY <1>1, <2>3, <2>4, <2>5 DEF CausesInv, Dated, IsADrop
<1> QED
  BY <1>2, <1>3 DEF PeelEnds

LEMMA RescueKeepsCauses ==
  ASSUME CausesInv, Rescue
  PROVE  CausesInv'
<1>1. rollups' = rollups /\ Window' = Window /\ diagnoses' = diagnoses /\ peels' = peels
  BY DEF Rescue, input, Window
<1>2. Apart'
  BY <1>1 DEF Rescue, Apart, Unexplained
<1> QED
  BY <1>1, <1>2 DEF CausesInv, CausesShareNoAttempt, Dated, IsADrop

LEMMA CausesStep == CausesInv /\ [Next]_vars => CausesInv'
<1> SUFFICES ASSUME CausesInv, [Next]_vars PROVE CausesInv'
  OBVIOUS
<1>1. CASE Peel
  BY <1>1, PeelKeepsCauses
<1>2. CASE PeelEnds
  BY <1>2, PeelEndsKeepsCauses
<1>3. CASE Rescue
  BY <1>3, RescueKeepsCauses
<1>4. CASE Detect
  BY <1>4 DEF Detect, CausesInv, CausesShareNoAttempt, Apart, Dated, IsADrop, input, Window
<1>5. CASE Finish
  BY <1>5 DEF Finish, CausesInv, CausesShareNoAttempt, Apart, Dated, IsADrop, input, Window
<1>6. CASE UNCHANGED vars
  BY <1>6 DEF CausesInv, CausesShareNoAttempt, Apart, Dated, IsADrop, vars, input, Window
<1> QED
  BY <1>1, <1>2, <1>3, <1>4, <1>5, <1>6 DEF Next

LEMMA CausesInvariant == Spec => []CausesInv
BY CausesInit, CausesStep, PTL DEF Spec

\* No attempt of a window is counted for two causes, whatever faults overlap in it:
\* a peeled cause is read on the rows its predecessors left, and a signal is rescued
\* only if no cause found so far is compatible with it, so that whatever the drill
\* finds below it lies beside them all (peeling.ts:29, run.ts:222).
THEOREM CausesNeverShareAnAttempt == Spec => []CausesShareNoAttempt
<1>1. CausesInv => CausesShareNoAttempt
  BY DEF CausesInv
<1> QED
  BY <1>1, CausesInvariant, PTL

\* The detector's walk back and the agent's tool agree on the minute whenever the
\* first calls it exact, and neither dates a drop outside the lookback, for any
\* rollups, thresholds and lookback (onset-scan.ts:5, tools.ts:489).
THEOREM OnsetsAlwaysAgree == Spec => []OnsetsAgree
<1>1. CausesInv => OnsetsAgree
  <2> SUFFICES ASSUME CausesInv, NEW x \in diagnoses
               PROVE  LET scanned == ScanIncidentOnset(rollups, x.cell, Now,
                            IF x.confidence = "CONFIRMED" THEN x.expected ELSE ExpectedConversion)
                      IN /\ x.onset.startedAt \in Now - Lookback .. Now
                         /\ scanned.startedAt <= x.onset.startedAt
                         /\ x.onset.exact => scanned.exact /\ scanned.startedAt = x.onset.startedAt
    BY DEF OnsetsAgree
  <2> DEFINE e == IF x.confidence = "CONFIRMED" THEN x.expected ELSE ExpectedConversion
  <2>1. x.onset = OnsetScan(rollups, x.cell, Now, e)
    BY DEF CausesInv, Dated
  <2> HIDE DEF e
  <2> QED
    BY <2>1, ScansAgree DEF e
<1> QED
  BY <1>1, CausesInvariant, PTL

\* What a confirmed diagnosis reports of a cause is what its rows say, without the
\* rows of the causes peeled before it: their attempts, and that they are a material
\* drop against the cause's siblings (beam-search.ts:110, run.ts:264).
THEOREM CausesAreDrops == Spec => [](\A x \in diagnoses : IsADrop(x))
<1>1. CausesInv => \A x \in diagnoses : IsADrop(x)
  BY DEF CausesInv
<1> QED
  BY <1>1, CausesInvariant, PTL

------------------------------------------------------------------------------
(* The signals. *)

\* Some diagnosis may be about the signal, or there is no cause under its own cell.
Answered(s) ==
  \/ ~Unexplained(s)
  \/ SelectCausal(BeamSearch(Window, s.dimensions, s.expected, {})) = {}

\* Is about to be: its own search has not peeled anything yet.
BeingDrilled(s) ==
  pc = "rescuing" /\ search.cell = s.dimensions /\ search.expected = s.expected /\ peels = {}

SignalsInv ==
  /\ pc \in {"detect", "peel"} => waiting = signals
  /\ pc = "rescue" => peels = {}
  /\ pc \in {"rescue", "rescuing", "done"} =>
       /\ diagnoses # {}
       /\ \A s \in signals : s \in waiting \/ Answered(s) \/ BeingDrilled(s)
  /\ pc = "done" => \A s \in signals : Answered(s)

\* Every signal of the window is answered for, whatever was peeled in between: a
\* run has a diagnosis to show, and a drop that was confirmed below the root is
\* compatible with one, unless the drill under it finds no cause (run.ts:222).
SignalsAreAnswered ==
  pc = "done" =>
    /\ diagnoses # {}
    /\ \A s \in signals : DOMAIN s.dimensions # {} =>
         \/ \E x \in diagnoses : Compatible(s.dimensions, x.cell)
         \/ SelectCausal(BeamSearch(Window, s.dimensions, s.expected, {})) = {}

LEMMA AnsweredStays ==
  ASSUME NEW s, Answered(s), Window' = Window, diagnoses \subseteq diagnoses'
  PROVE  Answered(s)'
BY DEF Answered, Unexplained

LEMMA PeelKeepsSignals ==
  ASSUME SignalsInv, Peel
  PROVE  SignalsInv'
<1>1. PICK causal \in SelectCausal(Found) :
        diagnoses' = IF \E d \in diagnoses : d.cell = causal.cell THEN diagnoses
                     ELSE diagnoses \cup {ConfirmedDiagnosis(causal, Found)}
  BY DEF Peel
<1>2. /\ pc \in {"peel", "rescuing"} /\ pc' = pc /\ signals' = signals /\ waiting' = waiting
      /\ rollups' = rollups /\ Window' = Window /\ diagnoses \subseteq diagnoses'
  BY <1>1 DEF Peel, input, Window
<1>3. \E d \in diagnoses' : d.cell = causal.cell
  <2>1. ConfirmedDiagnosis(causal, Found).cell = causal.cell
    BY DEF ConfirmedDiagnosis
  <2> QED
    BY <1>1, <2>1
<1>4. ASSUME NEW s, BeingDrilled(s)
      PROVE  Answered(s)'
  <2>1. Extends(causal.cell, s.dimensions)
    BY <1>4, ChosenIsFound DEF BeingDrilled
  <2>2. Compatible(s.dimensions, causal.cell)
    BY <2>1 DEF Extends, Compatible
  <2> QED
    BY <1>3, <2>2 DEF Answered, Unexplained
<1>5. ASSUME pc = "rescuing", NEW s \in signals, s \notin waiting
      PROVE  Answered(s)'
  BY <1>2, <1>4, <1>5, AnsweredStays DEF SignalsInv
<1> QED
  BY <1>2, <1>5 DEF SignalsInv

\* With nothing peeled yet, the peel ends only because there is no cause.
LEMMA PeelEndsKeepsSignals ==
  ASSUME SignalsInv, PeelEnds
  PROVE  SignalsInv'
<1>1. /\ pc \in {"peel", "rescuing"} /\ signals' = signals /\ waiting' = waiting
      /\ peels' = {} /\ Window' = Window
  BY DEF PeelEnds, input, Window
<1>2. CASE pc = "peel" /\ pc' = "done" /\ \E s \in RootSignals : diagnoses' = {InconclusiveDiagnosis(s)}
  <2>1. PICK x : diagnoses' = {x} /\ x.cell = Root
    <3>1. PICK s \in RootSignals : diagnoses' = {InconclusiveDiagnosis(s)}
      BY <1>2
    <3>2. InconclusiveDiagnosis(s).cell = Root
      BY DEF InconclusiveDiagnosis
    <3> QED
      BY <3>1, <3>2
  <2>2. \A s : ~Unexplained(s)'
    BY <2>1 DEF Unexplained, Compatible, Root
  <2> QED
    BY <1>1, <1>2, <2>1, <2>2 DEF SignalsInv, Answered
<1>3. CASE (pc = "rescuing" \/ diagnoses # {}) /\ pc' = "rescue" /\ UNCHANGED diagnoses
  <2>1. ASSUME NEW s, BeingDrilled(s)
        PROVE  Answered(s)
    <3>1. Cardinality(peels) = 0 /\ MaxPeels # 0
      BY <2>1, FS_EmptySet, InvestigationToolsAssumption DEF BeingDrilled
    <3>2. SelectCausal(Found) = {}
      BY <3>1 DEF PeelEnds
    <3> QED
      BY <2>1, <3>2 DEF BeingDrilled, Found, Answered
  <2>2. diagnoses' # {}
    BY <1>1, <1>3 DEF SignalsInv
  <2>3. ASSUME NEW s \in signals, s \notin waiting
        PROVE  Answered(s)'
    <3>1. Answered(s)
      BY <1>1, <2>1, <2>3 DEF SignalsInv
    <3> QED
      BY <1>1, <1>3, <3>1, AnsweredStays
  <2> QED
    BY <1>1, <1>3, <2>2, <2>3 DEF SignalsInv
<1> QED
  BY <1>2, <1>3 DEF PeelEnds

LEMMA RescueKeepsSignals ==
  ASSUME SignalsInv, Rescue
  PROVE  SignalsInv'
<1>1. PICK s \in waiting :
        /\ waiting' = waiting \ {s}
        /\ \/ /\ pc' = "rescuing"
              /\ search' = [cell |-> s.dimensions, expected |-> s.expected]
           \/ /\ ~Unexplained(s)
              /\ UNCHANGED <<pc, search>>
  BY DEF Rescue
<1>2. /\ pc = "rescue" /\ signals' = signals /\ peels' = peels /\ diagnoses' = diagnoses
      /\ Window' = Window
  BY DEF Rescue, input, Window
<1>3. peels = {} /\ diagnoses # {}
  BY <1>2 DEF SignalsInv
<1>4. \A r : Answered(r) => Answered(r)'
  BY <1>2, AnsweredStays
<1>5. Answered(s)' \/ BeingDrilled(s)'
  BY <1>1, <1>2, <1>3, <1>4 DEF Answered, BeingDrilled
<1>6. \A r \in signals : r \in waiting' \/ Answered(r)' \/ BeingDrilled(r)'
  BY <1>1, <1>2, <1>4, <1>5 DEF SignalsInv, BeingDrilled
<1> QED
  BY <1>1, <1>2, <1>3, <1>6 DEF SignalsInv

LEMMA SignalsStep == SignalsInv /\ [Next]_vars => SignalsInv'
<1> SUFFICES ASSUME SignalsInv, [Next]_vars PROVE SignalsInv'
  OBVIOUS
<1>1. CASE Detect
  BY <1>1 DEF Detect, SignalsInv
<1>2. CASE Finish
  <2>1. /\ pc = "rescue" /\ pc' = "done" /\ signals' = signals /\ diagnoses' = diagnoses
        /\ waiting = {} /\ Window' = Window
    BY <1>2 DEF Finish, input, Window
  <2>2. \A s \in signals : Answered(s)'
    BY <2>1, AnsweredStays DEF SignalsInv, BeingDrilled
  <2> QED
    BY <2>1, <2>2 DEF SignalsInv
<1>3. CASE UNCHANGED vars
  BY <1>3 DEF vars, input, SignalsInv, Answered, BeingDrilled, Unexplained, Window
<1> QED
  BY <1>1, <1>2, <1>3, PeelKeepsSignals, PeelEndsKeepsSignals, RescueKeepsSignals DEF Next

\* No confirmed drop goes without an answer, for any window and any bounds.
THEOREM EverySignalIsAnswered == Spec => []SignalsAreAnswered
<1>1. Init => SignalsInv
  BY DEF Init, SignalsInv
<1>2. SignalsInv => SignalsAreAnswered
  BY DEF SignalsInv, SignalsAreAnswered, Answered, Unexplained
<1> QED
  BY <1>1, <1>2, SignalsStep, PTL DEF Spec

------------------------------------------------------------------------------
(* The lenses. *)

LEMMA TemporalAdds == TemporalOnlyAdds
<1> DEFINE tested == AbsoluteTrigger \cup CrossSectionalSweep \cup TemporalSweep
<1> SUFFICES ASSUME NEW c \in AbsoluteTrigger \cup CrossSectionalSweep,
                    c.state = "MATERIAL_DROP", Thick(c)
             PROVE  \E e \in Drops : e.dimensions = c.dimensions
  BY DEF TemporalOnlyAdds
<1>1. \A cell, expected, source : Candidate(cell, expected, source).source = source
  BY DEF Candidate
<1>2. c.source # "temporal"
  BY <1>1 DEF AbsoluteTrigger, CrossSectionalSweep
<1>3. \A b : Preferred(c, b) = c
  BY DEF Preferred
<1>4. c \in Dedupe(tested)
  BY <1>2, <1>3 DEF Dedupe
<1>5. c \in Drops
  BY <1>4 DEF Drops
<1> QED
  BY <1>5

\* The lens on a cell's own past only adds drops: a reading against the siblings that
\* is a drop outlives the reading against the past, whatever that says, and a thick
\* one needs no second look (tick.ts:19).
THEOREM TemporalAlwaysOnlyAdds == Spec => []TemporalOnlyAdds
BY TemporalAdds, PTL
================================================================================

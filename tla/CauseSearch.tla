------------------------------ MODULE CauseSearch -----------------------------
(***************************************************************************)
(* The deterministic search for a cause under a root: the beam search over *)
(* the cells (diagnose/beam-search.ts), the choice among what it admits    *)
(* (diagnose/parsimony.ts) and the echoes of that choice                   *)
(* (diagnose/peeling.ts).                                                  *)
(***************************************************************************)
EXTENDS Rollups

CONSTANTS Coverage,    \* routing_coverage: [providerId, paymentMethod]
          BeamWidth,   \* BEAM_WIDTH
          MaxDepth     \* MAX_DEPTH

ASSUME CauseSearchAssumption == BeamWidth \in Nat \ {0} /\ MaxDepth \in Nat

\* Values are numbers in the order of their names.  PIX traffic has issuer NA.
CARD == 1
PIX  == 2
NA   == 0

------------------------------------------------------------------------------
\* cellKey's order: issuerId sorts before merchantId, the other two after it, and
\* a key that ends earlier comes first.
CellKey(cell) ==
  LET value(d) == IF d \in DOMAIN cell THEN cell[d] ELSE 0
      issuer   == IF "issuerId" \in DOMAIN cell THEN cell.issuerId ELSE 99
      method   == IF "paymentMethod" \notin DOMAIN cell /\ "providerId" \in DOMAIN cell
                    THEN 99 ELSE value("paymentMethod")
  IN 10000 * issuer + 100 * method + value("providerId")

\* The values a parent is split by: issuers only where all is card.
SplitValues(rows, parent, d) ==
  LET slice   == Under(rows, parent)
      present == {row[d] : row \in slice}
  IN IF d = "issuerId"
       THEN IF \E row \in slice : row.paymentMethod # CARD THEN {} ELSE present
       ELSE present \cap {c[d] : c \in Coverage}

Children(rows, parent) ==
  {ch \in UNION {{d} \X SplitValues(rows, parent, d) : d \in FreeDimensions \ DOMAIN parent} :
     CrossSectionalExpected(rows, parent, ch[1], ch[2]) # NoRate}

\* Lost approvals per attempt: a's against b's.
Denser(a, b) == a.explained * b.attempts > b.explained * a.attempts

Rank(a, b) ==
  \/ a.explained > b.explained
  \/ /\ a.explained = b.explained
     /\ \/ Denser(a, b)
        \/ ~Denser(b, a) /\ a.depth < b.depth
        \/ ~Denser(b, a) /\ a.depth = b.depth /\ CellKey(a.cell) < CellKey(b.cell)

\* A child of a parent, tested; deficit is what the root is short of.
Tested(rows, root, rootExpected, excluded, deficit, parent, ch, depth) ==
  LET kept     == Carve(rows, excluded)
      cell     == Fix(parent, ch[1], ch[2])
      agg      == Aggregate(kept, cell)
      expected == CrossSectionalExpected(kept, parent, ch[1], ch[2])
  IN [cell |-> cell, depth |-> depth, expected |-> expected,
      attempts |-> agg.attempts, approved |-> agg.approved,
      drop |-> Evaluate(agg, expected) = "MATERIAL_DROP",
      explained |-> deficit - Residual(rows, root, rootExpected, excluded \cup {cell}).deficit]

\* One level below a beam: a cell several parents lead to belongs to the first.
Level(rows, root, rootExpected, excluded, beam, depth) ==
  LET deficit    == Residual(rows, root, rootExpected, excluded).deficit
      below(p)   == Children(Carve(rows, excluded), p.cell)
      cellsOf(p) == {Fix(p.cell, ch[1], ch[2]) : ch \in below(p)}
      found(p)   == {Tested(rows, root, rootExpected, excluded, deficit, p.cell, ch, depth)
                     : ch \in below(p)}
  IN UNION {{c \in found(p) : \A q \in beam \ {p} : Rank(q, p) => c.cell \notin cellsOf(q)}
            : p \in beam}

\* The best children are carried forward on rank alone, admissible or not.  Rank is
\* total.
NextBeam(level, width) == {c \in level : Cardinality({b \in level : Rank(b, c)}) < width}

\* The beam under the root, and what was admitted so far.
Start(root) == [beam |-> {[cell |-> root]}, found |-> {}]

Deeper(rows, root, rootExpected, excluded, width, so, depth) ==
  LET level == Level(rows, root, rootExpected, excluded, so.beam, depth) IN
    [beam  |-> NextBeam(level, width),
     found |-> so.found \cup {c \in level : c.drop /\ c.explained > 0}]

\* beamSearch, of a given width: the admissible candidates.
Search(rows, root, rootExpected, excluded, width) ==
  LET walk[depth \in 0 .. MaxDepth] ==
        IF depth = 0 THEN Start(root)
        ELSE Deeper(rows, root, rootExpected, excluded, width, walk[depth - 1], depth)
  IN IF Residual(rows, root, rootExpected, excluded).state = "MATERIAL_DROP"
       THEN walk[MaxDepth].found
       ELSE {}

\* A greedy descent.
FaultBeamSearch(rows, root, rootExpected, excluded) ==
  Search(rows, root, rootExpected, excluded, 1)

BeamSearch(rows, root, rootExpected, excluded) ==
  Search(rows, root, rootExpected, excluded, BeamWidth)

\* Lost approvals decide before their density does.
FaultSelectCausal(candidates) ==
  LET largest == {c \in candidates : \A b \in candidates :
                    c.explained * 50 >= b.explained * 49}
  IN {c \in largest : \A b \in largest :
        b # c => \/ Cardinality(DOMAIN c.cell) < Cardinality(DOMAIN b.cell)
                 \/ /\ Cardinality(DOMAIN c.cell) = Cardinality(DOMAIN b.cell)
                    /\ CellKey(c.cell) < CellKey(b.cell)}

\* selectCausal: within two percent of the densest, then of the largest; then the
\* fewest dimensions.  At most one.
SelectCausal(candidates) ==
  LET densest == {c \in candidates : \A b \in candidates :
                    c.explained * b.attempts * 50 >= b.explained * c.attempts * 49}
      largest == {c \in densest : \A b \in densest : c.explained * 50 >= b.explained * 49}
  IN {c \in largest : \A b \in largest :
        b # c => \/ Cardinality(DOMAIN c.cell) < Cardinality(DOMAIN b.cell)
                 \/ /\ Cardinality(DOMAIN c.cell) = Cardinality(DOMAIN b.cell)
                    /\ CellKey(c.cell) < CellKey(b.cell)}

\* What peel suppresses beside a cause: what stops being a drop without it.
SuppressedEchoes(rows, candidates, causal, excluded) ==
  {c \in candidates \ {causal} :
     Residual(rows, c.cell, c.expected, excluded \cup {causal.cell}).state # "MATERIAL_DROP"}
==============================================================================

-------------------------------- MODULE Cells --------------------------------
(***************************************************************************)
(* The cell algebra of the control tower.  A cell is a partial assignment  *)
(* of values to payment dimensions (merchant, country, provider, method,   *)
(* issuer): a function whose DOMAIN is the set of dimensions it fixes.     *)
(* Every decision about incident identity is made with these operators     *)
(* (orchestrate/cell.ts, orchestrate/lifecycle.ts).                        *)
(***************************************************************************)
EXTENDS Naturals, FiniteSets

CONSTANTS Cells,    \* the cells a diagnosis can name
          RootDims  \* the dimensions every root fixes: merchant and country

\* A cell fixes finitely many dimensions (contracts' Dimensions has five).
ASSUME CellsAssumption == \A c \in Cells : IsFiniteSet(DOMAIN c)

\* Two cells agree on every dimension both name.
Compatible(left, right) ==
  \A d \in DOMAIN left \cap DOMAIN right : left[d] = right[d]

\* How many dimensions a cell fixes.
Specificity(cell) == Cardinality(DOMAIN cell)

\* Equality on every dimension either names.
SameCell(left, right) ==
  /\ DOMAIN left = DOMAIN right
  /\ \A d \in DOMAIN left : left[d] = right[d]

\* The cell names its merchant and its country.
Rooted(cell) == RootDims \subseteq DOMAIN cell

\* Both cells lie under one merchant and country.
SharesRoot(left, right) ==
  /\ Rooted(left) /\ Rooted(right)
  /\ \A d \in RootDims : left[d] = right[d]
==============================================================================

---------------------------- MODULE GeneratorProofs ----------------------------
(***************************************************************************)
(* What the traffic generator keeps for every catalog, rate and bound: the *)
(* merchants' shares of the traffic, the volume, and the sink's load.  The *)
(* first part is about sums over finite sets: induction is the choice of a *)
(* minimal counterexample, among subsets or numbers.                       *)
(***************************************************************************)
EXTENDS Generator, FiniteSetTheorems, WellFoundedInduction, TLAPS

------------------------------------------------------------------------------
(* Sums over finite sets. *)

\* A family of finite sets has a minimal one: induction over finite sets, in the form
\* the provers can use.
LEMMA FiniteHasMinimal ==
  ASSUME NEW S, NEW F, F \subseteq FiniteSubsetsOf(S), F # {}
  PROVE  \E A \in F : \A B \in F : B \subseteq A => B = A
<1>1. \E A \in F : \A B \in F : ~ (<<B, A>> \in StrictSubsetOrdering(S))
  BY FS_StrictSubsetOrderingWellFounded, WFMin
<1> QED
  BY <1>1 DEF StrictSubsetOrdering, FiniteSubsetsOf

\* The same for numbers.
LEMMA NatHasLeast ==
  ASSUME NEW T, T \subseteq Nat, T # {}
  PROVE  \E n \in T : \A m \in T : n <= m
<1> DEFINE F == {1 .. n : n \in T}
<1>1. \A n \in T : 1 .. n \subseteq Nat /\ IsFiniteSet(1 .. n)
  BY FS_Interval
<1>2. F \subseteq FiniteSubsetsOf(Nat) /\ F # {}
  BY <1>1 DEF FiniteSubsetsOf
<1>3. \E A \in F : \A B \in F : B \subseteq A => B = A
  <2> HIDE DEF F
  <2> QED BY <1>2, FiniteHasMinimal
<1>4. PICK n \in T : \A B \in F : B \subseteq 1 .. n => B = 1 .. n
  BY <1>3
<1>5. SUFFICES ASSUME NEW m \in T, m < n PROVE FALSE
  BY <1>4
<1>6. 1 .. m \in F /\ 1 .. m \subseteq 1 .. n /\ n \in 1 .. n /\ n \notin 1 .. m
  BY <1>5
<1> QED
  BY <1>4, <1>6

------------------------------------------------------------------------------
Pick(s) == CHOOSE x \in s : TRUE

\* g is what the fold's iteration computes over the subsets in D.
Sums(f, g, D) ==
  g = [s \in D |-> IF s = {} THEN 0 ELSE f[Pick(s)] + g[s \ {Pick(s)}]]

UpTo(S, n) == {s \in SUBSET S : Cardinality(s) <= n}

LEMMA SumsExistUpTo ==
  ASSUME NEW S, IsFiniteSet(S), NEW f \in [S -> Int], NEW n \in Nat
  PROVE  \E g \in [UpTo(S, n) -> Int] : Sums(f, g, UpTo(S, n))
<1> DEFINE Bad == {k \in Nat : ~ \E g \in [UpTo(S, k) -> Int] : Sums(f, g, UpTo(S, k))}
<1>1. SUFFICES ASSUME Bad # {} PROVE FALSE
  OBVIOUS
<1>2. PICK k \in Bad : \A m \in Bad : k <= m
  <2>1. Bad \subseteq Nat
    OBVIOUS
  <2> HIDE DEF Bad
  <2> QED BY <1>1, <2>1, NatHasLeast
<1>3. \A s \in SUBSET S : /\ IsFiniteSet(s) /\ Cardinality(s) \in Nat
                          /\ Cardinality(s) = 0 <=> s = {}
                          /\ s # {} => /\ Pick(s) \in s
                                       /\ Cardinality(s \ {Pick(s)}) = Cardinality(s) - 1
  <2> TAKE s \in SUBSET S
  <2>1. IsFiniteSet(s) /\ Cardinality(s) \in Nat
    BY FS_Subset, FS_CardinalityType
  <2>2. s # {} => Pick(s) \in s
    BY DEF Pick
  <2> QED
    BY <2>1, <2>2, FS_EmptySet, FS_RemoveElement
<1>4. CASE k = 0
  <2> DEFINE g == [s \in UpTo(S, 0) |-> 0]
  <2>1. \A s \in UpTo(S, 0) : s = {}
    <3> SUFFICES ASSUME NEW s \in UpTo(S, 0) PROVE s = {}
      OBVIOUS
    <3>1. s \in SUBSET S /\ Cardinality(s) <= 0
      BY DEF UpTo
    <3>2. Cardinality(s) \in Nat
      BY <3>1, <1>3
    <3>3. Cardinality(s) = 0
      BY <3>1, <3>2
    <3> QED
      BY <3>1, <3>3, <1>3
  <2>2. g \in [UpTo(S, 0) -> Int] /\ Sums(f, g, UpTo(S, 0))
    BY <2>1 DEF Sums
  <2> QED
    BY <1>4, <2>2
<1>5. CASE k > 0
  <2>1. k - 1 \in Nat /\ k - 1 \notin Bad
    BY <1>2, <1>5
  <2>2. PICK g \in [UpTo(S, k - 1) -> Int] : Sums(f, g, UpTo(S, k - 1))
    BY <2>1
  <2> DEFINE h == [s \in UpTo(S, k) |-> IF s = {} THEN 0 ELSE f[Pick(s)] + g[s \ {Pick(s)}]]
  <2>3. \A s \in UpTo(S, k) : s # {} => Pick(s) \in S /\ s \ {Pick(s)} \in UpTo(S, k - 1)
    <3> SUFFICES ASSUME NEW s \in UpTo(S, k), s # {}
                 PROVE  Pick(s) \in S /\ s \ {Pick(s)} \in UpTo(S, k - 1)
      OBVIOUS
    <3>1. s \in SUBSET S /\ Cardinality(s) <= k
      BY DEF UpTo
    <3> QED
      BY <3>1, <1>3, <1>5 DEF UpTo
  <2>4. \A s \in UpTo(S, k - 1) : s \in UpTo(S, k) /\ h[s] = g[s]
    <3> SUFFICES ASSUME NEW s \in UpTo(S, k - 1)
                 PROVE  s \in UpTo(S, k) /\ h[s] = g[s]
      OBVIOUS
    <3>1. s \in UpTo(S, k)
      <4>1. s \in SUBSET S /\ Cardinality(s) <= k - 1
        BY DEF UpTo
      <4>2. Cardinality(s) \in Nat /\ k \in Nat
        BY <4>1, <1>3, <1>2
      <4>3. Cardinality(s) <= k
        BY <4>1, <4>2
      <4> QED
        BY <4>1, <4>3 DEF UpTo
    <3>2. g[s] = IF s = {} THEN 0 ELSE f[Pick(s)] + g[s \ {Pick(s)}]
      BY <2>2 DEF Sums
    <3> QED
      BY <3>1, <3>2
  <2>5. h \in [UpTo(S, k) -> Int]
    BY <2>2, <2>3
  <2>6. Sums(f, h, UpTo(S, k))
    <3> SUFFICES \A s \in UpTo(S, k) : s # {} => h[s \ {Pick(s)}] = g[s \ {Pick(s)}]
      BY DEF Sums
    <3> HIDE DEF h
    <3> QED
      BY <2>3, <2>4
  <2> HIDE DEF h
  <2> QED
    BY <1>2, <2>5, <2>6
<1> QED
  BY <1>2, <1>4, <1>5

LEMMA SumsExist ==
  ASSUME NEW S, IsFiniteSet(S), NEW f \in [S -> Int]
  PROVE  \E g \in [SUBSET S -> Int] : Sums(f, g, SUBSET S)
<1>1. UpTo(S, Cardinality(S)) = SUBSET S /\ Cardinality(S) \in Nat
  BY FS_Subset, FS_CardinalityType DEF UpTo
<1>2. \E g \in [UpTo(S, Cardinality(S)) -> Int] : Sums(f, g, UpTo(S, Cardinality(S)))
  BY <1>1, SumsExistUpTo
<1> QED
  BY <1>1, <1>2

LEMMA SumsUnique ==
  ASSUME NEW S, IsFiniteSet(S), NEW f, NEW g, NEW h,
         Sums(f, g, SUBSET S), Sums(f, h, SUBSET S)
  PROVE  g = h
<1> DEFINE Bad == {s \in SUBSET S : g[s] # h[s]}
<1>1. SUFFICES ASSUME Bad # {} PROVE FALSE
  BY DEF Sums
<1>2. Bad \subseteq FiniteSubsetsOf(S)
  BY FS_Subset DEF FiniteSubsetsOf
<1>3. PICK s \in Bad : \A t \in Bad : t \subseteq s => t = s
  <2> HIDE DEF Bad
  <2> QED BY <1>1, <1>2, FiniteHasMinimal
<1>4. s # {}
  BY <1>3 DEF Sums
<1>5. Pick(s) \in s
  BY <1>4 DEF Pick
<1>6. s \ {Pick(s)} \notin Bad /\ s \ {Pick(s)} \in SUBSET S
  BY <1>3, <1>5
<1> QED
  BY <1>3, <1>4, <1>6 DEF Sums

------------------------------------------------------------------------------
\* The sum of f over the finite set S.
Total(f, S) == (CHOOSE g : Sums(f, g, SUBSET S))[S]

\* On a subset, and for a function that agrees there, the iteration is the same.
LEMMA TotalIs ==
  ASSUME NEW S, IsFiniteSet(S), NEW f, NEW h \in [S -> Int], NEW g,
         \A x \in S : f[x] = h[x],
         Sums(f, g, SUBSET S)
  PROVE  \A R \in SUBSET S : g[R] = Total(h, R) /\ Total(h, R) \in Int
<1> SUFFICES ASSUME NEW R \in SUBSET S PROVE g[R] = Total(h, R) /\ Total(h, R) \in Int
  OBVIOUS
<1>1. IsFiniteSet(R)
  BY FS_Subset
<1>2. [x \in R |-> h[x]] \in [R -> Int]
  OBVIOUS
<1>3. PICK k \in [SUBSET R -> Int] : Sums([x \in R |-> h[x]], k, SUBSET R)
  BY <1>1, <1>2, SumsExist
<1>4. \A s \in SUBSET R : s # {} => Pick(s) \in R
  BY DEF Pick
<1>5. Sums(h, k, SUBSET R)
  BY <1>3, <1>4 DEF Sums
<1> DEFINE gR == [s \in SUBSET R |-> g[s]]
<1>6. Sums(h, gR, SUBSET R)
  <2>1. \A s \in SUBSET R : g[s] = IF s = {} THEN 0 ELSE f[Pick(s)] + g[s \ {Pick(s)}]
    BY DEF Sums
  <2>2. \A s \in SUBSET R : s # {} =>
          /\ f[Pick(s)] = h[Pick(s)]
          /\ s \ {Pick(s)} \in SUBSET R
    BY <1>4
  <2>3. \A s \in SUBSET R : gR[s] = IF s = {} THEN 0 ELSE h[Pick(s)] + gR[s \ {Pick(s)}]
    <3> SUFFICES ASSUME NEW s \in SUBSET R, s # {}
                 PROVE  gR[s] = h[Pick(s)] + gR[s \ {Pick(s)}]
      BY <2>1
    <3>1. gR[s] = g[s] /\ gR[s \ {Pick(s)}] = g[s \ {Pick(s)}]
      BY <2>2
    <3> QED
      BY <3>1, <2>1, <2>2
  <2>4. gR = [s \in SUBSET R |-> gR[s]]
    OBVIOUS
  <2> HIDE DEF gR
  <2> QED
    BY <2>3, <2>4 DEF Sums
<1> DEFINE c == CHOOSE e : Sums(h, e, SUBSET R)
<1>7. Sums(h, c, SUBSET R)
  BY <1>5
<1>8. c = k /\ c = gR
  <2> HIDE DEF c, gR
  <2> QED BY <1>1, <1>5, <1>6, <1>7, SumsUnique
<1> QED
  BY <1>8 DEF Total

LEMMA TotalOf ==
  ASSUME NEW S, IsFiniteSet(S), NEW f \in [S -> Int], NEW g, Sums(f, g, SUBSET S)
  PROVE  g[S] = Total(f, S)
<1> DEFINE c == CHOOSE e : Sums(f, e, SUBSET S)
<1>1. Sums(f, c, SUBSET S)
  OBVIOUS
<1>2. c = g
  <2> HIDE DEF c
  <2> QED BY <1>1, SumsUnique
<1> QED
  BY <1>2 DEF Total

LEMMA TotalType ==
  ASSUME NEW S, IsFiniteSet(S), NEW f \in [S -> Int]
  PROVE  \A R \in SUBSET S : Total(f, R) \in Int
<1>1. PICK g \in [SUBSET S -> Int] : Sums(f, g, SUBSET S)
  BY SumsExist
<1> QED
  BY <1>1, TotalIs

\* What f is outside of the set does not matter.
LEMMA TotalAgrees ==
  ASSUME NEW S, IsFiniteSet(S), NEW f \in [S -> Int],
         NEW R \in SUBSET S, NEW h \in [R -> Int], \A x \in R : h[x] = f[x]
  PROVE  Total(f, R) = Total(h, R)
<1>1. PICK g \in [SUBSET R -> Int] : Sums(h, g, SUBSET R)
  BY FS_Subset, SumsExist
<1>2. \A s \in SUBSET R : s # {} => Pick(s) \in R
  BY DEF Pick
<1>3. Sums(f, g, SUBSET R)
  BY <1>1, <1>2 DEF Sums
<1> DEFINE c == CHOOSE e : Sums(f, e, SUBSET R)
<1>4. Sums(f, c, SUBSET R)
  BY <1>3
<1>5. c = g
  <2> HIDE DEF c
  <2> QED BY <1>3, <1>4, FS_Subset, SumsUnique
<1>6. g[R] = Total(h, R)
  BY <1>1, FS_Subset, TotalOf
<1> QED
  BY <1>5, <1>6 DEF Total

LEMMA TotalEmpty ==
  ASSUME NEW f
  PROVE  Total(f, {}) = 0
<1> DEFINE g == [s \in SUBSET {} |-> 0]
<1>1. Sums(f, g, SUBSET {})
  BY DEF Sums
<1> DEFINE c == CHOOSE e : Sums(f, e, SUBSET {})
<1>2. Sums(f, c, SUBSET {})
  BY <1>1
<1>3. c[{}] = 0
  <2> HIDE DEF c
  <2> QED BY <1>2 DEF Sums
<1> QED
  BY <1>3 DEF Total

\* The element the iteration takes first.
LEMMA TotalPick ==
  ASSUME NEW S, IsFiniteSet(S), NEW f \in [S -> Int]
  PROVE  \A R \in SUBSET S : R # {} =>
           /\ Pick(R) \in R
           /\ Total(f, R) = f[Pick(R)] + Total(f, R \ {Pick(R)})
<1>1. PICK g \in [SUBSET S -> Int] : Sums(f, g, SUBSET S)
  BY SumsExist
<1>2. \A R \in SUBSET S : g[R] = Total(f, R)
  BY <1>1, TotalIs
<1>3. \A R \in SUBSET S : R # {} => g[R] = f[Pick(R)] + g[R \ {Pick(R)}]
  BY <1>1 DEF Sums
<1>4. \A R \in SUBSET S : R # {} => Pick(R) \in R
  BY DEF Pick
<1> QED
  BY <1>2, <1>3, <1>4

\* Any element may be taken first.
LEMMA TotalTake ==
  ASSUME NEW S, IsFiniteSet(S), NEW f \in [S -> Int]
  PROVE  \A R \in SUBSET S : \A x \in R : Total(f, R) = f[x] + Total(f, R \ {x})
<1> DEFINE Bad == {R \in SUBSET S : \E x \in R : Total(f, R) # f[x] + Total(f, R \ {x})}
<1>1. SUFFICES ASSUME Bad # {} PROVE FALSE
  OBVIOUS
<1>2. Bad \subseteq FiniteSubsetsOf(S)
  BY FS_Subset DEF FiniteSubsetsOf
<1>3. PICK R \in Bad : \A T \in Bad : T \subseteq R => T = R
  <2> HIDE DEF Bad
  <2> QED BY <1>1, <1>2, FiniteHasMinimal
<1>4. PICK x \in R : Total(f, R) # f[x] + Total(f, R \ {x})
  OBVIOUS
<1> DEFINE y == Pick(R)
           A == R \ {x}
           B == R \ {y}
           C == R \ {x, y}
<1>5. y \in R /\ Total(f, R) = f[y] + Total(f, B)
  BY <1>4, TotalPick
<1>6. x # y
  BY <1>4, <1>5
<1>7. A \in SUBSET S /\ B \in SUBSET S /\ C \in SUBSET S /\ A \notin Bad /\ B \notin Bad
  BY <1>3, <1>4, <1>5
<1>8. A \ {y} = C /\ B \ {x} = C /\ y \in A /\ x \in B
  BY <1>4, <1>5, <1>6
<1>9. Total(f, A) = f[y] + Total(f, C) /\ Total(f, B) = f[x] + Total(f, C)
  BY <1>7, <1>8
<1>10. Total(f, C) \in Int /\ f[x] \in Int /\ f[y] \in Int
  BY <1>4, <1>5, <1>7, TotalType
<1> QED
  BY <1>4, <1>5, <1>9, <1>10

LEMMA TotalConstant ==
  ASSUME NEW S, IsFiniteSet(S), NEW f \in [S -> Int], NEW k \in Int, \A x \in S : f[x] = k
  PROVE  Total(f, S) = k * Cardinality(S)
<1> DEFINE Bad == {R \in SUBSET S : Total(f, R) # k * Cardinality(R)}
<1>1. SUFFICES ASSUME Bad # {} PROVE FALSE
  OBVIOUS
<1>2. Bad \subseteq FiniteSubsetsOf(S)
  BY FS_Subset DEF FiniteSubsetsOf
<1>3. PICK R \in Bad : \A T \in Bad : T \subseteq R => T = R
  <2> HIDE DEF Bad
  <2> QED BY <1>1, <1>2, FiniteHasMinimal
<1>4. IsFiniteSet(R)
  BY FS_Subset
<1>5. R # {}
  <2> SUFFICES ASSUME R = {} PROVE FALSE
    OBVIOUS
  <2>1. Total(f, R) = 0 /\ Cardinality(R) = 0
    BY TotalEmpty, FS_EmptySet
  <2>2. k * 0 = 0
    OBVIOUS
  <2> QED BY <2>1, <2>2
<1> DEFINE y == Pick(R)
           B == R \ {y}
<1>6. y \in R /\ Total(f, R) = f[y] + Total(f, B)
  BY <1>5, TotalPick
<1>7. B \notin Bad /\ B \in SUBSET S
  BY <1>3, <1>6
<1>8. Total(f, B) = k * Cardinality(B)
  BY <1>7
<1>9. Cardinality(R) \in Nat /\ Cardinality(B) = Cardinality(R) - 1
  BY <1>4, <1>6, FS_RemoveElement, FS_CardinalityType
<1> DEFINE n == Cardinality(R)
<1>10. k + k * (n - 1) = k * n
  <2>1. n \in Int
    BY <1>9
  <2> HIDE DEF n
  <2> QED BY <2>1
<1>11. f[y] = k /\ Total(f, R) # k * n
  BY <1>6
<1> QED
  BY <1>6, <1>8, <1>9, <1>10, <1>11

\* Disjoint parts add up.
LEMMA TotalUnion ==
  ASSUME NEW S, IsFiniteSet(S), NEW f \in [S -> Int], NEW P \in SUBSET S
  PROVE  \A Q \in SUBSET S : P \cap Q = {} => Total(f, P \cup Q) = Total(f, P) + Total(f, Q)
<1> DEFINE Bad == {Q \in SUBSET S : P \cap Q = {} /\ Total(f, P \cup Q) # Total(f, P) + Total(f, Q)}
<1>1. SUFFICES ASSUME Bad # {} PROVE FALSE
  OBVIOUS
<1>2. Bad \subseteq FiniteSubsetsOf(S)
  BY FS_Subset DEF FiniteSubsetsOf
<1>3. PICK Q \in Bad : \A T \in Bad : T \subseteq Q => T = Q
  <2> HIDE DEF Bad
  <2> QED BY <1>1, <1>2, FiniteHasMinimal
<1>4. Total(f, P) \in Int
  BY TotalType
<1>5. Q # {}
  <2> SUFFICES ASSUME Q = {} PROVE FALSE
    OBVIOUS
  <2>1. P \cup Q = P /\ Total(f, Q) = 0
    BY TotalEmpty
  <2> QED BY <2>1, <1>4
<1>6. PICK x \in Q : TRUE
  BY <1>5
<1> DEFINE B == Q \ {x}
<1>7. B \in SUBSET S /\ B \notin Bad /\ P \cap B = {}
  BY <1>3, <1>6
<1>8. Total(f, P \cup B) = Total(f, P) + Total(f, B)
  BY <1>7
<1>9. Total(f, Q) = f[x] + Total(f, B)
  BY <1>6, TotalTake
<1>10. (P \cup Q) \ {x} = P \cup B /\ P \cup Q \in SUBSET S /\ x \in P \cup Q
  BY <1>6
<1>11. Total(f, P \cup Q) = f[x] + Total(f, P \cup B)
  BY <1>10, TotalTake
<1>12. f[x] \in Int /\ Total(f, B) \in Int
  BY <1>6, <1>7, TotalType
<1> QED
  BY <1>4, <1>8, <1>9, <1>11, <1>12

------------------------------------------------------------------------------
(* The catalog. *)

RoutesOf(catalog, m) == {r \in catalog.routes : r.country = catalog.merchants[m].country}

CellOf(catalog, m, r, i) ==
  [merchantId |-> m, providerId |-> r.provider, country |-> r.country,
   paymentMethod |-> r.method, issuerId |-> i,
   traffic |-> catalog.merchants[m].weight * MethodTrafficMultiplier(r.method),
   units |-> WeightUnitsFor(catalog, RoutesOf(catalog, m))]

\* A cell is a merchant, a route of its country and an issuer of the route.
LEMMA CellsAre ==
  ASSUME NEW catalog
  PROVE  \A c : c \in BuildTransactionCells(catalog) <=>
           \E m \in DOMAIN catalog.merchants : \E r \in RoutesOf(catalog, m) :
             \E i \in IssuersOf(catalog, r) : c = CellOf(catalog, m, r, i)
<1> DEFINE OfRoute(m, r) == {CellOf(catalog, m, r, i) : i \in IssuersOf(catalog, r)}
           OfMerchant(m) == UNION {OfRoute(m, r) : r \in RoutesOf(catalog, m)}
<1>1. BuildTransactionCells(catalog) = UNION {OfMerchant(m) : m \in DOMAIN catalog.merchants}
  BY Zenon DEF BuildTransactionCells, RoutesOf, CellOf
<1> HIDE DEF OfMerchant
<1>2. \A m, c : c \in OfMerchant(m) <=>
        \E r \in RoutesOf(catalog, m) : c \in OfRoute(m, r)
  BY DEF OfMerchant
<1> QED
  BY <1>1, <1>2

\* The units of a route.
UnitsOf(catalog, r) == MethodTrafficMultiplier(r.method) * Cardinality(IssuersOf(catalog, r))

LEMMA IssuersAreFinite ==
  ASSUME NEW catalog \in Catalogs, NEW r
  PROVE  IsFiniteSet(IssuersOf(catalog, r)) /\ Cardinality(IssuersOf(catalog, r)) \in Nat
<1>1. CASE r.method = "PIX"
  <2>1. IssuersOf(catalog, r) = {"NA"}
    BY <1>1 DEF IssuersOf
  <2>2. IsFiniteSet({"NA"}) /\ Cardinality({"NA"}) \in Nat
    BY FS_AddElement, FS_EmptySet, FS_CardinalityType, FS_Singleton
  <2> QED
    BY <2>1, <2>2
<1>2. CASE r.method # "PIX"
  <2>1. IsFiniteSet(DOMAIN catalog.issuers)
    BY CatalogAssumption
  <2>2. IssuersOf(catalog, r) \subseteq DOMAIN catalog.issuers
    BY <1>2 DEF IssuersOf
  <2> QED
    BY <2>1, <2>2, FS_Subset, FS_CardinalityType
<1> QED
  BY <1>1, <1>2

LEMMA UnitsType ==
  ASSUME NEW catalog \in Catalogs, NEW r
  PROVE  UnitsOf(catalog, r) \in Nat /\ MethodTrafficMultiplier(r.method) \in Nat
BY IssuersAreFinite DEF UnitsOf, MethodTrafficMultiplier

\* weightUnitsFor is the sum of the routes' units.
LEMMA WeightUnitsAre ==
  ASSUME NEW catalog \in Catalogs, NEW R \in SUBSET catalog.routes
  PROVE  WeightUnitsFor(catalog, R) = Total([r \in R |-> UnitsOf(catalog, r)], R)
<1> DEFINE h == [r \in R |-> UnitsOf(catalog, r)]
<1>1. IsFiniteSet(R)
  BY CatalogAssumption, FS_Subset
<1>2. h \in [R -> Int]
  BY UnitsType
<1>3. PICK k \in [SUBSET R -> Int] : Sums(h, k, SUBSET R)
  <2> HIDE DEF h
  <2> QED BY <1>1, <1>2, SumsExist
<1>4. \A s \in SUBSET R : s # {} => Pick(s) \in R
  BY DEF Pick
<1> DEFINE Is(g) == g = [s \in SUBSET R |->
                         IF s = {} THEN 0
                         ELSE MethodTrafficMultiplier((CHOOSE x \in s : TRUE).method)
                                * Cardinality(IssuersOf(catalog, CHOOSE x \in s : TRUE))
                                + g[s \ {CHOOSE x \in s : TRUE}]]
           iter == CHOOSE g : Is(g)
<1>5. Is(k)
  BY <1>3, <1>4 DEF Sums, Pick, UnitsOf
<1>6. Is(iter)
  <2> HIDE DEF Is
  <2> QED BY <1>5
<1>7. Sums(h, iter, SUBSET R)
  <2> HIDE DEF iter
  <2> QED BY <1>6, <1>4 DEF Sums, Pick, UnitsOf
<1>8. WeightUnitsFor(catalog, R) = iter[R]
  BY DEF WeightUnitsFor, MapThenSumSet, MapThenFoldSet
<1>9. iter[R] = Total(h, R)
  <2> HIDE DEF h, iter
  <2> QED BY <1>1, <1>2, <1>7, TotalOf
<1> QED
  BY <1>8, <1>9

\* The cells of merchant m on route r, and on the routes in Q.
Part(catalog, m, r)  == {CellOf(catalog, m, r, i) : i \in IssuersOf(catalog, r)}
Parts(catalog, m, Q) == UNION {Part(catalog, m, r) : r \in Q}

\* A route has a cell per issuer.
LEMMA PartSize ==
  ASSUME NEW catalog \in Catalogs, NEW m, NEW r
  PROVE  /\ IsFiniteSet(Part(catalog, m, r))
         /\ Cardinality(Part(catalog, m, r)) = Cardinality(IssuersOf(catalog, r))
<1> DEFINE I == IssuersOf(catalog, r)
           P == Part(catalog, m, r)
           b == [i \in I |-> CellOf(catalog, m, r, i)]
<1>1. \A i, j \in I : CellOf(catalog, m, r, i) = CellOf(catalog, m, r, j) => i = j
  BY DEF CellOf
<1>2. b \in [I -> P] /\ \A i, j \in I : b[i] = b[j] => i = j
  BY <1>1 DEF Part
<1>3. \A c \in P : \E i \in I : b[i] = c
  BY DEF Part
<1>4. b \in Bijection(I, P)
  <2> HIDE DEF b, I, P
  <2> QED BY <1>2, <1>3 DEF Bijection, Injection, Surjection, IsInjective
<1>5. ExistsBijection(I, P)
  <2> HIDE DEF b, I, P
  <2> QED BY <1>4 DEF ExistsBijection
<1>6. IsFiniteSet(I)
  BY IssuersAreFinite
<1> QED
  BY <1>5, <1>6, FS_Bijection

LEMMA PartsAreFinite ==
  ASSUME NEW catalog \in Catalogs, NEW m, NEW R \in SUBSET catalog.routes
  PROVE  IsFiniteSet(Parts(catalog, m, R))
<1> DEFINE Bad == {Q \in SUBSET R : ~ IsFiniteSet(Parts(catalog, m, Q))}
<1>1. SUFFICES ASSUME Bad # {} PROVE FALSE
  OBVIOUS
<1>2. Bad \subseteq FiniteSubsetsOf(R)
  BY CatalogAssumption, FS_Subset DEF FiniteSubsetsOf
<1>3. PICK Q \in Bad : \A T \in Bad : T \subseteq Q => T = Q
  <2> HIDE DEF Bad
  <2> QED BY <1>1, <1>2, FiniteHasMinimal
<1>4. PICK r \in Q : TRUE
  <2>1. Parts(catalog, m, {}) = {}
    BY DEF Parts
  <2> QED BY <2>1, FS_EmptySet
<1>5. Q \ {r} \notin Bad /\ Q \ {r} \in SUBSET R
  BY <1>3, <1>4
<1>6. Parts(catalog, m, Q) = Parts(catalog, m, Q \ {r}) \cup Part(catalog, m, r)
  BY <1>4 DEF Parts
<1> QED
  BY <1>5, <1>6, PartSize, FS_Union

\* Two routes have no cell in common.
LEMMA PartsAreDisjoint ==
  ASSUME NEW catalog \in Catalogs, NEW m, NEW Q \in SUBSET catalog.routes,
         NEW r \in catalog.routes, r \notin Q
  PROVE  Parts(catalog, m, Q) \cap Part(catalog, m, r) = {}
<1> SUFFICES ASSUME NEW q \in Q, NEW i, NEW j,
                    CellOf(catalog, m, q, i) = CellOf(catalog, m, r, j)
             PROVE  FALSE
  BY DEF Parts, Part
<1>1. q.provider = r.provider /\ q.country = r.country /\ q.method = r.method
  BY DEF CellOf
<1> QED
  BY <1>1, CatalogAssumption

LEMMA TrafficOfParts ==
  ASSUME NEW catalog \in Catalogs, NEW m \in DOMAIN catalog.merchants,
         NEW R \in SUBSET catalog.routes, NEW f \in [Parts(catalog, m, R) -> Int],
         \A c \in Parts(catalog, m, R) : f[c] = c.traffic,
         NEW h, h = [r \in R |-> UnitsOf(catalog, r)]
  PROVE  Total(f, Parts(catalog, m, R)) = catalog.merchants[m].weight * Total(h, R)
<1> DEFINE w == catalog.merchants[m].weight
           P(Q) == Parts(catalog, m, Q)
           Bad == {Q \in SUBSET R : Total(f, P(Q)) # w * Total(h, Q)}
<1>1. SUFFICES ASSUME Bad # {} PROVE FALSE
  OBVIOUS
<1>2. IsFiniteSet(R) /\ IsFiniteSet(P(R)) /\ h \in [R -> Int] /\ w \in Nat /\ f \in [P(R) -> Int]
  BY CatalogAssumption, FS_Subset, PartsAreFinite, UnitsType
<1>3. Bad \subseteq FiniteSubsetsOf(R)
  BY <1>2, FS_Subset DEF FiniteSubsetsOf
<1>4. PICK Q \in Bad : \A T \in Bad : T \subseteq Q => T = Q
  <2> HIDE DEF Bad
  <2> QED BY <1>1, <1>3, FiniteHasMinimal
<1>5. PICK r \in Q : TRUE
  <2>1. P({}) = {}
    BY DEF Parts
  <2>2. Total(f, {}) = 0 /\ Total(h, {}) = 0 /\ w * 0 = 0
    BY <1>2, TotalEmpty
  <2> QED BY <2>1, <2>2
<1> DEFINE B == Q \ {r}
           p == Part(catalog, m, r)
<1>6. B \in SUBSET R /\ B \notin Bad /\ r \in R
  BY <1>4, <1>5
<1>7. P(Q) = P(B) \cup p /\ P(B) \in SUBSET P(R) /\ p \in SUBSET P(R) /\ P(B) \cap p = {}
  <2>1. P(Q) = P(B) \cup p /\ P(B) \in SUBSET P(R) /\ p \in SUBSET P(R)
    BY <1>5, <1>6 DEF Parts
  <2>2. P(B) \cap p = {}
    BY <1>6, PartsAreDisjoint
  <2> QED BY <2>1, <2>2
<1>8. Total(f, P(Q)) = Total(f, P(B)) + Total(f, p)
  <2> HIDE DEF P, p, B
  <2> QED BY <1>2, <1>7, TotalUnion
<1>9. Total(f, P(B)) = w * Total(h, B)
  BY <1>6
<1>10. Total(h, Q) = h[r] + Total(h, B)
  BY <1>2, <1>5, TotalTake
<1> DEFINE t == MethodTrafficMultiplier(r.method)
           n == Cardinality(IssuersOf(catalog, r))
<1>11. t \in Nat /\ n \in Nat /\ h[r] = t * n /\ Total(h, B) \in Int
  <2>1. t \in Nat /\ n \in Nat /\ h[r] = t * n
    BY <1>6, UnitsType, IssuersAreFinite DEF UnitsOf
  <2>2. Total(h, B) \in Int
    BY <1>2, <1>6, TotalType
  <2> QED BY <2>1, <2>2
<1>12. Total(f, p) = (w * t) * n
  <2> DEFINE k == w * t
             fp == [c \in p |-> f[c]]
  <2>1. \A c \in p : f[c] = k
    BY <1>7 DEF Part, CellOf
  <2>2. IsFiniteSet(p) /\ Cardinality(p) = n
    BY PartSize
  <2>3. k \in Int
    BY <1>2, <1>11
  <2> HIDE DEF k, p, n
  <2>4. fp \in [p -> Int] /\ \A c \in p : fp[c] = k
    BY <2>1, <2>3
  <2>5. Total(fp, p) = k * n
    <3> HIDE DEF fp
    <3> QED BY <2>2, <2>3, <2>4, TotalConstant
  <2>6. Total(f, p) = Total(fp, p)
    <3>1. \A c \in p : fp[c] = f[c]
      OBVIOUS
    <3> HIDE DEF P, fp
    <3> QED BY <1>2, <1>7, <2>4, <3>1, TotalAgrees
  <2> QED BY <2>5, <2>6 DEF k
<1>13. w * (t * n + Total(h, B)) = (w * t) * n + w * Total(h, B)
  <2> DEFINE x == Total(h, B)
  <2>1. x \in Int
    BY <1>11
  <2> HIDE DEF x, w, t, n
  <2> QED BY <1>2, <1>11, <2>1
<1>14. w * Total(h, B) \in Int /\ (w * t) * n \in Int
  BY <1>2, <1>11
<1>15. Total(f, P(Q)) = w * Total(h, Q)
  <2> HIDE DEF w, t, n, P, p, B
  <2> QED BY <1>8, <1>9, <1>10, <1>11, <1>12, <1>13, <1>14
<1> QED
  BY <1>4, <1>15

\* The sum TrafficFollowsWeights speaks of.
LEMMA TrafficIs ==
  ASSUME NEW own, IsFiniteSet(own), \A d \in own : d.traffic \in Int
  PROVE  MapThenSumSet(LAMBDA d : d.traffic, own) = Total([d \in own |-> d.traffic], own)
<1> DEFINE f == [d \in own |-> d.traffic]
           Is(g) == g = [s \in SUBSET own |->
                         IF s = {} THEN 0
                         ELSE (CHOOSE x \in s : TRUE).traffic + g[s \ {CHOOSE x \in s : TRUE}]]
           iter == CHOOSE g : Is(g)
<1>1. f \in [own -> Int]
  OBVIOUS
<1>2. PICK k \in [SUBSET own -> Int] : Sums(f, k, SUBSET own)
  <2> HIDE DEF f
  <2> QED BY <1>1, SumsExist
<1>3. \A s \in SUBSET own : s # {} => Pick(s) \in own
  BY DEF Pick
<1>4. Is(k)
  BY <1>2, <1>3 DEF Sums, Pick
<1>5. Is(iter)
  <2> HIDE DEF Is
  <2> QED BY <1>4
<1>6. Sums(f, iter, SUBSET own)
  <2> HIDE DEF iter
  <2> QED BY <1>5, <1>3 DEF Sums, Pick
<1>7. MapThenSumSet(LAMBDA d : d.traffic, own) = iter[own]
  BY DEF MapThenSumSet, MapThenFoldSet
<1>8. iter[own] = Total(f, own)
  <2> HIDE DEF f, iter
  <2> QED BY <1>1, <1>6, TotalOf
<1> QED
  BY <1>7, <1>8

LEMMA Proportion ==
  ASSUME NEW w \in Int, NEW u \in Int, NEW t \in Int
  PROVE  (w * u) * t = (w * t) * u
OBVIOUS

\* The cells of a catalog share the traffic as the weights say.
LEMMA CellsFollowWeights ==
  ASSUME NEW catalog \in Catalogs, Valid(catalog), cells = BuildTransactionCells(catalog)
  PROVE  TrafficFollowsWeights
<1> SUFFICES ASSUME NEW c \in cells
             PROVE  LET own == {d \in cells : d.merchantId = c.merchantId}
                    IN /\ MapThenSumSet(LAMBDA d : d.traffic, own)
                            * MethodTrafficMultiplier(c.paymentMethod) = c.traffic * c.units
                       /\ c.paymentMethod = "PIX" => c.country = "BR" /\ c.issuerId = "NA"
  BY DEF TrafficFollowsWeights
<1>1. PICK m \in DOMAIN catalog.merchants : \E r \in RoutesOf(catalog, m) :
        \E i \in IssuersOf(catalog, r) : c = CellOf(catalog, m, r, i)
  BY CellsAre
<1>2. PICK r \in RoutesOf(catalog, m) :
        \E i \in IssuersOf(catalog, r) : c = CellOf(catalog, m, r, i)
  BY <1>1
<1>3. PICK i \in IssuersOf(catalog, r) : c = CellOf(catalog, m, r, i)
  BY <1>2
<1> DEFINE R == RoutesOf(catalog, m)
           own == {d \in cells : d.merchantId = c.merchantId}
           f == [d \in own |-> d.traffic]
           h == [q \in R |-> UnitsOf(catalog, q)]
           w == catalog.merchants[m].weight
           t == MethodTrafficMultiplier(r.method)
<1>4. R \in SUBSET catalog.routes /\ r \in catalog.routes
  BY DEF RoutesOf
<1>5. own = Parts(catalog, m, R)
  <2>1. \A q : q \in cells /\ q.merchantId = m <=>
          \E x \in R : \E j \in IssuersOf(catalog, x) : q = CellOf(catalog, m, x, j)
    BY CellsAre DEF CellOf
  <2>2. c.merchantId = m
    BY <1>3 DEF CellOf
  <2> QED
    BY <2>1, <2>2 DEF Parts, Part
<1>6. IsFiniteSet(own)
  <2> HIDE DEF own, R
  <2> QED BY <1>4, <1>5, PartsAreFinite
<1>7. \A d \in own : d.traffic \in Int
  <2>1. \A q \in R : w * MethodTrafficMultiplier(q.method) \in Int
    BY CatalogAssumption, UnitsType
  <2> HIDE DEF own, R, w
  <2> QED BY <1>5, <2>1 DEF Parts, Part, CellOf, w
<1>8. MapThenSumSet(LAMBDA d : d.traffic, own) = Total(f, own)
  <2> HIDE DEF own
  <2> QED BY <1>6, <1>7, TrafficIs
<1>9. Total(f, own) = w * Total(h, R)
  <2>1. f \in [own -> Int] /\ \A d \in own : f[d] = d.traffic
    BY <1>7
  <2>2. h = [q \in R |-> UnitsOf(catalog, q)]
    OBVIOUS
  <2> HIDE DEF own, R, f, h, w
  <2> QED BY <1>4, <1>5, <2>1, <2>2, TrafficOfParts DEF w
<1>10. c.units = Total(h, R) /\ c.traffic = w * t /\ c.paymentMethod = r.method
       /\ c.country = r.country /\ c.issuerId = i
  BY <1>3, <1>4, WeightUnitsAre DEF CellOf
<1>11. w \in Int /\ t \in Int /\ Total(h, R) \in Int
  <2>1. w \in Int /\ t \in Int /\ h \in [R -> Int] /\ IsFiniteSet(R)
    BY <1>4, CatalogAssumption, UnitsType, FS_Subset
  <2>2. Total(h, R) \in Int
    <3> HIDE DEF h, R
    <3> QED BY <2>1, TotalType
  <2> QED BY <2>1, <2>2
<1>12. MapThenSumSet(LAMBDA d : d.traffic, own)
         * MethodTrafficMultiplier(c.paymentMethod) = c.traffic * c.units
  <2> HIDE DEF own, R, f, h, w
  <2> QED BY <1>8, <1>9, <1>10, <1>11, Proportion
<1>13. c.paymentMethod = "PIX" => c.country = "BR" /\ c.issuerId = "NA"
  BY <1>3, <1>4, <1>10 DEF Valid, IssuersOf
<1> QED
  BY <1>12, <1>13

CellsInv == \E catalog \in Catalogs : Valid(catalog) /\ cells = BuildTransactionCells(catalog)

\* A merchant's share of the traffic is its weight, whatever its routes and issuers,
\* and PIX gets three times what one issuer's cards get: the cells are computed once,
\* when the generator is created (catalog.ts:101-150).
THEOREM TrafficFollowsWeightsAlways == Spec => []TrafficFollowsWeights
<1>1. Init => CellsInv
  BY DEF Init, CellsInv
<1>2. CellsInv /\ [Next]_vars => CellsInv'
  BY DEF CellsInv, Next, Tick, Stop, Settle, Answer, Inject, Remove, vars
<1>3. CellsInv => TrafficFollowsWeights
  BY CellsFollowWeights DEF CellsInv
<1> QED
  BY <1>1, <1>2, <1>3, PTL DEF Spec

------------------------------------------------------------------------------
(* The emission loop. *)

\* What is in flight, batch by batch: a record of a batch that is settled already is
\* kept only while sink calls of it are unanswered, and only a batch in which an
\* event could not be made is settled before the last answer.
Types ==
  /\ due \in Int /\ attempted \in Nat
  /\ carry \in 0 .. MaxCarry * Unit
  /\ running \in BOOLEAN /\ flawed \in BOOLEAN
  /\ DOMAIN batches \subseteq 1 .. MaxBatches
  /\ batches \in [DOMAIN batches -> [left : 0 .. MaxCarry, failed : BOOLEAN, settled : BOOLEAN]]

\* Batches awaited.
Awaited == {b \in DOMAIN batches : ~batches[b].settled}

\* The guard is up exactly while a batch is awaited, and never more than one is.
OneAwaited ==
  /\ running <=> Awaited # {}
  /\ \A a, b \in Awaited : a = b

SettledAreLeft == \A b \in DOMAIN batches : batches[b].settled => batches[b].left > 0

\* Nothing failed so far.
Unspoilt == ~flawed => \A b \in DOMAIN batches : ~batches[b].failed /\ ~batches[b].settled

EmissionInv == Types /\ OneAwaited /\ SettledAreLeft /\ Unspoilt

LEMMA Quotient ==
  ASSUME NEW v \in Nat, v <= MaxCarry * Unit
  PROVE  /\ v \div Unit \in 0 .. MaxCarry
         /\ v - (v \div Unit) * Unit \in 0 .. MaxCarry * Unit
<1> DEFINE n == v \div Unit
<1>1. Unit \in Nat \ {0} /\ MaxCarry \in Nat
  BY GeneratorAssumption
<1>2. n \in Nat /\ Unit * n <= v /\ v < Unit * n + Unit
  BY <1>1
<1> HIDE DEF n
<1>3. n <= MaxCarry
  <2>1. SUFFICES ASSUME n >= MaxCarry + 1 PROVE FALSE
    BY <1>1, <1>2
  <2>2. Unit * n >= Unit * (MaxCarry + 1)
    BY <1>1, <1>2, <2>1
  <2>3. Unit * (MaxCarry + 1) = MaxCarry * Unit + Unit
    BY <1>1
  <2> QED BY <1>1, <1>2, <2>2, <2>3
<1>4. n * Unit = Unit * n
  BY <1>1, <1>2
<1>5. n * Unit \in Nat /\ MaxCarry * Unit \in Nat
  BY <1>1, <1>2
<1> QED
  BY <1>1, <1>2, <1>3, <1>4, <1>5 DEF n

\* The backlog is capped; what is cut off was more than the cap, so an event waits.
LEMMA Backlog ==
  ASSUME NEW rate \in Rates, carry \in 0 .. MaxCarry * Unit
  PROVE  /\ Accumulated(rate) \in 0 .. MaxCarry * Unit
         /\ rate \in Nat
         /\ Accumulated(rate) <= carry + rate
         /\ Accumulated(rate) < carry + rate => carry >= Unit
<1> DEFINE cap == MaxCarry * Unit
           below == (MaxCarry - 1) * Unit
           S == {carry + rate, cap}
<1>1. Unit \in Nat \ {0} /\ MaxCarry \in Nat \ {0} /\ rate \in 0 .. below
  BY GeneratorAssumption
<1>2. cap \in Nat /\ below = cap - Unit
  BY <1>1
<1> HIDE DEF cap, below
<1>3. rate \in Nat /\ carry \in Nat /\ carry <= cap /\ rate <= cap - Unit
  BY <1>1, <1>2 DEF cap
<1>4. \E x \in S : \A y \in S : x <= y
  BY <1>2, <1>3
<1>5. Min(S) \in S /\ \A y \in S : Min(S) <= y
  BY <1>4 DEF Min
<1>6. Min(S) = Accumulated(rate)
  BY DEF Accumulated, cap
<1> HIDE DEF S
<1>7. Accumulated(rate) \in 0 .. cap /\ Accumulated(rate) <= carry + rate
      /\ (Accumulated(rate) = carry + rate \/ Accumulated(rate) = cap)
  BY <1>2, <1>3, <1>5, <1>6 DEF S
<1> QED
  BY <1>1, <1>2, <1>3, <1>7 DEF cap

LEMMA EmissionInit == Init => EmissionInv
<1> SUFFICES ASSUME Init PROVE EmissionInv
  OBVIOUS
<1>1. DOMAIN batches = {} /\ batches = [b \in {} |-> 0]
  BY DEF Init
<1>2. 0 \in 0 .. MaxCarry * Unit
  <2>1. MaxCarry * Unit \in Nat
    BY GeneratorAssumption
  <2> QED BY <2>1
<1>3. Types
  <2>1. batches \in [DOMAIN batches -> [left : 0 .. MaxCarry, failed : BOOLEAN, settled : BOOLEAN]]
    BY <1>1
  <2>2. due \in Int /\ attempted \in Nat /\ carry \in 0 .. MaxCarry * Unit
        /\ running \in BOOLEAN /\ flawed \in BOOLEAN
    <3>1. due = 0 /\ attempted = 0 /\ carry = 0 /\ running = FALSE /\ flawed = FALSE
      BY DEF Init
    <3>2. carry \in 0 .. MaxCarry * Unit
      BY <1>2, <3>1
    <3>3. due \in Int /\ attempted \in Nat
      BY <3>1
    <3>4. running \in BOOLEAN /\ flawed \in BOOLEAN
      BY <3>1
    <3> QED
      BY <3>2, <3>3, <3>4
  <2> QED
    BY <1>1, <2>1, <2>2 DEF Types
<1>4. Awaited = {} /\ SettledAreLeft /\ Unspoilt
  BY <1>1 DEF Awaited, SettledAreLeft, Unspoilt
<1> QED
  BY <1>3, <1>4 DEF Init, EmissionInv, OneAwaited

\* A tick emits only when no batch is awaited.
LEMMA TickKeepsEmission ==
  ASSUME EmissionInv, Tick
  PROVE  EmissionInv'
<1> USE DEF EmissionInv
<1>1. PICK rate \in Rates :
        LET volume == Accumulated(rate)
            n      == volume \div Unit
        IN /\ due' = due + rate
           /\ \/ /\ Busy
                 /\ carry' = volume
                 /\ UNCHANGED <<running, batches, attempted, flawed>>
              \/ /\ ~Busy
                 /\ running' = TRUE
                 /\ carry' = Remainder(volume, n)
                 /\ attempted' = attempted + n
                 /\ \E k \in Failures(n), b \in (1 .. MaxBatches) \ DOMAIN batches :
                      /\ flawed' = (flawed \/ k > 0)
                      /\ batches' = [x \in DOMAIN batches \cup {b} |->
                           IF x = b THEN [left |-> n - k, failed |-> k > 0, settled |-> FALSE]
                                    ELSE batches[x]]
  BY DEF Tick
<1> DEFINE v == Accumulated(rate)
           n == v \div Unit
<1>2. v \in 0 .. MaxCarry * Unit /\ rate \in Nat /\ v \in Nat
  <2>1. v \in 0 .. MaxCarry * Unit /\ rate \in Nat
    BY Backlog DEF Types
  <2>2. MaxCarry * Unit \in Nat
    BY GeneratorAssumption
  <2> QED BY <2>1, <2>2
<1>3. n \in 0 .. MaxCarry /\ v - n * Unit \in 0 .. MaxCarry * Unit /\ n \in Nat /\ MaxCarry \in Nat
  <2>1. MaxCarry * Unit \in Nat /\ MaxCarry \in Nat
    BY GeneratorAssumption
  <2>2. v <= MaxCarry * Unit
    BY <1>2, <2>1
  <2>3. n \in 0 .. MaxCarry /\ v - n * Unit \in 0 .. MaxCarry * Unit
    BY <1>2, <2>2, Quotient
  <2> QED BY <2>1, <2>3
<1>4. CASE running
  <2>1. carry' = v /\ due' = due + rate /\ UNCHANGED <<running, batches, attempted, flawed>>
    BY <1>1, <1>4 DEF Busy
  <2>2. Types'
    BY <1>2, <2>1 DEF Types
  <2> QED
    BY <2>1, <2>2 DEF OneAwaited, Awaited, SettledAreLeft, Unspoilt
<1>5. CASE ~running
  <2>1. running' = TRUE /\ carry' = v - n * Unit /\ attempted' = attempted + n /\ due' = due + rate
    BY <1>1, <1>5 DEF Busy, Remainder
  <2>2. PICK k \in Failures(n), b \in (1 .. MaxBatches) \ DOMAIN batches :
          /\ flawed' = (flawed \/ k > 0)
          /\ batches' = [x \in DOMAIN batches \cup {b} |->
               IF x = b THEN [left |-> n - k, failed |-> k > 0, settled |-> FALSE]
                        ELSE batches[x]]
    BY <1>1, <1>5 DEF Busy
  <2>3. k \in 0 .. n /\ n - k \in 0 .. MaxCarry
    BY <1>3 DEF Failures
  <2>4. /\ DOMAIN batches' = DOMAIN batches \cup {b}
        /\ batches'[b] = [left |-> n - k, failed |-> k > 0, settled |-> FALSE]
        /\ \A x \in DOMAIN batches : batches'[x] = batches[x] /\ x # b
    BY <2>2
  <2> HIDE DEF n, v
  <2>5. Types'
    <3>1. DOMAIN batches' \subseteq 1 .. MaxBatches
      BY <2>4 DEF Types
    <3>2. flawed' \in BOOLEAN /\ attempted' \in Nat /\ due' \in Int /\ carry' \in 0 .. MaxCarry * Unit
      BY <2>1, <2>2, <2>3, <1>2, <1>3 DEF Types
    <3>3. [left |-> n - k, failed |-> k > 0, settled |-> FALSE]
            \in [left : 0 .. MaxCarry, failed : BOOLEAN, settled : BOOLEAN]
      BY <2>3
    <3>4. batches' \in [DOMAIN batches' -> [left : 0 .. MaxCarry, failed : BOOLEAN, settled : BOOLEAN]]
      BY <2>2, <3>3 DEF Types
    <3> QED
      BY <2>1, <3>1, <3>2, <3>4 DEF Types
  <2>6. Awaited = {}
    BY <1>5 DEF OneAwaited
  <2>7. Awaited' = {b}
    BY <2>4, <2>6 DEF Awaited
  <2>8. SettledAreLeft'
    BY <2>4 DEF SettledAreLeft
  <2>9. Unspoilt'
    BY <2>2, <2>3, <2>4 DEF Unspoilt, Types
  <2> QED
    BY <2>1, <2>5, <2>7, <2>8, <2>9 DEF OneAwaited
<1> QED
  BY <1>4, <1>5 DEF Types

\* A batch that settles takes the guard down.
LEMMA SettleKeepsEmission ==
  ASSUME EmissionInv, NEW b \in 1 .. MaxBatches, Settle(b)
  PROVE  EmissionInv'
<1> USE DEF EmissionInv
<1>1. /\ b \in DOMAIN batches /\ ~batches[b].settled
      /\ batches[b].left = 0 \/ batches[b].failed
      /\ running' = FALSE
      /\ UNCHANGED <<due, carry, attempted, flawed>>
  BY DEF Settle, Settles, Unsettled
<1>2. Awaited = {b}
  BY <1>1 DEF OneAwaited, Awaited
<1>3. CASE batches[b].left = 0
  <2>1. batches' = [x \in DOMAIN batches \ {b} |-> batches[x]]
    BY <1>3 DEF Settle
  <2>2. DOMAIN batches' = DOMAIN batches \ {b} /\ \A x \in DOMAIN batches' : batches'[x] = batches[x]
    BY <2>1
  <2>3. batches' \in [DOMAIN batches' -> [left : 0 .. MaxCarry, failed : BOOLEAN, settled : BOOLEAN]]
    BY <2>1 DEF Types
  <2>4. Types'
    BY <1>1, <2>2, <2>3 DEF Types
  <2>5. Awaited' = {}
    BY <1>2, <2>2 DEF Awaited
  <2> QED
    BY <1>1, <2>2, <2>4, <2>5 DEF OneAwaited, SettledAreLeft, Unspoilt
<1>4. CASE batches[b].left # 0
  <2>1. batches' = [batches EXCEPT ![b].settled = TRUE]
    BY <1>4 DEF Settle
  <2>2. /\ DOMAIN batches' = DOMAIN batches
        /\ \A x \in DOMAIN batches \ {b} : batches'[x] = batches[x]
        /\ batches'[b] = [left |-> batches[b].left, failed |-> batches[b].failed, settled |-> TRUE]
    BY <1>1, <2>1 DEF Types
  <2>3. batches' \in [DOMAIN batches' -> [left : 0 .. MaxCarry, failed : BOOLEAN, settled : BOOLEAN]]
    BY <1>1, <2>1 DEF Types
  <2>4. Types'
    BY <1>1, <2>2, <2>3 DEF Types
  <2>5. Awaited' = {}
    BY <1>2, <2>2 DEF Awaited
  <2>6. batches[b].left > 0
    BY <1>1, <1>4 DEF Types
  <2>7. SettledAreLeft'
    BY <2>2, <2>6 DEF SettledAreLeft
  <2>8. Unspoilt'
    BY <1>1, <1>4 DEF Unspoilt
  <2> QED
    BY <1>1, <2>4, <2>5, <2>7, <2>8 DEF OneAwaited
<1> QED
  BY <1>3, <1>4

\* An answer leaves what is awaited alone.
LEMMA AnswerKeepsEmission ==
  ASSUME EmissionInv, NEW b \in 1 .. MaxBatches, Answer(b)
  PROVE  EmissionInv'
<1> USE DEF EmissionInv
<1>1. /\ b \in DOMAIN batches /\ Unsettled = {}
      /\ UNCHANGED <<running, due, carry, attempted, flawed>>
  BY DEF Answer
<1>2. batches[b].left \in 1 .. MaxCarry
  <2>1. batches[b].left \in 0 .. MaxCarry /\ MaxCarry \in Nat
    BY <1>1, GeneratorAssumption DEF Types
  <2>2. batches[b].left # 0
    BY <1>1 DEF Unsettled, SettledAreLeft
  <2> QED
    BY <2>1, <2>2
<1>3. CASE batches[b].left = 1 /\ batches[b].settled
  <2>1. batches' = [x \in DOMAIN batches \ {b} |-> batches[x]]
    BY <1>3 DEF Answer
  <2>2. DOMAIN batches' = DOMAIN batches \ {b} /\ \A x \in DOMAIN batches' : batches'[x] = batches[x]
    BY <2>1
  <2>3. batches' \in [DOMAIN batches' -> [left : 0 .. MaxCarry, failed : BOOLEAN, settled : BOOLEAN]]
    BY <2>1 DEF Types
  <2>4. Types'
    BY <1>1, <2>2, <2>3 DEF Types
  <2>5. Awaited' = Awaited
    BY <1>3, <2>2 DEF Awaited
  <2> QED
    BY <1>1, <2>2, <2>4, <2>5 DEF OneAwaited, SettledAreLeft, Unspoilt
<1>4. CASE ~(batches[b].left = 1 /\ batches[b].settled)
  <2>1. batches' = [batches EXCEPT ![b].left = @ - 1]
    BY <1>4 DEF Answer
  <2>2. /\ DOMAIN batches' = DOMAIN batches
        /\ \A x \in DOMAIN batches \ {b} : batches'[x] = batches[x]
        /\ batches'[b] = [left |-> batches[b].left - 1, failed |-> batches[b].failed,
                          settled |-> batches[b].settled]
    BY <1>1, <2>1 DEF Types
  <2>3. batches[b].left - 1 \in 0 .. MaxCarry
    BY <1>2, GeneratorAssumption
  <2>4. batches'[b] \in [left : 0 .. MaxCarry, failed : BOOLEAN, settled : BOOLEAN]
    BY <1>1, <2>2, <2>3 DEF Types
  <2>5. batches' \in [DOMAIN batches' -> [left : 0 .. MaxCarry, failed : BOOLEAN, settled : BOOLEAN]]
    BY <2>1, <2>2, <2>4 DEF Types
  <2>6. Types'
    BY <1>1, <2>2, <2>5 DEF Types
  <2>7. Awaited' = Awaited
    BY <1>1, <2>2 DEF Awaited
  <2>8. batches'[b].settled => batches'[b].left > 0
    BY <1>2, <1>4, <2>2
  <2>9. SettledAreLeft'
    BY <2>2, <2>8 DEF SettledAreLeft
  <2>10. Unspoilt'
    BY <1>1, <2>2 DEF Unspoilt
  <2> QED
    BY <1>1, <2>6, <2>7, <2>9, <2>10 DEF OneAwaited
<1> QED
  BY <1>3, <1>4

LEMMA EmissionStep == EmissionInv /\ [Next]_vars => EmissionInv'
<1> SUFFICES ASSUME EmissionInv, [Next]_vars PROVE EmissionInv'
  OBVIOUS
<1>1. CASE Tick
  BY <1>1, TickKeepsEmission
<1>2. CASE \E b \in 1 .. MaxBatches : Settle(b)
  BY <1>2, SettleKeepsEmission
<1>3. CASE \E b \in 1 .. MaxBatches : Answer(b)
  BY <1>3, AnswerKeepsEmission
<1>4. CASE UNCHANGED <<due, carry, running, batches, attempted, flawed>>
  BY <1>4 DEF EmissionInv, Types, OneAwaited, Awaited, SettledAreLeft, Unspoilt
<1> QED
  BY <1>1, <1>2, <1>3, <1>4 DEF Next, Stop, Inject, Remove, vars

LEMMA EmissionInvariant == Spec => []EmissionInv
  BY EmissionInit, EmissionStep, PTL DEF Spec

\* The sum InFlightIsCapped speaks of.
LEMMA InFlightIs ==
  ASSUME EmissionInv
  PROVE  InFlight = Total([b \in DOMAIN batches |-> batches[b].left], DOMAIN batches)
<1> DEFINE D == DOMAIN batches
           f == [b \in D |-> batches[b].left]
           Is(g) == g = [s \in SUBSET D |->
                         IF s = {} THEN 0
                         ELSE batches[CHOOSE x \in s : TRUE].left + g[s \ {CHOOSE x \in s : TRUE}]]
           iter == CHOOSE g : Is(g)
<1>1. f \in [D -> Int]
  BY DEF EmissionInv, Types
<1>2. IsFiniteSet(D)
  <2>1. IsFiniteSet(1 .. MaxBatches)
    BY GeneratorAssumption, FS_Interval
  <2> QED BY <2>1, FS_Subset DEF EmissionInv, Types
<1>3. PICK k \in [SUBSET D -> Int] : Sums(f, k, SUBSET D)
  <2> HIDE DEF f, D
  <2> QED BY <1>1, <1>2, SumsExist
<1>4. \A s \in SUBSET D : s # {} => Pick(s) \in D
  BY DEF Pick
<1>5. Is(k)
  BY <1>3, <1>4 DEF Sums, Pick
<1>6. Is(iter)
  <2> HIDE DEF Is
  <2> QED BY <1>5
<1>7. Sums(f, iter, SUBSET D)
  <2> HIDE DEF iter
  <2> QED BY <1>6, <1>4 DEF Sums, Pick
<1>8. InFlight = iter[D]
  BY DEF InFlight, MapThenSumSet, MapThenFoldSet
<1>9. iter[D] = Total(f, D)
  <2> HIDE DEF f, iter, D
  <2> QED BY <1>1, <1>2, <1>7, TotalOf
<1> QED
  BY <1>8, <1>9

\* However slow the sink is, it never has more than the capped backlog to answer at
\* once, unless an event could not be made: running (engine.ts:76) lets no second
\* batch start before the first is settled, and an unspoilt batch is settled by its
\* last answer.
THEOREM InFlightIsCappedAlways == Spec => []InFlightIsCapped
<1>1. EmissionInv => InFlightIsCapped
  <2> SUFFICES ASSUME EmissionInv, ~flawed PROVE InFlight <= MaxCarry
    BY DEF InFlightIsCapped
  <2> DEFINE D == DOMAIN batches
             f == [b \in D |-> batches[b].left]
  <2>1. InFlight = Total(f, D)
    BY InFlightIs
  <2>2. f \in [D -> Int] /\ MaxCarry \in Nat
    BY GeneratorAssumption DEF EmissionInv, Types
  <2>3. CASE D = {}
    <3>1. Total(f, D) = 0
      BY <2>3, TotalEmpty
    <3> QED BY <2>1, <2>2, <3>1
  <2>4. CASE D # {}
    <3>1. PICK b \in D : TRUE
      BY <2>4
    <3>2. D = {b}
      BY <3>1 DEF EmissionInv, Unspoilt, OneAwaited, Awaited
    <3>3. IsFiniteSet(D) /\ D \ {b} = {} /\ D \in SUBSET D
      BY <3>2, FS_Singleton
    <3>4. Total(f, D) = f[b] + Total(f, D \ {b})
      <4> HIDE DEF f, D
      <4> QED BY <2>2, <3>1, <3>3, TotalTake
    <3>5. Total(f, D \ {b}) = 0
      BY <3>3, TotalEmpty
    <3>6. f[b] \in 0 .. MaxCarry
      BY <3>1 DEF EmissionInv, Types
    <3> QED BY <2>1, <2>2, <3>4, <3>5, <3>6
  <2> QED BY <2>3, <2>4
<1> QED
  BY <1>1, EmissionInvariant, PTL

\* Volume is shed only when whole events already wait behind a slow batch, and what
\* was shed is not emitted later: the cap cuts the backlog, and only there
\* (engine.ts:91).
THEOREM VolumeIsKeptAlways == Spec => VolumeIsKept
<1>1. EmissionInv /\ [Next]_vars => Lost' >= Lost /\ (Lost' > Lost => carry >= Unit)
  <2> SUFFICES ASSUME EmissionInv, [Next]_vars
               PROVE  Lost' >= Lost /\ (Lost' > Lost => carry >= Unit)
    OBVIOUS
  <2>1. due \in Int /\ attempted \in Nat /\ carry \in Int /\ Unit \in Nat
        /\ carry \in 0 .. MaxCarry * Unit /\ MaxCarry * Unit \in Nat
    BY GeneratorAssumption DEF EmissionInv, Types
  <2>2. CASE Tick
    <3>1. PICK rate \in Rates :
            LET volume == Accumulated(rate)
                n      == volume \div Unit
            IN /\ due' = due + rate
               /\ \/ carry' = volume /\ attempted' = attempted
                  \/ carry' = volume - n * Unit /\ attempted' = attempted + n
      BY <2>2 DEF Tick, Remainder
    <3> DEFINE v == Accumulated(rate)
               n == v \div Unit
    <3>2. v \in 0 .. MaxCarry * Unit /\ rate \in Nat /\ v <= carry + rate
          /\ (v < carry + rate => carry >= Unit)
      BY <2>1, Backlog
    <3>3. v \in Nat /\ v <= MaxCarry * Unit
      BY <2>1, <3>2
    <3>4. n \in Nat
      <4>1. n \in 0 .. MaxCarry
        BY <3>3, Quotient
      <4> QED BY <4>1, GeneratorAssumption
    <3>5. /\ due' = due + rate
          /\ \/ carry' = v /\ attempted' = attempted
             \/ carry' = v - n * Unit /\ attempted' = attempted + n
      BY <3>1
    <3> HIDE DEF v, n
    <3>6. (attempted + n) * Unit = attempted * Unit + n * Unit
          /\ n * Unit \in Int /\ attempted * Unit \in Int
      BY <2>1, <3>4
    <3>7. Lost' - Lost = (carry + rate) - v /\ Lost \in Int /\ Lost' \in Int
      BY <2>1, <3>2, <3>3, <3>5, <3>6 DEF Lost
    <3>8. carry \in Int /\ rate \in Int /\ v \in Int /\ v <= carry + rate
      BY <2>1, <3>2, <3>3
    <3> DEFINE p == due - attempted * Unit - carry
               q == due' - attempted' * Unit - carry'
               s == carry + rate
    <3>9. p \in Int /\ q \in Int /\ s \in Int /\ v \in Int /\ q - p = s - v /\ v <= s
      BY <3>7, <3>8 DEF Lost
    <3>10. q >= p /\ (q > p => v < s)
      <4> HIDE DEF p, q, s
      <4> QED BY <3>9
    <3> QED
      BY <3>2, <3>10 DEF Lost
  <2>3. CASE UNCHANGED <<due, attempted, carry>>
    <3>1. Lost' = Lost /\ Lost \in Int
      BY <2>1, <2>3 DEF Lost
    <3> QED BY <3>1
  <2> QED
    BY <2>2, <2>3 DEF Next, Stop, Settle, Answer, Inject, Remove, vars
<1> QED
  BY <1>1, EmissionInvariant, PTL DEF Spec, VolumeIsKept

\* The guard is up exactly while one batch is awaited: it is never left up with
\* nothing to take it down, so emission can always go on once the batch is settled
\* (engine.ts:126).
THEOREM GuardMeansAwaited == Spec => []OneAwaited
<1>1. EmissionInv => OneAwaited
  BY DEF EmissionInv
<1> QED
  BY <1>1, EmissionInvariant, PTL
================================================================================

------------------------- MODULE ConsensusADMM_proofs -------------------------
(***************************************************************************)
(* The duals of the consensus ADMM stay balanced, for any number of        *)
(* slices and coordinates and whatever `descent` computes from the data,   *)
(* as long as it computes integer vectors from integer vectors.            *)
(***************************************************************************)
EXTENDS ConsensusADMM, FiniteSetTheorems, TLAPS

DescentOnVectors ==
  \A d \in Sample, a, b, v \in Vector : descent(d, a, b, v) \in Vector

-----------------------------------------------------------------------------
(* Sums of integers over finite sets: the recursive function behind        *)
(* SumFunction exists, and a sum is an integer and linear.  Each fact is   *)
(* shown from a smallest set it might fail for.                            *)

LEMMA MinimalSubset ==
  ASSUME NEW S, IsFiniteSet(S), NEW B, B \subseteq SUBSET S, B # {}
  PROVE  \E T \in B : \A U \in B : U \subseteq T => U = T
<1>1. B \subseteq FiniteSubsetsOf(S)
  BY FS_Subset DEF FiniteSubsetsOf
<1>2. IsWellFoundedOn(StrictSubsetOrdering(S), FiniteSubsetsOf(S))
  BY FS_StrictSubsetOrderingWellFounded
<1>3. PICK T \in B : \A U \in B : ~(<<U, T>> \in StrictSubsetOrdering(S))
  BY <1>1, <1>2, WFMin, Zenon
<1> QED  BY <1>3 DEF StrictSubsetOrdering

-----------------------------------------------------------------------------
(* The partial sums of f: g[T] is the sum of f over T.                     *)
Pick(T) == CHOOSE t \in T : TRUE
Sums(g, f, S) ==
  g = [T \in SUBSET S |-> IF T = {} THEN 0 ELSE f[Pick(T)] + g[T \ {Pick(T)}]]

LEMMA PickFact == \A T : T # {} => Pick(T) \in T
BY DEF Pick

LEMMA SumsFact ==
  ASSUME NEW S, NEW f, NEW g, Sums(g, f, S), NEW T \in SUBSET S
  PROVE  /\ T = {} => g[T] = 0
         /\ T # {} => g[T] = f[Pick(T)] + g[T \ {Pick(T)}]
BY DEF Sums

LEMMA SumsEmpty == \A S, f, g : Sums(g, f, S) => g[{}] = 0
BY DEF Sums

(* Two tables of partial sums agree where both are defined. *)
LEMMA SumsUnique ==
  ASSUME NEW S, NEW V, NEW f, NEW g, NEW h, Sums(g, f, S), Sums(h, f, V),
         NEW W, IsFiniteSet(W), W \subseteq S, W \subseteq V
  PROVE  g[W] = h[W]
<1> DEFINE B == {T \in SUBSET W : g[T] # h[T]}
<1>1. ASSUME B # {} PROVE FALSE
  <2>1. B \subseteq SUBSET W
    OBVIOUS
  <2> HIDE DEF B
  <2>2. PICK T \in B : \A U \in B : U \subseteq T => U = T
    BY <1>1, <2>1, MinimalSubset
  <2> USE DEF B
  <2>3. T \in SUBSET S /\ T \in SUBSET V /\ T \in SUBSET W
    OBVIOUS
  <2>4. T # {}
    BY <2>3, SumsFact
  <2>5. g[T \ {Pick(T)}] = h[T \ {Pick(T)}]
    BY <2>2, <2>4, PickFact
  <2> QED  BY <2>3, <2>4, <2>5, SumsFact
<1> QED  BY <1>1

(* Every finite set has a table of partial sums. *)
LEMMA SumsExist ==
  ASSUME NEW S, IsFiniteSet(S), NEW f
  PROVE  \E g : Sums(g, f, S)
<1> DEFINE B == {T \in SUBSET S : ~ \E g : Sums(g, f, T)}
<1>1. ASSUME B # {} PROVE FALSE
  <2>1. B \subseteq SUBSET S
    OBVIOUS
  <2> HIDE DEF B
  <2>2. PICK T \in B : \A U \in B : U \subseteq T => U = T
    BY <1>1, <2>1, MinimalSubset
  <2> USE DEF B
  <2> DEFINE tab(U) == CHOOSE h : Sums(h, f, U)
             part == [U \in SUBSET T |-> IF U = T THEN 0 ELSE tab(U)[U]]
             g == [U \in SUBSET T |-> IF U = {} THEN 0
                                      ELSE f[Pick(U)] + part[U \ {Pick(U)}]]
  <2>3. \A U \in SUBSET T : U # T => Sums(tab(U), f, U)
    BY <2>2, Zenon
  <2>4. \A U \in SUBSET T : IsFiniteSet(U)
    BY FS_Subset
  <2>5. ASSUME NEW U \in SUBSET T, U # T PROVE g[U] = tab(U)[U]
    <3>1. Sums(tab(U), f, U)
      BY <2>3, <2>5
    <3>2. CASE U = {}
      <4>1. U \in SUBSET U
        OBVIOUS
      <4> HIDE DEF tab
      <4>2. tab(U)[U] = 0
        BY <3>1, <3>2, <4>1, SumsFact
      <4> QED  BY <3>2, <4>2
    <3>3. CASE U # {}
      <4> DEFINE R == U \ {Pick(U)}
      <4>1. R \in SUBSET T /\ R # T /\ R \subseteq U
        BY <3>3, PickFact
      <4>2. Sums(tab(R), f, R)
        BY <4>1, <2>3
      <4>3. tab(R)[R] = tab(U)[R]
        BY <4>1, <4>2, <3>1, <2>4, SumsUnique
      <4>4. tab(U)[U] = f[Pick(U)] + tab(U)[R]
        BY <3>1, <3>3, SumsFact
      <4>5. g[U] = f[Pick(U)] + part[R]
        BY <3>3
      <4>6. part[R] = tab(R)[R]
        BY <4>1
      <4> QED  BY <4>3, <4>4, <4>5, <4>6
    <3> QED  BY <3>2, <3>3
  <2>6. Sums(g, f, T)
    <3>1. \A U \in SUBSET T : U # {} => part[U \ {Pick(U)}] = g[U \ {Pick(U)}]
      <4> SUFFICES ASSUME NEW U \in SUBSET T, U # {}
                   PROVE  part[U \ {Pick(U)}] = g[U \ {Pick(U)}]
        OBVIOUS
      <4> DEFINE R == U \ {Pick(U)}
      <4>1. R \in SUBSET T /\ R # T
        BY PickFact
      <4>2. part[R] = tab(R)[R]
        BY <4>1
      <4> HIDE DEF g, part, tab
      <4> QED  BY <4>1, <4>2, <2>5
    <3>2. g = [U \in SUBSET T |-> IF U = {} THEN 0
                                   ELSE f[Pick(U)] + part[U \ {Pick(U)}]]
      OBVIOUS
    <3> HIDE DEF g, part
    <3>3. g = [U \in SUBSET T |-> IF U = {} THEN 0
                                   ELSE f[Pick(U)] + g[U \ {Pick(U)}]]
      BY <3>1, <3>2
    <3> QED  BY <3>3 DEF Sums
  <2> QED  BY <2>6, Zenon
<1>2. S \in SUBSET S
  OBVIOUS
<1> QED  BY <1>1, <1>2, Zenon

LEMMA SumIsLast ==
  ASSUME NEW f, IsFiniteSet(DOMAIN f)
  PROVE  \E g : Sums(g, f, DOMAIN f) /\ SumFunction(f) = g[DOMAIN f]
<1> DEFINE S == DOMAIN f
<1>1. SumFunction(f) = (CHOOSE g : Sums(g, f, S))[S]
  BY DEF SumFunction, SumFunctionOnSet, FoldFunctionOnSet, MapThenFoldSet, Sums, Pick
<1>2. Sums(CHOOSE g : Sums(g, f, S), f, S)
  BY SumsExist, Zenon
<1> QED  BY <1>1, <1>2, Zenon

-----------------------------------------------------------------------------
(* The sum of integers over a finite set is an integer. *)
LEMMA SumType ==
  ASSUME NEW S, IsFiniteSet(S), NEW f \in [S -> Int]
  PROVE  SumFunction(f) \in Int
<1>0. DOMAIN f = S
  OBVIOUS
<1>1. PICK g : Sums(g, f, S) /\ SumFunction(f) = g[S]
  BY <1>0, SumIsLast
<1> DEFINE B == {T \in SUBSET S : g[T] \notin Int}
<1>2. ASSUME B # {} PROVE FALSE
  <2>0. B \subseteq SUBSET S
    OBVIOUS
  <2> HIDE DEF B
  <2>1. PICK T \in B : \A U \in B : U \subseteq T => U = T
    BY <1>2, <2>0, MinimalSubset
  <2> USE DEF B
  <2>2. T \in SUBSET S /\ g[T] \notin Int
    OBVIOUS
  <2>3. Sums(g, f, S)
    BY <1>1
  <2>4. T # {} /\ g[T] = f[Pick(T)] + g[T \ {Pick(T)}]
    BY <2>2, <2>3, SumsFact
  <2>5. g[T \ {Pick(T)}] \in Int /\ f[Pick(T)] \in Int
    BY <2>1, <2>2, <2>4, PickFact
  <2> QED  BY <2>2, <2>4, <2>5
<1> QED  BY <1>1, <1>2

(* The sum of (a[s] + b[s]) - w over S is the sum of the a[s] and the sum of *)
(* the b[s] less w for every element.                                      *)
LEMMA SumLinear ==
  ASSUME NEW S, IsFiniteSet(S), NEW a \in [S -> Int], NEW b \in [S -> Int],
         NEW w \in Int
  PROVE  SumFunction([s \in S |-> (a[s] + b[s]) - w])
           = (SumFunction(a) + SumFunction(b)) - Cardinality(S) * w
<1> DEFINE f == [s \in S |-> (a[s] + b[s]) - w]
<1>0. DOMAIN f = S /\ DOMAIN a = S /\ DOMAIN b = S
  OBVIOUS
<1> HIDE DEF f
<1>1. PICK gf : Sums(gf, f, S) /\ SumFunction(f) = gf[S]
  BY <1>0, SumIsLast
<1>2. PICK ga : Sums(ga, a, S) /\ SumFunction(a) = ga[S]
  BY <1>0, SumIsLast
<1>3. PICK gb : Sums(gb, b, S) /\ SumFunction(b) = gb[S]
  BY <1>0, SumIsLast
<1> DEFINE Lin(T) == /\ ga[T] \in Int /\ gb[T] \in Int
                     /\ gf[T] = (ga[T] + gb[T]) - Cardinality(T) * w
           B == {T \in SUBSET S : ~Lin(T)}
<1>4. ASSUME B # {} PROVE FALSE
  <2>0. B \subseteq SUBSET S
    OBVIOUS
  <2> HIDE DEF B
  <2>1. PICK T \in B : \A U \in B : U \subseteq T => U = T
    BY <1>4, <2>0, MinimalSubset
  <2> USE DEF B
  <2>2. CASE T = {}
    <3>1. T \in SUBSET S
      OBVIOUS
    <3>2. gf[T] = 0 /\ ga[T] = 0 /\ gb[T] = 0
      BY <2>2, <1>1, <1>2, <1>3, SumsEmpty, Zenon
    <3>3. Cardinality(T) = 0 /\ 0 * w = 0
      BY <2>2, FS_EmptySet
    <3>4. Lin(T)
      BY <3>2, <3>3
    <3> QED  BY <3>4
  <2>3. CASE T # {}
    <3> DEFINE p == Pick(T)
               R == T \ {Pick(T)}
    <3>1. p \in T /\ p \in S /\ R \in SUBSET S /\ R # T /\ R \subseteq T
      BY <2>3, PickFact
    <3>2. Lin(R)
      BY <3>1, <2>1
    <3>3. /\ gf[T] = f[p] + gf[R]
          /\ ga[T] = a[p] + ga[R]
          /\ gb[T] = b[p] + gb[R]
      <4>1. T \in SUBSET S
        OBVIOUS
      <4> QED  BY <1>1, <1>2, <1>3, <2>3, <4>1, SumsFact
    <3>4. f[p] = (a[p] + b[p]) - w /\ a[p] \in Int /\ b[p] \in Int
      BY <3>1 DEF f
    <3>5. Cardinality(T) \in Nat /\ Cardinality(R) = Cardinality(T) - 1
      BY <3>1, FS_Subset, FS_CardinalityType, FS_RemoveElement
    <3>6. (Cardinality(T) - 1) * w = Cardinality(T) * w - w
      BY <3>5
    <3> HIDE DEF p, R
    <3>7. gf[R] = (ga[R] + gb[R]) - (Cardinality(T) - 1) * w /\ ga[R] \in Int /\ gb[R] \in Int
      BY <3>2, <3>5
    <3>8. gf[T] = (ga[T] + gb[T]) - Cardinality(T) * w
      BY <3>3, <3>4, <3>5, <3>6, <3>7
    <3>9. ga[T] \in Int /\ gb[T] \in Int
      BY <3>3, <3>4, <3>7
    <3> QED  BY <3>8, <3>9, <2>1
  <2> QED  BY <2>2, <2>3
<1>5. Lin(S)
  BY <1>4
<1> QED  BY <1>1, <1>2, <1>3, <1>5 DEF f

-----------------------------------------------------------------------------
(* The arithmetic of one update. *)

LEMMA SlicesFact == NSlices \in Nat \ {0}
<1>1. IsFiniteSet(Slice) /\ Slice # {}
  BY ADMMAssumption
<1> QED  BY <1>1, FS_CardinalityType, FS_EmptySet DEF NSlices

LEMMA ShrinkageType ==
  ASSUME NEW p \in Int
  PROVE  shrinkage(Kappa, p) \in Int
BY ADMMAssumption DEF shrinkage

LEMMA VTotalFact ==
  ASSUME NEW f, \A s \in Slice : f[s] \in Vector
  PROVE  /\ VTotal(f) \in Vector
         /\ \A c \in Coord : VTotal(f)[c] = SumFunction([s \in Slice |-> f[s][c]])
<1>1. \A c \in Coord : [s \in Slice |-> f[s][c]] \in [Slice -> Int]
  BY DEF Vector
<1>2. \A c \in Coord : SumFunction([s \in Slice |-> f[s][c]]) \in Int
  BY <1>1, SumType, ADMMAssumption
<1> QED  BY <1>2 DEF VTotal, Vector

LEMMA ZUpdateType ==
  ASSUME NEW v \in Vector
  PROVE  ZUpdate(v) \in Vector
<1>1. \A c \in Coord : v[c] \div NSlices \in Int
  BY SlicesFact DEF Vector
<1>2. \A c \in Coord : shrinkage(Kappa, v[c] \div NSlices) \in Int
  BY <1>1, ShrinkageType
<1> QED  BY <1>1, <1>2 DEF ZUpdate, Vector

LEMMA VectorFact ==
  ASSUME NEW a \in Vector, NEW b \in Vector
  PROVE  VAdd(a, b) \in Vector /\ VSub(a, b) \in Vector
BY DEF VAdd, VSub, Vector

LEMMA ElementFact ==
  \A p, q, r : \A i \in Coord : VSub(VAdd(p, q), r)[i] = (p[i] + q[i]) - r[i]
BY Zenon DEF VSub, VAdd

LEMMA ZeroSum == SumFunction([s \in Slice |-> 0]) = 0
<1> DEFINE o == [s \in Slice |-> 0]
<1>1. o \in [Slice -> Int] /\ IsFiniteSet(Slice)
  BY ADMMAssumption
<1> DEFINE oo == [s \in Slice |-> (o[s] + o[s]) - 0]
<1>2. o = oo
  OBVIOUS
<1>3. SumFunction(o) \in Int
  BY <1>1, SumType
<1>4. Cardinality(Slice) * 0 = 0
  BY SlicesFact DEF NSlices
<1> HIDE DEF o
<1>5. SumFunction(oo) = (SumFunction(o) + SumFunction(o)) - Cardinality(Slice) * 0
  BY <1>1, SumLinear
<1> HIDE DEF oo
<1>6. SumFunction(o) = SumFunction(oo)
  BY <1>2, Zenon
<1>7. \A n, m \in Int : n = (n + n) - m /\ m = 0 => n = 0
  OBVIOUS
<1>8. SumFunction(o) = 0
  BY <1>3, <1>4, <1>5, <1>6, <1>7, 0 \in Int, Zenon
<1> QED  BY <1>8 DEF o

(* What is left of n times p after n times its shrinkage was taken away. *)
LEMMA ShrunkPart ==
  ASSUME NEW n \in Nat \ {0}, NEW p \in Int
  PROVE  /\ n * p - n * shrinkage(Kappa, p) <= n * Kappa
         /\ -(n * Kappa) <= n * p - n * shrinkage(Kappa, p)
<1> DEFINE r == p - shrinkage(Kappa, p)
<1>1. r \in Int /\ -Kappa <= r /\ r <= Kappa /\ Kappa \in Nat
  BY ADMMAssumption DEF shrinkage
<1>2. n * p - n * shrinkage(Kappa, p) = n * r
  BY ShrinkageType
<1> HIDE DEF r
<1>3. n * r <= n * Kappa
  BY <1>1
<1>4. n * (-Kappa) <= n * r
  BY <1>1
<1>5. n * (-Kappa) = -(n * Kappa)
  BY <1>1
<1> QED  BY <1>2, <1>3, <1>4, <1>5

LEMMA Remainder ==
  ASSUME NEW n \in Nat \ {0}, NEW t \in Int
  PROVE  /\ t \div n \in Int
         /\ 0 <= t - n * (t \div n) /\ t - n * (t \div n) < n
OBVIOUS

(* Whatever the sum of x + u is, NSlices times the new z is near it. *)
LEMMA ZUpdateNear ==
  ASSUME NEW v \in Vector, NEW c \in Coord
  PROVE  LET left == v[c] - NSlices * ZUpdate(v)[c]
             slack == IF c = Intercept THEN 0 ELSE NSlices * Kappa
         IN  -slack <= left /\ left < slack + NSlices
<1> DEFINE p == v[c] \div NSlices
<1>1. v[c] \in Int /\ NSlices \in Nat \ {0}
  BY SlicesFact DEF Vector
<1>2. p \in Int /\ 0 <= v[c] - NSlices * p /\ v[c] - NSlices * p < NSlices
  BY <1>1, Remainder
<1>3. NSlices * p \in Int /\ NSlices * Kappa \in Int
  BY <1>1, <1>2, ADMMAssumption
<1>4. CASE c = Intercept
  <2>1. ZUpdate(v)[c] = p
    BY <1>4 DEF ZUpdate
  <2> HIDE DEF p
  <2> QED  BY <1>1, <1>2, <1>3, <1>4, <2>1
<1>5. CASE c # Intercept
  <2>1. ZUpdate(v)[c] = shrinkage(Kappa, p)
    BY <1>5 DEF ZUpdate
  <2> HIDE DEF p
  <2>2. shrinkage(Kappa, p) \in Int
    BY <1>2, ShrinkageType
  <2>3. NSlices * shrinkage(Kappa, p) \in Int
    BY <1>1, <2>2
  <2>4. /\ NSlices * p - NSlices * shrinkage(Kappa, p) <= NSlices * Kappa
        /\ -(NSlices * Kappa) <= NSlices * p - NSlices * shrinkage(Kappa, p)
    BY <1>1, <1>2, ShrunkPart
  <2> DEFINE A == NSlices * p
             B == NSlices * shrinkage(Kappa, p)
             K == NSlices * Kappa
             t == v[c]
  <2>5. /\ A \in Int /\ B \in Int /\ K \in Int /\ t \in Int /\ NSlices \in Int
        /\ 0 <= t - A /\ t - A < NSlices /\ A - B <= K /\ -K <= A - B
    BY <1>1, <1>2, <1>3, <2>3, <2>4
  <2>6. NSlices * ZUpdate(v)[c] = B
    BY <2>1
  <2> HIDE DEF A, B, K, t
  <2>7. -K <= t - B /\ t - B < K + NSlices
    BY <2>5
  <2> QED  BY <1>5, <2>6, <2>7 DEF K, t
<1> QED  BY <1>4, <1>5

-----------------------------------------------------------------------------
(* Every reachable state has the types of TypeOK. *)

LEMMA TypeInit == Init => TypeOK
BY ADMMAssumption DEF Init, TypeOK, Vector, Zero

LEMMA UpdateTypes ==
  ASSUME DescentOnVectors, TypeOK, Update
  PROVE  /\ \A s \in Slice : x'[s] \in Vector /\ VAdd(x'[s], u[s]) \in Vector
         /\ z' \in Vector
         /\ \A s \in Slice : u'[s] \in Vector
<1>1. \A s \in Slice : x'[s] = descent(input[s], x[s], u[s], z)
  BY DEF Update
<1>2. \A s \in Slice : input[s] \in Sample /\ x[s] \in Vector /\ u[s] \in Vector
  BY DEF TypeOK
<1>3. \A s \in Slice : x'[s] \in Vector
  BY <1>1, <1>2 DEF DescentOnVectors, TypeOK
<1>4. \A s \in Slice : VAdd(x'[s], u[s]) \in Vector
  BY <1>2, <1>3, VectorFact
<1> DEFINE f == [s \in Slice |-> VAdd(x'[s], u[s])]
<1>5. \A s \in Slice : f[s] \in Vector
  BY <1>4
<1>6. z' = ZUpdate(VTotal(f))
  BY DEF Update
<1> HIDE DEF f
<1>7. z' \in Vector
  BY <1>5, <1>6, VTotalFact, ZUpdateType
<1>8. \A s \in Slice : u'[s] = VSub(VAdd(u[s], x'[s]), z')
  BY DEF Update
<1>9. \A s \in Slice : u'[s] \in Vector
  BY <1>2, <1>3, <1>7, <1>8, VectorFact
<1> QED  BY <1>3, <1>4, <1>7, <1>9

LEMMA TypeStep ==
  ASSUME DescentOnVectors, TypeOK, [Next]_vars
  PROVE  TypeOK'
<1>1. CASE Update
  <2>1. /\ \A s \in Slice : x'[s] \in Vector /\ u'[s] \in Vector
        /\ z' \in Vector
    BY <1>1, UpdateTypes
  <2>2. x' \in [Slice -> Vector] /\ u' \in [Slice -> Vector]
    BY <1>1, <2>1 DEF Update
  <2>3. k' \in 0..(NIters + 1)
    BY <1>1, ADMMAssumption DEF Update, TypeOK, Exhausted
  <2> QED  BY <1>1, <2>1, <2>2, <2>3 DEF Update, TypeOK
<1>2. CASE Return
  BY <1>2 DEF Return, TypeOK
<1>3. CASE UNCHANGED vars
  BY <1>3 DEF vars, TypeOK
<1> QED  BY <1>1, <1>2, <1>3 DEF Next

(* conf.nIters is exceeded by one update at most, and every vector of every *)
(* slice is an integer vector.                                             *)
THEOREM VectorsTyped ==
  ASSUME DescentOnVectors
  PROVE  SafetySpec => []TypeOK
<1>1. TypeOK /\ [Next]_vars => TypeOK'
  BY TypeStep
<1> QED  BY <1>1, TypeInit, PTL DEF SafetySpec

-----------------------------------------------------------------------------
(* The sum over the slices of the new u is the sum of x + u less NSlices   *)
(* times the new z.                                                        *)
LEMMA NewDrift ==
  ASSUME DescentOnVectors, TypeOK, Update, NEW c \in Coord
  PROVE  VTotal(u')[c] = VTotal([s \in Slice |-> VAdd(x'[s], u[s])])[c] - NSlices * z'[c]
<1> DEFINE a == [s \in Slice |-> u[s][c]]
           b == [s \in Slice |-> x'[s][c]]
           w == z'[c]
           f == [s \in Slice |-> VAdd(x'[s], u[s])]
<1>1. /\ \A s \in Slice : x'[s] \in Vector /\ f[s] \in Vector /\ u'[s] \in Vector
      /\ z' \in Vector
  BY UpdateTypes
<1>2. a \in [Slice -> Int] /\ b \in [Slice -> Int] /\ w \in Int
  BY <1>1 DEF TypeOK, Vector
<1>3. VTotal(u')[c] = SumFunction([s \in Slice |-> u'[s][c]])
  BY <1>1, VTotalFact
<1>4. [s \in Slice |-> u'[s][c]] = [s \in Slice |-> (a[s] + b[s]) - w]
  <2>1. \A s \in Slice : u'[s] = VSub(VAdd(u[s], x'[s]), z')
    BY DEF Update
  <2>2. ASSUME NEW s \in Slice
        PROVE  u'[s][c] = (u[s][c] + x'[s][c]) - z'[c]
    <3>1. u'[s] = VSub(VAdd(u[s], x'[s]), z')
      BY <2>1
    <3>2. VSub(VAdd(u[s], x'[s]), z')[c] = (u[s][c] + x'[s][c]) - z'[c]
      BY ElementFact
    <3> QED  BY <3>1, <3>2
  <2> QED  BY <2>2
<1>5. [s \in Slice |-> f[s][c]] = [s \in Slice |-> (a[s] + b[s]) - 0]
  BY <1>2 DEF VAdd
<1> HIDE DEF a, b, w, f
<1>6. VTotal(f)[c] = SumFunction([s \in Slice |-> f[s][c]])
  BY <1>1, VTotalFact
<1>7. IsFiniteSet(Slice) /\ SumFunction(a) \in Int /\ SumFunction(b) \in Int
  BY <1>2, SumType, ADMMAssumption
<1>8. SumFunction([s \in Slice |-> (a[s] + b[s]) - w])
        = (SumFunction(a) + SumFunction(b)) - Cardinality(Slice) * w
  BY <1>2, <1>7, SumLinear
<1>9. SumFunction([s \in Slice |-> (a[s] + b[s]) - 0])
        = (SumFunction(a) + SumFunction(b)) - Cardinality(Slice) * 0
  BY <1>2, <1>7, SumLinear
<1>10. Cardinality(Slice) * 0 = 0
  BY SlicesFact DEF NSlices
<1> DEFINE aw == [s \in Slice |-> (a[s] + b[s]) - w]
           us == [s \in Slice |-> u'[s][c]]
<1> HIDE DEF aw, us
<1>11. VTotal(u')[c] = (SumFunction(a) + SumFunction(b)) - NSlices * w
  <2>1. VTotal(u')[c] = SumFunction(us) /\ us = aw
    BY <1>3, <1>4 DEF us, aw
  <2>2. SumFunction(aw) = (SumFunction(a) + SumFunction(b)) - Cardinality(Slice) * w
    BY <1>8 DEF aw
  <2> QED  BY <2>1, <2>2 DEF NSlices
<1>12. VTotal(f)[c] = SumFunction(a) + SumFunction(b)
  BY <1>5, <1>6, <1>7, <1>9, <1>10
<1>13. VTotal(u')[c] = VTotal(f)[c] - NSlices * w
  BY <1>11, <1>12, Zenon
<1> QED  BY <1>13, Zenon DEF w, f

LEMMA BalancedInit == Init => DualsBalanced
<1> SUFFICES ASSUME Init, NEW c \in Coord
             PROVE  LET drift == VTotal(u)[c]
                        slack == IF c = Intercept THEN 0 ELSE NSlices * Kappa
                    IN  -slack <= drift /\ drift < slack + NSlices
  BY DEF DualsBalanced
<1>1. [s \in Slice |-> u[s][c]] = [s \in Slice |-> 0]
  BY DEF Init, Zero
<1>2. VTotal(u)[c] = 0
  BY <1>1, ZeroSum DEF VTotal
<1>3. NSlices * Kappa \in Nat /\ NSlices \in Nat \ {0}
  BY SlicesFact, ADMMAssumption
<1> QED  BY <1>2, <1>3

LEMMA BalancedStep ==
  ASSUME DescentOnVectors, TypeOK, DualsBalanced, [Next]_vars
  PROVE  DualsBalanced'
<1>1. CASE Update
  <2> SUFFICES ASSUME NEW c \in Coord
               PROVE  LET drift == VTotal(u')[c]
                          slack == IF c = Intercept THEN 0 ELSE NSlices * Kappa
                      IN  -slack <= drift /\ drift < slack + NSlices
    BY DEF DualsBalanced, VTotal
  <2> DEFINE v == VTotal([s \in Slice |-> VAdd(x'[s], u[s])])
             f == [s \in Slice |-> VAdd(x'[s], u[s])]
  <2>1. \A s \in Slice : f[s] \in Vector
    BY <1>1, UpdateTypes
  <2>2. VTotal(f) \in Vector
    <3> HIDE DEF f
    <3> QED  BY <2>1, VTotalFact
  <2>3. v \in Vector
    BY <2>2
  <2>4. z' = ZUpdate(v)
    BY <1>1 DEF Update
  <2>5. VTotal(u')[c] = v[c] - NSlices * z'[c]
    BY <1>1, NewDrift
  <2> HIDE DEF v
  <2> QED  BY <2>3, <2>4, <2>5, ZUpdateNear
<1>2. CASE Return
  BY <1>2 DEF Return, DualsBalanced, VTotal
<1>3. CASE UNCHANGED vars
  BY <1>3 DEF vars, DualsBalanced, VTotal
<1> QED  BY <1>1, <1>2, <1>3 DEF Next

(* The duals of the slices cancel on every coordinate, up to the rounding  *)
(* of the mean and to the threshold of its shrinkage: what `updateSet`     *)
(* subtracts from each u is what it added to their sum.                    *)
THEOREM DualsCancel ==
  ASSUME DescentOnVectors
  PROVE  SafetySpec => []DualsBalanced
<1>1. TypeOK /\ DualsBalanced /\ [Next]_vars => TypeOK' /\ DualsBalanced'
  BY TypeStep, BalancedStep
<1> QED  BY <1>1, TypeInit, BalancedInit, PTL DEF SafetySpec

=============================================================================

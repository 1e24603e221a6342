--------------------------- MODULE Datasets_proofs ---------------------------
(***************************************************************************)
(* Proofs about Datasets, for any files, windows and numbers of slices:    *)
(* what each stage of a trial holds; that the slices part the documents;   *)
(* that a row of a matrix has one document's values; and that the success  *)
(* rate counts the documents, whatever the slices and the orders.          *)
(***************************************************************************)
EXTENDS Datasets, FiniteSetTheorems, FunctionTheorems, TLAPS

-----------------------------------------------------------------------------
(* Sums of integers over finite sets: the recursive function behind the    *)
(* folds of the community modules exists, and a sum is an integer, does    *)
(* not depend on the order of the terms, and adds up over the parts of the *)
(* set.  Each fact is shown from a smallest set it might fail for.         *)

LEMMA MinimalSubset ==
  ASSUME NEW S, IsFiniteSet(S), NEW B, B \subseteq SUBSET S, B # {}
  PROVE  \E T \in B : \A U \in B : U \subseteq T => U = T
<1>1. B \subseteq FiniteSubsetsOf(S)
  BY FS_Subset DEF FiniteSubsetsOf
<1>2. IsWellFoundedOn(StrictSubsetOrdering(S), FiniteSubsetsOf(S))
  BY FS_StrictSubsetOrderingWellFounded
<1>3. PICK T \in B : \A U \in B : ~(<<U, T>> \in StrictSubsetOrdering(S))
  BY <1>1, <1>2, WFMin, Zenon
<1> QED  BY <1>3 DEF StrictSubsetOrdering

-----------------------------------------------------------------------------
(* The partial sums of f: g[T] is the sum of f over T.                     *)
Pick(T) == CHOOSE t \in T : TRUE
Sums(g, f, S) ==
  g = [T \in SUBSET S |-> IF T = {} THEN 0 ELSE f[Pick(T)] + g[T \ {Pick(T)}]]

LEMMA PickFact == \A T : T # {} => Pick(T) \in T
BY DEF Pick

LEMMA SumsFact ==
  ASSUME NEW S, NEW f, NEW g, Sums(g, f, S), NEW T \in SUBSET S
  PROVE  /\ T = {} => g[T] = 0
         /\ T # {} => g[T] = f[Pick(T)] + g[T \ {Pick(T)}]
BY DEF Sums

LEMMA SumsEmpty == \A S, f, g : Sums(g, f, S) => g[{}] = 0
BY DEF Sums

(* Two tables of partial sums agree where both are defined. *)
LEMMA SumsUnique ==
  ASSUME NEW S, NEW V, NEW f, NEW g, NEW h, Sums(g, f, S), Sums(h, f, V),
         NEW W, IsFiniteSet(W), W \subseteq S, W \subseteq V
  PROVE  g[W] = h[W]
<1> DEFINE B == {T \in SUBSET W : g[T] # h[T]}
<1>1. ASSUME B # {} PROVE FALSE
  <2>1. B \subseteq SUBSET W
    OBVIOUS
  <2> HIDE DEF B
  <2>2. PICK T \in B : \A U \in B : U \subseteq T => U = T
    BY <1>1, <2>1, MinimalSubset
  <2> USE DEF B
  <2>3. T \in SUBSET S /\ T \in SUBSET V /\ T \in SUBSET W
    OBVIOUS
  <2>4. T # {}
    BY <2>3, SumsFact
  <2>5. g[T \ {Pick(T)}] = h[T \ {Pick(T)}]
    BY <2>2, <2>4, PickFact
  <2> QED  BY <2>3, <2>4, <2>5, SumsFact
<1> QED  BY <1>1

(* Every finite set has a table of partial sums. *)
LEMMA SumsExist ==
  ASSUME NEW S, IsFiniteSet(S), NEW f
  PROVE  \E g : Sums(g, f, S)
<1> DEFINE B == {T \in SUBSET S : ~ \E g : Sums(g, f, T)}
<1>1. ASSUME B # {} PROVE FALSE
  <2>1. B \subseteq SUBSET S
    OBVIOUS
  <2> HIDE DEF B
  <2>2. PICK T \in B : \A U \in B : U \subseteq T => U = T
    BY <1>1, <2>1, MinimalSubset
  <2> USE DEF B
  <2> DEFINE tab(U) == CHOOSE h : Sums(h, f, U)
             part == [U \in SUBSET T |-> IF U = T THEN 0 ELSE tab(U)[U]]
             g == [U \in SUBSET T |-> IF U = {} THEN 0
                                      ELSE f[Pick(U)] + part[U \ {Pick(U)}]]
  <2>3. \A U \in SUBSET T : U # T => Sums(tab(U), f, U)
    BY <2>2, Zenon
  <2>4. \A U \in SUBSET T : IsFiniteSet(U)
    BY FS_Subset
  <2>5. ASSUME NEW U \in SUBSET T, U # T PROVE g[U] = tab(U)[U]
    <3>1. Sums(tab(U), f, U)
      BY <2>3, <2>5
    <3>2. CASE U = {}
      <4>1. U \in SUBSET U
        OBVIOUS
      <4> HIDE DEF tab
      <4>2. tab(U)[U] = 0
        BY <3>1, <3>2, <4>1, SumsFact
      <4> QED  BY <3>2, <4>2
    <3>3. CASE U # {}
      <4> DEFINE R == U \ {Pick(U)}
      <4>1. R \in SUBSET T /\ R # T /\ R \subseteq U
        BY <3>3, PickFact
      <4>2. Sums(tab(R), f, R)
        BY <4>1, <2>3
      <4>3. tab(R)[R] = tab(U)[R]
        BY <4>1, <4>2, <3>1, <2>4, SumsUnique
      <4>4. tab(U)[U] = f[Pick(U)] + tab(U)[R]
        BY <3>1, <3>3, SumsFact
      <4>5. g[U] = f[Pick(U)] + part[R]
        BY <3>3
      <4>6. part[R] = tab(R)[R]
        BY <4>1
      <4> QED  BY <4>3, <4>4, <4>5, <4>6
    <3> QED  BY <3>2, <3>3
  <2>6. Sums(g, f, T)
    <3>1. \A U \in SUBSET T : U # {} => part[U \ {Pick(U)}] = g[U \ {Pick(U)}]
      <4> SUFFICES ASSUME NEW U \in SUBSET T, U # {}
                   PROVE  part[U \ {Pick(U)}] = g[U \ {Pick(U)}]
        OBVIOUS
      <4> DEFINE R == U \ {Pick(U)}
      <4>1. R \in SUBSET T /\ R # T
        BY PickFact
      <4>2. part[R] = tab(R)[R]
        BY <4>1
      <4> HIDE DEF g, part, tab
      <4> QED  BY <4>1, <4>2, <2>5
    <3>2. g = [U \in SUBSET T |-> IF U = {} THEN 0
                                   ELSE f[Pick(U)] + part[U \ {Pick(U)}]]
      OBVIOUS
    <3> HIDE DEF g, part
    <3>3. g = [U \in SUBSET T |-> IF U = {} THEN 0
                                   ELSE f[Pick(U)] + g[U \ {Pick(U)}]]
      BY <3>1, <3>2
    <3> QED  BY <3>3 DEF Sums
  <2> QED  BY <2>6, Zenon
<1>2. S \in SUBSET S
  OBVIOUS
<1> QED  BY <1>1, <1>2, Zenon

LEMMA SumIsLast ==
  ASSUME NEW f, IsFiniteSet(DOMAIN f)
  PROVE  \E g : Sums(g, f, DOMAIN f) /\ SumFunction(f) = g[DOMAIN f]
<1> DEFINE S == DOMAIN f
<1>1. SumFunction(f) = (CHOOSE g : Sums(g, f, S))[S]
  BY DEF SumFunction, SumFunctionOnSet, FoldFunctionOnSet, MapThenFoldSet, Sums, Pick
<1>2. Sums(CHOOSE g : Sums(g, f, S), f, S)
  BY SumsExist, Zenon
<1> QED  BY <1>1, <1>2, Zenon

-----------------------------------------------------------------------------
(* The sum of integers over a finite set is an integer. *)
LEMMA SumType ==
  ASSUME NEW S, IsFiniteSet(S), NEW f \in [S -> Int]
  PROVE  SumFunction(f) \in Int
<1>0. DOMAIN f = S
  OBVIOUS
<1>1. PICK g : Sums(g, f, S) /\ SumFunction(f) = g[S]
  BY <1>0, SumIsLast
<1> DEFINE B == {T \in SUBSET S : g[T] \notin Int}
<1>2. ASSUME B # {} PROVE FALSE
  <2>0. B \subseteq SUBSET S
    OBVIOUS
  <2> HIDE DEF B
  <2>1. PICK T \in B : \A U \in B : U \subseteq T => U = T
    BY <1>2, <2>0, MinimalSubset
  <2> USE DEF B
  <2>2. T \in SUBSET S /\ g[T] \notin Int
    OBVIOUS
  <2>3. Sums(g, f, S)
    BY <1>1
  <2>4. T # {} /\ g[T] = f[Pick(T)] + g[T \ {Pick(T)}]
    BY <2>2, <2>3, SumsFact
  <2>5. g[T \ {Pick(T)}] \in Int /\ f[Pick(T)] \in Int
    BY <2>1, <2>2, <2>4, PickFact
  <2> QED  BY <2>2, <2>4, <2>5
<1> QED  BY <1>1, <1>2

-----------------------------------------------------------------------------
(* Induction on a finite set, with a set of its subsets for the predicate. *)
LEMMA SetInduction ==
  ASSUME NEW S, IsFiniteSet(S), NEW B, {} \in B,
         \A T \in SUBSET S : \A x \in S \ T : T \in B => T \cup {x} \in B
  PROVE  S \in B
<1> DEFINE C == {T \in SUBSET S : T \notin B}
<1>1. ASSUME C # {} PROVE FALSE
  <2>1. C \subseteq SUBSET S
    OBVIOUS
  <2> HIDE DEF C
  <2>2. PICK T \in C : \A U \in C : U \subseteq T => U = T
    BY <1>1, <2>1, MinimalSubset
  <2> USE DEF C
  <2>3. PICK x \in T : TRUE
    OBVIOUS
  <2> DEFINE R == T \ {x}
  <2>4. R \in SUBSET S /\ x \in S \ R /\ R \subseteq T /\ R # T /\ T = R \cup {x}
    BY <2>3
  <2>5. R \in B
    BY <2>2, <2>4
  <2> QED  BY <2>4, <2>5
<1> QED  BY <1>1

(* The sum of f over T. *)
SumOver(f, T) == SumFunction([t \in T |-> f[t]])

(* One table has the sums over all subsets. *)
LEMMA TableOf ==
  ASSUME NEW S, IsFiniteSet(S), NEW f
  PROVE  \E g : Sums(g, f, S) /\ \A T \in SUBSET S : SumOver(f, T) = g[T]
<1>1. PICK g : Sums(g, f, S)
  BY SumsExist
<1>2. ASSUME NEW T \in SUBSET S PROVE SumOver(f, T) = g[T]
  <2> DEFINE e == [t \in T |-> f[t]]
  <2>1. DOMAIN e = T /\ IsFiniteSet(T)
    BY FS_Subset
  <2>2. \A U \in SUBSET T : U # {} => e[Pick(U)] = f[Pick(U)]
    BY PickFact
  <2> HIDE DEF e
  <2>3. PICK h : Sums(h, e, T) /\ SumFunction(e) = h[T]
    BY <2>1, SumIsLast
  <2>4. Sums(h, f, T)
    BY <2>2, <2>3 DEF Sums
  <2>5. h[T] = g[T]
    BY <1>1, <2>1, <2>4, SumsUnique
  <2> QED  BY <2>3, <2>5 DEF SumOver, e
<1> QED  BY <1>1, <1>2

(* A sum defined by its own table is the sum of its function. *)
LEMMA TableSum ==
  ASSUME NEW S, IsFiniteSet(S), NEW f, NEW g, Sums(g, f, S)
  PROVE  g[S] = SumOver(f, S)
<1>1. PICK h : Sums(h, f, S) /\ \A T \in SUBSET S : SumOver(f, T) = h[T]
  BY TableOf
<1>2. g[S] = h[S]
  BY <1>1, SumsUnique
<1> QED  BY <1>1, <1>2

LEMMA SumOverType ==
  ASSUME NEW S, IsFiniteSet(S), NEW f \in [S -> Int], NEW T \in SUBSET S
  PROVE  SumOver(f, T) \in Int
<1> DEFINE e == [t \in T |-> f[t]]
<1>1. e \in [T -> Int] /\ IsFiniteSet(T)
  BY FS_Subset
<1> HIDE DEF e
<1>2. SumFunction(e) \in Int
  BY <1>1, SumType
<1> QED  BY <1>2 DEF e, SumOver

LEMMA SumOverEmpty == \A f : SumOver(f, {}) = 0
<1> SUFFICES ASSUME NEW f PROVE SumOver(f, {}) = 0
  OBVIOUS
<1>1. IsFiniteSet({})
  BY FS_EmptySet
<1>2. PICK g : Sums(g, f, {}) /\ \A T \in SUBSET {} : SumOver(f, T) = g[T]
  BY <1>1, TableOf
<1>3. g[{}] = 0
  BY <1>2, SumsEmpty
<1> QED  BY <1>2, <1>3

(* Whichever element is taken last, the sum is the same. *)
LEMMA SumOverAdd ==
  ASSUME NEW S, IsFiniteSet(S), NEW f \in [S -> Int], NEW T \in SUBSET S, NEW x \in S \ T
  PROVE  SumOver(f, T \cup {x}) = SumOver(f, T) + f[x]
<1>1. PICK g : Sums(g, f, S) /\ \A U \in SUBSET S : SumOver(f, U) = g[U]
  BY TableOf
<1>2. \A U \in SUBSET S : g[U] \in Int
  BY <1>1, SumOverType
<1> DEFINE Bad(U) == \E y \in U : g[U] # f[y] + g[U \ {y}]
           B == {U \in SUBSET S : Bad(U)}
<1>3. ASSUME B # {} PROVE FALSE
  <2>1. B \subseteq SUBSET S
    OBVIOUS
  <2> HIDE DEF B
  <2>2. PICK U \in B : \A V \in B : V \subseteq U => V = U
    BY <1>3, <2>1, MinimalSubset
  <2> USE DEF B
  <2>3. PICK y \in U : g[U] # f[y] + g[U \ {y}]
    OBVIOUS
  <2> DEFINE p == Pick(U)
  <2>4. U \in SUBSET S /\ p \in U /\ g[U] = f[p] + g[U \ {p}]
    BY <1>1, <2>3, PickFact, SumsFact
  <2> HIDE DEF p
  <2>5. p # y
    BY <2>3, <2>4
  <2> DEFINE R == (U \ {p}) \ {y}
  <2>6. /\ U \ {p} \in SUBSET S /\ U \ {y} \in SUBSET S /\ R \in SUBSET S
        /\ U \ {p} # U /\ U \ {y} # U
        /\ y \in U \ {p} /\ p \in U \ {y} /\ (U \ {y}) \ {p} = R
    BY <2>4, <2>5
  <2>7. U \ {p} \notin B /\ U \ {y} \notin B
    <3> HIDE DEF B
    <3> QED  BY <2>2, <2>6
  <2>8. g[U \ {p}] = f[y] + g[R] /\ g[U \ {y}] = f[p] + g[R]
    BY <2>6, <2>7
  <2>9. f[y] \in Int /\ f[p] \in Int /\ g[R] \in Int
    BY <1>2, <2>3, <2>4, <2>6
  <2> HIDE DEF R
  <2> QED  BY <2>3, <2>4, <2>8, <2>9
<1>4. T \cup {x} \in SUBSET S /\ (T \cup {x}) \ {x} = T /\ x \in T \cup {x}
  OBVIOUS
<1>5. g[T \cup {x}] = f[x] + g[T]
  BY <1>3, <1>4
<1>6. f[x] \in Int /\ g[T] \in Int
  BY <1>2
<1>7. SumOver(f, T \cup {x}) = g[T \cup {x}] /\ SumOver(f, T) = g[T]
  BY <1>1, <1>4
<1> QED  BY <1>5, <1>6, <1>7

LEMMA SumOverBounds ==
  ASSUME NEW S, IsFiniteSet(S), NEW b \in Nat, NEW f \in [S -> 0..b]
  PROVE  SumOver(f, S) \in 0..b * Cardinality(S)
<1> DEFINE B == {T \in SUBSET S : SumOver(f, T) \in 0..b * Cardinality(T)}
<1>1. {} \in B
  <2>1. SumOver(f, {}) = 0 /\ Cardinality({}) = 0
    BY SumOverEmpty, FS_EmptySet
  <2> QED  BY <2>1
<1>2. ASSUME NEW T \in SUBSET S, NEW x \in S \ T, T \in B PROVE T \cup {x} \in B
  <2>1. f \in [S -> Int] /\ f[x] \in 0..b
    OBVIOUS
  <2>2. SumOver(f, T \cup {x}) = SumOver(f, T) + f[x]
    BY <2>1, SumOverAdd
  <2>3. Cardinality(T) \in Nat /\ Cardinality(T \cup {x}) = Cardinality(T) + 1
    BY FS_Subset, FS_CardinalityType, FS_AddElement
  <2>4. b * (Cardinality(T) + 1) = b * Cardinality(T) + b /\ b * Cardinality(T) \in Nat
    BY <2>3
  <2>5. SumOver(f, T) \in 0..b * Cardinality(T)
    BY <1>2
  <2>6. SumOver(f, T) + f[x] \in 0..b * Cardinality(T) + b
    BY <2>1, <2>4, <2>5
  <2> QED  BY <2>2, <2>3, <2>4, <2>6
<1> HIDE DEF B
<1>3. S \in B
  BY <1>1, <1>2, SetInduction
<1> QED  BY <1>3 DEF B

(* The sum over two disjoint sets. *)
LEMMA SumOverUnion ==
  ASSUME NEW S, IsFiniteSet(S), NEW f \in [S -> Int], NEW A \in SUBSET S, NEW C \in SUBSET S,
         A \cap C = {}
  PROVE  SumOver(f, A \cup C) = SumOver(f, A) + SumOver(f, C)
<1> DEFINE B == {T \in SUBSET C : SumOver(f, A \cup T) = SumOver(f, A) + SumOver(f, T)}
<1>1. SumOver(f, A) \in Int /\ IsFiniteSet(C)
  BY SumOverType, FS_Subset
<1>2. {} \in B
  <2>1. A \cup {} = A /\ SumOver(f, {}) = 0
    BY SumOverEmpty
  <2> QED  BY <1>1, <2>1
<1>3. ASSUME NEW T \in SUBSET C, NEW x \in C \ T, T \in B PROVE T \cup {x} \in B
  <2>1. /\ T \in SUBSET S /\ x \in S \ T /\ A \cup T \in SUBSET S /\ x \in S \ (A \cup T)
        /\ A \cup (T \cup {x}) = (A \cup T) \cup {x}
    OBVIOUS
  <2>2. /\ SumOver(f, T \cup {x}) = SumOver(f, T) + f[x]
        /\ SumOver(f, (A \cup T) \cup {x}) = SumOver(f, A \cup T) + f[x]
    BY <2>1, SumOverAdd
  <2>3. SumOver(f, A \cup T) = SumOver(f, A) + SumOver(f, T)
    BY <1>3
  <2>4. f[x] \in Int /\ SumOver(f, T) \in Int
    BY <2>1, SumOverType
  <2>5. SumOver(f, A \cup (T \cup {x})) = SumOver(f, (A \cup T) \cup {x})
    BY <2>1, Zenon
  <2>6. SumOver(f, (A \cup T) \cup {x}) = SumOver(f, A) + (SumOver(f, T) + f[x])
    BY <1>1, <2>2, <2>3, <2>4
  <2>7. SumOver(f, A \cup (T \cup {x})) = SumOver(f, A) + SumOver(f, T \cup {x})
    BY <2>2, <2>5, <2>6, Zenon
  <2> QED  BY <2>7
<1> HIDE DEF B
<1>4. C \in B
  BY <1>1, <1>2, <1>3, SetInduction
<1> QED  BY <1>4 DEF B

(* The sum over the parts of a set. *)
LEMMA SumOverParts ==
  ASSUME NEW S, IsFiniteSet(S), NEW f \in [S -> Int], NEW K, IsFiniteSet(K), NEW P,
         \A k \in K : P[k] \in SUBSET S,
         \A k, l \in K : k # l => P[k] \cap P[l] = {},
         NEW e, e = [k \in K |-> SumOver(f, P[k])]
  PROVE  SumOver(e, K) = SumOver(f, UNION {P[k] : k \in K})
<1> DEFINE U(T) == UNION {P[k] : k \in T}
           B == {T \in SUBSET K : SumOver(e, T) = SumOver(f, U(T))}
<1>1. e \in [K -> Int]
  BY SumOverType
<1>2. {} \in B
  <2>1. U({}) = {}
    OBVIOUS
  <2> QED  BY <2>1, SumOverEmpty
<1>3. ASSUME NEW T \in SUBSET K, NEW x \in K \ T, T \in B PROVE T \cup {x} \in B
  <2>1. /\ U(T) \in SUBSET S /\ P[x] \in SUBSET S /\ U(T) \cap P[x] = {}
        /\ U(T \cup {x}) = U(T) \cup P[x]
    OBVIOUS
  <2> HIDE DEF U
  <2>2. SumOver(e, T \cup {x}) = SumOver(e, T) + e[x]
    BY <1>1, SumOverAdd
  <2>3. SumOver(f, U(T) \cup P[x]) = SumOver(f, U(T)) + SumOver(f, P[x])
    BY <2>1, SumOverUnion
  <2>4. SumOver(e, T \cup {x}) = SumOver(f, U(T \cup {x}))
    BY <1>3, <2>1, <2>2, <2>3
  <2> QED  BY <2>4
<1> HIDE DEF B
<1>4. K \in B
  BY <1>2, <1>3, SetInduction
<1> QED  BY <1>4 DEF B

(* A sum taken through an injection. *)
LEMMA SumOverImage ==
  ASSUME NEW A, NEW S, IsFiniteSet(A), IsFiniteSet(S), NEW p \in [A -> S],
         \A a, b \in A : p[a] = p[b] => a = b,
         NEW f \in [S -> Int], NEW e, e = [a \in A |-> f[p[a]]], NEW R \in SUBSET A
  PROVE  SumOver(e, R) = SumOver(f, {p[a] : a \in R})
<1> DEFINE I(T) == {p[a] : a \in T}
           B == {T \in SUBSET R : SumOver(e, T) = SumOver(f, I(T))}
<1>1. e \in [A -> Int] /\ IsFiniteSet(R)
  BY FS_Subset
<1>2. {} \in B
  <2>1. I({}) = {}
    OBVIOUS
  <2> QED  BY <2>1, SumOverEmpty
<1>3. ASSUME NEW T \in SUBSET R, NEW x \in R \ T, T \in B PROVE T \cup {x} \in B
  <2>1. /\ T \in SUBSET A /\ x \in A \ T /\ I(T) \in SUBSET S /\ p[x] \in S \ I(T)
        /\ I(T \cup {x}) = I(T) \cup {p[x]} /\ e[x] = f[p[x]]
    OBVIOUS
  <2> HIDE DEF I
  <2>2. SumOver(e, T \cup {x}) = SumOver(e, T) + e[x]
    BY <1>1, <2>1, SumOverAdd
  <2>3. SumOver(f, I(T) \cup {p[x]}) = SumOver(f, I(T)) + f[p[x]]
    BY <2>1, SumOverAdd
  <2>4. SumOver(e, T \cup {x}) = SumOver(f, I(T \cup {x}))
    BY <1>3, <2>1, <2>2, <2>3
  <2> QED  BY <2>4
<1> HIDE DEF B
<1>4. R \in B
  BY <1>1, <1>2, <1>3, SetInduction
<1> QED  BY <1>4 DEF B

(* Counting is summing ones. *)
LEMMA SumOverOnes ==
  ASSUME NEW S, IsFiniteSet(S), NEW C \in SUBSET S
  PROVE  SumOver([s \in S |-> 1], C) = Cardinality(C)
<1> DEFINE f == [s \in S |-> 1]
           B == {T \in SUBSET C : SumOver(f, T) = Cardinality(T)}
<1>1. f \in [S -> Int] /\ IsFiniteSet(C)
  BY FS_Subset
<1>2. {} \in B
  BY SumOverEmpty, FS_EmptySet
<1>3. ASSUME NEW T \in SUBSET C, NEW x \in C \ T, T \in B PROVE T \cup {x} \in B
  <2>1. T \in SUBSET S /\ x \in S \ T /\ f[x] = 1
    OBVIOUS
  <2> HIDE DEF f
  <2>2. SumOver(f, T \cup {x}) = SumOver(f, T) + f[x]
    BY <1>1, <2>1, SumOverAdd
  <2>3. Cardinality(T \cup {x}) = Cardinality(T) + 1
    BY <2>1, FS_Subset, FS_AddElement
  <2>4. SumOver(f, T \cup {x}) = Cardinality(T \cup {x})
    BY <1>3, <2>1, <2>2, <2>3
  <2> QED  BY <2>4
<1> HIDE DEF B
<1>4. C \in B
  BY <1>1, <1>2, <1>3, SetInduction
<1> QED  BY <1>4 DEF B

(* Each term cut to its half: the sum loses at most one a term, and nothing *)
(* where all terms are even.                                               *)
LEMMA SumOverCut ==
  ASSUME NEW S, IsFiniteSet(S), NEW f \in [S -> Int],
         NEW q, q = [s \in S |-> f[s] \div 2]
  PROVE  LET left == SumOver(f, S) - 2 * SumOver(q, S)
         IN  /\ left \in 0..Cardinality(S)
             /\ (\A s \in S : f[s] % 2 = 0) => left = 0
<1> DEFINE left(T) == SumOver(f, T) - 2 * SumOver(q, T)
           whole == \A s \in S : f[s] % 2 = 0
           B == {T \in SUBSET S : left(T) \in 0..Cardinality(T) /\ (whole => left(T) = 0)}
<1>1. q \in [S -> Int]
  OBVIOUS
<1>2. {} \in B
  <2>1. left({}) = 0 /\ Cardinality({}) = 0
    BY SumOverEmpty, FS_EmptySet
  <2> HIDE DEF left
  <2> QED  BY <2>1
<1>3. ASSUME NEW T \in SUBSET S, NEW x \in S \ T, T \in B PROVE T \cup {x} \in B
  <2>1. /\ SumOver(f, T \cup {x}) = SumOver(f, T) + f[x]
        /\ SumOver(q, T \cup {x}) = SumOver(q, T) + q[x]
    BY <1>1, SumOverAdd
  <2>2. Cardinality(T) \in Nat /\ Cardinality(T \cup {x}) = Cardinality(T) + 1
    BY FS_Subset, FS_CardinalityType, FS_AddElement
  <2>3. SumOver(f, T) \in Int /\ SumOver(q, T) \in Int
    BY <1>1, SumOverType
  <2>4. /\ f[x] \in Int /\ q[x] \in Int /\ f[x] - 2 * q[x] \in {0, 1}
        /\ f[x] % 2 = 0 => f[x] - 2 * q[x] = 0
    <3>1. \A n \in Int : /\ n \div 2 \in Int /\ n - 2 * (n \div 2) \in {0, 1}
                         /\ n % 2 = 0 => n - 2 * (n \div 2) = 0
      OBVIOUS
    <3> QED  BY <3>1
  <2>5. left(T \cup {x}) = left(T) + (f[x] - 2 * q[x])
    BY <2>1, <2>3, <2>4
  <2> HIDE DEF left
  <2>6. left(T) \in 0..Cardinality(T) /\ (whole => left(T) = 0)
    BY <1>3
  <2>7. left(T \cup {x}) \in 0..Cardinality(T \cup {x})
    BY <2>2, <2>4, <2>5, <2>6
  <2>8. whole => left(T \cup {x}) = 0
    BY <2>4, <2>5, <2>6
  <2> QED  BY <2>7, <2>8
<1> HIDE DEF B
<1>4. S \in B
  BY <1>2, <1>3, SetInduction
<1> QED  BY <1>4 DEF B

(* A sum of even terms is even. *)
LEMMA SumOverEven ==
  ASSUME NEW S, IsFiniteSet(S), NEW f \in [S -> Int], NEW C \in SUBSET S,
         \A s \in C : f[s] % 2 = 0
  PROVE  SumOver(f, C) % 2 = 0
<1> DEFINE B == {T \in SUBSET C : SumOver(f, T) % 2 = 0}
<1>1. IsFiniteSet(C)
  BY FS_Subset
<1>2. {} \in B
  BY SumOverEmpty
<1>3. ASSUME NEW T \in SUBSET C, NEW x \in C \ T, T \in B PROVE T \cup {x} \in B
  <2>1. T \in SUBSET S /\ x \in S \ T /\ f[x] \in Int
    OBVIOUS
  <2>2. SumOver(f, T \cup {x}) = SumOver(f, T) + f[x]
    BY <2>1, SumOverAdd
  <2>3. SumOver(f, T) \in Int
    BY <2>1, SumOverType
  <2>4. \A m, n \in Int : m % 2 = 0 /\ n % 2 = 0 => (m + n) % 2 = 0
    OBVIOUS
  <2> QED  BY <1>3, <2>1, <2>2, <2>3, <2>4
<1> HIDE DEF B
<1>4. C \in B
  BY <1>1, <1>2, <1>3, SetInduction
<1> QED  BY <1>4 DEF B

(* The numbers of elements of the parts. *)
LEMMA SumOfCards ==
  ASSUME NEW S, IsFiniteSet(S), NEW K, IsFiniteSet(K), NEW P,
         \A k \in K : P[k] \in SUBSET S,
         \A k, l \in K : k # l => P[k] \cap P[l] = {},
         NEW e, e = [k \in K |-> Cardinality(P[k])]
  PROVE  SumOver(e, K) = Cardinality(UNION {P[k] : k \in K})
<1> DEFINE f == [s \in S |-> 1]
           U == UNION {P[k] : k \in K}
<1>1. f \in [S -> Int] /\ U \in SUBSET S
  OBVIOUS
<1>2. \A C \in SUBSET S : SumOver(f, C) = Cardinality(C)
  BY SumOverOnes
<1> HIDE DEF f
<1>3. e = [k \in K |-> SumOver(f, P[k])]
  BY <1>2
<1>4. SumOver(e, K) = SumOver(f, U)
  BY <1>1, <1>3, SumOverParts
<1> QED  BY <1>1, <1>2, <1>4

(* The sums over the parts, each cut to its half. *)
LEMMA SumOfCuts ==
  ASSUME NEW S, IsFiniteSet(S), NEW f \in [S -> Int], NEW K, IsFiniteSet(K), NEW P,
         \A k \in K : P[k] \in SUBSET S,
         \A k, l \in K : k # l => P[k] \cap P[l] = {},
         NEW e, e = [k \in K |-> SumOver(f, P[k]) \div 2]
  PROVE  LET left == SumOver(f, UNION {P[k] : k \in K}) - 2 * SumOver(e, K)
         IN  /\ left \in 0..Cardinality(K)
             /\ (\A s \in S : f[s] % 2 = 0) => left = 0
<1> DEFINE h == [k \in K |-> SumOver(f, P[k])]
           U == UNION {P[k] : k \in K}
<1>1. h \in [K -> Int]
  BY SumOverType
<1>2. SumOver(h, K) = SumOver(f, U)
  BY SumOverParts
<1>3. e = [k \in K |-> h[k] \div 2]
  OBVIOUS
<1>4. (\A s \in S : f[s] % 2 = 0) => \A k \in K : h[k] % 2 = 0
  BY SumOverEven
<1> HIDE DEF h, U
<1>5. LET left == SumOver(h, K) - 2 * SumOver(e, K)
      IN  /\ left \in 0..Cardinality(K)
          /\ (\A k \in K : h[k] % 2 = 0) => left = 0
  BY <1>1, <1>3, SumOverCut
<1> QED  BY <1>2, <1>4, <1>5 DEF U

-----------------------------------------------------------------------------
(* Arithmetic. *)

LEMMA Quotient ==
  ASSUME NEW n \in Nat, NEW m \in Nat \ {0}
  PROVE  /\ n \div m \in Nat /\ n % m \in 0..m - 1
         /\ n = m * (n \div m) + (n % m)
OBVIOUS

LEMMA Monotone ==
  ASSUME NEW a \in Nat, NEW b \in Nat, NEW s \in Nat, a <= b
  PROVE  a * s <= b * s
<1>1. PICK d \in Nat : b = a + d
  BY b - a \in Nat
<1>2. b * s = a * s + d * s /\ d * s \in Nat /\ a * s \in Nat
  BY <1>1
<1> QED  BY <1>2

(* A place of a matrix is in one row and one column. *)
LEMMA Place ==
  ASSUME NEW n \in Nat \ {0}, NEW q \in Nat, NEW c \in 0..n - 1
  PROVE  (q * n + c) \div n = q /\ (q * n + c) % n = c
<1> DEFINE p == q * n + c
<1>1. p \in Nat
  OBVIOUS
<1>2. p \div n \in Nat /\ p % n \in 0..n - 1 /\ p = n * (p \div n) + (p % n)
  BY <1>1, Quotient
<1> HIDE DEF p
<1> DEFINE e == p \div n
<1>3. e \in Nat /\ p = e * n + (p % n) /\ p = q * n + c
  BY <1>2 DEF p
<1> HIDE DEF e
<1>4. ~(e < q)
  <2> SUFFICES ASSUME e < q PROVE FALSE
    OBVIOUS
  <2>1. (e + 1) * n <= q * n /\ (e + 1) * n = e * n + n
    BY <1>3, Monotone
  <2> QED  BY <1>2, <1>3, <2>1
<1>5. ~(q < e)
  <2> SUFFICES ASSUME q < e PROVE FALSE
    OBVIOUS
  <2>1. (q + 1) * n <= e * n /\ (q + 1) * n = q * n + n
    BY <1>3, Monotone
  <2> QED  BY <1>2, <1>3, <2>1
<1>6. e = q
  BY <1>3, <1>4, <1>5
<1> QED  BY <1>2, <1>3, <1>6 DEF e, p

-----------------------------------------------------------------------------
(* The slices. *)

LEMMA ConfFact ==
  ASSUME conf \in Confs
  PROVE  /\ conf.nDocs \in Nat \ {0} /\ conf.nFeatures \in Nat \ {0}
         /\ conf.nSlices \in Nat \ {0}
         /\ startDoc \in Nat /\ startFeature \in Nat /\ Base \in {0, 1}
BY DatasetsAssumption DEF startDoc, startFeature, Base

Slices == IF source = "synthetic" THEN Synthetic ELSE GroupBy(Documents)
AllDocs == IF source = "synthetic" THEN UNION Range(Synthetic) ELSE {d \in Doc : d >= Base}

LEMMA SyntheticFact ==
  ASSUME conf \in Confs
  PROVE  LET s == conf.nDocs \div conf.nSlices
         IN  /\ s \in Nat /\ DOMAIN Synthetic = 1..conf.nSlices
             /\ \A k \in 1..conf.nSlices : Synthetic[k] = (k - 1) * s .. k * s - 1
             /\ conf.nDocs = conf.nSlices * s + (conf.nDocs % conf.nSlices)
             /\ conf.nDocs % conf.nSlices \in 0..conf.nSlices - 1
             /\ \A k, l \in 1..conf.nSlices : k # l => Synthetic[k] \cap Synthetic[l] = {}
             /\ UNION Range(Synthetic) = 0..conf.nSlices * s - 1
<1> DEFINE n == conf.nSlices
           s == conf.nDocs \div conf.nSlices
<1>1. n \in Nat \ {0} /\ conf.nDocs \in Nat \ {0}
  BY ConfFact
<1>2. s \in Nat /\ conf.nDocs = n * s + (conf.nDocs % n) /\ conf.nDocs % n \in 0..n - 1
  BY <1>1, Quotient
<1>3. Synthetic = [k \in 1..n |-> (k - 1) * s .. k * s - 1]
  BY DEF Synthetic
<1> HIDE DEF n, s
<1>4. \A k \in 1..n : k - 1 \in Nat /\ k \in Nat /\ (k - 1) * s \in Nat /\ k * s \in Nat
                      /\ k * s = (k - 1) * s + s /\ k * s <= n * s
  <2> SUFFICES ASSUME NEW k \in 1..n
      PROVE  k - 1 \in Nat /\ k \in Nat /\ (k - 1) * s \in Nat /\ k * s \in Nat
             /\ k * s = (k - 1) * s + s /\ k * s <= n * s
    OBVIOUS
  <2>1. k * s <= n * s
    BY <1>1, <1>2, Monotone
  <2> QED  BY <1>1, <1>2, <2>1
<1>5. ASSUME NEW k \in 1..n, NEW l \in 1..n, k < l
      PROVE  Synthetic[k] \cap Synthetic[l] = {}
  <2>1. k * s <= (l - 1) * s
    BY <1>1, <1>2, <1>4, <1>5, Monotone
  <2>2. /\ Synthetic[k] = (k - 1) * s .. k * s - 1
        /\ Synthetic[l] = (l - 1) * s .. l * s - 1
    BY <1>3
  <2> DEFINE a == (k - 1) * s
             b == k * s
             c == (l - 1) * s
             d == l * s
  <2>3. a \in Nat /\ b \in Nat /\ c \in Nat /\ d \in Nat
    BY <1>4
  <2> HIDE DEF a, b, c, d
  <2>4. b <= c => (a .. b - 1) \cap (c .. d - 1) = {}
    BY <2>3
  <2> QED  BY <2>1, <2>2, <2>4 DEF a, b, c, d
<1>6. \A k, l \in 1..n : k # l => Synthetic[k] \cap Synthetic[l] = {}
  <2> SUFFICES ASSUME NEW k \in 1..n, NEW l \in 1..n, k # l
               PROVE  Synthetic[k] \cap Synthetic[l] = {}
    OBVIOUS
  <2>1. k < l \/ l < k
    BY <1>1
  <2> QED  BY <1>5, <2>1
<1>7. ASSUME NEW x \in 0..n * s - 1 PROVE \E k \in 1..n : x \in Synthetic[k]
  <2>1. n * s \in Nat /\ x \in Nat /\ x < n * s
    BY <1>1, <1>2
  <2>2. s # 0
    BY <1>1, <2>1
  <2> DEFINE q == x \div s
  <2>3. q \in Nat /\ x = s * q + (x % s) /\ x % s \in 0..s - 1
    BY <1>2, <2>1, <2>2, Quotient
  <2> HIDE DEF q
  <2>4. s * q = q * s /\ q * s \in Nat
    BY <1>2, <2>3
  <2>5. q < n
    <3> SUFFICES ASSUME n <= q PROVE FALSE
      BY <1>1, <2>3
    <3>1. n * s <= q * s
      BY <1>1, <1>2, <2>3, Monotone
    <3> QED  BY <1>2, <2>1, <2>3, <2>4, <3>1
  <2>6. q + 1 \in 1..n /\ (q + 1) - 1 = q
    BY <1>1, <2>3, <2>5
  <2>7. (q + 1) * s = q * s + s
    BY <1>4, <2>6
  <2>8. x \in q * s .. (q + 1) * s - 1
    BY <1>2, <2>1, <2>3, <2>4, <2>7
  <2>9. x \in Synthetic[q + 1]
    BY <1>3, <2>6, <2>8
  <2> QED  BY <2>6, <2>9
<1>8. ASSUME NEW k \in 1..n PROVE Synthetic[k] \subseteq 0..n * s - 1
  <2> DEFINE a == (k - 1) * s
             b == k * s
             m == n * s
  <2>1. a \in Nat /\ b \in Nat /\ b <= m
    BY <1>4
  <2>2. m \in Nat
    BY <1>1, <1>2
  <2>3. Synthetic[k] = a .. b - 1
    BY <1>3
  <2> HIDE DEF a, b, m
  <2>4. Synthetic[k] \subseteq 0..m - 1
    BY <2>1, <2>2, <2>3
  <2> QED  BY <2>4 DEF m
<1>9. UNION Range(Synthetic) = 0..n * s - 1
  BY <1>3, <1>7, <1>8 DEF Range
<1> QED  BY <1>2, <1>3, <1>6, <1>9 DEF n, s

LEMMA DocumentsFact ==
  ASSUME conf \in Confs, DOMAIN file = AllDocs, source # "synthetic"
  PROVE  /\ Documents \subseteq DOMAIN file /\ Documents \subseteq Nat
         /\ IsFiniteSet(Documents)
         /\ DOMAIN GroupBy(Documents) = {d % conf.nSlices : d \in Documents}
         /\ \A k \in DOMAIN GroupBy(Documents) :
              GroupBy(Documents)[k] = {d \in Documents : d % conf.nSlices = k}
<1>1. Documents \subseteq DOMAIN file /\ Documents \subseteq Nat
  BY DatasetsAssumption DEF Documents, AllDocs
<1> DEFINE top == startDoc + Base + conf.nDocs
<1>2. top \in Nat /\ \A d \in Documents : d <= top
  BY <1>1, ConfFact DEF Documents, InWindow
<1>3. IsFiniteSet(Documents)
  <2> HIDE DEF top
  <2> QED  BY <1>1, <1>2, FS_BoundedSetOfNaturals
<1> QED  BY <1>1, <1>3 DEF GroupBy

LEMMA SlicesFact ==
  ASSUME conf \in Confs, DOMAIN file = AllDocs
  PROVE  /\ \A k \in DOMAIN Slices : Slices[k] \subseteq DOMAIN file /\ IsFiniteSet(Slices[k])
         /\ IsFiniteSet(UNION Range(Slices)) /\ UNION Range(Slices) \subseteq DOMAIN file
<1>1. CASE source = "synthetic"
  <2> DEFINE s == conf.nDocs \div conf.nSlices
             n == conf.nSlices
  <2>1. /\ s \in Nat /\ DOMAIN Synthetic = 1..n
        /\ \A k \in 1..n : Synthetic[k] = (k - 1) * s .. k * s - 1
        /\ UNION Range(Synthetic) = 0..n * s - 1
    BY SyntheticFact
  <2>2. n \in Nat
    BY ConfFact
  <2> HIDE DEF s, n
  <2>3. \A k \in 1..n : (k - 1) * s \in Int /\ k * s - 1 \in Int
    BY <2>1, <2>2
  <2>4. IsFiniteSet(0..n * s - 1)
    <3>1. n * s - 1 \in Int /\ 0 \in Int
      BY <2>1, <2>2
    <3> QED  BY <3>1, FS_Interval
  <2>5. \A k \in 1..n : IsFiniteSet(Synthetic[k])
    BY <2>1, <2>3, FS_Interval
  <2>6. IsFiniteSet(UNION Range(Synthetic))
    BY <2>1, <2>4
  <2> QED  BY <1>1, <2>1, <2>5, <2>6 DEF Slices, AllDocs, Range
<1>2. CASE source # "synthetic"
  <2>1. \A k \in DOMAIN GroupBy(Documents) :
          GroupBy(Documents)[k] \subseteq Documents
    BY <1>2, DocumentsFact
  <2>2. UNION Range(GroupBy(Documents)) \subseteq Documents
    BY <2>1 DEF Range
  <2> QED  BY <1>2, <2>1, <2>2, DocumentsFact, FS_Subset DEF Slices
<1> QED  BY <1>1, <1>2

-----------------------------------------------------------------------------
(* The order that a slice is built in. *)

LEMMA OrderFact ==
  ASSUME NEW docs, IsFiniteSet(docs), NEW order \in Orders(docs)
  PROVE  LET n == Cardinality(docs)
         IN  /\ n \in Nat /\ DOMAIN order = 1..n /\ Len(order) = n
             /\ IsFiniteSet(1..n) /\ Cardinality(1..n) = n
             /\ order \in Bijection(1..n, docs)
             /\ \A r \in 1..n : order[r] \in docs
<1> DEFINE n == Cardinality(docs)
<1>1. n \in Nat
  BY FS_CardinalityType
<1>2. order \in [1..n -> docs] /\ IsInjective(order)
  BY DEF Orders
<1> HIDE DEF n
<1>3. IsFiniteSet(1..n) /\ Cardinality(1..n) = n
  BY <1>1, FS_Interval
<1>4. order \in Injection(1..n, docs)
  BY <1>2 DEF Injection
<1>5. order \in Surjection(1..n, docs)
  BY <1>3, <1>4, FS_Injection DEF n
<1>6. order \in Seq(docs) /\ Len(order) = n
  BY <1>1, <1>2
<1> QED  BY <1>1, <1>2, <1>3, <1>4, <1>5, <1>6 DEF n, Bijection

(* The halves that a label is missed by at each document, and their sum. *)
Halves(wanted) == [d \in DOMAIN margin |-> IF wanted = 1 THEN 1 - margin[d] ELSE 1 + margin[d]]
RowHalves(order, wanted) == [r \in DOMAIN order |-> Halves(wanted)[order[r]]]

LEMMA MissedHalvesFact ==
  ASSUME NEW order, NEW rs \in SUBSET DOMAIN order, NEW wanted, IsFiniteSet(rs),
         \A r \in DOMAIN order : order[r] \in DOMAIN margin
  PROVE  MissedHalves(order, rs, wanted) = SumOver(RowHalves(order, wanted), rs)
<1> DEFINE f == RowHalves(order, wanted)
           Raw(g) == g = [T \in SUBSET rs |->
                            IF T = {} THEN 0
                            ELSE (IF wanted = 1 THEN 1 - margin[order[Pick(T)]]
                                  ELSE 1 + margin[order[Pick(T)]]) + g[T \ {Pick(T)}]]
<1>1. MissedHalves(order, rs, wanted) = (CHOOSE g : Raw(g))[rs]
  BY DEF MissedHalves, MapThenSumSet, MapThenFoldSet, Pick
<1>2. \A g : Raw(g) <=> Sums(g, f, rs)
  <2>1. ASSUME NEW T \in SUBSET rs, T # {}
        PROVE  f[Pick(T)] = IF wanted = 1 THEN 1 - margin[order[Pick(T)]]
                            ELSE 1 + margin[order[Pick(T)]]
    <3>1. Pick(T) \in DOMAIN order
      BY <2>1, PickFact
    <3> QED  BY <3>1 DEF RowHalves, Halves
  <2> HIDE DEF f
  <2> QED  BY <2>1 DEF Sums
<1> HIDE DEF f, Raw
<1>3. \E g : Raw(g)
  BY <1>2, SumsExist
<1>4. Sums(CHOOSE g : Raw(g), f, rs)
  BY <1>2, <1>3
<1>5. (CHOOSE g : Raw(g))[rs] = SumOver(f, rs)
  BY <1>4, TableSum
<1> QED  BY <1>1, <1>5 DEF f

LEMMA HalvesType ==
  ASSUME margin \in [DOMAIN margin -> -1..1], NEW wanted
  PROVE  Halves(wanted) \in [DOMAIN margin -> 0..2]
BY DEF Halves

LEMMA MissedHalvesType ==
  ASSUME margin \in [DOMAIN margin -> -1..1], NEW order, NEW rs \in SUBSET DOMAIN order,
         IsFiniteSet(DOMAIN order), NEW wanted,
         \A r \in DOMAIN order : order[r] \in DOMAIN margin
  PROVE  /\ ToInt(MissedHalves(order, rs, wanted)) \in 0..Cardinality(DOMAIN order)
         /\ Cardinality(rs) \in 0..Cardinality(DOMAIN order)
<1> DEFINE f == [r \in rs |-> RowHalves(order, wanted)[r]]
           m == SumOver(RowHalves(order, wanted), rs)
<1>1. /\ IsFiniteSet(rs) /\ Cardinality(rs) \in Nat /\ Cardinality(DOMAIN order) \in Nat
      /\ Cardinality(rs) <= Cardinality(DOMAIN order)
  BY FS_Subset, FS_CardinalityType
<1>2. MissedHalves(order, rs, wanted) = m
  BY <1>1, MissedHalvesFact
<1>3. f \in [rs -> 0..2]
  BY HalvesType DEF RowHalves
<1>4. m = SumOver(f, rs)
  BY DEF SumOver
<1> HIDE DEF f
<1>5. SumOver(f, rs) \in 0..2 * Cardinality(rs)
  BY <1>1, <1>3, SumOverBounds
<1> HIDE DEF m
<1>6. m \div 2 \in 0..Cardinality(rs)
  BY <1>1, <1>4, <1>5
<1> QED  BY <1>1, <1>2, <1>6 DEF ToInt

-----------------------------------------------------------------------------
(* What is there at each stage. *)
StagesOk ==
  /\ stage # "read" => DOMAIN file = AllDocs
  /\ stage \in {"read", "group"} => DOMAIN groups = {}
  /\ stage \notin {"read", "group"} => groups = Slices
  /\ stage \notin {"count", "done"} => DOMAIN counts = {} /\ DOMAIN margin = {}
  /\ stage \in {"count", "done"} => /\ DOMAIN rows = DOMAIN groups
                                    /\ DOMAIN margin = UNION Range(groups)
  /\ stage = "done" => DOMAIN counts = DOMAIN groups

TypeInv == TypeOK /\ StagesOk

LEMMA GroupsFact ==
  ASSUME TypeInv
  PROVE  /\ \A k \in DOMAIN groups : IsFiniteSet(groups[k])
         /\ \A k \in DOMAIN groups : groups[k] \subseteq UNION Range(groups)
         /\ IsFiniteSet(UNION Range(groups)) /\ UNION Range(groups) \subseteq DOMAIN file
<1>1. CASE DOMAIN groups = {}
  <2>1. UNION Range(groups) = {}
    BY <1>1 DEF Range
  <2> QED  BY <1>1, <2>1, FS_EmptySet
<1>2. CASE DOMAIN groups # {}
  <2>1. groups = Slices /\ DOMAIN file = AllDocs /\ conf \in Confs
    BY <1>2 DEF TypeInv, StagesOk, TypeOK
  <2>2. \A k \in DOMAIN groups : groups[k] \subseteq UNION Range(groups)
    BY DEF Range
  <2> QED  BY <2>1, <2>2, SlicesFact
<1> QED  BY <1>1, <1>2

LEMMA TypeInit == Init => TypeInv
<1> SUFFICES ASSUME Init PROVE TypeInv
  OBVIOUS
<1>1. DOMAIN Empty = {} /\ Empty \in [{} -> FeatureSets] /\ Empty \in [{} -> -1..1]
  BY DEF Empty
<1> QED  BY <1>1 DEF Init, TypeInv, TypeOK, StagesOk, Stage

(* The slices of a file stay the same, since it does. *)
LEMMA SlicesKept ==
  ASSUME source' = source, conf' = conf, file' = file
  PROVE  Slices' = Slices /\ AllDocs' = AllDocs
BY DEF Slices, AllDocs, Synthetic, GroupBy, Documents, Features, InWindow, startDoc,
       startFeature, Base

LEMMA ReadTypes == ASSUME TypeInv, Read PROVE TypeInv'
<1>1. PICK docs \in {AllDocs} :
        /\ file' \in [docs -> {f \in FeatureSets : \A j \in f : j >= Base}]
        /\ label' \in [docs -> {"positive", "negative"}
                              \cup (IF Base = 1 THEN {"missing"} ELSE {})]
  BY DEF Read, AllDocs
<1>2. /\ DOMAIN file' = AllDocs /\ DOMAIN label' = AllDocs
      /\ file' \in [AllDocs -> FeatureSets]
      /\ \A d \in AllDocs : label'[d] \in {"positive", "negative", "missing"}
  BY <1>1
<1>3. AllDocs' = AllDocs
  BY DEF Read, AllDocs, Synthetic, Base
<1>4. /\ stage = "read" /\ stage' = "group"
      /\ UNCHANGED <<source, conf, groups, rows, margin, counts, total>>
  BY DEF Read
<1>5. DOMAIN groups = {} /\ DOMAIN counts = {} /\ DOMAIN margin = {}
  BY <1>4 DEF TypeInv, StagesOk
<1>6. StagesOk'
  BY <1>2, <1>3, <1>4, <1>5 DEF StagesOk
<1>7. TypeOK'
  BY <1>2, <1>4, <1>5 DEF TypeInv, TypeOK, Stage
<1> QED  BY <1>6, <1>7 DEF TypeInv

LEMMA GroupTypes == ASSUME TypeInv, Group PROVE TypeInv'
<1>1. /\ stage = "group" /\ stage' \in {"failed", "build"} /\ groups' = Slices
      /\ UNCHANGED <<source, conf, file, label, rows, margin, counts, total>>
  BY DEF Group, Slices
<1>2. DOMAIN groups = {} /\ DOMAIN counts = {} /\ DOMAIN margin = {} /\ DOMAIN rows = {}
      /\ DOMAIN file = AllDocs /\ conf \in Confs
  BY <1>1 DEF TypeInv, StagesOk, TypeOK
<1>3. \A k \in DOMAIN Slices : Slices[k] \subseteq DOMAIN file
  BY <1>2, SlicesFact
<1>4. Slices' = Slices /\ AllDocs' = AllDocs
  BY <1>1, SlicesKept
<1>5. StagesOk'
  BY <1>1, <1>2, <1>4 DEF StagesOk
<1>6. TypeOK'
  BY <1>1, <1>2, <1>3 DEF TypeInv, TypeOK, Stage
<1> QED  BY <1>5, <1>6 DEF TypeInv

(* What the later steps leave alone. *)
LEMMA SettledKept ==
  ASSUME TypeInv, stage \notin {"read", "group"},
         UNCHANGED <<source, conf, file, label, groups>>,
         stage' \in {"build", "count", "done", "failed"}
  PROVE  groups' = Slices' /\ DOMAIN file' = AllDocs'
BY SlicesKept DEF TypeInv, StagesOk

LEMMA BuildTypes == ASSUME TypeInv, NEW k \in DOMAIN groups, Build(k) PROVE TypeInv'
<1>1. /\ stage = "build" /\ stage' \in {"failed", "build"}
      /\ UNCHANGED <<source, conf, file, label, groups, margin, counts, total>>
  BY DEF Build
<1>2. /\ DOMAIN rows' \subseteq DOMAIN groups
      /\ \A l \in DOMAIN rows' : rows'[l] \in Orders(groups[l])
  <2>1. CASE OutOfBounds(groups[k])
    BY <2>1 DEF Build, TypeInv, TypeOK
  <2>2. CASE ~OutOfBounds(groups[k])
    <3>1. PICK order \in Orders(groups[k]) :
            rows' = [x \in DOMAIN rows \cup {k} |-> IF x = k THEN order ELSE rows[x]]
      BY <2>2 DEF Build
    <3> QED  BY <3>1 DEF TypeInv, TypeOK
  <2> QED  BY <2>1, <2>2
<1>3. DOMAIN counts = {} /\ DOMAIN margin = {}
  BY <1>1 DEF TypeInv, StagesOk
<1>4. StagesOk'
  BY <1>1, <1>3, SettledKept DEF StagesOk
<1>5. TypeOK'
  BY <1>1, <1>2, <1>3 DEF TypeInv, TypeOK, Stage, Orders
<1> QED  BY <1>4, <1>5 DEF TypeInv

LEMMA RebuildTypes == ASSUME TypeInv, NEW k \in DOMAIN groups, Rebuild(k) PROVE TypeInv'
<1>1. /\ stage = "count" /\ stage' = "count"
      /\ UNCHANGED <<source, conf, file, label, groups, margin, counts, total>>
  BY DEF Rebuild
<1>2. PICK order \in Orders(groups[k]) : rows' = [rows EXCEPT ![k] = order]
  BY DEF Rebuild
<1>3. /\ DOMAIN rows = DOMAIN groups /\ DOMAIN margin = UNION Range(groups)
      /\ DOMAIN rows' = DOMAIN rows
      /\ \A l \in DOMAIN rows' : rows'[l] \in Orders(groups[l])
  BY <1>1, <1>2 DEF TypeInv, TypeOK, StagesOk
<1>4. StagesOk'
  BY <1>1, <1>3, SettledKept DEF StagesOk
<1>5. TypeOK'
  BY <1>1, <1>3 DEF TypeInv, TypeOK, Stage, Orders
<1> QED  BY <1>4, <1>5 DEF TypeInv

LEMMA SolveTypes == ASSUME TypeInv, Solve PROVE TypeInv'
<1>1. /\ stage = "build" /\ stage' = "count" /\ DOMAIN rows = DOMAIN groups
      /\ margin' \in [UNION Range(groups) -> -1..1]
      /\ UNCHANGED <<source, conf, file, label, groups, rows, counts, total>>
  BY DEF Solve
<1>2. /\ DOMAIN counts = {} /\ DOMAIN margin' = UNION Range(groups)
      /\ margin' \in [DOMAIN margin' -> -1..1]
      /\ UNION Range(groups) \subseteq DOMAIN file
  BY <1>1, GroupsFact DEF TypeInv, StagesOk
<1>3. StagesOk'
  BY <1>1, <1>2, SettledKept DEF StagesOk
<1>4. TypeOK'
  BY <1>1, <1>2 DEF TypeInv, TypeOK, Stage, Orders
<1> QED  BY <1>3, <1>4 DEF TypeInv

LEMMA CountTypes == ASSUME TypeInv, NEW k \in DOMAIN groups, Count(k) PROVE TypeInv'
<1> DEFINE order == rows[k]
           pos == Positive(order)
           neg == DOMAIN order \ pos
           n == Cardinality(groups[k])
           new == <<ToInt(MissedHalves(order, pos, 1)), Cardinality(pos),
                    ToInt(MissedHalves(order, neg, 0)), Cardinality(neg)>>
<1>1. /\ stage = "count" /\ stage' = "count"
      /\ counts' = [x \in DOMAIN counts \cup {k} |-> IF x # k THEN counts[x] ELSE new]
      /\ UNCHANGED <<source, conf, file, label, groups, rows, margin, total>>
  BY DEF Count
<1>2. /\ DOMAIN rows = DOMAIN groups /\ DOMAIN margin = UNION Range(groups)
      /\ margin \in [DOMAIN margin -> -1..1]
      /\ order \in Orders(groups[k])
  BY <1>1 DEF TypeInv, TypeOK, StagesOk
<1>3. IsFiniteSet(groups[k]) /\ groups[k] \subseteq DOMAIN margin
  BY <1>2, GroupsFact
<1>4. /\ n \in Nat /\ DOMAIN order = 1..n /\ IsFiniteSet(1..n) /\ Cardinality(1..n) = n
      /\ \A r \in 1..n : order[r] \in groups[k]
  BY <1>2, <1>3, OrderFact
<1>5. pos \in SUBSET DOMAIN order /\ neg \in SUBSET DOMAIN order
  BY DEF Positive
<1> HIDE DEF order, pos, neg, n
<1>6. /\ ToInt(MissedHalves(order, pos, 1)) \in 0..n /\ Cardinality(pos) \in 0..n
      /\ ToInt(MissedHalves(order, neg, 0)) \in 0..n /\ Cardinality(neg) \in 0..n
  <2>1. IsFiniteSet(DOMAIN order) /\ Cardinality(DOMAIN order) = n
        /\ \A r \in DOMAIN order : order[r] \in DOMAIN margin
    BY <1>3, <1>4
  <2> QED  BY <1>2, <1>5, <2>1, MissedHalvesType
<1>7. new \in [1..4 -> 0..n]
  BY <1>6
<1> HIDE DEF new
<1>8. /\ DOMAIN counts' = DOMAIN counts \cup {k}
      /\ \A x \in DOMAIN counts' : counts'[x] \in [1..4 -> 0..Cardinality(groups[x])]
  BY <1>1, <1>7 DEF TypeInv, TypeOK, n
<1>9. StagesOk'
  BY <1>1, <1>2, SettledKept DEF StagesOk
<1>10. TypeOK'
  BY <1>1, <1>2, <1>8 DEF TypeInv, TypeOK, Stage, Orders
<1> QED  BY <1>9, <1>10 DEF TypeInv

LEMMA TypeStep == ASSUME TypeInv, [Next]_vars PROVE TypeInv'
<1>1. CASE Reduce
  <2>1. /\ stage = "count" /\ stage' = "done" /\ DOMAIN counts = DOMAIN groups
        /\ UNCHANGED <<source, conf, file, label, groups, rows, margin, counts>>
    BY <1>1 DEF Reduce
  <2>2. DOMAIN rows = DOMAIN groups /\ DOMAIN margin = UNION Range(groups)
    BY <2>1 DEF TypeInv, StagesOk
  <2>3. StagesOk'
    BY <2>1, <2>2, SettledKept DEF StagesOk
  <2>4. TypeOK'
    BY <2>1 DEF TypeInv, TypeOK, Stage, Orders
  <2> QED  BY <2>3, <2>4 DEF TypeInv
<1>2. CASE UNCHANGED vars
  <2>1. Slices' = Slices /\ AllDocs' = AllDocs
    BY <1>2, SlicesKept DEF vars
  <2>2. StagesOk'
    BY <1>2, <2>1 DEF vars, TypeInv, StagesOk
  <2>3. TypeOK'
    BY <1>2 DEF vars, TypeInv, TypeOK, Orders
  <2> QED  BY <2>2, <2>3 DEF TypeInv
<1> QED  BY <1>1, <1>2, ReadTypes, GroupTypes, SolveTypes, BuildTypes, RebuildTypes,
            CountTypes DEF Next

LEMMA TypeInvariant == Spec => []TypeInv
<1>1. TypeInv /\ [Next]_vars => TypeInv'
  BY TypeStep
<1> QED  BY <1>1, TypeInit, PTL DEF Spec

(* A trial's file, slices, matrices and counts belong together at every     *)
(* stage: what is built or counted is a slice, with all its documents.     *)
THEOREM DataTyped == Spec => []TypeOK
<1>1. TypeInv => TypeOK
  BY DEF TypeInv
<1> QED  BY <1>1, TypeInvariant, PTL

-----------------------------------------------------------------------------
(* The slices part the documents. *)

(* Where the generator has a document for each slice, it draws some. *)
LEMMA NoneEmpty ==
  ASSUME TypeInv, source # "synthetic" \/ conf.nDocs >= conf.nSlices, NEW k \in DOMAIN groups
  PROVE  groups[k] # {}
<1>1. groups = Slices /\ conf \in Confs /\ DOMAIN file = AllDocs
  BY DEF TypeInv, StagesOk, TypeOK
<1>2. CASE source # "synthetic"
  <2>1. /\ DOMAIN groups = {d % conf.nSlices : d \in Documents}
        /\ groups[k] = {d \in Documents : d % conf.nSlices = k}
    BY <1>1, <1>2, DocumentsFact DEF Slices
  <2> QED  BY <2>1
<1>3. CASE source = "synthetic" /\ conf.nDocs >= conf.nSlices
  <2> DEFINE n == conf.nSlices
             s == conf.nDocs \div conf.nSlices
  <2>1. /\ s \in Nat /\ DOMAIN groups = 1..n
        /\ groups[k] = (k - 1) * s .. k * s - 1
    BY <1>1, <1>3, SyntheticFact DEF Slices
  <2>2. /\ conf.nDocs = n * s + (conf.nDocs % n) /\ conf.nDocs % n \in 0..n - 1
        /\ n \in Nat \ {0} /\ conf.nDocs \in Nat /\ conf.nDocs >= n
    BY <1>1, <1>3, SyntheticFact, ConfFact
  <2>3. k \in 1..n /\ n \in Nat
    BY <2>1, <2>2
  <2> HIDE DEF s, n
  <2>4. s # 0
    BY <2>2
  <2>5. k * s = (k - 1) * s + s /\ (k - 1) * s \in Int
    BY <2>1, <2>3
  <2>6. (k - 1) * s \in groups[k]
    BY <2>1, <2>4, <2>5
  <2> QED  BY <2>6
<1> QED  BY <1>2, <1>3

LEMMA PartFollows == ASSUME TypeInv PROVE SlicesPart
<1> SUFFICES ASSUME DOMAIN groups # {}
    PROVE  /\ \A k, l \in DOMAIN groups : k # l => groups[k] \cap groups[l] = {}
           /\ IF source # "synthetic" THEN UNION Range(groups) = Documents
              ELSE LET left == conf.nDocs - Cardinality(UNION Range(groups))
                   IN  0 <= left /\ left < conf.nSlices
  BY NoneEmpty DEF SlicesPart
<1>1. groups = Slices /\ conf \in Confs /\ DOMAIN file = AllDocs
  BY DEF TypeInv, StagesOk, TypeOK
<1>2. CASE source # "synthetic"
  <2>1. /\ DOMAIN groups = {d % conf.nSlices : d \in Documents}
        /\ \A k \in DOMAIN groups : groups[k] = {d \in Documents : d % conf.nSlices = k}
    BY <1>1, <1>2, DocumentsFact DEF Slices
  <2>2. \A d \in Documents : \E k \in DOMAIN groups : d \in groups[k]
    BY <2>1
  <2>3. UNION Range(groups) = Documents
    BY <2>1, <2>2 DEF Range
  <2> QED  BY <1>2, <2>1, <2>3
<1>3. CASE source = "synthetic"
  <2> DEFINE s == conf.nDocs \div conf.nSlices
             n == conf.nSlices
             left == conf.nDocs % conf.nSlices
  <2>1. /\ s \in Nat /\ DOMAIN groups = 1..n
        /\ conf.nDocs = n * s + left /\ left \in 0..n - 1
        /\ \A k, l \in 1..n : k # l => groups[k] \cap groups[l] = {}
        /\ UNION Range(groups) = 0..n * s - 1
    BY <1>1, <1>3, SyntheticFact DEF Slices
  <2>2. n \in Nat \ {0} /\ conf.nDocs \in Nat
    BY <1>1, ConfFact
  <2> HIDE DEF s, left
  <2>3. Cardinality(0..n * s - 1) = n * s
    <3> DEFINE m == n * s
    <3>1. m \in Nat
      BY <2>1, <2>2
    <3> HIDE DEF m
    <3>2. Cardinality(0..m - 1) = m
      BY <3>1, FS_Interval
    <3> QED  BY <3>2 DEF m
  <2>4. n * s \in Nat
    BY <2>1, <2>2
  <2>5. conf.nDocs - n * s = left
    BY <2>1, <2>2, <2>4
  <2>6. 0 <= left /\ left < n /\ 1..n = DOMAIN groups
    BY <2>1, <2>2
  <2>7. conf.nDocs - Cardinality(UNION Range(groups)) = left
    BY <2>1, <2>3, <2>5
  <2>8. \A k, l \in DOMAIN groups : k # l => groups[k] \cap groups[l] = {}
    BY <2>1
  <2> QED  BY <1>3, <2>6, <2>7, <2>8, Zenon DEF n
<1> QED  BY <1>2, <1>3

(* No document is lost or taken twice, whatever the window, the source and *)
(* the number of slices, and none is empty unless there are more slices    *)
(* than documents; the generator leaves out fewer than the slices.         *)
THEOREM SlicesAlwaysPart == Spec => []SlicesPart
<1>1. TypeInv => SlicesPart
  BY PartFollows
<1> QED  BY <1>1, TypeInvariant, PTL

-----------------------------------------------------------------------------
(* The matrix of a slice. *)

LEMMA FeaturesFact ==
  ASSUME TypeInv, NEW d \in DOMAIN file, NEW j \in Features(d)
  PROVE  LET c == j - Base
         IN  /\ c \in Nat /\ c = Column(j) /\ j \in Int /\ startFeature \in Nat
             /\ startFeature <= c /\ c < startFeature + conf.nFeatures
             /\ conf.nFeatures \in Nat \ {0}
<1>1. /\ startFeature \in Nat /\ Base \in {0, 1} /\ conf.nFeatures \in Nat \ {0}
  BY ConfFact DEF TypeInv, TypeOK
<1>2. j \in Nat
  BY DatasetsAssumption DEF TypeInv, TypeOK, Features
<1>3. startFeature + Base <= j /\ j < startFeature + Base + conf.nFeatures
  BY DEF Features, InWindow
<1> QED  BY <1>1, <1>2, <1>3 DEF Column

LEMMA RowsFollow == ASSUME TypeInv PROVE RowsAreDocuments
<1> SUFFICES ASSUME NEW k \in DOMAIN rows, NEW r \in DOMAIN rows[k]
    PROVE  LET d == rows[k][r]
               found == {<<v.doc, v.feature, v.at % conf.nFeatures>> : v \in RowOf(rows[k], r)}
               meant == {<<d, j, j - Base>> : j \in Features(d)}
           IN  /\ {x \in found : x[2] - Base < conf.nFeatures}
                    = {x \in meant : x[2] - Base < conf.nFeatures}
               /\ startFeature = 0 => found = meant
  BY DEF RowsAreDocuments
<1> DEFINE order == rows[k]
           d == order[r]
           n == conf.nFeatures
           found == {<<v.doc, v.feature, v.at % n>> : v \in RowOf(order, r)}
           meant == {<<d, j, j - Base>> : j \in Features(d)}
           near(X) == {x \in X : x[2] - Base < n}
<1>1. /\ k \in DOMAIN groups /\ order \in Orders(groups[k]) /\ IsFiniteSet(groups[k])
      /\ groups[k] \subseteq DOMAIN file
  BY GroupsFact DEF TypeInv, TypeOK
<1>2. /\ Len(order) \in Nat /\ DOMAIN order = 1..Len(order)
      /\ \A i \in DOMAIN order : order[i] \in DOMAIN file
      /\ r \in DOMAIN order
  BY <1>1, OrderFact
<1>3. n \in Nat \ {0} /\ Base \in {0, 1}
  BY ConfFact DEF TypeInv, TypeOK
<1> HIDE DEF order, n
<1>4. ASSUME NEW i \in DOMAIN order, NEW j \in Features(order[i]), j - Base < n
      PROVE  LET at == (i - 1) * n + Column(j)
             IN  at \div n = i - 1 /\ at % n = j - Base /\ at < Len(order) * n
  <2>1. j - Base \in Nat /\ j - Base = Column(j)
    BY <1>2, FeaturesFact
  <2>2. j - Base \in 0..n - 1
    BY <1>3, <1>4, <2>1
  <2>3. i - 1 \in Nat /\ i \in Nat /\ i <= Len(order)
    BY <1>2
  <2>4. ((i - 1) * n + (j - Base)) \div n = i - 1 /\ ((i - 1) * n + (j - Base)) % n = j - Base
    BY <1>3, <2>2, <2>3, Place
  <2>5. i * n <= Len(order) * n
    BY <1>2, <1>3, <2>3, Monotone
  <2>6. i * n = (i - 1) * n + n /\ (i - 1) * n \in Nat /\ i * n \in Nat
    BY <1>3, <2>3
  <2>7. Len(order) * n \in Nat
    BY <1>2, <1>3
  <2>8. (i - 1) * n + (j - Base) < Len(order) * n
    BY <1>3, <2>2, <2>5, <2>6, <2>7
  <2> QED  BY <2>1, <2>4, <2>8
<1>5. ASSUME NEW x \in near(found) PROVE x \in near(meant)
  <2>1. PICK v \in RowOf(order, r) : x = <<v.doc, v.feature, v.at % n>>
    OBVIOUS
  <2>2. v \in Stored(order) /\ v.at \div n = r - 1
    BY DEF RowOf, n
  <2>3. PICK i \in DOMAIN order : \E j \in Features(order[i]) :
          v = [at |-> (i - 1) * n + Column(j), doc |-> order[i], feature |-> j]
    BY <2>2 DEF Stored, n
  <2>4. PICK j \in Features(order[i]) :
          v = [at |-> (i - 1) * n + Column(j), doc |-> order[i], feature |-> j]
    BY <2>3
  <2>5. j - Base < n
    BY <2>1, <2>4
  <2>6. i - 1 = r - 1 /\ v.at % n = j - Base
    BY <1>4, <2>2, <2>4, <2>5
  <2>7. i = r
    BY <1>2, <2>6
  <2> QED  BY <2>1, <2>4, <2>5, <2>6, <2>7
<1>6. ASSUME NEW x \in near(meant) PROVE x \in near(found)
  <2>1. PICK j \in Features(d) : x = <<d, j, j - Base>> /\ j - Base < n
    OBVIOUS
  <2> DEFINE at == (r - 1) * n + Column(j)
             v == [at |-> at, doc |-> d, feature |-> j]
  <2>2. r \in DOMAIN order
    BY DEF order
  <2>3. at \div n = r - 1 /\ at % n = j - Base /\ at < Len(order) * n
    BY <1>4, <2>1, <2>2
  <2>4. v \in Stored(order)
    BY <2>2 DEF Stored, n
  <2> HIDE DEF at
  <2>5. v \in RowOf(order, r)
    BY <2>3, <2>4 DEF RowOf, n
  <2>6. x = <<v.doc, v.feature, v.at % n>>
    BY <2>1, <2>3
  <2> HIDE DEF v
  <2> QED  BY <2>1, <2>5, <2>6
<1>7. near(found) = near(meant)
  <2> HIDE DEF found, meant
  <2> QED  BY <1>5, <1>6
<1>8. ASSUME startFeature = 0 PROVE found = meant
  <2>1. \A x \in meant : x[2] - Base < n
    <3> SUFFICES ASSUME NEW j \in Features(d) PROVE j - Base < n
      OBVIOUS
    <3>1. d \in DOMAIN file
      BY <1>2 DEF order
    <3> QED  BY <1>8, <3>1, FeaturesFact DEF n
  <2>2. \A x \in found : x[2] - Base < n
    <3> SUFFICES ASSUME NEW v \in RowOf(order, r) PROVE v.feature - Base < n
      OBVIOUS
    <3>1. PICK i \in DOMAIN order : v.feature \in Features(order[i])
      BY DEF RowOf, Stored
    <3>2. order[i] \in DOMAIN file
      BY <1>2
    <3> QED  BY <1>8, <3>1, <3>2, FeaturesFact DEF n
  <2> HIDE DEF found, meant
  <2> QED  BY <1>7, <2>1, <2>2
<1> QED  BY <1>7, <1>8 DEF order, n

(* Whatever order the lines come in, a row has the values of one document  *)
(* on the columns of their features, for any files, windows and slices.    *)
THEOREM RowsAlwaysDocuments == Spec => []RowsAreDocuments
<1>1. TypeInv => RowsAreDocuments
  BY RowsFollow
<1> QED  BY <1>1, TypeInvariant, PTL

-----------------------------------------------------------------------------
(* The rows of an order with some label are as many as the documents. *)
LEMMA SameCount ==
  ASSUME NEW docs, IsFiniteSet(docs), NEW order \in Orders(docs), NEW D \in SUBSET docs
  PROVE  Cardinality({r \in DOMAIN order : order[r] \in D}) = Cardinality(D)
<1> DEFINE n == Cardinality(docs)
           R == {r \in DOMAIN order : order[r] \in D}
           F == Restrict(order, R)
<1>1. /\ DOMAIN order = 1..n /\ IsFiniteSet(1..n) /\ order \in Bijection(1..n, docs)
  BY OrderFact
<1> HIDE DEF n
<1>2. R \in SUBSET (1..n) /\ IsFiniteSet(R)
  BY <1>1, FS_Subset
<1>3. F \in Bijection(R, Range(F))
  <2> HIDE DEF R
  <2> QED  BY <1>1, <1>2, Fun_BijRestrict
<1>4. Range(F) = D
  <2>1. \A y \in docs : \E r \in 1..n : order[r] = y
    BY <1>1 DEF Bijection, Surjection
  <2>2. \A y \in D : \E r \in R : order[r] = y
    BY <1>1, <2>1
  <2> QED  BY <2>2 DEF Range, Restrict
<1> HIDE DEF R, F
<1>5. ExistsBijection(R, D)
  BY <1>3, <1>4 DEF ExistsBijection
<1> QED  BY <1>2, <1>5, FS_Bijection DEF R

-----------------------------------------------------------------------------
(* A slice's counts are those of its documents, whatever the order.        *)

PositiveDocs(docs) == {d \in docs : label[d] = "positive"}
NegativeDocs(docs) == docs \ PositiveDocs(docs)
Tally(docs) ==
  <<ToInt(SumOver(Halves(1), PositiveDocs(docs))), Cardinality(PositiveDocs(docs)),
    ToInt(SumOver(Halves(0), NegativeDocs(docs))), Cardinality(NegativeDocs(docs))>>

(* The i-th figure of each slice. *)
Figures(i) == [k \in DOMAIN groups |-> Tally(groups[k])[i]]

CountsInv ==
  /\ \A k \in DOMAIN counts : counts[k] = Tally(groups[k])
  /\ stage = "done" => \A i \in 1..4 : total[i] = SumOver(Figures(i), DOMAIN groups)

LEMMA RowsMissAsDocs ==
  ASSUME NEW docs, IsFiniteSet(docs), NEW order \in Orders(docs), docs \subseteq DOMAIN margin,
         IsFiniteSet(DOMAIN margin), margin \in [DOMAIN margin -> -1..1],
         NEW D \in SUBSET docs, NEW w
  PROVE  MissedHalves(order, {r \in DOMAIN order : order[r] \in D}, w) = SumOver(Halves(w), D)
<1> DEFINE n == Cardinality(docs)
           R == {r \in DOMAIN order : order[r] \in D}
<1>1. /\ DOMAIN order = 1..n /\ IsFiniteSet(1..n) /\ order \in Bijection(1..n, docs)
      /\ \A r \in 1..n : order[r] \in docs
  BY OrderFact
<1> HIDE DEF n
<1>2. R \in SUBSET (1..n) /\ IsFiniteSet(R)
  BY <1>1, FS_Subset
<1>3. MissedHalves(order, R, w) = SumOver(RowHalves(order, w), R)
  <2> HIDE DEF R
  <2> QED  BY <1>1, <1>2, MissedHalvesFact
<1>4. /\ order \in [1..n -> DOMAIN margin]
      /\ \A a, b \in 1..n : order[a] = order[b] => a = b
      /\ \A d \in docs : \E r \in 1..n : order[r] = d
  BY <1>1 DEF Bijection, Injection, Surjection, IsInjective
<1>5. Halves(w) \in [DOMAIN margin -> Int]
  BY HalvesType
<1>6. RowHalves(order, w) = [r \in 1..n |-> Halves(w)[order[r]]]
  BY <1>1 DEF RowHalves
<1>7. {order[r] : r \in R} = D
  BY <1>1, <1>4
<1> HIDE DEF R
<1>8. SumOver(RowHalves(order, w), R) = SumOver(Halves(w), {order[r] : r \in R})
  <2> DEFINE h == Halves(w)
             e == RowHalves(order, w)
             M == DOMAIN margin
             I == 1..n
  <2>1. /\ order \in [I -> M] /\ \A a, b \in I : order[a] = order[b] => a = b
        /\ h \in [M -> Int] /\ e = [a \in I |-> h[order[a]]] /\ R \in SUBSET I
        /\ IsFiniteSet(I) /\ IsFiniteSet(M)
    BY <1>1, <1>2, <1>4, <1>5, <1>6
  <2> HIDE DEF h, e, M, I
  <2>2. SumOver(e, R) = SumOver(h, {order[a] : a \in R})
    BY <2>1, SumOverImage
  <2> QED  BY <2>2 DEF h, e
<1> QED  BY <1>3, <1>7, <1>8 DEF R

LEMMA CountIsTally ==
  ASSUME TypeInv, stage = "count", NEW k \in DOMAIN groups
  PROVE  LET order == rows[k]
             pos == Positive(order)
             neg == DOMAIN order \ pos
         IN  <<ToInt(MissedHalves(order, pos, 1)), Cardinality(pos),
               ToInt(MissedHalves(order, neg, 0)), Cardinality(neg)>> = Tally(groups[k])
<1> DEFINE order == rows[k]
           docs == groups[k]
           pos == Positive(order)
           neg == DOMAIN order \ pos
<1>1. /\ IsFiniteSet(docs) /\ order \in Orders(docs) /\ docs \subseteq DOMAIN margin
      /\ IsFiniteSet(DOMAIN margin) /\ margin \in [DOMAIN margin -> -1..1]
  BY GroupsFact DEF TypeInv, TypeOK, StagesOk
<1> HIDE DEF order, docs
<1>2. DOMAIN order = 1..Cardinality(docs) /\ \A r \in DOMAIN order : order[r] \in docs
  BY <1>1, OrderFact
<1>3. /\ PositiveDocs(docs) \in SUBSET docs /\ NegativeDocs(docs) \in SUBSET docs
      /\ pos = {r \in DOMAIN order : order[r] \in PositiveDocs(docs)}
      /\ neg = {r \in DOMAIN order : order[r] \in NegativeDocs(docs)}
  BY <1>2 DEF PositiveDocs, NegativeDocs, Positive
<1> HIDE DEF pos, neg
<1>4. Cardinality(pos) = Cardinality(PositiveDocs(docs))
      /\ Cardinality(neg) = Cardinality(NegativeDocs(docs))
  BY <1>1, <1>3, SameCount
<1>5. MissedHalves(order, pos, 1) = SumOver(Halves(1), PositiveDocs(docs))
      /\ MissedHalves(order, neg, 0) = SumOver(Halves(0), NegativeDocs(docs))
  BY <1>1, <1>3, RowsMissAsDocs
<1> QED  BY <1>4, <1>5 DEF Tally, order, docs, pos, neg

LEMMA KeysFinite == ASSUME TypeInv PROVE IsFiniteSet(DOMAIN groups)
<1>1. CASE DOMAIN groups = {}
  BY <1>1, FS_EmptySet
<1>2. CASE DOMAIN groups # {}
  <2>1. groups = Slices /\ conf \in Confs /\ DOMAIN file = AllDocs
    BY <1>2 DEF TypeInv, StagesOk, TypeOK
  <2>2. conf.nSlices \in Nat \ {0} /\ IsFiniteSet(0..conf.nSlices)
    <3>1. 0 \in Int /\ conf.nSlices \in Nat \ {0}
      BY <2>1, ConfFact
    <3>2. conf.nSlices \in Int
      BY <3>1
    <3> QED  BY <3>1, <3>2, FS_Interval
  <2>3. DOMAIN groups \subseteq 0..conf.nSlices
    <3>1. CASE source = "synthetic"
      BY <2>1, <2>2, <3>1, SyntheticFact DEF Slices
    <3>2. CASE source # "synthetic"
      <4>1. DOMAIN groups = {d % conf.nSlices : d \in Documents} /\ Documents \subseteq Nat
        BY <2>1, <3>2, DocumentsFact DEF Slices
      <4>2. \A d \in Nat : d % conf.nSlices \in 0..conf.nSlices
        BY <2>2
      <4> QED  BY <4>1, <4>2
    <3> QED  BY <3>1, <3>2
  <2> QED  BY <2>2, <2>3, FS_Subset
<1> QED  BY <1>1, <1>2

LEMMA TotalFact ==
  ASSUME TypeInv, CountsInv, Reduce, NEW i \in 1..4
  PROVE  total'[i] = SumOver(Figures(i), DOMAIN groups)
<1> DEFINE Raw(g) == g = [T \in SUBSET DOMAIN counts |->
                            IF T = {} THEN 0
                            ELSE counts[Pick(T)][i] + g[T \ {Pick(T)}]]
<1>1. total'[i] = (CHOOSE g : Raw(g))[DOMAIN counts]
  BY DEF Reduce, MapThenSumSet, MapThenFoldSet, Pick
<1>2. DOMAIN counts = DOMAIN groups /\ IsFiniteSet(DOMAIN groups)
  BY KeysFinite DEF Reduce
<1>3. \A g : Raw(g) <=> Sums(g, Figures(i), DOMAIN groups)
  <2>1. \A T \in SUBSET DOMAIN groups : T # {} => Figures(i)[Pick(T)] = counts[Pick(T)][i]
    BY <1>2, PickFact DEF Figures, CountsInv
  <2> QED  BY <1>2, <2>1 DEF Sums
<1> HIDE DEF Raw
<1>4. \E g : Raw(g)
  BY <1>2, <1>3, SumsExist
<1>5. Sums(CHOOSE g : Raw(g), Figures(i), DOMAIN groups)
  BY <1>3, <1>4
<1>6. (CHOOSE g : Raw(g))[DOMAIN groups] = SumOver(Figures(i), DOMAIN groups)
  BY <1>2, <1>5, TableSum
<1> QED  BY <1>1, <1>2, <1>6

LEMMA CountsStep == ASSUME TypeInv, CountsInv, [Next]_vars PROVE CountsInv'
<1>1. ASSUME UNCHANGED <<groups, label, margin>>
      PROVE  /\ \A k \in DOMAIN groups : Tally(groups[k])' = Tally(groups[k])
             /\ \A i : Figures(i)' = Figures(i)
  BY <1>1 DEF Tally, Halves, PositiveDocs, NegativeDocs, Figures
<1>2. CASE Read \/ Group \/ Solve
  <2>1. DOMAIN counts' = {} /\ stage' # "done"
    BY <1>2 DEF Read, Group, Solve, TypeInv, StagesOk
  <2> QED  BY <2>1 DEF CountsInv
<1>3. CASE Reduce
  <2>1. UNCHANGED <<groups, label, margin, counts>> /\ DOMAIN counts = DOMAIN groups
    BY <1>3 DEF Reduce
  <2>2. \A i \in 1..4 : total'[i] = SumOver(Figures(i), DOMAIN groups)
    BY <1>3, TotalFact
  <2> QED  BY <1>1, <2>1, <2>2 DEF CountsInv
<1>4. ASSUME NEW k \in DOMAIN groups, Build(k) \/ Rebuild(k) PROVE CountsInv'
  <2>1. UNCHANGED <<groups, label, margin, counts>> /\ stage' # "done"
        /\ DOMAIN counts \subseteq DOMAIN groups
    BY <1>4 DEF Build, Rebuild, TypeInv, TypeOK
  <2> QED  BY <1>1, <2>1 DEF CountsInv
<1>5. ASSUME NEW k \in DOMAIN groups, Count(k) PROVE CountsInv'
  <2>1. UNCHANGED <<groups, label, margin>> /\ stage = "count" /\ stage' = "count"
        /\ DOMAIN counts \subseteq DOMAIN groups
    BY <1>5 DEF Count, TypeInv, TypeOK
  <2>2. counts' = [x \in DOMAIN counts \cup {k} |->
                     IF x # k THEN counts[x] ELSE Tally(groups[k])]
    BY <1>5, <2>1, CountIsTally DEF Count
  <2> QED  BY <1>1, <2>1, <2>2 DEF CountsInv
<1>6. CASE UNCHANGED vars
  <2>1. UNCHANGED <<groups, label, margin, counts, total, stage>>
        /\ DOMAIN counts \subseteq DOMAIN groups
    BY <1>6 DEF vars, TypeInv, TypeOK
  <2> QED  BY <1>1, <2>1 DEF CountsInv
<1> QED  BY <1>2, <1>3, <1>4, <1>5, <1>6 DEF Next

Missed(set, sign) == MapThenSumSet(LAMBDA d : 1 - sign * margin[d], set)

LEMMA MissedFact ==
  ASSUME IsFiniteSet(DOMAIN margin), margin \in [DOMAIN margin -> -1..1],
         NEW D \in SUBSET DOMAIN margin, NEW sign, NEW w,
         (sign = 1 /\ w = 1) \/ (sign = -1 /\ w = 0)
  PROVE  Missed(D, sign) = SumOver(Halves(w), D)
<1> DEFINE f == Halves(w)
           Raw(g) == g = [T \in SUBSET D |->
                            IF T = {} THEN 0
                            ELSE (1 - sign * margin[Pick(T)]) + g[T \ {Pick(T)}]]
<1>1. Missed(D, sign) = (CHOOSE g : Raw(g))[D]
  BY DEF Missed, MapThenSumSet, MapThenFoldSet, Pick
<1>2. \A g : Raw(g) <=> Sums(g, f, D)
  <2>1. ASSUME NEW d \in DOMAIN margin PROVE f[d] = 1 - sign * margin[d]
    <3>1. margin[d] \in {-1, 0, 1}
      OBVIOUS
    <3> QED  BY <3>1 DEF Halves
  <2>2. \A T \in SUBSET D : T # {} => f[Pick(T)] = 1 - sign * margin[Pick(T)]
    BY <2>1, PickFact
  <2> HIDE DEF f
  <2> QED  BY <2>2 DEF Sums
<1> HIDE DEF f, Raw
<1>3. IsFiniteSet(D)
  BY FS_Subset
<1>4. \E g : Raw(g)
  BY <1>2, <1>3, SumsExist
<1>5. Sums(CHOOSE g : Raw(g), f, D)
  BY <1>2, <1>4
<1>6. (CHOOSE g : Raw(g))[D] = SumOver(f, D)
  BY <1>3, <1>5, TableSum
<1> QED  BY <1>1, <1>6 DEF f

(* What the property says of the counts of one kind of documents. *)
Near(fails, wanted) ==
  /\ 2 * fails <= wanted
  /\ wanted - 2 * fails <=
       IF \E d \in UNION Range(groups) : margin[d] = 0 THEN Cardinality(DOMAIN groups) ELSE 0

LEMMA KindFact ==
  ASSUME TypeInv, stage = "done", NEW w \in {0, 1}, NEW P,
         \A k \in DOMAIN groups : P[k] \subseteq groups[k],
         NEW A, A = UNION {P[k] : k \in DOMAIN groups},
         NEW e, e = [k \in DOMAIN groups |-> ToInt(SumOver(Halves(w), P[k]))],
         NEW c, c = [k \in DOMAIN groups |-> Cardinality(P[k])]
  PROVE  /\ Near(SumOver(e, DOMAIN groups), SumOver(Halves(w), A))
         /\ SumOver(c, DOMAIN groups) = Cardinality(A)
<1> DEFINE S == UNION Range(groups)
           K == DOMAIN groups
           f == Halves(w)
           left == SumOver(f, A) - 2 * SumOver(e, K)
<1>1. /\ IsFiniteSet(S) /\ IsFiniteSet(K) /\ DOMAIN margin = S
      /\ margin \in [S -> -1..1] /\ \A k \in K : groups[k] \in SUBSET S
  BY GroupsFact, KeysFinite DEF TypeInv, TypeOK, StagesOk
<1>2. /\ \A k \in K : P[k] \in SUBSET S
      /\ \A k, l \in K : k # l => P[k] \cap P[l] = {}
  BY <1>1, PartFollows DEF SlicesPart
<1>3. f \in [S -> Int]
  BY <1>1, HalvesType
<1>4. e = [k \in K |-> SumOver(f, P[k]) \div 2]
  BY DEF ToInt
<1>5. ~(\E d \in S : margin[d] = 0) => \A d \in S : f[d] % 2 = 0
  <2> SUFFICES ASSUME NEW d \in S, margin[d] # 0 PROVE f[d] % 2 = 0
    OBVIOUS
  <2>1. margin[d] \in {-1, 1}
    BY <1>1
  <2>2. f[d] \in {0, 2}
    BY <1>1, <2>1 DEF Halves
  <2> QED  BY <2>2
<1> HIDE DEF S, K, f
<1>6. A \in SUBSET S /\ A = UNION {P[k] : k \in K}
  BY <1>2 DEF K
<1>7. /\ left \in 0..Cardinality(K)
      /\ (\A d \in S : f[d] % 2 = 0) => left = 0
  BY <1>1, <1>2, <1>3, <1>4, <1>6, SumOfCuts
<1>8. SumOver(c, K) = Cardinality(A)
  BY <1>1, <1>2, <1>6, SumOfCards DEF K
<1>9. SumOver(f, A) \in Int /\ SumOver(e, K) \in Int
  <2>1. e \in [K -> Int]
    <3>1. \A k \in K : SumOver(f, P[k]) \in Int
      BY <1>1, <1>2, <1>3, SumOverType
    <3> QED  BY <1>4, <3>1
  <2> QED  BY <1>1, <1>3, <1>6, <2>1, SumOverType
<1>10. Cardinality(K) \in Nat
  BY <1>1, FS_CardinalityType
<1>11. Near(SumOver(e, K), SumOver(f, A))
  <2>1. left \in Int /\ 0 <= left /\ left <= Cardinality(K)
    BY <1>7, <1>10
  <2>2. 2 * SumOver(e, K) <= SumOver(f, A)
    BY <1>9, <2>1
  <2>3. left <= IF \E d \in S : margin[d] = 0 THEN Cardinality(K) ELSE 0
    BY <1>5, <1>7, <2>1
  <2> HIDE DEF left
  <2> QED  BY <2>2, <2>3 DEF Near, left, S, K
<1> QED  BY <1>8, <1>11 DEF K, f

LEMMA CountsFollow == ASSUME TypeInv, CountsInv PROVE CountsAreOfDocuments
<1> DEFINE S == UNION Range(groups)
           K == DOMAIN groups
           pos == PositiveDocs(S)
           neg == NegativeDocs(S)
<1> SUFFICES ASSUME stage = "done"
    PROVE  /\ total[2] = Cardinality(pos) /\ total[2] + total[4] = Cardinality(S)
           /\ Near(total[1], Missed(pos, 1)) /\ Near(total[3], Missed(neg, -1))
  BY DEF CountsAreOfDocuments, Near, Missed, PositiveDocs, NegativeDocs
<1>1. /\ IsFiniteSet(S) /\ DOMAIN margin = S /\ margin \in [DOMAIN margin -> -1..1]
  BY GroupsFact DEF TypeInv, TypeOK, StagesOk
<1>2. \A i \in 1..4 : total[i] = SumOver(Figures(i), K)
  BY DEF CountsInv
<1> DEFINE P == [k \in K |-> PositiveDocs(groups[k])]
           N == [k \in K |-> NegativeDocs(groups[k])]
<1>3. /\ \A k \in K : P[k] \subseteq groups[k] /\ N[k] \subseteq groups[k]
      /\ pos = UNION {P[k] : k \in K} /\ neg = UNION {N[k] : k \in K}
  BY DEF PositiveDocs, NegativeDocs, Range
<1>4. /\ Figures(1) = [k \in K |-> ToInt(SumOver(Halves(1), P[k]))]
      /\ Figures(2) = [k \in K |-> Cardinality(P[k])]
      /\ Figures(3) = [k \in K |-> ToInt(SumOver(Halves(0), N[k]))]
      /\ Figures(4) = [k \in K |-> Cardinality(N[k])]
  BY DEF Figures, Tally
<1>5. pos \in SUBSET S /\ neg = S \ pos
  BY DEF PositiveDocs, NegativeDocs
<1> HIDE DEF P, N, pos, neg
<1>6. Near(total[1], SumOver(Halves(1), pos)) /\ total[2] = Cardinality(pos)
  <2> DEFINE e == Figures(1)
             c == Figures(2)
  <2>1. /\ e = [k \in DOMAIN groups |-> ToInt(SumOver(Halves(1), P[k]))]
        /\ c = [k \in DOMAIN groups |-> Cardinality(P[k])]
        /\ total[1] = SumOver(e, DOMAIN groups) /\ total[2] = SumOver(c, DOMAIN groups)
    BY <1>2, <1>4
  <2>2. /\ \A k \in DOMAIN groups : P[k] \subseteq groups[k]
        /\ pos = UNION {P[k] : k \in DOMAIN groups}
    BY <1>3
  <2> HIDE DEF e, c
  <2>3. /\ Near(SumOver(e, DOMAIN groups), SumOver(Halves(1), pos))
        /\ SumOver(c, DOMAIN groups) = Cardinality(pos)
    BY <2>1, <2>2, KindFact
  <2> QED  BY <2>1, <2>3
<1>7. Near(total[3], SumOver(Halves(0), neg)) /\ total[4] = Cardinality(neg)
  <2> DEFINE e == Figures(3)
             c == Figures(4)
  <2>1. /\ e = [k \in DOMAIN groups |-> ToInt(SumOver(Halves(0), N[k]))]
        /\ c = [k \in DOMAIN groups |-> Cardinality(N[k])]
        /\ total[3] = SumOver(e, DOMAIN groups) /\ total[4] = SumOver(c, DOMAIN groups)
    BY <1>2, <1>4
  <2>2. /\ \A k \in DOMAIN groups : N[k] \subseteq groups[k]
        /\ neg = UNION {N[k] : k \in DOMAIN groups}
    BY <1>3
  <2> HIDE DEF e, c
  <2>3. /\ Near(SumOver(e, DOMAIN groups), SumOver(Halves(0), neg))
        /\ SumOver(c, DOMAIN groups) = Cardinality(neg)
    BY <2>1, <2>2, KindFact
  <2> QED  BY <2>1, <2>3
<1> HIDE DEF S, K
<1>8. Missed(pos, 1) = SumOver(Halves(1), pos) /\ Missed(neg, -1) = SumOver(Halves(0), neg)
  BY <1>1, <1>5, MissedFact
<1>9. Cardinality(pos) + Cardinality(neg) = Cardinality(S)
  <2>1. S \cap pos = pos /\ Cardinality(neg) = Cardinality(S) - Cardinality(S \cap pos)
    BY <1>1, <1>5, FS_Difference
  <2>2. Cardinality(S) \in Nat /\ Cardinality(pos) \in Nat
    BY <1>1, <1>5, FS_Subset, FS_CardinalityType
  <2>3. Cardinality(neg) = Cardinality(S) - Cardinality(pos)
    BY <2>1, Zenon
  <2> QED  BY <2>2, <2>3
<1> QED  BY <1>6, <1>7, <1>8, <1>9

(* The success rate counts every document of the slices once and misses at *)
(* most half a failure a slice, for any files, numbers of slices, orders,  *)
(* rebuilt slices and solutions.                                           *)
THEOREM CountsAlwaysOfDocuments == Spec => []CountsAreOfDocuments
<1>1. Init => CountsInv
  BY DEF Init, CountsInv, Empty
<1>2. TypeInv /\ CountsInv /\ [Next]_vars => CountsInv'
  BY CountsStep
<1>3. TypeInv /\ CountsInv => CountsAreOfDocuments
  BY CountsFollow
<1> QED  BY <1>1, <1>2, <1>3, TypeInvariant, PTL DEF Spec

=============================================================================

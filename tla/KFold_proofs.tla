----------------------------- MODULE KFold_proofs -----------------------------
(***************************************************************************)
(* Proofs about the cross validation, for every number of slices, of folds *)
(* and of losses: no solution is scored on a sample it was found with,     *)
(* whatever ids are drawn; and when they are distinct, each sample trained *)
(* on is validated once, and without a loss nothing fails.                 *)
(***************************************************************************)
EXTENDS KFold, FiniteSetTheorems, TLAPS

(* What is recorded of a slice is known, and passes the filters on its id. *)
LEMMA DataFact ==
  ASSUME Recorded, NEW S \in SUBSET Slice
  PROVE  /\ Data(S) \in SUBSET AnyDatum
         /\ \A d \in Data(S) : Known(d) /\ d[1] \in S /\ idOf(d) = id(d[1])
<1>1. ASSUME NEW d \in Data(S)
      PROVE  /\ d \in AnyDatum
             /\ Known(d) /\ d[1] \in S /\ idOf(d) = id(d[1])
  <2>1. PICK s \in S : d = <<s, Len(drawn[s])>>
    BY DEF Data
  <2>2. drawn[s] \in Seq(Id) /\ drawn[s] # <<>>
    BY DEF Recorded
  <2>3. Len(drawn[s]) \in Nat /\ Len(drawn[s]) \in 1..Len(drawn[s])
    BY <2>2
  <2> QED  BY <2>1, <2>3 DEF Known, idOf, id, AnyDatum
<1> QED  BY <1>1

(* A loss only adds to what was drawn. *)
LEMMA LossKeeps ==
  ASSUME Recorded, NEW s \in Slice, LosePartition(s), NEW d, Known(d)
  PROVE  Known(d)' /\ idOf(d)' = idOf(d)
<1>1. PICK i \in Id : drawn' = [drawn EXCEPT ![s] = Append(@, i)]
  BY DEF LosePartition
<1>2. /\ drawn[d[1]] \in Seq(Id) /\ d[2] \in 1..Len(drawn[d[1]])
      /\ drawn[s] \in Seq(Id) /\ drawn \in [Slice -> Seq(Id)]
  BY DEF Recorded, Known
<1>3. CASE d[1] = s
  BY <1>1, <1>2, <1>3 DEF Known, idOf
<1>4. CASE d[1] # s
  BY <1>1, <1>2, <1>4 DEF Known, idOf
<1> QED  BY <1>3, <1>4

LEMMA InitHoldOut == Init => HoldOutInv
<1> SUFFICES ASSUME Init PROVE HoldOutInv
  OBVIOUS
<1>1. drawn \in [Slice -> Seq(Id)] /\ \A s \in Slice : drawn[s] # <<>>
  <2>1. \A i \in Id : <<i>> \in Seq(Id) /\ <<i>> # <<>>
    OBVIOUS
  <2> QED  BY <2>1 DEF Init
<1>2. k \in Nat /\ trained \in SUBSET AnyDatum /\ scoredK \in SUBSET AnyDatum
  BY KFoldAssumption DEF Init
<1>3. slns \in Seq(Solution) /\ rows \in Seq(Row)
  BY DEF Init
<1>4. Recorded
  BY <1>1, <1>2, <1>3 DEF Recorded
<1> QED  BY <1>4 DEF Init, HoldOutInv, HoldOut

LEMMA LossHoldOut ==
  ASSUME HoldOutInv, NEW s \in Slice, LosePartition(s)
  PROVE  HoldOutInv'
<1>1. Recorded /\ HoldOut
  BY DEF HoldOutInv
<1>2. UNCHANGED <<pc, k, outer, n, folds, fold, jobs, trained, slns, scoredK,
                  rows>>
  BY DEF LosePartition
<1>3. Recorded'
  <2>1. PICK i \in Id : drawn' = [drawn EXCEPT ![s] = Append(@, i)]
    BY DEF LosePartition
  <2>2. \A t \in Slice : Append(drawn[t], i) \in Seq(Id) /\ Append(drawn[t], i) # <<>>
    BY <1>1 DEF Recorded
  <2> QED  BY <1>1, <1>2, <2>1, <2>2 DEF Recorded
<1>4. HoldOut'
  BY <1>1, <1>2 DEF HoldOut
<1>5. \A d : Known(d) => Known(d)' /\ idOf(d)' = idOf(d)
  BY <1>1, LossKeeps
<1> QED  BY <1>2, <1>3, <1>4, <1>5 DEF HoldOutInv, IdsIn

(* A step of the driver draws nothing. *)
LEMMA DriverKeeps ==
  ASSUME UNCHANGED cached
  PROVE  /\ \A d : Known(d)' <=> Known(d)
         /\ \A d : idOf(d)' = idOf(d)
BY DEF cached, Known, idOf

(* The steps that record no datum. *)
LEMMA SilentHoldOut ==
  ASSUME HoldOutInv,
         UNCHANGED <<cached, k, trained, slns, scoredK, rows>>,
         \/ SplitIds \/ Count \/ Chunk
         \/ TakeFold \/ TakeK \/ TakeReg \/ Fail
  PROVE  HoldOutInv'
<1>1. Recorded' /\ HoldOut'
  BY DEF HoldOutInv, HoldOut, Recorded, cached
<1>2. /\ \A d : Known(d)' <=> Known(d)
      /\ \A d : idOf(d)' = idOf(d)
  BY DriverKeeps
<1>3. CASE SplitIds
  BY <1>1, <1>2, <1>3 DEF HoldOutInv, SplitIds
<1>4. CASE Count
  BY <1>1, <1>2, <1>4 DEF HoldOutInv, Count
<1>5. CASE Chunk
  BY <1>1, <1>2, <1>5 DEF HoldOutInv, Chunk
<1>6. CASE TakeFold
  BY <1>1, <1>2, <1>6 DEF HoldOutInv, TakeFold, TakeSample, IdsIn
<1>7. CASE TakeK
  BY <1>1, <1>2, <1>7 DEF HoldOutInv, TakeK, TakeSample
<1>8. CASE TakeReg
  BY <1>1, <1>2, <1>8 DEF HoldOutInv, TakeReg, TakeSample
<1>9. CASE Fail
  BY <1>1, <1>2, <1>9 DEF HoldOutInv, Fail
<1> QED  BY <1>3, <1>4, <1>5, <1>6, <1>7, <1>8, <1>9

LEMMA SolveHoldOut ==
  ASSUME HoldOutInv, SolveFold \/ SolveReg
  PROVE  HoldOutInv'
<1>1. /\ UNCHANGED <<cached, k, outer, n, folds, fold, slns, scoredK, rows>>
      /\ SolveFold => trained' = trained \cup Data(FoldTrain) /\ pc = "solve"
                      /\ pc' \in {"solve", "take"}
      /\ SolveReg => trained' = trained \cup Data(TrainSet) /\ pc = "reg"
                     /\ pc' \in {"reg", "takeK"}
  BY DEF SolveFold, SolveReg, SolveJob
<1>2. Recorded /\ HoldOut
  BY DEF HoldOutInv
<1>3. /\ \A d : Known(d)' <=> Known(d)
      /\ \A d : idOf(d)' = idOf(d)
  BY <1>1, DriverKeeps
<1>4. FoldTrain \in SUBSET Slice /\ TrainSet \in SUBSET Slice
  BY DEF FoldTrain, TrainSet
<1>5. /\ Data(FoldTrain) \in SUBSET AnyDatum
      /\ \A d \in Data(FoldTrain) : /\ Known(d) /\ idOf(d) \in outer
                                   /\ idOf(d) \notin IdsIn(folds[fold])
  BY <1>2, <1>4, DataFact DEF FoldTrain, TrainSet
<1>6. /\ Data(TrainSet) \in SUBSET AnyDatum
      /\ \A d \in Data(TrainSet) : Known(d) /\ idOf(d) \in outer
  BY <1>2, <1>4, DataFact DEF TrainSet
<1>7. trained \in SUBSET AnyDatum
  BY <1>2 DEF Recorded
<1>8. Recorded' /\ HoldOut'
  BY <1>1, <1>2, <1>5, <1>6, <1>7 DEF Recorded, HoldOut, cached
<1>9. CASE SolveFold
  BY <1>1, <1>3, <1>5, <1>8, <1>9 DEF HoldOutInv, IdsIn
<1>10. CASE SolveReg
  BY <1>1, <1>3, <1>6, <1>8, <1>10 DEF HoldOutInv
<1> QED  BY <1>9, <1>10

(* A fold is validated on slices its solution has not seen. *)
LEMMA ScoreFoldHoldOut ==
  ASSUME HoldOutInv, ScoreFold
  PROVE  HoldOutInv'
<1>1. PICK o \in Outcome :
        slns' = Append(slns, [trained |-> trained, outcome |-> o,
                              tested |-> Data(FoldValid),
                              weight |-> weight(o)])
  BY DEF ScoreFold
<1> DEFINE new == [trained |-> trained, outcome |-> o,
                   tested |-> Data(FoldValid), weight |-> weight(o)]
<1>2. Recorded /\ HoldOut
  BY DEF HoldOutInv
<1>3. UNCHANGED <<cached, k, outer, folds, scoredK, rows>> /\ trained' = {}
      /\ pc' \in {"solve", "reg"} /\ pc = "score"
  BY DEF ScoreFold
<1>4. /\ \A d : Known(d)' <=> Known(d)
      /\ \A d : idOf(d)' = idOf(d)
  BY <1>3, DriverKeeps
<1>5. /\ Data(FoldValid) \in SUBSET AnyDatum
      /\ \A d \in Data(FoldValid) : idOf(d) \in IdsIn(folds[fold])
  <2>1. FoldValid \in SUBSET Slice
    BY DEF FoldValid, TrainSet
  <2> QED  BY <1>2, <2>1, DataFact DEF FoldValid
<1>6. \A d \in trained : /\ Known(d) /\ idOf(d) \in outer
                         /\ idOf(d) \notin IdsIn(folds[fold])
  BY <1>3 DEF HoldOutInv
<1>7. trained \cap Data(FoldValid) = {}
  BY <1>5, <1>6
<1>8. new \in Solution
  <2>1. weight(o) \in Int \X Int
    BY KFoldAssumption DEF weight
  <2>2. trained \in SUBSET AnyDatum
    BY <1>2 DEF Recorded
  <2> QED  BY <1>5, <2>1, <2>2 DEF Solution
<1>9. /\ slns \in Seq(Solution) /\ slns' = Append(slns, new)
  BY <1>1, <1>2 DEF Recorded
<1>10. /\ slns' \in Seq(Solution)
       /\ \A i \in DOMAIN slns' :
            (i \in DOMAIN slns /\ slns'[i] = slns[i]) \/ slns'[i] = new
  BY <1>8, <1>9
<1>11. new.trained = trained /\ new.tested = Data(FoldValid)
  OBVIOUS
<1> HIDE DEF new
<1>12. Recorded'
  BY <1>2, <1>3, <1>10 DEF Recorded, cached
<1>13. HoldOut'
  BY <1>2, <1>3, <1>7, <1>10, <1>11 DEF HoldOut
<1>14. \A i \in DOMAIN slns' : \A d \in slns'[i].trained :
          Known(d)' /\ idOf(d)' \in outer'
  BY <1>3, <1>4, <1>6, <1>10, <1>11 DEF HoldOutInv
<1> QED  BY <1>3, <1>12, <1>13, <1>14 DEF HoldOutInv

LEMMA ValidFact ==
  ASSUME Recorded
  PROVE  /\ Data(ValidSet) \in SUBSET AnyDatum
         /\ \A d \in Data(ValidSet) : Known(d) /\ idOf(d) \notin outer
<1>1. ValidSet \in SUBSET Slice
  BY DEF ValidSet
<1> QED  BY <1>1, DataFact DEF ValidSet

LEMMA ScoreKHoldOut ==
  ASSUME HoldOutInv, ScoreK
  PROVE  HoldOutInv'
<1>1. /\ UNCHANGED <<cached, k, outer, folds, fold, trained, slns, rows>>
      /\ scoredK' = Data(ValidSet) /\ pc' = "takeReg"
  BY DEF ScoreK
<1>2. Recorded /\ HoldOut
  BY DEF HoldOutInv
<1>3. /\ \A d : Known(d)' <=> Known(d)
      /\ \A d : idOf(d)' = idOf(d)
  BY <1>1, DriverKeeps
<1>4. Recorded' /\ HoldOut'
  BY <1>1, <1>2, ValidFact DEF Recorded, HoldOut, cached
<1> QED  BY <1>1, <1>2, <1>3, <1>4, ValidFact DEF HoldOutInv

(* The two solutions of a line are scored on slices none of them has seen. *)
LEMMA ScoreRegHoldOut ==
  ASSUME HoldOutInv, ScoreReg
  PROVE  HoldOutInv'
<1> DEFINE new == [k |-> k, scoredK |-> scoredK, scoredReg |-> Data(ValidSet),
                   trainedK |-> UNION {slns[i].trained : i \in DOMAIN slns},
                   trainedReg |-> trained]
<1>1. /\ UNCHANGED <<cached, outer, folds, fold>>
      /\ rows' = Append(rows, new)
      /\ trained' = {} /\ slns' = <<>> /\ scoredK' = {}
      /\ pc = "scoreReg" /\ pc' \in {"ids", "done"}
      /\ k' \in {k, k + 1}
  BY DEF ScoreReg
<1>2. Recorded /\ HoldOut
  BY DEF HoldOutInv
<1>3. \A i \in DOMAIN slns : slns[i].trained \in SUBSET AnyDatum
  <2>1. slns \in Seq(Solution)
    BY <1>2 DEF Recorded
  <2>2. \A i \in DOMAIN slns : slns[i] \in Solution
    BY <2>1
  <2> QED  BY <2>2 DEF Solution
<1>4. \A d \in new.trainedK : idOf(d) \in outer
  BY DEF HoldOutInv
<1>5. \A d \in new.trainedReg : idOf(d) \in outer
  BY DEF HoldOutInv
<1>6. \A d \in new.scoredK : idOf(d) \notin outer
  BY <1>1 DEF HoldOutInv
<1>7. \A d \in new.scoredReg : idOf(d) \notin outer
  BY <1>2, ValidFact
<1>8. /\ new.trainedK \cap new.scoredK = {}
      /\ new.trainedReg \cap new.scoredReg = {}
  BY <1>4, <1>5, <1>6, <1>7
<1>9. new \in Row
  BY <1>2, <1>3, ValidFact DEF Recorded, Row
<1> HIDE DEF new
<1>10. /\ rows' \in Seq(Row)
       /\ \A i \in DOMAIN rows' :
            (i \in DOMAIN rows /\ rows'[i] = rows[i]) \/ rows'[i] = new
  BY <1>1, <1>2, <1>9 DEF Recorded
<1>11. Recorded'
  <2>1. slns' \in Seq(Solution) /\ k' \in Nat
    BY <1>1, <1>2 DEF Recorded
  <2>2. trained' \in SUBSET AnyDatum /\ scoredK' \in SUBSET AnyDatum
    BY <1>1
  <2> QED  BY <1>1, <1>2, <1>10, <2>1, <2>2 DEF Recorded, cached
<1>12. HoldOut'
  <2>1. DOMAIN slns' = {}
    BY <1>1
  <2> QED  BY <1>2, <1>8, <1>10, <2>1 DEF HoldOut
<1> QED  BY <1>1, <1>11, <1>12 DEF HoldOutInv

LEMMA NextHoldOut ==
  ASSUME HoldOutInv, [Next]_vars
  PROVE  HoldOutInv'
<1>1. CASE UNCHANGED vars
  BY <1>1 DEF vars, HoldOutInv, Recorded, HoldOut, Known, idOf, IdsIn
<1>2. CASE \E s \in Slice : LosePartition(s)
  BY <1>2, LossHoldOut
<1>3. CASE SplitIds \/ Count \/ Chunk \/ TakeFold \/ TakeK \/ TakeReg \/ Fail
  <2>1. UNCHANGED <<cached, k, trained, slns, scoredK, rows>>
    BY <1>3 DEF SplitIds, Count, Chunk, TakeFold, TakeK, TakeReg, TakeSample,
                Fail
  <2> QED  BY <1>3, <2>1, SilentHoldOut
<1>4. CASE SolveFold \/ SolveReg
  BY <1>4, SolveHoldOut
<1>5. CASE ScoreFold
  BY <1>5, ScoreFoldHoldOut
<1>6. CASE ScoreK
  BY <1>6, ScoreKHoldOut
<1>7. CASE ScoreReg
  BY <1>7, ScoreRegHoldOut
<1> QED  BY <1>1, <1>2, <1>3, <1>4, <1>5, <1>6, <1>7 DEF Next, Driver

(* No sample is used both to find a solution and to score it, in any fold  *)
(* and in the comparison KFoldTrial writes, whatever is lost and redrawn.  *)
THEOREM SamplesAreHeldOut == SafetySpec => []HoldOut
<1>1. HoldOutInv => HoldOut
  BY DEF HoldOutInv
<1> QED  BY <1>1, InitHoldOut, NextHoldOut, PTL DEF SafetySpec

-----------------------------------------------------------------------------
(* The ids are listed slice by slice, each once. *)
LEMMA SliceSets ==
  ASSUME NEW S \in SUBSET Slice
  PROVE  IsFiniteSet(S) /\ Cardinality(S) \in 0..NSlices
<1>1. IsFiniteSet(Slice) /\ Cardinality(Slice) = NSlices
  <2>1. 1 \in Int /\ NSlices \in Int /\ ~(1 > NSlices)
    BY KFoldAssumption
  <2>2. IsFiniteSet(1..NSlices) /\ Cardinality(1..NSlices) = NSlices - 1 + 1
    BY <2>1, FS_Interval
  <2> QED  BY <2>1, <2>2 DEF Slice
<1>2. IsFiniteSet(S) /\ Cardinality(S) <= Cardinality(Slice)
  BY <1>1, FS_Subset
<1> QED  BY <1>1, <1>2, FS_CardinalityType, KFoldAssumption

LEMMA PlaceFact ==
  ASSUME NEW S \in SUBSET Slice
  PROVE  /\ \A s \in S : place(s, S) \in 1..Cardinality(S)
         /\ \A s, t \in S : place(s, S) = place(t, S) => s = t
         /\ \A i \in 1..Cardinality(S) : \E s \in S : place(s, S) = i
<1> DEFINE upTo(s) == {t \in S : t <= s}
<1>1. IsFiniteSet(S) /\ Cardinality(S) \in Nat
  BY SliceSets
<1>2. \A s, t \in S : s \in Int /\ t \in Int /\ s <= s
  BY KFoldAssumption DEF Slice
<1>3. \A s \in S : /\ place(s, S) = Cardinality(upTo(s))
                   /\ upTo(s) \in SUBSET S /\ s \in upTo(s)
  BY <1>2 DEF place
<1>4. \A s \in S : IsFiniteSet(upTo(s)) /\ Cardinality(upTo(s)) <= Cardinality(S)
  BY <1>1, <1>3, FS_Subset
<1>5. \A s \in S : Cardinality(upTo(s)) \in 1..Cardinality(S)
  <2>1. TAKE s \in S
  <2>2. upTo(s) # {}
    BY <1>3
  <2> HIDE DEF upTo
  <2>3. Cardinality(upTo(s)) \in Nat /\ Cardinality(upTo(s)) # 0
    BY <1>4, <2>2, FS_CardinalityType, FS_EmptySet
  <2> QED  BY <1>1, <1>4, <2>3
<1>6. ASSUME NEW s \in S, NEW t \in S, s < t
      PROVE  Cardinality(upTo(s)) # Cardinality(upTo(t))
  <2>1. upTo(s) \in SUBSET upTo(t)
    BY <1>2, <1>6
  <2>2. t \in upTo(t) /\ t \notin upTo(s)
    BY <1>2, <1>6
  <2>3. IsFiniteSet(upTo(t)) /\ upTo(s) # upTo(t)
    BY <1>4, <2>2
  <2> HIDE DEF upTo
  <2> QED  BY <2>1, <2>3, FS_Subset
<1>7. \A s, t \in S : Cardinality(upTo(s)) = Cardinality(upTo(t)) => s = t
  BY <1>2, <1>6
<1>8. /\ \A s \in S : place(s, S) \in 1..Cardinality(S)
      /\ \A s, t \in S : place(s, S) = place(t, S) => s = t
  <2> HIDE DEF upTo
  <2> QED  BY <1>3, <1>5, <1>7
<1> DEFINE f == [s \in S |-> place(s, S)]
           N == Cardinality(S)
<1> HIDE DEF upTo
<1>9. f \in Injection(S, 1..N) /\ \A s \in S : f[s] = place(s, S)
  BY <1>8 DEF Injection, IsInjective
<1>10. IsFiniteSet(1..N) /\ Cardinality(1..N) = N
  <2> HIDE DEF N
  <2>1. 1 \in Int /\ N \in Int /\ N \in Nat
    BY <1>1 DEF N
  <2>2. IsFiniteSet(1..N) /\ Cardinality(1..N) = IF 1 > N THEN 0 ELSE N - 1 + 1
    BY <2>1, FS_Interval
  <2> QED  BY <2>1, <2>2
<1> HIDE DEF f
<1>11. f \in Surjection(S, 1..N)
  <2>1. Cardinality(S) = Cardinality(1..N)
    BY <1>10
  <2> QED  BY <1>9, <1>10, <2>1, FS_Injection
<1>12. \A i \in 1..N : \E s \in S : f[s] = i
  BY <1>11 DEF Surjection
<1> QED  BY <1>8, <1>9, <1>12

LEMMA IdFact ==
  ASSUME Recorded, NEW s \in Slice
  PROVE  /\ Len(drawn[s]) \in Nat \ {0} /\ Len(drawn[s]) \in DOMAIN drawn[s]
         /\ id(s) \in Id /\ id(s) \in IdsIn(drawn[s])
<1>1. drawn[s] \in Seq(Id) /\ drawn[s] # <<>>
  BY DEF Recorded
<1> QED  BY <1>1 DEF id, IdsIn

LEMMA OwnIds ==
  ASSUME Recorded, DistinctIds, NEW s \in Slice, NEW t \in Slice,
         id(s) \in IdsIn(drawn[t])
  PROVE  s = t
BY IdFact DEF DistinctIds, IdsIn, id

LEMMA IdListFact ==
  ASSUME Recorded, NEW S \in SUBSET Slice
  PROVE  /\ IdList(S) \in Seq(Id) /\ Len(IdList(S)) = Cardinality(S)
         /\ \A i \in 1..Cardinality(S) : \E s \in S : IdList(S)[i] = id(s)
         /\ \A s \in S : \E i \in 1..Cardinality(S) : IdList(S)[i] = id(s)
         /\ DistinctIds => \A i, j \in 1..Cardinality(S) :
              IdList(S)[i] = IdList(S)[j] => i = j
<1> DEFINE N == Cardinality(S)
           at(i) == CHOOSE s \in S : place(s, S) = i
<1>1. N \in Nat
  BY SliceSets
<1>2. \A i \in 1..N : at(i) \in S /\ place(at(i), S) = i
  BY PlaceFact
<1>3. IdList(S) = [i \in 1..N |-> id(at(i))]
  BY DEF IdList
<1>4. \A i \in 1..N : id(at(i)) \in Id
  BY <1>2, IdFact
<1>5. \A s \in S : s = at(place(s, S)) /\ place(s, S) \in 1..N
  BY <1>2, PlaceFact
<1>6. DistinctIds => \A s, t \in Slice : id(s) = id(t) => s = t
  BY IdFact, OwnIds
<1> HIDE DEF at, N
<1>7. IdList(S) \in Seq(Id) /\ Len(IdList(S)) = N
  BY <1>1, <1>3, <1>4
<1>8. /\ \A i \in 1..N : \E s \in S : IdList(S)[i] = id(s)
      /\ \A s \in S : \E i \in 1..N : IdList(S)[i] = id(s)
  BY <1>2, <1>3, <1>5
<1>9. ASSUME DistinctIds, NEW i \in 1..N, NEW j \in 1..N,
             IdList(S)[i] = IdList(S)[j]
      PROVE  i = j
  BY <1>2, <1>3, <1>6, <1>9
<1> QED  BY <1>7, <1>8, <1>9 DEF N

(* ListHelper.chunk, for any size and for one. *)
LEMMA SubSeqType ==
  ASSUME NEW S, NEW list \in Seq(S), NEW p \in Int, NEW q \in Int,
         p >= 1, q <= Len(list)
  PROVE  /\ SubSeq(list, p, q) \in Seq(S)
         /\ DOMAIN SubSeq(list, p, q) = 1..((q - p) + 1)
         /\ \A i \in 1..((q - p) + 1) : SubSeq(list, p, q)[i] = list[(p + i) - 1]
<1>1. \A i \in 1..((q - p) + 1) : (p + i) - 1 \in 1..Len(list)
  OBVIOUS
<1> QED  BY <1>1

LEMMA ChunkType ==
  ASSUME NEW list \in Seq(Id), NEW size \in Nat \ {0}
  PROVE  chunk(list, size) \in Seq(Seq(Id))
<1> DEFINE last == ((Len(list) + size) - 1) \div size
           part(c) == SubSeq(list, ((c - 1) * size) + 1,
                             Least(c * size, Len(list)))
<1>1. Len(list) \in Nat /\ last \in Nat
  OBVIOUS
<1>2. ASSUME NEW c \in 1..last PROVE part(c) \in Seq(Id)
  <2> DEFINE p == ((c - 1) * size) + 1
             q == Least(c * size, Len(list))
  <2>1. (c - 1) * size \in Nat /\ c * size \in Int
    BY <1>1
  <2>2. p \in Int /\ p >= 1 /\ q \in Int /\ q <= Len(list)
    <3> DEFINE x == (c - 1) * size
               y == c * size
    <3>1. x \in Nat /\ y \in Int
      BY <2>1
    <3> HIDE DEF x, y
    <3>2. x + 1 \in Int /\ x + 1 >= 1 /\ Least(y, Len(list)) \in Int
          /\ Least(y, Len(list)) <= Len(list)
      BY <3>1, <1>1 DEF Least
    <3> QED  BY <3>2 DEF x, y
  <2> HIDE DEF p, q
  <2>3. SubSeq(list, p, q) \in Seq(Id)
    BY <2>2, SubSeqType
  <2> QED  BY <2>3 DEF p, q
<1>3. chunk(list, size) = [c \in 1..last |-> part(c)]
  BY DEF chunk
<1> HIDE DEF last, part
<1> QED  BY <1>1, <1>2, <1>3

LEMMA SingleId ==
  \A list : DOMAIN list = {1} => IdsIn(list) = {list[1]}
BY Zenon DEF IdsIn

LEMMA ChunksOfOne ==
  ASSUME NEW list \in Seq(Id)
  PROVE  /\ Len(chunk(list, 1)) = Len(list)
         /\ DOMAIN chunk(list, 1) = 1..Len(list)
         /\ \A c \in 1..Len(list) : IdsIn(chunk(list, 1)[c]) = {list[c]}
<1>1. Len(list) \in Nat /\ ((Len(list) + 1) - 1) \div 1 = Len(list)
  OBVIOUS
<1>2. \A c \in 1..Len(list) :
        /\ ((c - 1) * 1) + 1 = c /\ Least(c * 1, Len(list)) = c
  BY DEF Least
<1>3. /\ chunk(list, 1) = [c \in 1..Len(list) |-> SubSeq(list, c, c)]
      /\ \A c \in 1..Len(list) : chunk(list, 1)[c] = SubSeq(list, c, c)
  BY <1>1, <1>2 DEF chunk
<1>4. ASSUME NEW c \in 1..Len(list)
      PROVE  IdsIn(SubSeq(list, c, c)) = {list[c]}
  <2>1. c \in Int /\ c >= 1 /\ c <= Len(list) /\ (c - c) + 1 = 1
        /\ (c + 1) - 1 = c
    OBVIOUS
  <2>2. /\ DOMAIN SubSeq(list, c, c) = 1..((c - c) + 1)
        /\ \A i \in 1..((c - c) + 1) : SubSeq(list, c, c)[i] = list[(c + i) - 1]
    BY <2>1, SubSeqType
  <2>3. 1..((c - c) + 1) = {1} /\ 1 \in 1..((c - c) + 1)
    BY <2>1
  <2> DEFINE w == SubSeq(list, c, c)
  <2>4. DOMAIN w = {1} /\ w[1] = list[(c + 1) - 1]
    BY <2>2, <2>3, Zenon
  <2> HIDE DEF w
  <2>5. IdsIn(w) = {w[1]} /\ w[1] = list[c]
    BY <2>1, <2>4, SingleId
  <2> QED  BY <2>5 DEF w
<1>5. DOMAIN chunk(list, 1) = 1..Len(list)
  BY <1>3
<1>6. Len(chunk(list, 1)) = Len(list)
  BY <1>1, <1>3
<1>7. \A c \in 1..Len(list) : IdsIn(chunk(list, 1)[c]) = {list[c]}
  BY <1>3, <1>4, Zenon
<1> QED  BY <1>5, <1>6, <1>7

-----------------------------------------------------------------------------
(* The inductive invariant behind the other properties.  A fold of the     *)
(* driver is one of the k it counts to.                                    *)
InFold == {"solve", "take", "score"}
Folding == InFold \cup {"reg"}

TypeInv == TypeOK /\ (pc \in InFold => fold \in 1..k)

(* What the solutions say of the folds, whatever ids are drawn: there is   *)
(* one for each fold that is over, and a fold's training and validation    *)
(* slices share out the training set as long as nothing is lost.           *)
SolutionsInv ==
  /\ pc \in InFold => Len(slns) = fold - 1
  /\ pc = "reg" => Len(slns) = k
  /\ pc \notin {"solve", "reg", "failed"} => jobs = 0
  /\ pc = "solve" /\ jobs = 0 => trained = {}
  /\ pc \in {"take", "score"} => fold \in DOMAIN folds
  /\ losses = 0 =>
       /\ (pc = "solve" /\ jobs > 0) \/ pc \in {"take", "score"} =>
            trained = Data(FoldTrain)
       /\ pc \in Folding => \A i \in DOMAIN slns :
            slns[i].trained = Data(TrainSet) \ slns[i].tested

(* The training slices are some of the first k, and no other slice ever    *)
(* had one of their ids: with distinct ids there are at most k of them, so *)
(* that a fold has a single one, and a slice drawn again is in none.       *)
SplitInv ==
  pc \in {"count", "chunk"} \cup Folding =>
    /\ k < NSlices
    /\ \A x \in outer : \E s \in 1..k : x \in IdsIn(drawn[s])

InSomeFold(x) == \E c \in DOMAIN folds : x \in IdsIn(folds[c])

Separate ==
  /\ Len(folds) <= k
  /\ \A c \in DOMAIN folds : \E x \in Id : IdsIn(folds[c]) = {x}
  /\ \A c, d \in DOMAIN folds :
       c # d => IdsIn(folds[c]) \cap IdsIn(folds[d]) = {}
  /\ \A s \in TrainSet : InSomeFold(id(s))

Scored(i) ==
  /\ i \in DOMAIN folds /\ slns[i].tested # {}
  /\ \A d \in slns[i].tested : Known(d) /\ idOf(d) \in IdsIn(folds[i])
  /\ \A d \in slns[i].trained : InSomeFold(idOf(d))

FoldsInv ==
  DistinctIds =>
    /\ pc = "chunk" => n <= k
    /\ pc \in InFold => \A d \in trained : InSomeFold(idOf(d))
    /\ pc \in Folding => Separate /\ \A i \in DOMAIN slns : Scored(i)

(* Without a loss the training slices are the first k, one to a fold.      *)
Sound == DistinctIds /\ losses = 0 /\ NSlices > LastK /\ FirstK > 1

SoundInv ==
  Sound =>
    /\ pc # "failed"
    /\ pc \notin {"ids", "done"} => outer = {id(s) : s \in 1..k}
    /\ pc = "chunk" => n = k
    /\ pc \in InFold =>
         /\ Len(folds) = k
         /\ \A c \in DOMAIN folds : \E s \in TrainSet : IdsIn(folds[c]) = {id(s)}

CrossInv ==
  HoldOutInv /\ TypeInv /\ SolutionsInv /\ SplitInv /\ FoldsInv /\ SoundInv

-----------------------------------------------------------------------------
(* Type correctness. *)
LEMMA DataType ==
  ASSUME TypeOK, NEW S \in SUBSET Slice
  PROVE  Data(S) \subseteq Datum
<1>1. \A s \in S : Len(drawn[s]) \in 1..(MaxLosses + 1)
  BY KFoldAssumption DEF TypeOK
<1> QED  BY <1>1 DEF Data, Datum

LEMMA SetsOfSlices ==
  /\ TrainSet \in SUBSET Slice /\ ValidSet \in SUBSET Slice
  /\ FoldTrain \in SUBSET TrainSet /\ FoldValid \in SUBSET TrainSet
  /\ FoldTrain \in SUBSET Slice /\ FoldValid \in SUBSET Slice
BY DEF TrainSet, ValidSet, FoldTrain, FoldValid

LEMMA TypeRecords ==
  ASSUME TypeOK
  PROVE  drawn \in [Slice -> Seq(Id)] /\ \A s \in Slice : drawn[s] # <<>>
BY DEF TypeOK

LEMMA InitTypes == Init => TypeInv
<1> SUFFICES ASSUME Init PROVE TypeInv
  OBVIOUS
<1>1. \A i \in Id : <<i>> \in Seq(Id) /\ Len(<<i>>) = 1
  OBVIOUS
<1>2. drawn \in [Slice -> Seq(Id)] /\ \A s \in Slice : Len(drawn[s]) = 1
  BY <1>1 DEF Init
<1>3. 0 \in 0..(SolveJobs - 1) /\ 0 \in 0..LastK /\ 0 \in 0..NSlices
      /\ 0 \in 0..MaxLosses /\ FirstK \in FirstK..LastK /\ 1 \in 1..(0 + 1)
  BY KFoldAssumption
<1>4. <<>> \in Seq(Seq(Id))
  OBVIOUS
<1> QED  BY <1>2, <1>3, <1>4 DEF Init, TypeInv, TypeOK, InFold

LEMMA LossTypes ==
  ASSUME TypeInv, NEW s \in Slice, LosePartition(s)
  PROVE  TypeInv'
<1>1. PICK i \in Id : drawn' = [drawn EXCEPT ![s] = Append(@, i)]
  BY DEF LosePartition
<1>2. /\ losses < MaxLosses /\ losses' = losses + 1
      /\ UNCHANGED <<pc, k, outer, n, folds, fold, jobs, trained, slns,
                     scoredK, rows>>
  BY DEF LosePartition
<1>3. drawn \in [Slice -> Seq(Id)] /\ losses \in 0..MaxLosses
      /\ \A t \in Slice : Len(drawn[t]) \in 1..(losses + 1)
  BY DEF TypeInv, TypeOK
<1>4. losses' \in 0..MaxLosses
  BY <1>2, <1>3, KFoldAssumption
<1>5. drawn' \in [Slice -> Seq(Id)]
      /\ \A t \in Slice : Len(drawn'[t]) \in {Len(drawn[t]), Len(drawn[t]) + 1}
  BY <1>1, <1>3
<1>6. \A t \in Slice : Len(drawn'[t]) \in 1..(losses' + 1)
  BY <1>2, <1>3, <1>5
<1> QED  BY <1>2, <1>4, <1>5, <1>6 DEF TypeInv, TypeOK, InFold

LEMMA JobType ==
  ASSUME NEW j \in Nat, NEW w \in Nat \ {0}
  PROVE  (j + 1) % w \in 0..(w - 1)
OBVIOUS

LEMMA SolveTypes ==
  ASSUME TypeInv, SolveFold \/ SolveReg
  PROVE  TypeInv'
<1>1. PICK S \in SUBSET Slice : trained' = trained \cup Data(S)
  BY SetsOfSlices DEF SolveFold, SolveReg, SolveJob
<1>2. /\ UNCHANGED <<cached, k, outer, n, folds, fold, slns, scoredK, rows>>
      /\ jobs' = (jobs + 1) % SolveJobs
      /\ \/ pc = "solve" /\ pc' \in {"solve", "take"}
         \/ pc = "reg" /\ pc' \in {"reg", "takeK"}
  BY DEF SolveFold, SolveReg, SolveJob
<1>3. trained' \subseteq Datum
  BY <1>1, DataType DEF TypeInv, TypeOK
<1>4. jobs' \in 0..(SolveJobs - 1)
  <2>1. jobs \in Nat /\ SolveJobs \in Nat \ {0}
    BY KFoldAssumption DEF TypeInv, TypeOK
  <2> QED  BY <1>2, <2>1, JobType
<1> QED  BY <1>2, <1>3, <1>4 DEF TypeInv, TypeOK, InFold, cached

LEMMA ChunkTypes ==
  ASSUME TypeInv, Chunk
  PROVE  TypeInv'
<1>1. /\ folds' = chunk(IdList(TrainSet), n \div k)
      /\ n >= k /\ fold' = 1 /\ pc' = "solve"
      /\ UNCHANGED <<cached, k, outer, n, jobs, trained, slns, scoredK, rows>>
  BY DEF Chunk
<1>2. k \in Nat \ {0} /\ n \in Nat /\ k \in FirstK..LastK
  BY KFoldAssumption DEF TypeInv, TypeOK
<1>3. n \div k \in Nat \ {0}
  BY <1>1, <1>2
<1>4. IdList(TrainSet) \in Seq(Id)
  <2> DEFINE S == TrainSet
             order(i) == CHOOSE s \in S : place(s, S) = i
  <2>1. S \in SUBSET Slice
    BY SetsOfSlices
  <2> HIDE DEF S
  <2>2. \A i \in 1..Cardinality(S) : order(i) \in S
    BY <2>1, PlaceFact
  <2>3. \A s \in S : id(s) \in Id
    <3>1. \A s \in S : drawn[s] \in Seq(Id) /\ drawn[s] # <<>>
      BY <2>1, TypeRecords DEF TypeInv
    <3> QED  BY <3>1 DEF id
  <2>4. IdList(S) = [i \in 1..Cardinality(S) |-> id(order(i))]
    BY DEF IdList
  <2>5. Cardinality(S) \in Nat
    BY <2>1, SliceSets
  <2> HIDE DEF order
  <2>6. IdList(S) \in Seq(Id)
    BY <2>2, <2>3, <2>4, <2>5
  <2> QED  BY <2>6 DEF S
<1>5. folds' \in Seq(Seq(Id))
  BY <1>1, <1>3, <1>4, ChunkType
<1>6. 1 \in 1..k /\ 1 \in 0..LastK
  BY <1>2, KFoldAssumption
<1> QED  BY <1>1, <1>5, <1>6 DEF TypeInv, TypeOK, InFold, cached

LEMMA NextTypes ==
  ASSUME TypeInv, [Next]_vars
  PROVE  TypeInv'
<1>1. CASE UNCHANGED vars
  BY <1>1 DEF vars, TypeInv, TypeOK, InFold
<1>2. CASE \E s \in Slice : LosePartition(s)
  BY <1>2, LossTypes
<1>3. CASE SplitIds
  <2>1. 1..k \in SUBSET Slice
    BY <1>3, KFoldAssumption DEF SplitIds, Slice, TypeInv, TypeOK
  <2>2. \A s \in 1..k : drawn[s] \in Seq(Id) /\ drawn[s] # <<>>
    BY <2>1, TypeRecords DEF TypeInv
  <2>3. \A s \in 1..k : id(s) \in Id
    BY <2>2 DEF id
  <2> QED  BY <1>3, <2>3 DEF SplitIds, TypeInv, TypeOK, InFold, cached
<1>4. CASE Count
  <2>1. n' \in 0..NSlices
    BY <1>4, SliceSets, SetsOfSlices DEF Count
  <2> QED  BY <1>4, <2>1 DEF Count, TypeInv, TypeOK, InFold, cached
<1>5. CASE Chunk
  BY <1>5, ChunkTypes
<1>6. CASE SolveFold \/ SolveReg
  BY <1>6, SolveTypes
<1>7. CASE TakeFold \/ TakeK \/ TakeReg
  BY <1>7 DEF TakeFold, TakeK, TakeReg, TakeSample, TypeInv, TypeOK, InFold,
              cached
<1>8. CASE ScoreFold
  <2>1. /\ fold \in 1..k /\ k \in FirstK..LastK
        /\ fold < k => fold + 1 \in 1..k /\ fold + 1 \in 0..LastK
    BY <1>8, KFoldAssumption DEF ScoreFold, TypeInv, TypeOK, InFold
  <2> QED  BY <1>8, <2>1 DEF ScoreFold, TypeInv, TypeOK, InFold, cached
<1>9. CASE ScoreK
  <2>1. scoredK' \subseteq Datum
    BY <1>9, SetsOfSlices, DataType DEF ScoreK, TypeInv
  <2> QED  BY <1>9, <2>1 DEF ScoreK, TypeInv, TypeOK, InFold, cached
<1>10. CASE ScoreReg
  <2>1. k' \in FirstK..LastK
    BY <1>10, KFoldAssumption DEF ScoreReg, TypeInv, TypeOK
  <2>2. pc' \in {"ids", "done"} /\ trained' = {} /\ scoredK' = {}
        /\ UNCHANGED <<cached, outer, n, folds, fold, jobs>>
    BY <1>10 DEF ScoreReg
  <2> QED  BY <2>1, <2>2 DEF TypeInv, TypeOK, InFold, cached
<1>11. CASE Fail
  BY <1>11 DEF Fail, TypeInv, TypeOK, InFold, cached
<1> QED  BY <1>1, <1>2, <1>3, <1>4, <1>5, <1>6, <1>7, <1>8, <1>9, <1>10, <1>11
         DEF Next, Driver

(* The driver never counts beyond its folds and its k, and all it records  *)
(* are ids and data of its slices, for any slices, folds and losses.       *)
THEOREM CrossTyped == SafetySpec => []TypeOK
<1>1. TypeInv => TypeOK
  BY DEF TypeInv
<1> QED  BY <1>1, InitTypes, NextTypes, PTL DEF SafetySpec

-----------------------------------------------------------------------------
(* The solutions and the folds. *)
LEMMA SameSets ==
  ASSUME UNCHANGED <<cached, outer>>
  PROVE  /\ TrainSet' = TrainSet /\ Data(TrainSet)' = Data(TrainSet)
         /\ UNCHANGED <<folds, fold>> => Data(FoldTrain)' = Data(FoldTrain)
BY DEF cached, TrainSet, Data, FoldTrain, id

LEMMA FoldShares ==
  Data(FoldTrain) = Data(TrainSet) \ Data(FoldValid)
BY DEF Data, FoldTrain, FoldValid

LEMMA NoSolution ==
  ASSUME HoldOutInv, pc \in {"ids", "count", "chunk"}
  PROVE  trained = {} /\ slns = <<>> /\ DOMAIN slns = {} /\ Len(slns) = 0
BY DEF HoldOutInv

(* The solution of a fold is the next one. *)
LEMMA NewSolution ==
  ASSUME HoldOutInv, ScoreFold
  PROVE  /\ Len(slns) \in Nat /\ Len(slns') = Len(slns) + 1
         /\ DOMAIN slns' = DOMAIN slns \cup {Len(slns) + 1}
         /\ \A i \in DOMAIN slns : slns'[i] = slns[i] /\ i # Len(slns) + 1
         /\ slns'[Len(slns) + 1].trained = trained
         /\ slns'[Len(slns) + 1].tested = Data(FoldValid)
<1>1. PICK o \in Outcome :
        slns' = Append(slns, [trained |-> trained, outcome |-> o,
                              tested |-> Data(FoldValid),
                              weight |-> weight(o)])
  BY DEF ScoreFold
<1> DEFINE new == [trained |-> trained, outcome |-> o,
                   tested |-> Data(FoldValid), weight |-> weight(o)]
<1>2. new.trained = trained /\ new.tested = Data(FoldValid)
  OBVIOUS
<1>3. slns' = Append(slns, new) /\ slns \in Seq(Solution)
  BY <1>1 DEF HoldOutInv, Recorded
<1> HIDE DEF new
<1> QED  BY <1>2, <1>3

LEMMA NextSolutions ==
  ASSUME HoldOutInv, TypeInv, SolutionsInv, [Next]_vars
  PROVE  SolutionsInv'
<1>1. CASE UNCHANGED vars
  BY <1>1, SameSets DEF vars, SolutionsInv, Folding, InFold, cached
<1>2. CASE \E s \in Slice : LosePartition(s)
  <2>1. losses' # 0
    BY <1>2, KFoldAssumption DEF LosePartition, TypeInv, TypeOK
  <2> QED  BY <1>2, <2>1 DEF LosePartition, SolutionsInv, InFold
<1>3. CASE SplitIds \/ Count
  BY <1>3 DEF SplitIds, Count, SolutionsInv, Folding, InFold
<1>4. CASE Chunk
  BY <1>4, NoSolution DEF Chunk, SolutionsInv, Folding, InFold
<1>5. CASE SolveFold
  <2>1. /\ pc = "solve" /\ fold \in DOMAIN folds /\ jobs \in Nat
        /\ trained' = trained \cup Data(FoldTrain)
        /\ pc' = IF jobs' = 0 THEN "take" ELSE "solve"
        /\ UNCHANGED <<cached, k, outer, n, folds, fold, slns, scoredK, rows>>
    BY <1>5, KFoldAssumption DEF SolveFold, SolveJob, TypeInv, TypeOK
  <2>2. losses = 0 => trained' = Data(FoldTrain)
    BY <2>1 DEF SolutionsInv
  <2>3. Data(FoldTrain)' = Data(FoldTrain) /\ Data(TrainSet)' = Data(TrainSet)
    BY <2>1, SameSets
  <2> QED  BY <2>1, <2>2, <2>3 DEF SolutionsInv, Folding, InFold, cached
<1>6. CASE TakeFold
  <2>1. Data(FoldTrain)' = Data(FoldTrain) /\ Data(TrainSet)' = Data(TrainSet)
    BY <1>6, SameSets DEF TakeFold, TakeSample
  <2> QED  BY <1>6, <2>1 DEF TakeFold, TakeSample, SolutionsInv, Folding,
                            InFold, cached
<1>7. CASE ScoreFold
  <2>1. /\ pc = "score" /\ trained' = {} /\ jobs' = jobs /\ k' = k
        /\ UNCHANGED <<cached, outer>>
        /\ \/ fold < k /\ fold' = fold + 1 /\ pc' = "solve"
           \/ ~(fold < k) /\ pc' = "reg"
    BY <1>7 DEF ScoreFold
  <2>2. Data(TrainSet)' = Data(TrainSet)
    BY <2>1, SameSets
  <2>3. /\ fold \in 1..k /\ k \in Nat
    BY <2>1, KFoldAssumption DEF TypeInv, TypeOK, InFold
  <2>4. Len(slns') = fold
    BY <1>7, <2>1, <2>3, NewSolution DEF SolutionsInv, InFold
  <2>5. ASSUME losses' = 0, NEW i \in DOMAIN slns'
        PROVE  slns'[i].trained = Data(TrainSet) \ slns'[i].tested
    <3>1. losses = 0
      BY <2>1, <2>5 DEF cached
    <3>2. trained = Data(TrainSet) \ Data(FoldValid)
      BY <2>1, <3>1, FoldShares DEF SolutionsInv
    <3>3. CASE i = Len(slns) + 1
      BY <1>7, <3>2, <3>3, NewSolution
    <3>4. CASE i \in DOMAIN slns
      BY <1>7, <2>1, <3>1, <3>4, NewSolution DEF SolutionsInv, Folding, InFold
    <3> QED  BY <1>7, <2>5, <3>3, <3>4, NewSolution
  <2> QED  BY <2>1, <2>2, <2>3, <2>4, <2>5 DEF SolutionsInv, Folding, InFold
<1>8. CASE SolveReg
  <2>1. Data(TrainSet)' = Data(TrainSet)
    BY <1>8, SameSets DEF SolveReg, SolveJob
  <2> QED  BY <1>8, <2>1 DEF SolveReg, SolveJob, SolutionsInv, Folding, InFold,
                            cached
<1>9. CASE TakeK \/ ScoreK \/ TakeReg \/ ScoreReg \/ Fail
  BY <1>9 DEF TakeK, ScoreK, TakeReg, ScoreReg, Fail, TakeSample, SolutionsInv,
              Folding, InFold
<1> QED  BY <1>1, <1>2, <1>3, <1>4, <1>5, <1>6, <1>7, <1>8, <1>9
         DEF Next, Driver

-----------------------------------------------------------------------------
(* The split of the slices. *)
LEMMA LossGrows ==
  ASSUME Recorded, NEW s \in Slice, LosePartition(s)
  PROVE  /\ \A t \in Slice : t # s => drawn'[t] = drawn[t]
         /\ \A t \in Slice : DOMAIN drawn[t] \subseteq DOMAIN drawn'[t]
         /\ \A t \in Slice : \A i \in DOMAIN drawn[t] : drawn'[t][i] = drawn[t][i]
         /\ \A t \in Slice : IdsIn(drawn[t]) \subseteq IdsIn(drawn'[t])
         /\ Len(drawn'[s]) \in DOMAIN drawn'[s] \ DOMAIN drawn[s]
<1>1. PICK i \in Id : drawn' = [drawn EXCEPT ![s] = Append(@, i)]
  BY DEF LosePartition
<1>2. drawn \in [Slice -> Seq(Id)] /\ drawn[s] \in Seq(Id)
  BY DEF Recorded
<1>3. drawn'[s] = Append(drawn[s], i) /\ \A t \in Slice : t # s => drawn'[t] = drawn[t]
  BY <1>1, <1>2
<1>4. /\ DOMAIN drawn[s] \subseteq DOMAIN drawn'[s]
      /\ \A j \in DOMAIN drawn[s] : drawn'[s][j] = drawn[s][j]
      /\ Len(drawn'[s]) \in DOMAIN drawn'[s] \ DOMAIN drawn[s]
  BY <1>2, <1>3
<1>5. /\ \A t \in Slice : DOMAIN drawn[t] \subseteq DOMAIN drawn'[t]
      /\ \A t \in Slice : \A j \in DOMAIN drawn[t] : drawn'[t][j] = drawn[t][j]
  BY <1>3, <1>4
<1>6. \A t \in Slice : IdsIn(drawn[t]) \subseteq IdsIn(drawn'[t])
  BY <1>5, Zenon DEF IdsIn
<1> QED  BY <1>3, <1>4, <1>5, <1>6

LEMMA FirstSlices ==
  ASSUME NEW m \in Nat, m < NSlices
  PROVE  1..m \in SUBSET Slice /\ IsFiniteSet(1..m) /\ Cardinality(1..m) = m
<1>1. 1 \in Int /\ m \in Int
  OBVIOUS
<1>2. IsFiniteSet(1..m) /\ Cardinality(1..m) = IF 1 > m THEN 0 ELSE m - 1 + 1
  BY <1>1, FS_Interval
<1> QED  BY <1>2, KFoldAssumption DEF Slice

LEMMA NextSplit ==
  ASSUME HoldOutInv, TypeInv, SplitInv, [Next]_vars
  PROVE  SplitInv'
<1>1. CASE UNCHANGED vars
  BY <1>1 DEF vars, SplitInv, IdsIn
<1>2. ASSUME NEW s \in Slice, LosePartition(s)
      PROVE  SplitInv'
  <2>1. UNCHANGED <<pc, k, outer>>
    BY <1>2 DEF LosePartition
  <2>2. \A t \in Slice : IdsIn(drawn[t]) \subseteq IdsIn(drawn'[t])
    BY <1>2, LossGrows DEF HoldOutInv
  <2>3. k \in Nat /\ (k < NSlices => 1..k \in SUBSET Slice)
    BY FirstSlices, KFoldAssumption DEF TypeInv, TypeOK
  <2>4. \A t : IdsIn(drawn[t])' = IdsIn(drawn'[t])
    BY DEF IdsIn
  <2> QED  BY <2>1, <2>2, <2>3, <2>4 DEF SplitInv
<1>3. CASE SplitIds
  <2>1. k \in Nat /\ k < NSlices /\ outer' = {id(s) : s \in 1..k}
        /\ UNCHANGED <<drawn, k>>
    BY <1>3, KFoldAssumption DEF SplitIds, TypeInv, TypeOK, cached
  <2>2. \A s \in 1..k : id(s) \in IdsIn(drawn[s])
    BY <2>1, FirstSlices, IdFact DEF HoldOutInv
  <2> QED  BY <2>1, <2>2 DEF SplitInv, IdsIn
<1>4. CASE \/ Count \/ Chunk \/ SolveFold \/ TakeFold \/ ScoreFold \/ SolveReg
  <2>1. pc \in {"count", "chunk"} \cup Folding /\ UNCHANGED <<drawn, k, outer>>
    BY <1>4 DEF Count, Chunk, SolveFold, TakeFold, ScoreFold, SolveReg,
                SolveJob, TakeSample, cached, Folding, InFold
  <2> QED  BY <2>1 DEF SplitInv, IdsIn
<1>5. CASE TakeK \/ ScoreK \/ TakeReg \/ ScoreReg \/ Fail
  <2>1. pc' \notin {"count", "chunk"} \cup Folding
    BY <1>5 DEF TakeK, ScoreK, TakeReg, ScoreReg, Fail, TakeSample, Folding,
                InFold
  <2> QED  BY <2>1 DEF SplitInv
<1> QED  BY <1>1, <1>2, <1>3, <1>4, <1>5 DEF Next, Driver

-----------------------------------------------------------------------------
(* With distinct ids, the training slices are among the first k. *)
LEMMA TrainSlices ==
  ASSUME HoldOutInv, TypeInv, SplitInv, DistinctIds,
         pc \in {"count", "chunk"} \cup Folding
  PROVE  TrainSet \subseteq 1..k /\ Cardinality(TrainSet) <= k
<1>1. k \in Nat /\ k < NSlices
  BY KFoldAssumption DEF SplitInv, TypeInv, TypeOK
<1>2. ASSUME NEW s \in TrainSet PROVE s \in 1..k
  <2>1. s \in Slice /\ id(s) \in outer
    BY DEF TrainSet
  <2>2. PICK t \in 1..k : id(s) \in IdsIn(drawn[t])
    BY <2>1 DEF SplitInv
  <2>3. t \in Slice
    BY <1>1, FirstSlices
  <2> QED  BY <2>1, <2>2, <2>3, OwnIds DEF HoldOutInv
<1>3. Cardinality(TrainSet) <= Cardinality(1..k)
  BY <1>1, <1>2, FirstSlices, FS_Subset
<1> QED  BY <1>1, <1>2, <1>3, FirstSlices

(* A slice drawn again passes none of the filters. *)
LEMMA LossFolds ==
  ASSUME HoldOutInv, TypeInv, SplitInv, FoldsInv,
         NEW s \in Slice, LosePartition(s)
  PROVE  FoldsInv'
<1> SUFFICES ASSUME DistinctIds'
             PROVE  /\ pc' = "chunk" => n' <= k'
                    /\ pc' \in InFold =>
                         \A d \in trained' : InSomeFold(idOf(d))'
                    /\ pc' \in Folding =>
                         Separate' /\ \A i \in DOMAIN slns' : Scored(i)'
  BY DEF FoldsInv
<1>1. UNCHANGED <<pc, k, outer, n, folds, fold, jobs, trained, slns, scoredK,
                  rows>>
  BY DEF LosePartition
<1>2. Recorded
  BY DEF HoldOutInv
<1>3. DistinctIds
  <2>1. /\ \A t \in Slice : DOMAIN drawn[t] \subseteq DOMAIN drawn'[t]
        /\ \A t \in Slice : \A i \in DOMAIN drawn[t] : drawn'[t][i] = drawn[t][i]
    BY <1>2, LossGrows
  <2> QED  BY <2>1 DEF DistinctIds
<1>4. \A d : Known(d) => Known(d)' /\ idOf(d)' = idOf(d)
  BY <1>2, LossKeeps
<1>5. \A x : InSomeFold(x)' <=> InSomeFold(x)
  BY <1>1 DEF InSomeFold, IdsIn
<1>6. ASSUME pc \in Folding, NEW t \in TrainSet'
      PROVE  t \in TrainSet /\ id(t)' = id(t)
  <2>1. t \in Slice /\ id(t)' \in outer
    BY <1>1, <1>6 DEF TrainSet
  <2>2. k \in Nat /\ k < NSlices
    BY <1>6, KFoldAssumption DEF SplitInv, TypeInv, TypeOK
  <2>3. CASE t = s
    <3>1. PICK w \in 1..k : id(s)' \in IdsIn(drawn[w])
      BY <1>6, <2>1, <2>3 DEF SplitInv
    <3>2. w \in Slice
      BY <2>2, FirstSlices
    <3>3. PICK j \in DOMAIN drawn[w] : drawn[w][j] = id(s)'
      BY <3>1 DEF IdsIn
    <3>4. /\ j \in DOMAIN drawn'[w] /\ drawn'[w][j] = id(s)'
          /\ Len(drawn'[s]) \in DOMAIN drawn'[s] \ DOMAIN drawn[s]
      BY <1>2, <3>2, <3>3, LossGrows
    <3>5. id(s)' = drawn'[s][Len(drawn'[s])]
      BY DEF id
    <3>6. w = s /\ j = Len(drawn'[s])
      BY <3>2, <3>4, <3>5 DEF DistinctIds
    <3> QED  BY <3>3, <3>4, <3>6
  <2>4. CASE t # s
    <3>1. drawn'[t] = drawn[t]
      BY <1>2, <2>1, <2>4, LossGrows
    <3> QED  BY <2>1, <3>1 DEF TrainSet, id
  <2> QED  BY <2>3, <2>4
<1>7. ASSUME pc \in Folding PROVE Separate'
  <2>1. Separate
    BY <1>3, <1>7 DEF FoldsInv
  <2>2. ASSUME NEW t \in TrainSet' PROVE InSomeFold(id(t))'
    <3>1. InSomeFold(id(t)) /\ id(t)' = id(t)
      BY <1>6, <1>7, <2>1, <2>2 DEF Separate
    <3>2. PICK c \in DOMAIN folds : id(t)' \in IdsIn(folds[c])
      BY <3>1 DEF InSomeFold
    <3> QED  BY <1>1, <3>2 DEF InSomeFold, IdsIn
  <2>3. \A c : IdsIn(folds[c])' = IdsIn(folds[c])
    BY <1>1 DEF IdsIn
  <2> QED  BY <1>1, <2>1, <2>2, <2>3, Zenon DEF Separate
<1>8. ASSUME pc \in Folding, NEW i \in DOMAIN slns PROVE Scored(i)'
  <2>1. Scored(i)
    BY <1>3, <1>8 DEF FoldsInv
  <2>2. \A d \in slns[i].trained : Known(d)
    BY DEF HoldOutInv
  <2>3. IdsIn(folds[i])' = IdsIn(folds[i])
    BY <1>1 DEF IdsIn
  <2> QED  BY <1>1, <1>4, <1>5, <2>1, <2>2, <2>3 DEF Scored
<1>9. ASSUME pc \in InFold, NEW d \in trained PROVE InSomeFold(idOf(d))'
  <2>1. InSomeFold(idOf(d)) /\ Known(d)
    BY <1>3, <1>9 DEF FoldsInv, HoldOutInv
  <2>2. idOf(d)' = idOf(d)
    BY <1>4, <2>1
  <2> QED  BY <1>1, <2>1, <2>2 DEF InSomeFold, IdsIn
<1>10. pc = "chunk" => n <= k
  BY <1>3 DEF FoldsInv
<1> QED  BY <1>1, <1>7, <1>8, <1>9, <1>10

(* With distinct ids, a fold is one slice of the training set. *)
LEMMA ChunkFolds ==
  ASSUME HoldOutInv, TypeInv, SplitInv, FoldsInv, DistinctIds, Chunk
  PROVE  /\ Separate' /\ n = k
         /\ Len(folds') = Cardinality(TrainSet)
         /\ \A c \in DOMAIN folds' : \E s \in TrainSet : IdsIn(folds'[c]) = {id(s)}
<1> DEFINE list == IdList(TrainSet)
           N == Cardinality(TrainSet)
<1>1. /\ folds' = chunk(list, n \div k) /\ n >= k /\ pc = "chunk"
      /\ UNCHANGED <<cached, k, outer, n>>
  BY DEF Chunk
<1>2. n = k /\ k \in Nat \ {0}
  BY <1>1, KFoldAssumption DEF FoldsInv, TypeInv, TypeOK
<1>3. n \div k = 1
  BY <1>2
<1>4. N \in Nat /\ N <= k /\ TrainSet \in SUBSET Slice
  BY <1>1, SetsOfSlices, SliceSets, TrainSlices
<1>5. /\ list \in Seq(Id) /\ Len(list) = N
      /\ \A i \in 1..N : \E s \in TrainSet : list[i] = id(s)
      /\ \A s \in TrainSet : \E i \in 1..N : list[i] = id(s)
      /\ \A i, j \in 1..N : list[i] = list[j] => i = j
  BY <1>4, IdListFact DEF HoldOutInv
<1> HIDE DEF list, N
<1>6. /\ Len(folds') = N /\ DOMAIN folds' = 1..N
      /\ \A c \in 1..N : IdsIn(folds'[c]) = {list[c]}
  BY <1>1, <1>3, <1>5, ChunksOfOne
<1>7. TrainSet' = TrainSet /\ \A s : id(s)' = id(s)
  BY <1>1, SameSets DEF cached, id
<1>8. \A c : IdsIn(folds[c])' = IdsIn(folds'[c])
  BY DEF IdsIn
<1>9. \A i \in 1..N : list[i] \in Id
  BY <1>4, <1>5
<1>10. Separate'
  <2>1. ASSUME NEW s \in TrainSet' PROVE InSomeFold(id(s))'
    <3>1. s \in TrainSet /\ id(s)' = id(s)
      BY <1>7, <2>1
    <3>2. PICK c \in 1..N : list[c] = id(s)
      BY <1>5, <3>1
    <3>3. c \in DOMAIN folds' /\ id(s)' \in IdsIn(folds[c])'
      BY <1>6, <1>8, <3>1, <3>2
    <3> QED  BY <3>3 DEF InSomeFold
  <2>2. Len(folds') <= k'
    BY <1>1, <1>4, <1>6
  <2>3. \A c \in DOMAIN folds' : \E x \in Id : IdsIn(folds[c])' = {x}
    BY <1>6, <1>8, <1>9
  <2>4. \A c, d \in DOMAIN folds' :
          c # d => IdsIn(folds[c])' \cap IdsIn(folds[d])' = {}
    BY <1>5, <1>6, <1>8
  <2> QED  BY <2>1, <2>2, <2>3, <2>4, Zenon DEF Separate
<1>11. \A c \in DOMAIN folds' : \E s \in TrainSet : IdsIn(folds'[c]) = {id(s)}
  BY <1>5, <1>6
<1> QED  BY <1>2, <1>6, <1>10, <1>11 DEF N

(* What a step of the driver that leaves the folds alone keeps. *)
LEMMA SameFilters ==
  ASSUME UNCHANGED <<cached, k, outer, folds>>
  PROVE  /\ \A x : InSomeFold(x)' <=> InSomeFold(x)
         /\ \A d : InSomeFold(idOf(d))' <=> InSomeFold(idOf(d))
         /\ \A i : IdsIn(folds[i])' = IdsIn(folds[i])
         /\ Separate' <=> Separate
<1>1. /\ \A i : IdsIn(folds[i])' = IdsIn(folds[i])
      /\ \A x : InSomeFold(x)' <=> InSomeFold(x)
  BY DEF IdsIn, InSomeFold
<1>2. \A d : InSomeFold(idOf(d))' <=> InSomeFold(idOf(d))
  BY DEF InSomeFold, idOf, IdsIn, cached
<1>3. \A s : InSomeFold(id(s))' <=> InSomeFold(id(s))
  BY DEF InSomeFold, id, IdsIn, cached
<1>4. TrainSet' = TrainSet
  BY SameSets
<1>5. Separate' <=> Separate
  BY <1>1, <1>3, <1>4, Zenon DEF Separate
<1> QED  BY <1>1, <1>2, <1>5

LEMMA SameScored ==
  ASSUME UNCHANGED <<cached, k, outer, folds>>,
         NEW i \in DOMAIN slns, i \in DOMAIN slns', slns'[i] = slns[i], Scored(i)
  PROVE  Scored(i)'
<1>1. \A d : idOf(d)' = idOf(d) /\ (Known(d)' <=> Known(d))
  BY DriverKeeps
<1>2. \A d : InSomeFold(idOf(d))' <=> InSomeFold(idOf(d))
  BY SameFilters
<1>3. IdsIn(folds[i])' = IdsIn(folds[i])
  BY SameFilters
<1>4. i \in DOMAIN folds' /\ slns'[i].tested # {}
  BY DEF Scored
<1>5. \A d \in slns'[i].tested : Known(d)' /\ idOf(d)' \in IdsIn(folds[i])'
  BY <1>1, <1>3 DEF Scored
<1>6. \A d \in slns'[i].trained : InSomeFold(idOf(d))'
  BY <1>2 DEF Scored
<1> QED  BY <1>4, <1>5, <1>6, Zenon DEF Scored

LEMMA SameFolds ==
  ASSUME FoldsInv, DistinctIds, pc \in Folding,
         UNCHANGED <<cached, k, outer, folds>>
  PROVE  /\ Separate /\ Separate' /\ \A i \in DOMAIN slns : Scored(i)
         /\ slns' = slns => \A i \in DOMAIN slns : Scored(i)'
<1>1. Separate /\ \A i \in DOMAIN slns : Scored(i)
  BY DEF FoldsInv
<1>2. Separate'
  BY <1>1, SameFilters
<1> QED  BY <1>1, <1>2, SameScored

LEMMA NextFolds ==
  ASSUME HoldOutInv, TypeInv, SolutionsInv, SplitInv, FoldsInv, [Next]_vars
  PROVE  FoldsInv'
<1>1. CASE UNCHANGED vars
  <2>1. UNCHANGED <<cached, k, outer, folds>> /\ UNCHANGED <<pc, n, trained, slns>>
    BY <1>1 DEF vars, cached
  <2>2. DistinctIds' <=> DistinctIds
    BY <2>1 DEF DistinctIds, cached
  <2>3. Separate' <=> Separate
    BY <2>1, SameFilters
  <2>4. \A d : InSomeFold(idOf(d))' <=> InSomeFold(idOf(d))
    BY <2>1, SameFilters
  <2>5. \A i \in DOMAIN slns : Scored(i) => Scored(i)'
    BY <2>1, SameScored
  <2> QED  BY <2>1, <2>2, <2>3, <2>4, <2>5 DEF FoldsInv
<1>2. CASE \E s \in Slice : LosePartition(s)
  BY <1>2, LossFolds
<1>3. CASE Driver
  <2> SUFFICES ASSUME DistinctIds'
               PROVE  /\ pc' = "chunk" => n' <= k'
                      /\ pc' \in InFold =>
                           \A d \in trained' : InSomeFold(idOf(d))'
                      /\ pc' \in Folding =>
                           Separate' /\ \A i \in DOMAIN slns' : Scored(i)'
    BY DEF FoldsInv
  <2>1. UNCHANGED cached
    BY <1>3 DEF Driver, SplitIds, Count, Chunk, SolveFold, TakeFold, ScoreFold,
                SolveReg, TakeK, ScoreK, TakeReg, ScoreReg, Fail, SolveJob,
                TakeSample
  <2>2. DistinctIds
    BY <2>1 DEF cached, DistinctIds
  <2>3. Recorded /\ \A d : idOf(d)' = idOf(d) /\ (Known(d)' <=> Known(d))
    BY <2>1, DriverKeeps DEF HoldOutInv
  <2>4. CASE SplitIds \/ TakeK \/ ScoreK \/ TakeReg \/ ScoreReg \/ Fail
    BY <2>4 DEF SplitIds, TakeK, ScoreK, TakeReg, ScoreReg, Fail, TakeSample,
                Folding, InFold
  <2>5. CASE Count
    <3>1. n' <= k' /\ pc' = "chunk"
      BY <2>2, <2>5, TrainSlices DEF Count
    <3> QED  BY <3>1 DEF Folding, InFold
  <2>6. CASE Chunk
    <3>1. trained' = {} /\ DOMAIN slns' = {} /\ pc' = "solve"
      BY <2>6, NoSolution DEF Chunk
    <3> QED  BY <2>2, <2>6, <3>1, ChunkFolds
  <2>7. CASE SolveFold \/ SolveReg
    <3>1. /\ UNCHANGED <<cached, k, outer, folds, slns>> /\ pc \in Folding
          /\ pc' # "chunk"
          /\ SolveReg => pc' \notin InFold
          /\ SolveFold => /\ trained' = trained \cup Data(FoldTrain)
                          /\ pc \in InFold
      BY <2>7 DEF SolveFold, SolveReg, SolveJob, Folding, InFold
    <3>2. Separate
      BY <2>2, <3>1, SameFolds
    <3>3. \A d \in Data(FoldTrain) : InSomeFold(idOf(d))
      BY <2>3, <3>2, DataFact, SetsOfSlices DEF Separate
    <3>4. pc' \in InFold => \A d \in trained' : InSomeFold(idOf(d))
      BY <2>2, <2>7, <3>1, <3>3 DEF FoldsInv
    <3>5. pc' \in InFold => \A d \in trained' : InSomeFold(idOf(d))'
      BY <2>3, <3>1, <3>4 DEF InSomeFold, IdsIn
    <3> QED  BY <2>2, <3>1, <3>5, SameFolds
  <2>8. CASE TakeFold
    <3>1. /\ UNCHANGED <<cached, k, outer, folds, slns, trained>>
          /\ pc \in InFold /\ pc \in Folding /\ pc' # "chunk"
      BY <2>8 DEF TakeFold, TakeSample, Folding, InFold
    <3>2. \A d \in trained : InSomeFold(idOf(d))
      BY <2>2, <3>1 DEF FoldsInv
    <3>3. \A d \in trained' : InSomeFold(idOf(d))'
      BY <2>3, <3>1, <3>2 DEF InSomeFold, IdsIn
    <3> QED  BY <2>2, <3>1, <3>3, SameFolds
  <2>9. CASE ScoreFold
    <3>0. PICK new : new = Len(slns) + 1
      OBVIOUS
    <3>1. /\ UNCHANGED <<cached, k, outer, folds>> /\ trained' = {}
          /\ pc = "score" /\ pc \in InFold /\ pc \in Folding /\ pc' # "chunk"
          /\ FoldValid # {}
      BY <2>9 DEF ScoreFold, Folding, InFold
    <3>2. new = fold /\ fold \in DOMAIN folds
      <4>1. Len(slns) = fold - 1 /\ fold \in Int /\ fold \in DOMAIN folds
        BY <3>1 DEF SolutionsInv, TypeInv, TypeOK
      <4> QED  BY <3>0, <4>1
    <3>3. /\ slns'[new].trained = trained
          /\ slns'[new].tested = Data(FoldValid)
          /\ DOMAIN slns' = DOMAIN slns \cup {new}
          /\ \A i \in DOMAIN slns : slns'[i] = slns[i]
      BY <2>9, <3>0, NewSolution
    <3>4. \A d \in trained : InSomeFold(idOf(d))
      BY <2>2, <3>1 DEF FoldsInv
    <3>5. Data(FoldValid) # {}
      BY <3>1 DEF Data
    <3>6. \A d \in Data(FoldValid) : Known(d) /\ idOf(d) \in IdsIn(folds[fold])
      BY <2>3, DataFact, SetsOfSlices DEF FoldValid
    <3>7. Separate' /\ \A i \in DOMAIN slns : Scored(i)
      BY <2>2, <3>1, SameFolds
    <3>8. /\ IdsIn(folds[new])' = IdsIn(folds[new])
          /\ \A d : InSomeFold(idOf(d))' <=> InSomeFold(idOf(d))
      BY <3>1, SameFilters
    <3>9. /\ new \in DOMAIN folds' /\ slns'[new].tested # {}
          /\ \A d \in slns'[new].tested :
               Known(d)' /\ idOf(d)' \in IdsIn(folds[new])'
      BY <2>3, <3>1, <3>2, <3>3, <3>5, <3>6, <3>8
    <3>10. \A d \in slns'[new].trained : InSomeFold(idOf(d))'
      BY <3>3, <3>4, <3>8
    <3>11. Scored(new)'
      BY <3>2, <3>9, <3>10, Zenon DEF Scored
    <3>12. \A i \in DOMAIN slns : Scored(i)'
      BY <3>1, <3>3, <3>7, SameScored
    <3> QED  BY <3>1, <3>3, <3>7, <3>11, <3>12
  <2> QED  BY <1>3, <2>4, <2>5, <2>6, <2>7, <2>8, <2>9 DEF Driver
<1> QED  BY <1>1, <1>2, <1>3 DEF Next

-----------------------------------------------------------------------------
(* Without a loss nothing raises. *)
LEMMA SoundSets ==
  ASSUME HoldOutInv, TypeInv, Sound, outer = {id(s) : s \in 1..k}
  PROVE  /\ TrainSet = 1..k /\ Cardinality(TrainSet) = k
         /\ k \in Nat /\ k >= 2 /\ k < NSlices
         /\ NSlices \in ValidSet
<1>1. k \in Nat /\ k >= 2 /\ k < NSlices
  BY KFoldAssumption DEF Sound, TypeInv, TypeOK
<1>2. 1..k \in SUBSET Slice /\ Cardinality(1..k) = k
  BY <1>1, FirstSlices
<1>3. \A s, t \in Slice : id(s) = id(t) => s = t
  BY IdFact, OwnIds DEF HoldOutInv, Sound
<1>4. TrainSet = 1..k
  BY <1>2, <1>3 DEF TrainSet
<1>5. NSlices \in Slice /\ NSlices \notin 1..k
  BY <1>1, KFoldAssumption DEF Slice
<1>6. NSlices \in ValidSet
  BY <1>2, <1>3, <1>5 DEF ValidSet
<1> QED  BY <1>1, <1>2, <1>4, <1>6

LEMMA SoundFolds ==
  ASSUME HoldOutInv, TypeInv, Sound, SoundInv, pc \in InFold
  PROVE  fold \in DOMAIN folds /\ FoldTrain # {} /\ FoldValid # {}
<1>1. /\ TrainSet = 1..k /\ k \in Nat /\ k >= 2 /\ k < NSlices
      /\ Len(folds) = k /\ fold \in 1..k
      /\ \A c \in DOMAIN folds : \E s \in TrainSet : IdsIn(folds[c]) = {id(s)}
  BY SoundSets DEF SoundInv, InFold, TypeInv
<1>2. fold \in DOMAIN folds
  BY <1>1 DEF TypeInv, TypeOK
<1>3. PICK s \in TrainSet : IdsIn(folds[fold]) = {id(s)}
  BY <1>1, <1>2
<1>4. PICK t \in 1..k : t # s
  <2>1. 1 \in 1..k /\ 2 \in 1..k
    BY <1>1
  <2> QED  BY <2>1
<1>5. s \in Slice /\ t \in Slice /\ id(t) # id(s)
  <2>1. s \in Slice /\ t \in Slice
    BY <1>1, <1>3, <1>4, FirstSlices
  <2> QED  BY <1>4, <2>1, IdFact, OwnIds DEF HoldOutInv, Sound
<1>6. s \in FoldValid
  BY <1>3 DEF FoldValid
<1>7. t \in FoldTrain
  BY <1>1, <1>3, <1>4, <1>5 DEF FoldTrain
<1> QED  BY <1>2, <1>6, <1>7

LEMMA NothingRaises ==
  ASSUME HoldOutInv, TypeInv, SoundInv, Sound
  PROVE  ~Raises
<1>1. pc = "ids" => NSlices > k
  BY KFoldAssumption DEF Sound, TypeInv, TypeOK
<1>2. pc = "chunk" => ~(n < k)
  BY KFoldAssumption DEF SoundInv, TypeInv, TypeOK
<1>3. pc \in InFold => fold \in DOMAIN folds /\ FoldTrain # {} /\ FoldValid # {}
  BY SoundFolds
<1>4. pc \notin {"ids", "done"} => TrainSet # {} /\ ValidSet # {}
  <2> SUFFICES ASSUME pc \notin {"ids", "done"}
               PROVE  TrainSet # {} /\ ValidSet # {}
    OBVIOUS
  <2>1. /\ TrainSet = 1..k /\ k \in Nat /\ k >= 2 /\ NSlices \in ValidSet
    BY SoundSets DEF SoundInv
  <2>2. 1 \in 1..k
    BY <2>1
  <2> QED  BY <2>1, <2>2
<1> QED  BY <1>1, <1>2, <1>3, <1>4 DEF Raises, InFold

LEMMA NextSound ==
  ASSUME HoldOutInv, TypeInv, SplitInv, FoldsInv, SoundInv, [Next]_vars
  PROVE  SoundInv'
<1>1. CASE UNCHANGED vars
  <2>1. UNCHANGED <<cached, k, outer, folds>> /\ UNCHANGED <<pc, n>>
    BY <1>1 DEF vars, cached
  <2>2. /\ Sound' <=> Sound
        /\ TrainSet' = TrainSet /\ \A s : id(s)' = id(s)
        /\ \A c : IdsIn(folds[c])' = IdsIn(folds[c])
    BY <2>1, SameSets DEF cached, DistinctIds, Sound, id, IdsIn
  <2> QED  BY <2>1, <2>2, Zenon DEF SoundInv
<1>2. CASE \E s \in Slice : LosePartition(s)
  <2>1. losses' # 0
    BY <1>2 DEF LosePartition, TypeInv, TypeOK
  <2> QED  BY <2>1 DEF SoundInv, Sound
<1>3. CASE Driver
  <2>1. UNCHANGED cached
    BY <1>3 DEF Driver, SplitIds, Count, Chunk, SolveFold, TakeFold, ScoreFold,
                SolveReg, TakeK, ScoreK, TakeReg, ScoreReg, Fail, SolveJob,
                TakeSample
  <2>2. Sound' <=> Sound
    BY <2>1 DEF cached, DistinctIds, Sound
  <2>3. \A s : id(s)' = id(s)
    BY <2>1 DEF cached, id
  <2> SUFFICES ASSUME Sound
               PROVE  /\ pc' # "failed"
                      /\ pc' \notin {"ids", "done"} =>
                           outer' = {id(s) : s \in 1..k'}
                      /\ pc' = "chunk" => n' = k'
                      /\ pc' \in InFold =>
                           /\ Len(folds') = k'
                           /\ \A c \in DOMAIN folds' :
                                \E s \in TrainSet' : IdsIn(folds'[c]) = {id(s)}
    BY <2>2, <2>3 DEF SoundInv, IdsIn
  <2>4. CASE SplitIds
    BY <2>4 DEF SplitIds, InFold
  <2>5. CASE Count
    BY <2>5, SoundSets DEF Count, InFold, SoundInv
  <2>6. CASE Chunk
    <3>1. /\ UNCHANGED <<cached, outer, k>> /\ pc = "chunk" /\ pc' = "solve"
          /\ outer = {id(s) : s \in 1..k}
      BY <2>6 DEF Chunk, SoundInv
    <3>2. Cardinality(TrainSet) = k /\ TrainSet' = TrainSet
      BY <3>1, SoundSets, SameSets
    <3>3. /\ Len(folds') = k
          /\ \A c \in DOMAIN folds' : \E s \in TrainSet : IdsIn(folds'[c]) = {id(s)}
      BY <2>6, <3>2, ChunkFolds DEF Sound
    <3> QED  BY <3>1, <3>2, <3>3
  <2>7. CASE SolveFold \/ TakeFold \/ ScoreFold
    <3>1. /\ UNCHANGED <<cached, k, outer, folds>>
          /\ pc \in InFold /\ pc' \in Folding
      BY <2>7 DEF SolveFold, TakeFold, ScoreFold, SolveJob, TakeSample,
                  Folding, InFold
    <3>2. TrainSet' = TrainSet
      BY <3>1, SameSets
    <3> QED  BY <3>1, <3>2 DEF SoundInv, Folding, InFold
  <2>8. CASE SolveReg \/ TakeK \/ ScoreK \/ TakeReg
    BY <2>8 DEF SolveReg, SolveJob, TakeK, ScoreK, TakeReg, TakeSample,
                SoundInv, InFold
  <2>9. CASE ScoreReg
    BY <2>9 DEF ScoreReg, InFold
  <2>10. CASE Fail
    BY <2>10, NothingRaises DEF Fail
  <2> QED  BY <1>3, <2>4, <2>5, <2>6, <2>7, <2>8, <2>9, <2>10 DEF Driver
<1> QED  BY <1>1, <1>2, <1>3 DEF Next

-----------------------------------------------------------------------------
LEMMA InitCross == Init => CrossInv
<1> SUFFICES ASSUME Init PROVE CrossInv
  OBVIOUS
<1>1. HoldOutInv /\ TypeInv
  BY InitHoldOut, InitTypes
<1>2. SolutionsInv /\ SplitInv /\ FoldsInv /\ SoundInv
  BY DEF Init, SolutionsInv, SplitInv, FoldsInv, SoundInv, Folding, InFold
<1> QED  BY <1>1, <1>2 DEF CrossInv

LEMMA NextCross == CrossInv /\ [Next]_vars => CrossInv'
BY NextHoldOut, NextTypes, NextSolutions, NextSplit, NextFolds, NextSound
   DEF CrossInv

(* The datum of an id is the only one with this id. *)
LEMMA OneDatum ==
  ASSUME DistinctIds, NEW d \in AnyDatum, NEW e \in AnyDatum, Known(d), Known(e),
         Recorded, idOf(d) = idOf(e)
  PROVE  d = e
<1>1. /\ d[1] \in Slice /\ d[2] \in DOMAIN drawn[d[1]]
      /\ e[1] \in Slice /\ e[2] \in DOMAIN drawn[e[1]]
  BY DEF Known, Recorded
<1>2. d[1] = e[1] /\ d[2] = e[2]
  BY <1>1 DEF DistinctIds, idOf
<1> QED  BY <1>2 DEF AnyDatum

LEMMA CrossValidates == CrossInv => ValidatedOnce
<1> SUFFICES ASSUME CrossInv, DistinctIds, pc = "reg" PROVE ValidatedOnce
  BY DEF ValidatedOnce
<1>1. /\ Recorded /\ Separate /\ Len(slns) = k
      /\ \A i \in DOMAIN slns : Scored(i)
      /\ losses = 0 => \A i \in DOMAIN slns :
           slns[i].trained = Data(TrainSet) \ slns[i].tested
  BY DEF CrossInv, HoldOutInv, FoldsInv, SolutionsInv, Folding
<1>2. \A i \in DOMAIN slns : /\ slns[i].tested \in SUBSET AnyDatum
                            /\ slns[i].trained \in SUBSET AnyDatum
  <2>1. \A i \in DOMAIN slns : slns[i] \in Solution
    BY <1>1 DEF Recorded
  <2> QED  BY <2>1 DEF Solution
<1>3. \A i, j \in DOMAIN slns : i # j => slns[i].tested \cap slns[j].tested = {}
  BY <1>1 DEF Separate, Scored
<1>4. ASSUME NEW i \in DOMAIN slns, NEW d \in slns[i].trained
      PROVE  \E j \in DOMAIN slns : d \in slns[j].tested
  <2>1. PICK j \in DOMAIN folds : idOf(d) \in IdsIn(folds[j])
    BY <1>1 DEF Scored, InSomeFold
  <2>2. j \in DOMAIN slns
    BY <1>1, <2>1 DEF Recorded, Separate, CrossInv, TypeInv, TypeOK
  <2>3. PICK e \in slns[j].tested : Known(e) /\ idOf(e) \in IdsIn(folds[j])
    BY <1>1, <2>2 DEF Scored
  <2>4. idOf(e) = idOf(d)
    BY <1>1, <2>1, <2>3 DEF Separate
  <2>5. Known(d) /\ d \in AnyDatum /\ e \in AnyDatum
    BY <1>2, <1>4, <2>2, <2>3 DEF CrossInv, HoldOutInv
  <2>6. d = e
    BY <1>1, <2>3, <2>4, <2>5, OneDatum
  <2> QED  BY <2>2, <2>3, <2>6
<1>5. \A i \in DOMAIN slns :
        slns[i].trained \subseteq UNION {slns[j].tested : j \in DOMAIN slns}
  BY <1>4
<1> QED  BY <1>1, <1>3, <1>5 DEF ValidatedOnce

(* When no two ids coincide, kFoldCrossV makes k solutions, validates no   *)
(* sample twice and each sample it trains on, and without a loss trains on *)
(* all it does not validate, for any slices, folds and losses.             *)
THEOREM EachValidatedOnce == SafetySpec => []ValidatedOnce
BY InitCross, NextCross, CrossValidates, PTL DEF SafetySpec

(* Without a loss and a coincidence of ids, with slices enough and at      *)
(* least two folds, no k of the trial raises an exception.                 *)
THEOREM CrossNeverFails == SafetySpec => []NoFailure
<1>1. CrossInv => NoFailure
  BY DEF CrossInv, SoundInv, Sound, NoFailure
<1> QED  BY <1>1, InitCross, NextCross, PTL DEF SafetySpec

=============================================================================

-------------------------------- MODULE KFold --------------------------------
(***************************************************************************)
(* Cross validation: `KFoldTrial.launchWithConfig`, with the call of       *)
(* `SolveValidation.kFoldCrossV` it makes for each k and the successRate   *)
(* it compares the two solutions with.                                     *)
(*                                                                         *)
(* The slices of the cached RDD carry an id and samples which are both     *)
(* drawn at random when the partition is computed.  The driver collects    *)
(* the ids and captures lists of them in the filters that tell training    *)
(* slices from validation slices; each later job applies the filters to    *)
(* the ids the slices have then.                                           *)
(***************************************************************************)
EXTENDS Integers, Sequences, FiniteSets

CONSTANTS
  NSlices,        \* conf.nSlices
  FirstK, LastK,  \* the trial's k goes from the one to the other
  Id,             \* what Random.nextInt may return
  Outcome,        \* <<wrong positives, positives, wrong negatives, negatives>>
  SolveJobs,      \* the jobs one solve makes over its training set
  MaxLosses       \* how many times cached partitions may be lost

ASSUME KFoldAssumption ==
  /\ NSlices \in Nat \ {0}
  /\ FirstK \in Nat \ {0} /\ LastK \in Nat /\ FirstK <= LastK
  /\ SolveJobs \in Nat \ {0} /\ MaxLosses \in Nat
  /\ \A o \in Outcome : o \in Nat \X Nat \X Nat \X Nat /\ o[2] + o[4] > 0

VARIABLES
  drawn,    \* slice -> the ids drawn for it, the last one in force; a datum
            \* is <<slice, place in this sequence>>, the samples drawn with it
  losses,   \* how many times a cached partition was lost
  pc,       \* the job the driver makes next
  k,
  outer,    \* kMap(0) of the trial: the ids of the training slices
  n,        \* nSlices of kFoldCrossV: how many slices rdd.count() found
  folds,    \* kMap of kFoldCrossV: the ids of the slices of each fold
  fold,     \* kId + 1
  jobs,     \* jobs made by the solve that runs
  trained,  \* the data that solve has seen
  slns,     \* slnAndWeights
  scoredK,  \* the data zEstKFold was scored on
  rows      \* the lines of the output file

vars == <<drawn, losses, pc, k, outer, n, folds, fold, jobs, trained,
          slns, scoredK, rows>>

Slice == 1..NSlices
id(s) == drawn[s][Len(drawn[s])]
Data(slices) == {<<s, Len(drawn[s])>> : s \in slices}

(* rddSetTrain and rddSetValid of the trial. *)
TrainSet == {s \in Slice : id(s) \in outer}
ValidSet == {s \in Slice : id(s) \notin outer}

IdsIn(list) == {list[i] : i \in DOMAIN list}

(* rddTrain and rddValid of a fold, filters of rddSetTrain. *)
MutantFoldTrain ==
  {s \in Slice : id(s) \notin IdsIn(folds[fold])}
FoldTrain == {s \in TrainSet : id(s) \notin IdsIn(folds[fold])}
FoldValid == {s \in TrainSet : id(s) \in IdsIn(folds[fold])}

(* ListHelper.chunk, for a size that is not zero. *)
Least(a, b) == IF a < b THEN a ELSE b
MutantChunk(list, size) ==
  [c \in 1..((Len(list) + size - 1) \div size) |->
     SubSeq(list, (c - 1) * size + 1, Least(c * size - 1, Len(list)))]
chunk(list, size) ==
  [c \in 1..((Len(list) + size - 1) \div size) |->
     SubSeq(list, (c - 1) * size + 1, Least(c * size, Len(list)))]

(* rdd.map(_.id).toArray(), in the order of the slices. *)
place(s, slices) == Cardinality({t \in slices : t <= s})
IdList(slices) ==
  [i \in 1..Cardinality(slices) |->
     id(CHOOSE s \in slices : place(s, slices) = i)]

(* The weight of a fold's solution, as a numerator over a denominator. *)
weight(o) == LET total == o[2] + o[4] IN <<total - o[1] + o[3], total>>

Init ==
  /\ drawn \in [Slice -> {<<i>> : i \in Id}]
  /\ losses = 0
  /\ pc = "ids" /\ k = FirstK
  /\ outer = {} /\ n = 0 /\ folds = <<>> /\ fold = 0 /\ jobs = 0
  /\ trained = {} /\ slns = <<>> /\ scoredK = {} /\ rows = <<>>

(* A partition of the cached RDD is lost; the next job, whichever it is,   *)
(* computes it again, with other samples and another id.                   *)
LosePartition(s) ==
  /\ losses < MaxLosses
  /\ losses' = losses + 1
  /\ \E i \in Id : drawn' = [drawn EXCEPT ![s] = Append(@, i)]
  /\ UNCHANGED <<pc, k, outer, n, folds, fold, jobs, trained, slns, scoredK,
                 rows>>

cached == <<drawn, losses>>

-----------------------------------------------------------------------------
(* The trial's kMap, after the assertion that leaves a slice to validate.  *)
SplitIds ==
  /\ pc = "ids"
  /\ NSlices > k
  /\ outer' = {id(s) : s \in 1..k}
  /\ pc' = "count"
  /\ UNCHANGED <<cached, k, n, folds, fold, jobs, trained, slns, scoredK,
                 rows>>

(* kFoldCrossV counts its slices, then collects their ids in another job.  *)
Count ==
  /\ pc = "count"
  /\ n' = Cardinality(TrainSet)
  /\ pc' = "chunk"
  /\ UNCHANGED <<cached, k, outer, folds, fold, jobs, trained, slns, scoredK,
                 rows>>

Chunk ==
  /\ pc = "chunk"
  /\ n >= k
  /\ folds' = chunk(IdList(TrainSet), n \div k)
  /\ fold' = 1
  /\ pc' = "solve"
  /\ UNCHANGED <<cached, k, outer, n, jobs, trained, slns, scoredK,
                 rows>>

(* One job of solve over the training set, and what comes after the last. *)
SolveJob(set, next) ==
  /\ set # {}
  /\ trained' = trained \cup Data(set)
  /\ jobs' = (jobs + 1) % SolveJobs
  /\ pc' = IF jobs' = 0 THEN next ELSE pc
  /\ UNCHANGED <<cached, k, outer, n, folds, fold, slns, scoredK, rows>>

SolveFold ==
  /\ pc = "solve"
  /\ fold \in DOMAIN folds
  /\ SolveJob(FoldTrain, "take")

(* successRate makes two jobs: it looks at one slice, for the number of    *)
(* columns, then maps the whole set.                                       *)
TakeSample(set, next) ==
  /\ set # {}
  /\ pc' = next
  /\ UNCHANGED <<cached, k, outer, n, folds, fold, jobs, trained, slns, scoredK,
                 rows>>

TakeFold == pc = "take" /\ TakeSample(FoldValid, "score")

MutantScoreFold ==
  /\ pc = "score"
  /\ FoldValid # {}
  /\ \E o \in Outcome :
       slns' = Append(slns, [trained |-> trained, outcome |-> o,
                             tested |-> Data(FoldValid),
                             weight |-> weight(o)])
  /\ trained' = {}
  /\ IF fold <= k THEN fold' = fold + 1 /\ pc' = "solve"
                  ELSE fold' = fold /\ pc' = "reg"
  /\ UNCHANGED <<cached, k, outer, n, folds, jobs, scoredK, rows>>

ScoreFold ==
  /\ pc = "score"
  /\ FoldValid # {}
  /\ \E o \in Outcome :
       slns' = Append(slns, [trained |-> trained, outcome |-> o,
                             tested |-> Data(FoldValid),
                             weight |-> weight(o)])
  /\ trained' = {}
  /\ IF fold < k THEN fold' = fold + 1 /\ pc' = "solve"
                 ELSE fold' = fold /\ pc' = "reg"
  /\ UNCHANGED <<cached, k, outer, n, folds, jobs, scoredK, rows>>

SolveReg == pc = "reg" /\ SolveJob(TrainSet, "takeK")

TakeK == pc = "takeK" /\ TakeSample(ValidSet, "scoreK")

ScoreK ==
  /\ pc = "scoreK"
  /\ ValidSet # {}
  /\ scoredK' = Data(ValidSet)
  /\ pc' = "takeReg"
  /\ UNCHANGED <<cached, k, outer, n, folds, fold, jobs, trained, slns, rows>>

TakeReg == pc = "takeReg" /\ TakeSample(ValidSet, "scoreReg")

(* The last score, the line of the output file, and the next k. *)
ScoreReg ==
  /\ pc = "scoreReg"
  /\ ValidSet # {}
  /\ rows' = Append(rows,
       [k |-> k, scoredK |-> scoredK, scoredReg |-> Data(ValidSet),
        trainedK |-> UNION {slns[i].trained : i \in DOMAIN slns},
        trainedReg |-> trained])
  /\ IF k < LastK THEN k' = k + 1 /\ pc' = "ids"
                  ELSE k' = k /\ pc' = "done"
  /\ trained' = {} /\ slns' = <<>> /\ scoredK' = {}
  /\ UNCHANGED <<cached, outer, n, folds, fold, jobs>>

(* The exceptions that end the trial: the assertion, a chunk size of zero, *)
(* no fold of that number, and a job that reduces an empty RDD.            *)
Raises ==
  \/ pc = "ids" /\ ~(NSlices > k)
  \/ pc = "chunk" /\ n < k
  \/ pc = "solve" /\ fold \notin DOMAIN folds
  \/ pc = "solve" /\ fold \in DOMAIN folds /\ FoldTrain = {}
  \/ pc \in {"take", "score"} /\ FoldValid = {}
  \/ pc = "reg" /\ TrainSet = {}
  \/ pc \in {"takeK", "scoreK", "takeReg", "scoreReg"} /\ ValidSet = {}

Fail ==
  /\ Raises
  /\ pc' = "failed"
  /\ UNCHANGED <<cached, k, outer, n, folds, fold, jobs, trained, slns, scoredK,
                 rows>>

Driver == \/ SplitIds \/ Count \/ Chunk
          \/ SolveFold \/ TakeFold \/ ScoreFold
          \/ SolveReg \/ TakeK \/ ScoreK \/ TakeReg \/ ScoreReg
          \/ Fail

Next == Driver \/ \E s \in Slice : LosePartition(s)

SafetySpec == Init /\ [][Next]_vars

-----------------------------------------------------------------------------
Datum == Slice \X (1..(MaxLosses + 1))

(* The driver's job, its counters and what it has collected. *)
TypeOK ==
  /\ drawn \in [Slice -> Seq(Id)]
  /\ losses \in 0..MaxLosses
  /\ \A s \in Slice : Len(drawn[s]) \in 1..(losses + 1)
  /\ pc \in {"ids", "count", "chunk", "solve", "take", "score", "reg", "takeK",
             "scoreK", "takeReg", "scoreReg", "done", "failed"}
  /\ k \in FirstK..LastK
  /\ outer \subseteq Id
  /\ n \in 0..NSlices
  /\ folds \in Seq(Seq(Id))
  /\ fold \in 0..LastK
  /\ jobs \in 0..(SolveJobs - 1)
  /\ trained \subseteq Datum
  /\ scoredK \subseteq Datum

(* No sample is used both to find a solution and to score it, in a fold    *)
(* and in the comparison of the trial, whatever partitions are lost and    *)
(* drawn again between two jobs, and whatever ids coincide: the id of a    *)
(* slice is drawn with its samples, and the lists of ids are captured once.*)
HoldOut ==
  /\ \A i \in DOMAIN slns : slns[i].trained \cap slns[i].tested = {}
  /\ \A i \in DOMAIN rows :
       /\ rows[i].trainedK \cap rows[i].scoredK = {}
       /\ rows[i].trainedReg \cap rows[i].scoredReg = {}

DistinctIds ==
  \A s, t \in Slice : \A i \in DOMAIN drawn[s], j \in DOMAIN drawn[t] :
    drawn[s][i] = drawn[t][j] => s = t /\ i = j

(* With distinct ids, kFoldCrossV makes one solution per fold, no sample   *)
(* is validated twice, and each sample a solution was found with is        *)
(* validated in another fold: a slice that is drawn again belongs to no    *)
(* fold, and the one it was in has nothing left to validate.  Without a    *)
(* loss each slice is validated once and trained on in all other folds.    *)
ValidatedOnce ==
  (DistinctIds /\ pc = "reg") =>
    /\ Len(slns) = k
    /\ \A i, j \in DOMAIN slns : i # j => slns[i].tested \cap slns[j].tested = {}
    /\ \A i \in DOMAIN slns :
         slns[i].trained \subseteq UNION {slns[j].tested : j \in DOMAIN slns}
    /\ losses = 0 => \A i \in DOMAIN slns :
         slns[i].trained = Data(TrainSet) \ slns[i].tested

(* With distinct ids, no loss and slices enough, no k raises an exception. *)
NoFailure ==
  (DistinctIds /\ losses = 0 /\ NSlices > LastK /\ FirstK > 1) =>
    pc # "failed"

(* The paper: a solution is weighted with its success rate. *)
WeightIsSuccessRate ==
  \A i \in DOMAIN slns :
    LET o == slns[i].outcome IN
    slns[i].weight = <<(o[2] - o[1]) + (o[4] - o[3]), o[2] + o[4]>>

-----------------------------------------------------------------------------
(* The inductive invariant behind HoldOut: every datum the driver has      *)
(* recorded was drawn, and the id drawn with it passes the filters under   *)
(* which it was recorded; ids already drawn never change.                  *)
Known(d) == d[1] \in Slice /\ d[2] \in 1..Len(drawn[d[1]])
idOf(d) == drawn[d[1]][d[2]]

AnyDatum == Slice \X Nat
Solution == [trained : SUBSET AnyDatum, outcome : Outcome,
             tested : SUBSET AnyDatum, weight : Int \X Int]
Row == [k : Nat, scoredK : SUBSET AnyDatum, scoredReg : SUBSET AnyDatum,
        trainedK : SUBSET AnyDatum, trainedReg : SUBSET AnyDatum]

Recorded ==
  /\ drawn \in [Slice -> Seq(Id)] /\ \A s \in Slice : drawn[s] # <<>>
  /\ k \in Nat
  /\ trained \in SUBSET AnyDatum /\ scoredK \in SUBSET AnyDatum
  /\ slns \in Seq(Solution) /\ rows \in Seq(Row)

HoldOutInv ==
  /\ Recorded
  /\ \A d \in trained : Known(d) /\ idOf(d) \in outer
  /\ pc \in {"solve", "take", "score"} =>
       \A d \in trained : idOf(d) \notin IdsIn(folds[fold])
  /\ pc \in {"ids", "count", "chunk"} => trained = {} /\ slns = <<>>
  /\ \A i \in DOMAIN slns : \A d \in slns[i].trained :
       Known(d) /\ idOf(d) \in outer
  /\ pc \in {"takeReg", "scoreReg"} =>
       \A d \in scoredK : Known(d) /\ idOf(d) \notin outer
  /\ HoldOut

=============================================================================

------------------------------ MODULE Datasets ------------------------------
(***************************************************************************)
(* From documents to a success rate: a trial reads documents with          *)
(* StandardizedData, ReutersData or ParallelizedSyntheticData, cuts them   *)
(* into slices, has each slice build its matrix and labels, fits them, and *)
(* counts with SuccessRate the labels that the solution misses.  Spark     *)
(* builds and counts the slices in any order, and builds a slice that was  *)
(* lost or not cached again, with its documents in another order.          *)
(*                                                                         *)
(* All values of a file are alike, so the features of a document are a     *)
(* set.  The solver is ConsensusADMM's; here its solution is any, the sign *)
(* it gives to each document.                                              *)
(***************************************************************************)
EXTENDS Integers, Sequences, FiniteSets, FiniteSetsExt, Functions

CONSTANTS
  Doc, Feature,      \* the numbers a file may use
  FeatureSets,       \* the sets of features that a document may have
  Confs              \* the configurations: nDocs, startDoc, nFeatures, ...

ASSUME DatasetsAssumption ==
  /\ Doc \subseteq Nat /\ Feature \subseteq Nat /\ FeatureSets \subseteq SUBSET Feature
  /\ Confs \subseteq [nDocs : Nat \ {0}, startDoc : Nat, nFeatures : Nat \ {0},
                      startFeature : Nat, nSlices : Nat \ {0}]

Source == {"hdfs", "local", "reuters", "synthetic"}
Stage == {"read", "group", "build", "count", "done", "failed"}

VARIABLES
  source, conf,
  file,       \* document -> its features
  label,      \* document -> what outputs(0) says of it, or missing
  stage,
  groups,     \* key of a slice -> its documents
  rows,       \* key of a built slice -> the order of its documents
  margin,     \* document -> sign of the solution at it, 0 if no number
  counts,     \* key of a counted slice -> posFail, nPos, negFail, nNeg
  total       \* the sums of these

vars == <<source, conf, file, label, stage, groups, rows, margin, counts, total>>

Empty == [k \in {} |-> 0]
NoCount == <<0, 0, 0, 0>>

-----------------------------------------------------------------------------
(* What a source takes from its file.  Standardized files count documents  *)
(* and features from 1, Reuters ones from 0; slicedStandardizedSet has its *)
(* own startDoc and startFeature, which no trial gives, and the generator  *)
(* draws nFeatures columns wherever they start.                            *)
startDoc == IF source = "hdfs" THEN 0 ELSE conf.startDoc
startFeature == IF source \in {"hdfs", "synthetic"} THEN 0 ELSE conf.startFeature
Base == IF source \in {"hdfs", "local"} THEN 1 ELSE 0

InWindow(x, start, n) == start + Base <= x /\ x < start + Base + n
Features(d) == {j \in file[d] : InWindow(j, startFeature, conf.nFeatures)}

(* Each line of a standardized file has one value of one document, so a    *)
(* document without a value in the window does not show.                   *)
Documents ==
  {d \in DOMAIN file : /\ InWindow(d, startDoc, conf.nDocs)
                       /\ Base = 1 => Features(d) # {}}

(* groupBy and groupByKey make the groups that have a member. *)
GroupBy(docs) ==
  [k \in {d % conf.nSlices : d \in docs} |-> {d \in docs : d % conf.nSlices = k}]

(* The synthetic documents of slice k; the left over ones are not drawn. *)
MutantSynthetic ==
  LET sPerS == (conf.nDocs + conf.nSlices - 1) \div conf.nSlices
  IN  [k \in 1..conf.nSlices |-> (k - 1) * sPerS .. k * sPerS - 1]
Synthetic ==
  LET sPerS == conf.nDocs \div conf.nSlices
  IN  [k \in 1..conf.nSlices |-> (k - 1) * sPerS .. k * sPerS - 1]

(* setQuick stores the value of a place at row * columns + column without  *)
(* looking at the bounds; set looks, and raises an exception.              *)
MutantColumn(j) == j
Column(j) == j - Base
Stored(order) ==
  UNION {{[at |-> (r - 1) * conf.nFeatures + Column(j), doc |-> order[r], feature |-> j] :
            j \in Features(order[r])} : r \in DOMAIN order}
OutOfBounds(docs) ==
  /\ source \in {"hdfs", "local"}
  /\ \E d \in docs : \E j \in Features(d) : Column(j) >= conf.nFeatures

(* The values that a reader finds in row r of the matrix. *)
RowOf(order, r) ==
  {v \in Stored(order) :
     v.at \div conf.nFeatures = r - 1 /\ v.at < Len(order) * conf.nFeatures}

(* The rows whose label is above 0. *)
MutantPositive(order) == {r \in DOMAIN order : label[order[r]] \in {"positive", "negative"}}
Positive(order) == {r \in DOMAIN order : label[order[r]] = "positive"}

-----------------------------------------------------------------------------
Init ==
  /\ source \in Source /\ conf \in Confs
  /\ file = Empty /\ label = Empty /\ stage = "read"
  /\ groups = Empty /\ rows = Empty /\ margin = Empty
  /\ counts = Empty /\ total = NoCount

(* The file on disk, and bMap, which the driver collects before anything   *)
(* else; the synthetic documents and labels of generate_data.              *)
Read ==
  /\ stage = "read" /\ stage' = "group"
  /\ \E docs \in {IF source = "synthetic" THEN UNION Range(Synthetic)
                  ELSE {d \in Doc : d >= Base}} :
       /\ file' \in [docs -> {f \in FeatureSets : \A j \in f : j >= Base}]
       /\ label' \in [docs -> {"positive", "negative"}
                              \cup (IF Base = 1 THEN {"missing"} ELSE {})]
       /\ Cardinality({d \in docs : label'[d] = "missing"}) <= 1
  /\ UNCHANGED <<source, conf, groups, rows, margin, counts, total>>

(* A Reuters line without features, which UntaggedRecord cannot read. *)
Unreadable(d) == source = "reuters" /\ file[d] = {}

(* The slices, and rdd.count(), the first job of the solver: a document    *)
(* without label, or a line that cannot be read, raises an exception in    *)
(* its task, and no slice at all one in the reduce that follows.           *)
Group ==
  /\ stage = "group"
  /\ groups' = IF source = "synthetic" THEN Synthetic ELSE GroupBy(Documents)
  /\ stage' = IF DOMAIN groups' = {}
                 \/ \E d \in UNION Range(groups') : label[d] = "missing" \/ Unreadable(d)
              THEN "failed" ELSE "build"
  /\ UNCHANGED <<source, conf, file, label, rows, margin, counts, total>>

Orders(docs) == {s \in [1..Cardinality(docs) -> docs] : IsInjective(s)}

(* samples and outputs of one slice, for the solver. *)
Build(k) ==
  /\ stage = "build" /\ k \in DOMAIN groups \ DOMAIN rows
  /\ IF OutOfBounds(groups[k])
     THEN stage' = "failed" /\ UNCHANGED rows
     ELSE /\ \E order \in Orders(groups[k]) :
               rows' = [x \in DOMAIN rows \cup {k} |-> IF x = k THEN order ELSE rows[x]]
          /\ UNCHANGED stage
  /\ UNCHANGED <<source, conf, file, label, groups, margin, counts, total>>

(* The slice is lost, or was not cached: a later job builds it again. *)
Rebuild(k) ==
  /\ stage = "count" /\ k \in DOMAIN groups \ DOMAIN counts
  /\ \E order \in Orders(groups[k]) : rows' = [rows EXCEPT ![k] = order]
  /\ UNCHANGED <<source, conf, file, label, stage, groups, margin, counts, total>>

(* SLRSparkImmutable.solve.  The sign of what is not a number is 0. *)
Solve ==
  /\ stage = "build" /\ DOMAIN rows = DOMAIN groups
  /\ margin' \in [UNION Range(groups) -> {-1, 0, 1}]
  /\ stage' = "count"
  /\ UNCHANGED <<source, conf, file, label, groups, rows, counts, total>>

(* The halves by which (sign + 1) / 2 misses the label, in the rows given. *)
MissedHalves(order, rs, wanted) ==
  MapThenSumSet(LAMBDA r : IF wanted = 1 THEN 1 - margin[order[r]]
                           ELSE 1 + margin[order[r]], rs)

(* toInt cuts the sum of a slice. *)
MutantToInt(halves) == halves
ToInt(halves) == halves \div 2

Count(k) ==
  /\ stage = "count" /\ k \in DOMAIN groups \ DOMAIN counts
  /\ LET order == rows[k]
         pos == Positive(order)
         neg == DOMAIN order \ pos
     IN  counts' = [x \in DOMAIN counts \cup {k} |-> IF x # k THEN counts[x] ELSE
           <<ToInt(MissedHalves(order, pos, 1)), Cardinality(pos),
             ToInt(MissedHalves(order, neg, 0)), Cardinality(neg)>>]
  /\ UNCHANGED <<source, conf, file, label, stage, groups, rows, margin, total>>

Reduce ==
  /\ stage = "count" /\ DOMAIN counts = DOMAIN groups
  /\ total' = [i \in 1..4 |-> MapThenSumSet(LAMBDA k : counts[k][i], DOMAIN counts)]
  /\ stage' = "done"
  /\ UNCHANGED <<source, conf, file, label, groups, rows, margin, counts>>

Next ==
  \/ Read \/ Group \/ Solve \/ Reduce
  \/ \E k \in DOMAIN groups : Build(k) \/ Rebuild(k) \/ Count(k)

Spec == Init /\ [][Next]_vars

-----------------------------------------------------------------------------
TypeOK ==
  /\ source \in Source /\ conf \in Confs /\ stage \in Stage
  /\ file \in [DOMAIN label -> FeatureSets]
  /\ \A d \in DOMAIN label : label[d] \in {"positive", "negative", "missing"}
  /\ \A k \in DOMAIN groups : groups[k] \subseteq DOMAIN file
  /\ DOMAIN counts \subseteq DOMAIN rows /\ DOMAIN rows \subseteq DOMAIN groups
  /\ \A k \in DOMAIN rows : rows[k] \in Orders(groups[k])
  /\ margin \in [DOMAIN margin -> -1..1] /\ DOMAIN margin \subseteq DOMAIN file
  /\ \A k \in DOMAIN counts : counts[k] \in [1..4 -> 0..Cardinality(groups[k])]

(* The slices part the documents of the window: each is in one slice, and  *)
(* the synthetic sets lack fewer documents than there are slices.  No slice *)
(* is empty but where the generator has more slices than documents.        *)
SlicesPart ==
  DOMAIN groups # {} =>
    /\ (source # "synthetic" \/ conf.nDocs >= conf.nSlices) =>
         \A k \in DOMAIN groups : groups[k] # {}
    /\ \A k, l \in DOMAIN groups : k # l => groups[k] \cap groups[l] = {}
    /\ IF source # "synthetic" THEN UNION Range(groups) = Documents
       ELSE LET left == conf.nDocs - Cardinality(UNION Range(groups))
            IN  0 <= left /\ left < conf.nSlices

(* A built slice has, in the row of a document, the values of that document *)
(* and no other's: where the code does not look at the bounds, that is so   *)
(* for the features numbered below nFeatures, and with startFeature = 0 for *)
(* all.                                                                     *)
RowsAreDocuments ==
  \A k \in DOMAIN rows : \A r \in DOMAIN rows[k] :
    LET d == rows[k][r]
        found == {<<v.doc, v.feature, v.at % conf.nFeatures>> : v \in RowOf(rows[k], r)}
        meant == {<<d, j, j - Base>> : j \in Features(d)}
    IN  /\ {x \in found : x[2] - Base < conf.nFeatures}
             = {x \in meant : x[2] - Base < conf.nFeatures}
        /\ startFeature = 0 => found = meant

(* However the documents are sliced, ordered and counted, the success rate *)
(* counts them all, and misses at most half a failure a slice, and none    *)
(* where no document lies on the boundary.                                 *)
CountsAreOfDocuments ==
  LET docs == UNION Range(groups)
      pos == {d \in docs : label[d] = "positive"}
      halves(set, sign) == MapThenSumSet(LAMBDA d : 1 - sign * margin[d], set)
      near(fails, wanted) ==
        /\ 2 * fails <= wanted
        /\ wanted - 2 * fails <=
             IF \E d \in docs : margin[d] = 0 THEN Cardinality(DOMAIN groups) ELSE 0
  IN  stage = "done" =>
        /\ total[2] = Cardinality(pos) /\ total[2] + total[4] = Cardinality(docs)
        /\ near(total[1], halves(pos, 1)) /\ near(total[3], halves(docs \ pos, -1))

=============================================================================

------------------------------ MODULE ADMMMath ------------------------------
(***************************************************************************)
(* The arithmetic of the sparse logistic regression solver: the vectors    *)
(* x, u and z of the consensus ADMM and the formulas of `updateSet` and    *)
(* `stopLearning` in opt/SLRSparkImmutable.scala.                          *)
(*                                                                         *)
(* A double is an integer count of some small unit, so that a division     *)
(* rounds down; the sums over the slices, which the code computes with     *)
(* `reduce(_+_)` in the order the tasks answer in, are then independent of *)
(* that order.  What one slice computes from its samples is left to the    *)
(* operator constants.                                                     *)
(***************************************************************************)
EXTENDS Integers, FiniteSets, Functions

CONSTANTS
  Slice,              \* the partitions of the RDD of samples
  Sample,             \* the data a partition may hold (the matrix C)
  Coord,              \* the positions of a vector
  Intercept,          \* position 0, which is never shrunk
  Lambda,             \* conf.lam
  Kappa,              \* lambda / rho / nSlices, the shrinkage threshold
  Rho,                \* conf.rho
  RelTol,             \* conf.relTol, in hundredths
  NIters,             \* conf.nIters
  Descent(_, _, _, _),\* data, x, u, z -> the x that `descent` ends with
  LossTerm(_, _),     \* data, z -> the logistic loss of one slice at z
  Norm(_),            \* algebra.norm2
  AbsPrimal(_),       \* avNbSamples -> sqrt((avNbSamples+1)*nSlices)*absTol
  AbsDual(_)          \* avNbSamples -> sqrt(avNbSamples)*absTol

ASSUME ADMMAssumption ==
  /\ Slice # {} /\ IsFiniteSet(Slice)
  /\ Intercept \in Coord /\ IsFiniteSet(Coord)
  /\ NIters \in Nat
  /\ Lambda \in Nat /\ Rho \in Nat \ {0} /\ RelTol \in Nat
  \* lam = 0 makes the shrinkage of a zero divide zero by zero
  /\ Kappa \in Nat \ {0}

NSlices == Cardinality(Slice)

Zero == [c \in Coord |-> 0]
VAdd(a, b) == [c \in Coord |-> a[c] + b[c]]
VSub(a, b) == [c \in Coord |-> a[c] - b[c]]

(* The x of one slice: what `descent` reaches from the old x, a vector on   *)
(* the same coordinates.                                                   *)
descent(d, x, u, z) == [c \in Coord |-> Descent(d, x, u, z)[c]]

(* The `reduce(_+_)` of one number, or of one vector, per slice. *)
Total(f) == SumFunction(f)
VTotal(f) == [c \in Coord |-> SumFunction([s \in Slice |-> f[s][c]])]

(* max(0, 1 - kappa/|p|) * p, the soft threshold. *)
shrinkage(kappa, p) ==
  IF p > kappa THEN p - kappa ELSE IF p < -kappa THEN p + kappa ELSE 0

(* Mutant: the intercept shrunk with the rest. *)
MutantZUpdate(sum) ==
  [c \in Coord |-> shrinkage(Kappa, sum[c] \div NSlices)]

(* The consensus variable from the sum over the slices of x + u: the mean, *)
(* shrunk on every coordinate but the intercept.                           *)
ZUpdate(sum) ==
  [c \in Coord |->
     IF c = Intercept THEN sum[c] \div NSlices
                      ELSE shrinkage(Kappa, sum[c] \div NSlices)]

Norm1(v) == SumFunction([c \in Coord \ {Intercept} |->
                           IF v[c] < 0 THEN -v[c] ELSE v[c]])

(* The objective `updateSet` records for z: total is the loss of the slices. *)
Loss(total, z) == total + Lambda * Norm1(z)

NonZeros(v) == Cardinality({c \in Coord : v[c] # 0})

EpsPrimal(avNbSamples, xNorm, zNorm) ==
  AbsPrimal(avNbSamples)
    + (RelTol * (IF xNorm > zNorm THEN xNorm ELSE zNorm)) \div 100

EpsDual(avNbSamples, uNorm) ==
  AbsDual(avNbSamples) + (RelTol * Rho * uNorm) \div 100

DualResidual(z, zOld) == Rho * Norm(VSub(z, zOld))

(* ls.x.size averaged over the slices: every x has a place per coordinate. *)
AvNbSamples(sizes) == sizes \div NSlices

=============================================================================

---------------------------- MODULE ConsensusADMM ----------------------------
(***************************************************************************)
(* What `SLRSparkImmutable.solve` promises: the consensus form of ADMM, as *)
(* a synchronous algorithm over the slices, with nothing of Spark in it.   *)
(* One step updates every slice and the consensus variable; before each    *)
(* step but the first, the stopping criteria and the iteration limit are   *)
(* tested, and the first test that says stop returns z.                    *)
(***************************************************************************)
EXTENDS ADMMMath

VARIABLES
  input,  \* the data of each slice, fixed
  k,      \* updates made
  x, u,   \* the primal and the scaled dual vector of each slice
  z,      \* the consensus vector
  zOld,   \* the consensus vector before the last update
  sol     \* <<>>, then <<the vector returned>>

vars == <<input, k, x, u, z, zOld, sol>>

Init ==
  /\ input \in [Slice -> Sample]
  /\ k = 0
  /\ x = [s \in Slice |-> Zero]
  /\ u = [s \in Slice |-> Zero]
  /\ z = Zero
  /\ zOld = Zero
  /\ sol = <<>>

PrimalResidual == Total([s \in Slice |-> Norm(VSub(x[s], z))])
AvSize == AvNbSamples(Total([s \in Slice |-> Cardinality(Coord)]))

(* Boyd's criteria.  There is no dual residual until z was updated twice. *)
Converged ==
  /\ k >= 2
  /\ EpsPrimal(AvSize, Total([s \in Slice |-> Norm(x[s])]), Norm(z))
       > PrimalResidual
  /\ EpsDual(AvSize, Total([s \in Slice |-> Norm(u[s])]))
       > DualResidual(z, zOld)

(* Mutant: one update too many. *)
MutantExhausted == k > NIters + 1

(* The limit is tested after the update it counts: NIters + 1 are made. *)
Exhausted == k > NIters

Update ==
  /\ sol = <<>>
  /\ k >= 1 => ~(Converged \/ Exhausted)
  /\ k' = k + 1
  /\ x' = [s \in Slice |-> descent(input[s], x[s], u[s], z)]
  /\ z' = ZUpdate(VTotal([s \in Slice |-> VAdd(x'[s], u[s])]))
  /\ u' = [s \in Slice |-> VSub(VAdd(u[s], x'[s]), z')]
  /\ zOld' = z
  /\ UNCHANGED <<input, sol>>

(* Mutant: the limit ends the updates and only convergence returns. *)
MutantReturn ==
  /\ sol = <<>>
  /\ k >= 1
  /\ Converged
  /\ sol' = <<z>>
  /\ UNCHANGED <<input, k, x, u, z, zOld>>

Return ==
  /\ sol = <<>>
  /\ k >= 1
  /\ Converged \/ Exhausted
  /\ sol' = <<z>>
  /\ UNCHANGED <<input, k, x, u, z, zOld>>

Next == Update \/ Return

SafetySpec == Init /\ [][Next]_vars
Spec == SafetySpec /\ WF_vars(Next)

-----------------------------------------------------------------------------
Vector == [Coord -> Int]

(* Every slice has integer vectors on the same coordinates, and at most    *)
(* one update more than conf.nIters is made.                               *)
TypeOK ==
  /\ input \in [Slice -> Sample]
  /\ k \in 0..(NIters + 1)
  /\ x \in [Slice -> Vector]
  /\ u \in [Slice -> Vector]
  /\ z \in Vector
  /\ zOld \in Vector
  /\ sol = <<>> \/ sol = <<z>>

(* The duals of the slices cancel, whatever the data: with exact division  *)
(* the sum of u over the slices is zero on the intercept, where z is the   *)
(* plain mean of x + u, and is at most NSlices * Kappa in absolute value   *)
(* where the mean was shrunk; rounding the mean down adds less than        *)
(* NSlices.  A z-update that divides by the wrong count, or shrinks the    *)
(* intercept, or a u-update that uses the previous z, lets the duals       *)
(* drift.                                                                  *)
DualsBalanced ==
  \A c \in Coord :
    LET drift == VTotal(u)[c]
        slack == IF c = Intercept THEN 0 ELSE NSlices * Kappa
    IN  -slack <= drift /\ drift < slack + NSlices

(* The solver returns, whatever the data: by convergence or by the limit. *)
Returns == <>(sol # <<>>)

=============================================================================

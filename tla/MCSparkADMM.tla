----------------------------- MODULE MCSparkADMM -----------------------------
(***************************************************************************)
(* A small instance of SparkADMM: a slice's loss is a quadratic around a   *)
(* centre, its data, and `descent` goes half the way to the minimum of the *)
(* augmented loss, so that it depends on where it starts.                  *)
(***************************************************************************)
EXTENDS SparkADMM

MCSlice == {1, 2}
MCCoord == {0, 1}
Centre(d) == IF d = "far" THEN [c \in MCCoord |-> 40 - 24 * c]
                          ELSE [c \in MCCoord |-> 4 * c]
AbsOf(n) == IF n < 0 THEN -n ELSE n
MCDescent(d, x, u, z) ==
  [c \in MCCoord |-> (x[c] + (Centre(d)[c] + z[c] - u[c]) \div 2) \div 2]
MCLossTerm(d, z) == SumFunction([c \in MCCoord |-> AbsOf(z[c] - Centre(d)[c])])
MCNorm(v) == SumFunction([c \in MCCoord |-> AbsOf(v[c])])
MCAbsPrimal(n) == 4 * n
MCAbsDual(n) == 3 * n

=============================================================================

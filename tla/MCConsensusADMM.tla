--------------------------- MODULE MCConsensusADMM ---------------------------
(***************************************************************************)
(* Three slices, whose data are centres of a quadratic loss on both sides  *)
(* of zero; `descent` goes half the way to the minimum.                    *)
(***************************************************************************)
EXTENDS ConsensusADMM

MCSlice == {1, 2, 3}
MCSample == {-37, -2, 6, 50}
MCCoord == {0, 1}
Centre(d) == [c \in MCCoord |-> IF c = 0 THEN d ELSE 10 - d]
AbsOf(n) == IF n < 0 THEN -n ELSE n
MCDescent(d, a, b, v) ==
  [c \in MCCoord |-> (a[c] + (Centre(d)[c] + v[c] - b[c]) \div 2) \div 2]
MCLossTerm(d, v) == SumFunction([c \in MCCoord |-> AbsOf(v[c] - Centre(d)[c])])
MCNorm(v) == SumFunction([c \in MCCoord |-> AbsOf(v[c])])
MCAbsPrimal(n) == 4 * n
MCAbsDual(n) == 3 * n

=============================================================================

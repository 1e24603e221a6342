---------------------------- MODULE MCEc2Cluster ----------------------------
(***************************************************************************)
(* Two or three invocations; of the authorize calls for a group, two, so   *)
(* that it can be found with none, some or all of its rules.               *)
(***************************************************************************)
EXTENDS Ec2Cluster, TLC

CONSTANTS a, b, c
MCTwo == {a, b}
MCThree == {a, b, c}
MCRules == [r \in Role |-> IF r = "slaves" THEN 2 ELSE 1]
MCOneRule == [r \in Role |-> 1]
MCAll == {"launch", "spot launch", "resume", "destroy", "stop", "start"}
MCNoSpot == MCAll \ {"spot launch"}
MCNoResume == MCAll \ {"resume"}
Symmetry == Permutations(MCThree)

=============================================================================

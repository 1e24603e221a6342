---------------------------- MODULE MCMesosSetup ----------------------------
(***************************************************************************)
(* A fault-tolerant cluster: two masters, a slave, a ZooKeeper node.       *)
(***************************************************************************)
EXTENDS MesosSetup

CONSTANTS m1, m2, s1, z1
MCOtherMasters == {m2}
MCSlaves == {s1}
MCZoos == {z1}

=============================================================================

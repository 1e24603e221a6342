---------------------------- MODULE MCAdmmDriver ----------------------------
(***************************************************************************)
(* The functions of trials.py, called three times in any order.            *)
(***************************************************************************)
EXTENDS AdmmDriver

MCFunctions ==
  {simple_hdfs_test(FALSE, TRUE, FALSE, FALSE, FALSE, "standard"),
   simple_hdfs_test(FALSE, FALSE, TRUE, TRUE, FALSE, "standard"),
   simple_hdfs_test(TRUE, FALSE, FALSE, FALSE, FALSE, "standard"),
   reuters_hdfs_test(FALSE, TRUE, TRUE, FALSE), reuters_hdfs_test(TRUE, FALSE, FALSE, FALSE),
   broke, instance_size_test, start_stop_trial, sparsity_trial, run_samples, simple_test}

(* Whatever flags the functions are called with, their commands are in order. *)
ASSUME FlagsAssumption ==
  \A local, launch, start, stop, destroy \in BOOLEAN :
    \A b \in {simple_hdfs_test(local, launch, start, stop, destroy, "standard"),
              reuters_hdfs_test(local, launch, stop, destroy)} :
      b \in Seq(Command) \ {<<>>} /\ LeavesOff(b) /\ ReadsOwn(b)

=============================================================================

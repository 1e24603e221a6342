------------------------------- MODULE MCKFold -------------------------------
(***************************************************************************)
(* The trial on a few slices: k from 2 to 3 with a slice left to validate. *)
(* Ids are interchangeable, so that only which of them coincide matters.   *)
(***************************************************************************)
EXTENDS KFold, TLC

CONSTANTS a, b, c, d, e
MCIds == {a, b, c, d, e}
MCOutcome == {<<1, 2, 0, 1>>}
MCOutcomes == {<<1, 2, 0, 1>>, <<0, 1, 1, 2>>}
Symmetry == Permutations(MCIds)

=============================================================================

---------------------------- MODULE MCBotoRequest ----------------------------
(***************************************************************************)
(* Two requests on one connection object, two hosts, both schemes, and     *)
(* room for one idle connection: what crowds and strays do to the pool is  *)
(* proved for any number.                                                  *)
(***************************************************************************)
EXTENDS BotoRequest

=============================================================================

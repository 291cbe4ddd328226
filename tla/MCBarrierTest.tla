---------------------------- MODULE MCBarrierTest ----------------------------
(***************************************************************************)
(* The barrier tests with three tasks and four iterations: the turn comes  *)
(* round to task 0 again.                                                  *)
(***************************************************************************)
EXTENDS BarrierTest
=============================================================================

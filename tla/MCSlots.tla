------------------------------- MODULE MCSlots -------------------------------
(***************************************************************************)
(* Instances of Slots. The addresses of blocks are interchangeable, which  *)
(* the run that checks invariants only makes use of.                       *)
(***************************************************************************)
EXTENDS Slots, TLC

BlockSymmetry == Permutations(Blocks)

=============================================================================

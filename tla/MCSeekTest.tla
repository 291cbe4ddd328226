------------------------------ MODULE MCSeekTest -----------------------------
(***************************************************************************)
(* seek.c with three tasks and two iterations: enough for a task to be     *)
(* late from one iteration into the next and for every order of arrival.   *)
(***************************************************************************)
EXTENDS SeekTest
=============================================================================

----------------------------- MODULE MCLoopRunner ----------------------------
(***************************************************************************)
(* loop.sh with two testable modes, up to two iterations asked for and up  *)
(* to three done.                                                          *)
(***************************************************************************)
EXTENDS LoopRunner

MCModes == {1, 2}
MCStatuses == {EXIT_PASS, EXIT_FAIL, 139}

=============================================================================

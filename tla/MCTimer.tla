------------------------------- MODULE MCTimer -------------------------------
(***************************************************************************)
(* timer with time-outs of 0 (the 10 msec alarm), 1 and 2 seconds.         *)
(***************************************************************************)
EXTENDS Timer

MCTargetStatuses == {EXIT_PASS, EXIT_FAIL, 200}

=============================================================================

------------------------------ MODULE TestLedger -----------------------------
(***************************************************************************)
(* What test.sh promises to whoever reads its exit status and its summary, *)
(* however many %include invocations a run is split into: one set of       *)
(* counters for the whole run, into which every finished test is entered   *)
(* once, and one verdict, given once, from those counters.  TestRunner     *)
(* implements it.                                                          *)
(***************************************************************************)
EXTENDS ExitCodes

CONSTANT Threshold      (* PIP_TEST_THRESHOLD, 0 when it is not set        *)

VARIABLES n,            (* n_PASS, n_FAIL, ..., n_KILLED                   *)
          exit          (* the exit status of the run, or Running          *)

ledger == <<n, exit>>

Init == n = Zero /\ exit = Running

Record(s) ==
  /\ exit = Running
  /\ n' = Count(n, s)
  /\ UNCHANGED exit

Finish ==
  /\ exit = Running
  /\ exit' = Verdict(n, Threshold)
  /\ UNCHANGED n

(* Given up without a verdict: no execution mode to test, or Control-C.    *)
GiveUp ==
  /\ exit = Running
  /\ exit' \in {1, 2}
  /\ UNCHANGED n

Next == (\E s \in Status : Record(s)) \/ Finish \/ GiveUp

Spec == Init /\ [][Next]_ledger

=============================================================================

------------------------------ MODULE ExitCodes ------------------------------
(***************************************************************************)
(* The exit-code vocabulary that every test program, wrapper and runner of *)
(* the suite shares (exit_code.sh.inc, include/test.h), the decoding       *)
(* test.sh applies to it, and the counters and the final verdict test.sh   *)
(* computes from the decoded results.  An exit status is the low byte of   *)
(* what a process returned, a number in 0..255.                            *)
(***************************************************************************)
EXTENDS Integers

EXIT_PASS        == 0
EXIT_FAIL        == 1
EXIT_XPASS       == 2
EXIT_XFAIL       == 3
EXIT_UNRESOLVED  == 4
EXIT_UNTESTED    == 5
EXIT_UNSUPPORTED == 6
EXIT_KILLED      == 7

ExitStatus == 0..255

Status == {"PASS", "FAIL", "XPASS", "XFAIL",
           "UNRESOLVED", "UNTESTED", "UNSUPPORTED", "KILLED"}

(* The decoding of an exit status by test.sh: what is not one of the eight *)
(* codes (128+signal, an abort, an application's own code) is UNRESOLVED.  *)
StatusOf(code) ==
  CASE code = EXIT_PASS        -> "PASS"
    [] code = EXIT_FAIL        -> "FAIL"
    [] code = EXIT_XPASS       -> "XPASS"
    [] code = EXIT_XFAIL       -> "XFAIL"
    [] code = EXIT_UNTESTED    -> "UNTESTED"
    [] code = EXIT_UNSUPPORTED -> "UNSUPPORTED"
    [] code = EXIT_KILLED      -> "KILLED"
    [] OTHER                   -> "UNRESOLVED"

(* The shell variables n_PASS, n_FAIL, ..., n_KILLED.                      *)
Counters == [Status -> Nat]
ZeroButKilled == [s \in Status \ {"KILLED"} |-> 0]              (* mutant *)
Zero == [s \in Status |-> 0]
Count(c, s) == [c EXCEPT ![s] = @ + 1]

Errors(c) == c["FAIL"] + c["UNRESOLVED"]

(* The exit status of the root invocation for its counters c. threshold is *)
(* PIP_TEST_THRESHOLD, 0 when it is not set: no number of errors is below. *)
VerdictAtThreshold(c, threshold) ==                             (* mutant *)
  IF c["KILLED"] # 0 THEN EXIT_KILLED
  ELSE IF c["PASS"] = 0 THEN EXIT_FAIL
  ELSE IF Errors(c) <= threshold THEN EXIT_PASS
  ELSE EXIT_FAIL

Verdict(c, threshold) ==
  IF c["KILLED"] # 0 THEN EXIT_KILLED
  ELSE IF c["PASS"] = 0 THEN EXIT_FAIL
  ELSE IF Errors(c) = 0 \/ Errors(c) < threshold THEN EXIT_PASS
  ELSE EXIT_FAIL

(* The exit status of a run that has not ended.                            *)
Running == -1

=============================================================================

--------------------------- MODULE LoopRunnerProofs --------------------------
(***************************************************************************)
(* Why loop.sh stops and with which exit status, for every set of modes,   *)
(* every -n and -t, and every exit status of the repeated command.         *)
(***************************************************************************)
EXTENDS LoopRunner, TLAPS

TypeInv ==
  /\ opt \in Option
  /\ pc \in {"iterate", "modes", "running", "check", "end"}
  /\ todo \subseteq Modes \cup {0}
  /\ last \in ExitStatus /\ ext \in ExitStatus
  /\ err_count \in Nat /\ failed \in Nat
  /\ i \in 0..MaxLoops /\ elaps \in 0..(MaxTime + 1)
  /\ tmp \in {"none", "empty", "output"} /\ logfile \in {"none", "empty", "output"}
  /\ exit \in ExitStatus \cup {Running}
  /\ intr \in BOOLEAN

(* TMP and the log: the output of a run that is to be checked is there,    *)
(* the log is not before the end.                                          *)
OutputInv ==
  /\ pc \in {"running", "check"} /\ exit = Running => tmp = "output"
  /\ pc = "end" /\ exit = Running => tmp = "none"
  /\ exit = Running => logfile = "none"

(* Without modes the only failure that can be known while the loop goes on *)
(* is the one about to be checked, unless errors are ignored.              *)
ErrorInv ==
  opt.nomode /\ exit = Running =>
    /\ pc = "check" => ext = last
    /\ ~opt.ignore_err => failed = IF pc = "check" /\ last # 0 THEN 1 ELSE 0

(* The limits, met for the first time at the end of the last iteration.    *)
LimitInv ==
  /\ opt.iteration > 0 => i <= opt.iteration
  /\ opt.iteration > 0 /\ pc # "end" => i < opt.iteration
  /\ pc = "end" => \/ opt.iteration > 0 /\ i = opt.iteration
                   \/ opt.duration > 0 /\ elaps > opt.duration

Inv == TypeInv /\ OutputInv /\ ErrorInv /\ LimitInv /\ NoModeErrors /\ EndReason

-----------------------------------------------------------------------------
LEMMA InitInv == Init => Inv
<1> SUFFICES ASSUME Init PROVE Inv OBVIOUS
<1> USE LoopAssumption DEF Init, Running
<1>1. TypeInv
  <2>1. i \in 0..MaxLoops /\ elaps \in 0..(MaxTime + 1) /\ last \in ExitStatus
    BY DEF ExitStatus
  <2> QED BY <2>1 DEF TypeInv
<1>2. OutputInv /\ ErrorInv BY DEF OutputInv, ErrorInv
<1>3. LimitInv BY DEF LimitInv, Option
<1>4. NoModeErrors /\ EndReason BY DEF NoModeErrors, EndReason
<1> QED BY <1>1, <1>2, <1>3, <1>4 DEF Inv

(* A new iteration begins.                                                 *)
LEMMA IterateInv == Inv /\ Iterate => Inv'
<1> SUFFICES ASSUME Inv, Iterate PROVE Inv' OBVIOUS
<1> USE DEF Inv, Iterate, At
<1>1. TypeInv' BY DEF TypeInv
<1>2. OutputInv' /\ ErrorInv' /\ LimitInv' BY DEF OutputInv, ErrorInv, LimitInv
<1>3. NoModeErrors' /\ EndReason' BY DEF NoModeErrors, EndReason
<1> QED BY <1>1, <1>2, <1>3

(* The command is started, its output goes to TMP.                         *)
LEMMA LaunchInv == Inv /\ Launch => Inv'
<1> SUFFICES ASSUME Inv, Launch PROVE Inv' OBVIOUS
<1> USE DEF Inv, Launch, At
<1>1. TypeInv' BY DEF TypeInv
<1>2. OutputInv' /\ ErrorInv' /\ LimitInv' BY DEF OutputInv, ErrorInv, LimitInv
<1>3. NoModeErrors' /\ EndReason' BY DEF NoModeErrors, EndReason
<1> QED BY <1>1, <1>2, <1>3

(* The command ends; a failure is known to ext when there are no modes.    *)
LEMMA CommandEndsInv ==
  ASSUME Inv, NEW m \in Modes \cup {0}, NEW status \in Statuses, CommandEnds(m, status)
  PROVE  Inv'
<1> USE LoopAssumption DEF Inv, CommandEnds, At
<1>1. TypeInv' BY DEF TypeInv, ExtOf, ExitStatus
<1>2. OutputInv' /\ LimitInv' BY DEF OutputInv, LimitInv
<1>3. ErrorInv' BY DEF TypeInv, ErrorInv, ExtOf
<1>4. NoModeErrors' /\ EndReason' BY DEF NoModeErrors, EndReason, Running
<1> QED BY <1>1, <1>2, <1>3, <1>4

(* The check: the error of a run ends the loop with its exit status.       *)
LEMMA CheckInv == Inv /\ Check => Inv'
<1> SUFFICES ASSUME Inv, Check PROVE Inv' OBVIOUS
<1> USE DEF Inv, Check, At
<1>1. CASE ext # 0 /\ ~opt.ignore_err
  <2> USE <1>1 DEF Finalize
  <2>1. TypeInv' BY DEF TypeInv
  <2>2. OutputInv' /\ ErrorInv' /\ LimitInv'
    BY DEF TypeInv, OutputInv, ErrorInv, LimitInv, ExitStatus, Running
  <2>3. NoModeErrors' BY DEF TypeInv, OutputInv, ErrorInv, NoModeErrors, ExitStatus
  <2>4. EndReason' BY DEF EndReason
  <2> QED BY <2>1, <2>2, <2>3, <2>4
<1>2. CASE ~(ext # 0 /\ ~opt.ignore_err)
  <2> USE <1>2
  <2>1. TypeInv' BY DEF TypeInv
  <2>2. OutputInv' /\ ErrorInv' /\ LimitInv' BY DEF OutputInv, ErrorInv, LimitInv
  <2>3. NoModeErrors' /\ EndReason' BY DEF NoModeErrors, EndReason
  <2> QED BY <2>1, <2>2, <2>3
<1> QED BY <1>1, <1>2

(* The end of an iteration: the loop ends exactly when a limit is met.     *)
LEMMA EndIterationInv ==
  ASSUME Inv, NEW now \in 0..(MaxTime + 1), EndIteration(now)
  PROVE  Inv'
<1> USE LoopAssumption DEF Inv, EndIteration, At
<1>1. TypeInv' BY DEF TypeInv
<1>2. OutputInv' /\ ErrorInv' BY DEF OutputInv, ErrorInv
<1>3. LimitInv' BY DEF TypeInv, LimitInv, LimitReached, TimeUp, Option
<1>4. NoModeErrors' /\ EndReason' BY DEF NoModeErrors, EndReason, Running
<1> QED BY <1>1, <1>2, <1>3, <1>4

(* The loop is over: exit status 0, and TMP is gone already.               *)
LEMMA EndInv == Inv /\ End => Inv'
<1> SUFFICES ASSUME Inv, End PROVE Inv' OBVIOUS
<1> USE DEF Inv, End, At, Finalize
<1>1. TypeInv' BY DEF TypeInv, ExitStatus
<1>2. OutputInv' /\ ErrorInv' /\ LimitInv' BY DEF OutputInv, ErrorInv, LimitInv, Running
<1>3. NoModeErrors' BY DEF ErrorInv, NoModeErrors
<1>4. EndReason' BY DEF OutputInv, LimitInv, EndReason
<1> QED BY <1>1, <1>2, <1>3, <1>4

(* A signal ends the script with an exit status of its own, never 0.       *)
LEMMA TrapInv == ASSUME Inv, NEW code \in {4, 127}, Trap(code) PROVE Inv'
<1> USE DEF Inv, Trap, Finalize
<1>1. TypeInv' BY DEF TypeInv, ExitStatus
<1>2. OutputInv' /\ ErrorInv' /\ LimitInv' BY DEF OutputInv, ErrorInv, LimitInv, Running
<1>3. NoModeErrors' /\ EndReason' BY DEF NoModeErrors, EndReason
<1> QED BY <1>1, <1>2, <1>3

LEMMA NextInv == Inv /\ [Next]_vars => Inv'
<1> SUFFICES ASSUME Inv, [Next]_vars PROVE Inv' OBVIOUS
<1>1. CASE Step
  BY <1>1, IterateInv, LaunchInv, CheckInv, EndInv, CommandEndsInv, EndIterationInv DEF Step
<1>2. CASE \E code \in {4, 127} : Trap(code) BY <1>2, TrapInv
<1>3. CASE UNCHANGED vars
  BY <1>3 DEF vars, Inv, TypeInv, OutputInv, ErrorInv, LimitInv, NoModeErrors, EndReason
<1> QED BY <1>1, <1>2, <1>3 DEF Next, Terminated

(* The inductive invariant holds in every behaviour of loop.sh.            *)
THEOREM Invariance == Spec => []Inv
<1> QED BY InitInv, NextInv, PTL DEF Spec

(* Without execution modes loop.sh stops at the first failing run with its *)
(* exit status and its output in the log, unless -i is given; exit status  *)
(* 0 then means that nothing failed.                                       *)
THEOREM ErrorsStop == Spec => []NoModeErrors
<1>1. Inv => NoModeErrors BY DEF Inv
<1> QED BY <1>1, Invariance, PTL

(* Exit status 0 means that the number of iterations was done, not one     *)
(* more, or that the time was over, and that no log is left behind.        *)
THEOREM EndsForReason == Spec => []EndReason
<1>1. Inv => EndReason BY DEF Inv
<1> QED BY <1>1, Invariance, PTL

=============================================================================

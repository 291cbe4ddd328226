------------------------------ MODULE LoopRunner -----------------------------
(***************************************************************************)
(* loop.sh: run one test command again and again, in each PiP mode or in   *)
(* none, until a number of iterations, a time limit, an error or Control-C *)
(* stops it.  The output of the latest run is in a hidden file (TMP) that  *)
(* finalize keeps as loop-PID.log when it is still there.                  *)
(***************************************************************************)
EXTENDS ExitCodes

CONSTANTS Modes,        (* mlist: the testable modes, by rank in the list  *)
          MaxIter,      (* bound: the largest -n argument                  *)
          MaxTime,      (* bound: the largest -t argument, and the clock   *)
          MaxLoops,     (* bound: iterations of an endless loop            *)
          Statuses      (* the statuses the test command may exit with     *)

ASSUME LoopAssumption ==
  /\ Modes \subseteq Nat
  /\ MaxIter \in Nat /\ MaxTime \in Nat
  /\ MaxLoops \in Nat /\ MaxLoops >= MaxIter
  /\ Statuses \subseteq ExitStatus

VARIABLES opt,          (* the command line: nomode, ignore_err, -n, -t    *)
          pc,
          todo,         (* the modes left in this iteration                *)
          last,         (* exit status of the latest run of the command    *)
          ext,          (* the script's copy of it                         *)
          err_count,
          i,            (* finished iterations                             *)
          elaps,        (* seconds since the start                         *)
          tmp,          (* TMP: not there, empty, or the latest output     *)
          logfile,      (* loop-PID.log, likewise                          *)
          exit,         (* the script's exit status, or Running            *)
          intr,         (* history: Control-C                              *)
          failed        (* history: runs of the command that failed        *)

vars == <<opt, pc, todo, last, ext, err_count, i, elaps, tmp, logfile, exit,
          intr, failed>>

Option == [nomode : BOOLEAN, ignore_err : BOOLEAN,
           iteration : 0..MaxIter, duration : 0..MaxTime]

Init ==
  /\ opt \in Option
  /\ pc = "iterate" /\ todo = {} /\ last = 0 /\ ext = 0
  /\ err_count = 0 /\ i = 0 /\ elaps = 0
  /\ tmp = "none" /\ logfile = "none" /\ exit = Running
  /\ intr = FALSE /\ failed = 0

At(p) == pc = p /\ exit = Running

(* An iteration: the command once per testable mode, or once.              *)
Iterate ==
  /\ At("iterate")
  /\ todo' = IF opt.nomode THEN {0} ELSE Modes
  /\ pc' = "modes"
  /\ UNCHANGED <<opt, last, ext, err_count, i, elaps, tmp, logfile, exit, intr, failed>>

Launch ==
  /\ At("modes") /\ todo # {}
  /\ pc' = "running"
  /\ tmp' = "output"
  /\ UNCHANGED <<opt, todo, last, ext, err_count, i, elaps, logfile, exit, intr, failed>>

(* The command exits. In the mode loop the time statistics come before     *)
(* `ext=$?', which then reads the status of the last `if' statement: 0.    *)
ExtOf(status) == IF opt.nomode THEN status ELSE 0

CommandEnds(m, status) ==
  /\ At("running") /\ m \in todo /\ \A k \in todo : m <= k
  /\ todo' = todo \ {m}
  /\ last' = status
  /\ ext' = ExtOf(status)
  /\ pc' = "check"
  /\ failed' = failed + (IF status = 0 THEN 0 ELSE 1)
  /\ UNCHANGED <<opt, err_count, i, elaps, tmp, logfile, exit, intr>>

(* finalize keeps the log if TMP is there; the script exits.               *)
Finalize(code) ==
  /\ logfile' = tmp
  /\ tmp' = "none"
  /\ exit' = code

CheckKeepsGoing ==                                              (* mutant *)
  /\ At("check")
  /\ err_count' = err_count + (IF ext = 0 THEN 0 ELSE 1)
  /\ pc' = "modes" /\ tmp' = "empty"
  /\ UNCHANGED <<opt, todo, last, ext, i, elaps, logfile, exit, intr, failed>>

(* `if [ $ext != 0 ]': count the error and, without -i, stop with it.      *)
Check ==
  /\ At("check")
  /\ err_count' = err_count + (IF ext = 0 THEN 0 ELSE 1)
  /\ IF ext # 0 /\ ~opt.ignore_err
     THEN Finalize(ext) /\ UNCHANGED pc
     ELSE pc' = "modes" /\ tmp' = "empty" /\ UNCHANGED <<logfile, exit>>
  /\ UNCHANGED <<opt, todo, last, ext, i, elaps, intr, failed>>

LimitMissed == opt.iteration > 0 /\ i + 1 = opt.iteration + 1   (* mutant *)
LimitWithTime ==                                                (* mutant *)
  opt.iteration > 0 /\ opt.duration > 0 /\ i + 1 >= opt.iteration
LimitReached == opt.iteration > 0 /\ i + 1 >= opt.iteration
TimeUp(now) == opt.duration > 0 /\ now > opt.duration

(* The end of an iteration, with the clock at now.                         *)
EndIteration(now) ==
  /\ At("modes") /\ todo = {}
  /\ now >= elaps /\ i < MaxLoops
  /\ i' = i + 1
  /\ elaps' = now
  /\ IF LimitReached \/ TimeUp(now)
     THEN tmp' = "none" /\ pc' = "end"
     ELSE pc' = "iterate" /\ UNCHANGED tmp
  /\ UNCHANGED <<opt, todo, last, ext, err_count, logfile, exit, intr, failed>>

End ==
  /\ At("end")
  /\ Finalize(0)
  /\ UNCHANGED <<opt, pc, todo, last, ext, err_count, i, elaps, intr, failed>>

(* The traps for SIGINT (exit 4) and SIGSEGV (exit 127), run as soon as    *)
(* the foreground command is over.                                         *)
Trap(code) ==
  /\ exit = Running
  /\ intr' = TRUE
  /\ Finalize(code)
  /\ UNCHANGED <<opt, pc, todo, last, ext, err_count, i, elaps, failed>>

Terminated == exit # Running /\ UNCHANGED vars

Step ==
  \/ Iterate \/ Launch \/ Check \/ End
  \/ \E m \in Modes \cup {0}, status \in Statuses : CommandEnds(m, status)
  \/ \E now \in 0..(MaxTime + 1) : EndIteration(now)

Next == Step \/ (\E code \in {4, 127} : Trap(code)) \/ Terminated

(* The script goes on and the command it repeats ends, as it does when it  *)
(* is run under timer.                                                     *)
Spec == Init /\ [][Next]_vars /\ WF_vars(Step)

-----------------------------------------------------------------------------
(* Without execution modes (-N) a failing run stops the loop at once with  *)
(* its own exit status, its output is kept in the log, and exit status 0   *)
(* means that no run failed; -i turns only the stopping off.               *)
NoModeErrors ==
  opt.nomode /\ exit # Running /\ ~intr =>
    /\ exit = 0 /\ ~opt.ignore_err => failed = 0
    /\ exit # 0 => ~opt.ignore_err /\ exit = last /\ failed = 1 /\ logfile = "output"

(* Exit status 0 is given for one of the two reasons to stop, after        *)
(* exactly the -n iterations when that is the reason, and leaves no log.   *)
EndReason ==
  exit = 0 => /\ \/ opt.iteration > 0 /\ i = opt.iteration
                 \/ opt.duration > 0 /\ elaps > opt.duration
              /\ opt.iteration > 0 => i <= opt.iteration
              /\ logfile = "none"

(* With -n the loop ends.                                                  *)
IterationsEnd == opt.iteration > 0 ~> exit # Running

(* loop.sh usage, `-i: ignore error': without -i an error is not ignored.  *)
StopsOnError == exit = 0 /\ ~opt.ignore_err => failed = 0

=============================================================================

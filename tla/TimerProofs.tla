----------------------------- MODULE TimerProofs -----------------------------
(***************************************************************************)
(* Safety of the watchdog for every time-out and every exit status of the  *)
(* test: whatever the order of alarm, cleanup(), wait(), Control-C and the *)
(* steps of the forked child.                                              *)
(***************************************************************************)
EXTENDS Timer, TLAPS

(* The life of the child, seen from main and from the wait status.         *)
ChildInv ==
  /\ target = "none" <=> pc = "fork"
  /\ target = "dead" <=> fate # NoFate
  /\ target \in {"none", "forked"} => ~grouped
  /\ target \in {"grouped", "running"} => grouped
  /\ others => grouped
  /\ reaped <=> pc \in {"unset", "report"}
  /\ reaped => target = "dead"

(* When SIGALRM can come, and when cleanup() can be running.               *)
AlarmInv ==
  /\ alarm => pc \in {"wait", "unset"} /\ ~timedout /\ hpc = "idle"
  /\ timedout => pc \in {"wait", "unset", "report"}
  /\ hpc # "idle" => timedout \/ pc = "giveup"

(* The countdown: what is left and what has gone by make up the time.      *)
CountInv ==
  /\ pc \in {"fork", "arm"} => ticks = 0
  /\ pc \notin {"fork", "arm"} => timer_count = time - ticks
  /\ ~timedout => ticks = 0 \/ ticks < time

(* cleanup() gets to its last signal only for a child not waited for yet   *)
(* or one that left processes behind, and what it has not ended when timer *)
(* gives up it has missed.                                                 *)
CleanupInv ==
  /\ hpc = "last" => grouped /\ (reaped => outlived)
  /\ pc = "giveup" /\ hpc = "idle" /\ Alive => missed

Inv == /\ TypeOK /\ ChildInv /\ AlarmInv /\ CountInv /\ CleanupInv
       /\ PassIsEarned /\ ReapedIsSpared /\ NoOrphan /\ NotEarly

-----------------------------------------------------------------------------
LEMMA InitInv == Init => Inv
<1> SUFFICES ASSUME Init PROVE Inv OBVIOUS
<1> USE TimerAssumption DEF Init, Running
<1>1. TypeOK
  <2>1. timer_count \in -1..MaxTime /\ ticks \in 0..(MaxTime + 1) OBVIOUS
  <2> QED BY <2>1, Zenon DEF TypeOK
<1>2. ChildInv /\ CleanupInv BY DEF ChildInv, CleanupInv
<1>3. AlarmInv /\ CountInv BY DEF AlarmInv, CountInv
<1>4. PassIsEarned /\ ReapedIsSpared /\ NoOrphan /\ NotEarly
  BY DEF PassIsEarned, ReapedIsSpared, NoOrphan, NotEarly, EXIT_PASS
<1> QED BY <1>1, <1>2, <1>3, <1>4 DEF Inv

(* main: fork() succeeds, or timer ends without a child.                   *)
LEMMA ForkInv == Inv /\ Fork => Inv'
<1> SUFFICES ASSUME Inv, Fork PROVE Inv' OBVIOUS
<1> USE TimerAssumption DEF Inv, Fork, Main,
        Running, timerVars, targetVars, config, history
<1>1. TypeOK'
  BY DEF TypeOK, ExitStatus, EXIT_UNTESTED
<1>2. ChildInv'
  BY DEF ChildInv
<1>3. AlarmInv'
  BY DEF AlarmInv
<1>4. CountInv' /\ NotEarly'
  BY DEF CountInv, NotEarly
<1>5. CleanupInv'
  BY DEF CleanupInv
<1>6. PassIsEarned' /\ ReapedIsSpared'
  BY DEF PassIsEarned, ReapedIsSpared, EXIT_PASS, EXIT_UNTESTED
<1>7. NoOrphan'
  BY DEF ChildInv, Alive, NoOrphan
<1> QED BY <1>1, <1>2, <1>3, <1>4, <1>5, <1>6, <1>7

(* set_timer() starts the countdown, or cleanup() begins.                  *)
LEMMA SetTimerInv == Inv /\ SetTimer => Inv'
<1> SUFFICES ASSUME Inv, SetTimer PROVE Inv' OBVIOUS
<1> USE TimerAssumption DEF Inv, SetTimer, Main,
        Running, timerVars, targetVars, config, history
<1>1. TypeOK'
  <2>1. timer_count' \in -1..MaxTime BY DEF TypeOK
  <2>2. alarm' \in BOOLEAN /\ pc' \in {"giveup", "wait"} /\ hpc' \in {"idle", "term"}
    BY Zenon
  <2> QED BY <2>1, <2>2 DEF TypeOK
<1>2. ChildInv'
  BY DEF ChildInv
<1>3. AlarmInv'
  BY DEF AlarmInv
<1>4. CountInv' /\ NotEarly'
  BY DEF TypeOK, CountInv, NotEarly
<1>5. CleanupInv'
  BY DEF CleanupInv
<1>6. PassIsEarned' /\ ReapedIsSpared'
  BY DEF PassIsEarned, ReapedIsSpared
<1>7. NoOrphan'
  BY DEF NoOrphan
<1> QED BY <1>1, <1>2, <1>3, <1>4, <1>5, <1>6, <1>7

(* Giving up ends timer; a child still alive was missed by cleanup().      *)
LEMMA GiveUpInv == Inv /\ GiveUp => Inv'
<1> SUFFICES ASSUME Inv, GiveUp PROVE Inv' OBVIOUS
<1> USE TimerAssumption DEF Inv, GiveUp, Main,
        Running, timerVars, targetVars, config, history
<1>1. TypeOK'
  BY DEF TypeOK, ExitStatus, EXIT_UNTESTED
<1>2. ChildInv'
  BY DEF ChildInv
<1>3. AlarmInv'
  BY DEF AlarmInv
<1>4. CountInv' /\ NotEarly'
  BY DEF CountInv, NotEarly
<1>5. CleanupInv'
  BY DEF CleanupInv, Alive
<1>6. PassIsEarned' /\ ReapedIsSpared'
  BY DEF PassIsEarned, ReapedIsSpared, EXIT_PASS, EXIT_UNTESTED
<1>7. NoOrphan'
  BY DEF CleanupInv, Alive, NoOrphan
<1> QED BY <1>1, <1>2, <1>3, <1>4, <1>5, <1>6, <1>7

(* wait() returns a dead child only.                                       *)
LEMMA WaitInv == Inv /\ Wait => Inv'
<1> SUFFICES ASSUME Inv, Wait PROVE Inv' OBVIOUS
<1> USE TimerAssumption DEF Inv, Wait, Main,
        Running, timerVars, targetVars, config, history
<1>1. TypeOK'
  BY DEF TypeOK
<1>2. ChildInv'
  BY DEF ChildInv
<1>3. AlarmInv'
  BY DEF AlarmInv
<1>4. CountInv' /\ NotEarly'
  BY DEF CountInv, NotEarly
<1>5. CleanupInv'
  BY DEF CleanupInv
<1>6. PassIsEarned' /\ ReapedIsSpared'
  BY DEF PassIsEarned, ReapedIsSpared
<1>7. NoOrphan'
  BY DEF NoOrphan
<1> QED BY <1>1, <1>2, <1>3, <1>4, <1>5, <1>6, <1>7

(* unset_timer(): no SIGALRM after this.                                   *)
LEMMA UnsetTimerInv == Inv /\ UnsetTimer => Inv'
<1> SUFFICES ASSUME Inv, UnsetTimer PROVE Inv' OBVIOUS
<1> USE TimerAssumption DEF Inv, UnsetTimer, Main,
        Running, timerVars, targetVars, config, history
<1>1. TypeOK'
  <2>1. alarm' \in BOOLEAN /\ pc' = "report" OBVIOUS
  <2> QED BY <2>1 DEF TypeOK
<1>2. ChildInv'
  BY DEF ChildInv
<1>3. AlarmInv'
  BY DEF AlarmInv
<1>4. CountInv' /\ NotEarly'
  BY DEF CountInv, NotEarly
<1>5. CleanupInv'
  BY DEF CleanupInv
<1>6. PassIsEarned' /\ ReapedIsSpared'
  BY DEF PassIsEarned, ReapedIsSpared
<1>7. NoOrphan'
  BY DEF NoOrphan
<1> QED BY <1>1, <1>2, <1>3, <1>4, <1>5, <1>6, <1>7

(* The exit status is what became of the child, which was waited for.      *)
LEMMA ReportInv == Inv /\ Report => Inv'
<1> SUFFICES ASSUME Inv, Report PROVE Inv' OBVIOUS
<1> USE TimerAssumption DEF Inv, Report, Main, ReportedStatus,
        Running, timerVars, targetVars, config, history
<1>1. TypeOK'
  BY DEF TypeOK, ChildInv, ExitStatus, EXIT_UNRESOLVED
<1>2. ChildInv'
  BY DEF ChildInv
<1>3. AlarmInv'
  BY DEF AlarmInv
<1>4. CountInv' /\ NotEarly'
  BY DEF CountInv, NotEarly
<1>5. CleanupInv'
  BY DEF CleanupInv
<1>6. PassIsEarned' /\ ReapedIsSpared'
  BY DEF ChildInv, PassIsEarned, ReapedIsSpared, EXIT_PASS, EXIT_UNRESOLVED
<1>7. NoOrphan'
  BY DEF ChildInv, Alive, NoOrphan
<1> QED BY <1>1, <1>2, <1>3, <1>4, <1>5, <1>6, <1>7

(* A SIGALRM: the countdown ends when the time has gone by, not earlier.   *)
LEMMA TickInv == Inv /\ Tick => Inv'
<1> SUFFICES ASSUME Inv, Tick PROVE Inv' OBVIOUS
<1> USE TimerAssumption DEF Inv, Tick, Expires,
        Running, timerVars, targetVars, config, history
<1>1. TypeOK'
  <2>1. timer_count' \in -1..MaxTime /\ ticks' \in 0..(MaxTime + 1)
    BY DEF TypeOK, AlarmInv, CountInv
  <2>2. alarm' \in BOOLEAN /\ timedout' \in BOOLEAN /\ hpc' \in {"idle", "term"}
    BY DEF TypeOK
  <2> QED BY <2>1, <2>2 DEF TypeOK
<1>2. ChildInv'
  BY DEF ChildInv
<1>3. AlarmInv'
  BY DEF AlarmInv
<1>4. CountInv' /\ NotEarly'
  <2>1. pc \notin {"fork", "arm"} /\ timer_count = time - ticks BY DEF AlarmInv, CountInv
  <2>2. timer_count' = time' - ticks' /\ pc' = pc /\ ticks' >= 1 BY <2>1 DEF TypeOK
  <2>3. CASE Expires BY <2>1, <2>2, <2>3 DEF TypeOK, CountInv, NotEarly
  <2>4. CASE ~Expires BY <2>1, <2>2, <2>4 DEF TypeOK, CountInv, NotEarly
  <2> QED BY <2>3, <2>4
<1>5. CleanupInv'
  BY DEF CleanupInv, Alive
<1>6. PassIsEarned' /\ ReapedIsSpared'
  BY DEF PassIsEarned, ReapedIsSpared
<1>7. NoOrphan'
  BY DEF NoOrphan
<1> QED BY <1>1, <1>2, <1>3, <1>4, <1>5, <1>6, <1>7

(* cleanup(): pips -k may end a running child.                             *)
LEMMA PipsTermInv == Inv /\ PipsTerm => Inv'
<1> SUFFICES ASSUME Inv, PipsTerm PROVE Inv' OBVIOUS
<1> USE TimerAssumption DEF Inv, PipsTerm, Handler, PipsFinds, Sigterm, Sigkill,
        Running, timerVars, targetVars, config, history
<1>1. TypeOK'
  BY DEF TypeOK
<1>2. ChildInv'
  BY DEF ChildInv, NoFate, Signalled
<1>3. AlarmInv'
  BY DEF AlarmInv
<1>4. CountInv' /\ NotEarly'
  BY DEF CountInv, NotEarly
<1>5. CleanupInv'
  BY DEF CleanupInv
<1>6. PassIsEarned' /\ ReapedIsSpared'
  BY DEF PassIsEarned, ReapedIsSpared, EXIT_PASS
<1>7. NoOrphan'
  BY DEF NoOrphan
<1> QED BY <1>1, <1>2, <1>3, <1>4, <1>5, <1>6, <1>7

(* cleanup(): pips -s KILL ends it.                                        *)
LEMMA PipsKillInv == Inv /\ PipsKill => Inv'
<1> SUFFICES ASSUME Inv, PipsKill PROVE Inv' OBVIOUS
<1> USE TimerAssumption DEF Inv, PipsKill, Handler, PipsFinds, Sigkill,
        Running, timerVars, targetVars, config, history
<1>1. TypeOK'
  BY DEF TypeOK
<1>2. ChildInv'
  BY DEF ChildInv, NoFate, Signalled
<1>3. AlarmInv'
  BY DEF AlarmInv
<1>4. CountInv' /\ NotEarly'
  BY DEF CountInv, NotEarly
<1>5. CleanupInv'
  BY DEF CleanupInv
<1>6. PassIsEarned' /\ ReapedIsSpared'
  BY DEF PassIsEarned, ReapedIsSpared, EXIT_PASS
<1>7. NoOrphan'
  BY DEF NoOrphan
<1> QED BY <1>1, <1>2, <1>3, <1>4, <1>5, <1>6, <1>7

(* What cleanup() has found out stays so.                                  *)
LEMMA KillpgSpares == ReapedIsSpared /\ Killpg => ReapedIsSpared'
<1> SUFFICES ASSUME ReapedIsSpared, Killpg PROVE ReapedIsSpared' OBVIOUS
<1>1. badKill' = badKill BY DEF Killpg
<1>2. outlived' = (outlived \/ (GroupExists /\ reaped)) BY Zenon DEF Killpg
<1> QED BY <1>1, <1>2, Zenon DEF ReapedIsSpared

(* The last SIGKILL meets a reaped pid only where killpg() was misled.     *)
LEMMA KillLastSpares == CleanupInv /\ ReapedIsSpared /\ KillLast => ReapedIsSpared'
<1> SUFFICES ASSUME CleanupInv, ReapedIsSpared, KillLast PROVE ReapedIsSpared' OBVIOUS
<1>1. hpc = "last" /\ outlived' = outlived BY DEF KillLast, Handler
<1>2. badKill' = (badKill \/ reaped) BY Zenon DEF KillLast
<1> QED BY <1>1, <1>2, Zenon DEF CleanupInv, ReapedIsSpared

(* killpg() finds the group or returns ESRCH: only then a living child is  *)
(* missed.                                                                 *)
LEMMA KillpgInv == Inv /\ Killpg => Inv'
<1> SUFFICES ASSUME Inv, Killpg PROVE Inv' OBVIOUS
<1> USE TimerAssumption DEF Inv, Killpg, Handler, Sigterm, Sigkill,
        Running, timerVars, targetVars, config, history
<1>1. TypeOK'
  BY DEF TypeOK
<1>2. ChildInv'
  BY DEF ChildInv, GroupExists, NoFate, Signalled
<1>3. AlarmInv'
  BY DEF AlarmInv
<1>4. CountInv' /\ NotEarly'
  BY DEF CountInv, NotEarly
<1>5. CleanupInv'
  BY DEF CleanupInv, Alive, GroupExists
<1>6. PassIsEarned' /\ ReapedIsSpared'
  BY KillpgSpares DEF PassIsEarned, EXIT_PASS
<1>7. NoOrphan'
  BY DEF NoOrphan
<1> QED BY <1>1, <1>2, <1>3, <1>4, <1>5, <1>6, <1>7

(* The last SIGKILL goes to the child, if it is still there.               *)
LEMMA KillLastInv == Inv /\ KillLast => Inv'
<1> SUFFICES ASSUME Inv, KillLast PROVE Inv' OBVIOUS
<1> USE TimerAssumption DEF Inv, KillLast, Handler, Sigkill,
        Running, timerVars, targetVars, config, history
<1>1. TypeOK'
  BY DEF TypeOK
<1>2. ChildInv'
  <2>1. CASE Alive
    BY <2>1 DEF ChildInv, Alive, NoFate, Signalled
  <2>2. CASE ~Alive
    BY <2>2 DEF ChildInv
  <2> QED BY <2>1, <2>2
<1>3. AlarmInv'
  BY DEF AlarmInv
<1>4. CountInv' /\ NotEarly'
  BY DEF CountInv, NotEarly
<1>5. CleanupInv'
  BY DEF CleanupInv, Alive
<1>6. PassIsEarned' /\ ReapedIsSpared'
  BY KillLastSpares DEF PassIsEarned, EXIT_PASS
<1>7. NoOrphan'
  BY DEF NoOrphan
<1> QED BY <1>1, <1>2, <1>3, <1>4, <1>5, <1>6, <1>7

(* The child's setpgrp().                                                  *)
LEMMA SetPgrpInv == Inv /\ SetPgrp => Inv'
<1> SUFFICES ASSUME Inv, SetPgrp PROVE Inv' OBVIOUS
<1> USE TimerAssumption DEF Inv, SetPgrp,
        Running, timerVars, targetVars, config, history
<1>1. TypeOK'
  BY DEF TypeOK
<1>2. ChildInv'
  BY DEF ChildInv
<1>3. AlarmInv'
  BY DEF AlarmInv
<1>4. CountInv' /\ NotEarly'
  BY DEF CountInv, NotEarly
<1>5. CleanupInv'
  BY DEF CleanupInv, Alive, GroupExists
<1>6. PassIsEarned' /\ ReapedIsSpared'
  BY DEF PassIsEarned, ReapedIsSpared
<1>7. NoOrphan'
  BY DEF Alive, NoOrphan
<1> QED BY <1>1, <1>2, <1>3, <1>4, <1>5, <1>6, <1>7

(* The child's execvp(), or its exit when that fails.                      *)
LEMMA ExecvpInv == Inv /\ Execvp => Inv'
<1> SUFFICES ASSUME Inv, Execvp PROVE Inv' OBVIOUS
<1> USE TimerAssumption DEF Inv, Execvp,
        Running, timerVars, targetVars, config, history
<1>1. TypeOK'
  BY DEF TypeOK, ExitStatus, EXIT_UNTESTED
<1>2. ChildInv'
  BY DEF ChildInv, NoFate, EXIT_UNTESTED
<1>3. AlarmInv'
  BY DEF AlarmInv
<1>4. CountInv' /\ NotEarly'
  BY DEF CountInv, NotEarly
<1>5. CleanupInv'
  BY DEF CleanupInv, Alive, GroupExists
<1>6. PassIsEarned' /\ ReapedIsSpared'
  BY DEF ChildInv, PassIsEarned, ReapedIsSpared
<1>7. NoOrphan'
  BY DEF Alive, NoOrphan
<1> QED BY <1>1, <1>2, <1>3, <1>4, <1>5, <1>6, <1>7

(* The test ends, with an exit status or by a signal.                      *)
LEMMA TargetEndsInv ==
  ASSUME Inv, NEW code \in TargetStatuses \cup {Signalled}, TargetEnds(code)
  PROVE  Inv'
<1> USE TimerAssumption DEF Inv, TargetEnds,
        Running, timerVars, targetVars, config, history
<1>1. TypeOK'
  BY DEF TypeOK
<1>2. ChildInv'
  BY DEF ChildInv, ExitStatus, NoFate, Signalled
<1>3. AlarmInv'
  BY DEF AlarmInv
<1>4. CountInv' /\ NotEarly'
  BY DEF CountInv, NotEarly
<1>5. CleanupInv'
  BY DEF CleanupInv, Alive, GroupExists
<1>6. PassIsEarned' /\ ReapedIsSpared'
  BY DEF ChildInv, PassIsEarned, ReapedIsSpared
<1>7. NoOrphan'
  BY DEF Alive, NoOrphan
<1> QED BY <1>1, <1>2, <1>3, <1>4, <1>5, <1>6, <1>7

(* The test leaves processes in its group.                                 *)
LEMMA TestForksInv == Inv /\ TestForks => Inv'
<1> SUFFICES ASSUME Inv, TestForks PROVE Inv' OBVIOUS
<1> USE DEF Inv, TestForks, timerVars, config, history
<1>1. TypeOK'
  BY DEF TypeOK
<1>2. ChildInv'
  BY DEF ChildInv
<1>3. AlarmInv' /\ CountInv' /\ NotEarly'
  BY DEF AlarmInv, CountInv, NotEarly
<1>4. CleanupInv' /\ PassIsEarned' /\ ReapedIsSpared' /\ NoOrphan'
  BY DEF CleanupInv, Alive, PassIsEarned, ReapedIsSpared, NoOrphan
<1> QED BY <1>1, <1>2, <1>3, <1>4

(* They end, and the group with them when its leader was reaped.           *)
LEMMA OthersEndInv == Inv /\ OthersEnd => Inv'
<1> SUFFICES ASSUME Inv, OthersEnd PROVE Inv' OBVIOUS
<1> USE DEF Inv, OthersEnd, timerVars, config, history
<1>1. TypeOK'
  <2>1. others' \in BOOLEAN OBVIOUS
  <2> QED BY <2>1 DEF TypeOK
<1>2. ChildInv'
  BY DEF ChildInv
<1>3. AlarmInv' /\ CountInv' /\ NotEarly'
  BY DEF AlarmInv, CountInv, NotEarly
<1>4. CleanupInv' /\ PassIsEarned' /\ ReapedIsSpared' /\ NoOrphan'
  BY DEF CleanupInv, Alive, PassIsEarned, ReapedIsSpared, NoOrphan
<1> QED BY <1>1, <1>2, <1>3, <1>4

(* Control-C: timer is gone at once, and the child too before setpgrp().   *)
LEMMA SigintInv == Inv /\ Sigint => Inv'
<1> SUFFICES ASSUME Inv, Sigint PROVE Inv' OBVIOUS
<1> USE TimerAssumption DEF Inv, Sigint,
        Running, timerVars, targetVars, config, history
<1>1. TypeOK'
  BY DEF TypeOK, ExitStatus, EXIT_UNRESOLVED
<1>2. ChildInv'
  BY DEF ChildInv, NoFate, EXIT_UNRESOLVED
<1>3. AlarmInv'
  BY DEF AlarmInv
<1>4. CountInv' /\ NotEarly'
  BY DEF CountInv, NotEarly
<1>5. CleanupInv'
  BY DEF CleanupInv, Alive, GroupExists
<1>6. PassIsEarned' /\ ReapedIsSpared'
  BY DEF PassIsEarned, ReapedIsSpared, EXIT_PASS, EXIT_UNRESOLVED
<1>7. NoOrphan'
  BY DEF ChildInv, Alive, NoOrphan, TypeOK
<1> QED BY <1>1, <1>2, <1>3, <1>4, <1>5, <1>6, <1>7

LEMMA NextInv == Inv /\ [Next]_vars => Inv'
<1> SUFFICES ASSUME Inv, [Next]_vars PROVE Inv' OBVIOUS
<1>1. CASE TimerStep
  BY <1>1, ForkInv, SetTimerInv, GiveUpInv, WaitInv, UnsetTimerInv, ReportInv,
     PipsTermInv, PipsKillInv, KillpgInv, KillLastInv DEF TimerStep
<1>2. CASE Launched BY <1>2, SetPgrpInv, ExecvpInv DEF Launched
<1>3. CASE Tick BY <1>3, TickInv
<1>4. CASE Sigint BY <1>4, SigintInv
<1>7. CASE TestForks BY <1>7, TestForksInv
<1>8. CASE OthersEnd BY <1>8, OthersEndInv
<1>5. CASE \E code \in TargetStatuses \cup {Signalled} : TargetEnds(code)
  BY <1>5, TargetEndsInv
<1>6. CASE UNCHANGED vars
  BY <1>6 DEF vars, timerVars, targetVars, config, history, Inv, TypeOK, ChildInv, AlarmInv,
     CountInv, CleanupInv, PassIsEarned, ReapedIsSpared, NoOrphan, NotEarly, Alive, GroupExists
<1> QED BY <1>1, <1>2, <1>3, <1>4, <1>5, <1>6, <1>7, <1>8 DEF Next, Terminated

(* The inductive invariant holds in every behaviour of the watchdog.       *)
THEOREM Invariance == Spec => []Inv
<1> QED BY InitInv, NextInv, PTL DEF Spec

(* Every variable of timer keeps its type, whatever the time, the statuses of
   the test and the machine. *)
THEOREM TypeCorrect == Spec => []TypeOK
<1>1. Inv => TypeOK BY DEF Inv
<1> QED BY <1>1, Invariance, PTL

(* timer ends with EXIT_PASS only when the test itself ended with it and was
   waited for, wherever the alarm interrupted main. *)
THEOREM PassCorrect == Spec => []PassIsEarned
<1>1. Inv => PassIsEarned BY DEF Inv
<1> QED BY <1>1, Invariance, PTL

(* When the alarm comes between wait() and unset_timer(), cleanup() sends
   SIGKILL to the pid wait() has given back only if the test has left
   processes in its group, whatever the order of the child's end, of theirs,
   of the alarm and of main. *)
THEOREM KillCorrect == Spec => []ReapedIsSpared
<1>1. Inv => ReapedIsSpared BY DEF Inv
<1> QED BY <1>1, Invariance, PTL

(* timer does not end before the test, except by Control-C, when the test is in
   a process group of its own, and by giving up before it was. *)
THEOREM OrphanCorrect == Spec => []NoOrphan
<1>1. Inv => NoOrphan BY DEF Inv
<1> QED BY <1>1, Invariance, PTL

(* A time-out is never before the seconds given on the command line. *)
THEOREM TimeCorrect == Spec => []NotEarly
<1>1. Inv => NotEarly BY DEF Inv
<1> QED BY <1>1, Invariance, PTL

=============================================================================

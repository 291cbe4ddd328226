-------------------------------- MODULE Timer --------------------------------
(***************************************************************************)
(* utils/timer.c, the watchdog every test runs under: it forks the test,   *)
(* lets SIGALRM count a number of seconds down, tries to get rid of the    *)
(* test when they are over, and passes the test's exit status on.          *)
(* Processes: timer itself (its main flow, suspended while the SIGALRM     *)
(* handler runs) and the target, the forked child that becomes the test.   *)
(* The target's own program, the pips command and the kernel are external. *)
(***************************************************************************)
EXTENDS ExitCodes

CONSTANTS MaxTime,       (* bound: the largest time-out, in seconds        *)
          TargetStatuses (* the statuses the test program may exit with    *)

ASSUME TimerAssumption == MaxTime \in Nat /\ TargetStatuses \subseteq ExitStatus

VARIABLES pc,            (* main: where its flow is                        *)
          hpc,           (* the SIGALRM handler's cleanup(), or idle       *)
          time,          (* the time-out, after scaling                    *)
          timer_count,   (* seconds left                                   *)
          timedout,
          alarm,         (* SIGALRM is handled by timer_watcher            *)
          exit,          (* timer's exit status, or Running                *)
          target,        (* life of the forked child                       *)
          fate,          (* its exit status, or Signalled                  *)
          grouped,       (* it has called setpgrp()                        *)
          others,        (* processes it forked live in its process group  *)
          reaped,        (* wait() has returned it                         *)
          oneCore,       (* ncores = 1: the only case the load counts in   *)
          isPip,         (* the test is a PiP root, which pips can find    *)
          intr,          (* history: Control-C reached timer               *)
          ticks,         (* history: SIGALRMs that found the machine idle  *)
          missed,        (* history: killpg() found no group, yet the      *)
                         (* child was alive                                *)
          badKill,       (* history: SIGKILL sent to a reaped process      *)
          outlived       (* history: killpg() found the group of a reaped  *)
                         (* leader                                         *)

timerVars  == <<pc, hpc, timer_count, timedout, alarm, exit>>
targetVars == <<target, fate, grouped, others>>
config     == <<time, oneCore, isPip>>
history    == <<intr, ticks, missed, badKill, outlived>>
vars == <<timerVars, targetVars, reaped, config, history>>

Signalled == 256                        (* WIFSIGNALED(status)             *)
NoFate    == 257                        (* still alive                     *)

Alive == target \in {"forked", "grouped", "running"}
(* The process group named by the child's pid has a member: the child, be  *)
(* it a zombie, or what it has left behind.                                *)
GroupExists == grouped /\ (~reaped \/ others)

(* main runs only when no handler does, and timer is still there.          *)
Main(p) == pc = p /\ hpc = "idle" /\ exit = Running
Handler(p) == hpc = p /\ exit = Running

Init ==
  /\ pc = "fork" /\ hpc = "idle"
  /\ time \in 0..MaxTime
  /\ timer_count = 0 /\ timedout = FALSE /\ alarm = FALSE /\ exit = Running
  /\ target = "none" /\ fate = NoFate /\ grouped = FALSE /\ others = FALSE
  /\ reaped = FALSE
  /\ oneCore \in BOOLEAN /\ isPip \in BOOLEAN
  /\ intr = FALSE /\ ticks = 0 /\ missed = FALSE /\ badKill = FALSE
  /\ outlived = FALSE

-----------------------------------------------------------------------------
(* main()                                                                  *)
Fork ==
  /\ Main("fork")
  /\ \/ target' = "forked" /\ pc' = "arm" /\ UNCHANGED exit
     \/ exit' = EXIT_UNTESTED /\ UNCHANGED <<target, pc>>
  /\ UNCHANGED <<hpc, timer_count, timedout, alarm, fate, grouped, others, reaped, config,
                 history>>

(* set_timer(): when sigaction() or setitimer() fails, cleanup() and exit. *)
SetTimer ==
  /\ Main("arm")
  /\ timer_count' = time
  /\ \/ alarm' = TRUE /\ pc' = "wait" /\ UNCHANGED hpc
     \/ alarm' = FALSE /\ pc' = "giveup" /\ hpc' = "term"
  /\ UNCHANGED <<timedout, exit, targetVars, reaped, config, history>>

GiveUp ==
  /\ Main("giveup")
  /\ exit' = EXIT_UNTESTED
  /\ UNCHANGED <<pc, hpc, timer_count, timedout, alarm, targetVars, reaped, config, history>>

(* wait() is restarted after the handler and returns once the child died.  *)
(* It can fail (line 253) for want of a child only, and nobody else reaps. *)
WaitNotRestarted ==                                             (* mutant *)
  /\ Main("wait")
  /\ target = "dead" \/ timedout
  /\ reaped' = (target = "dead")
  /\ pc' = "unset"
  /\ UNCHANGED <<hpc, timer_count, timedout, alarm, exit, targetVars, config, history>>

Wait ==
  /\ Main("wait")
  /\ target = "dead"
  /\ reaped' = TRUE
  /\ pc' = "unset"
  /\ UNCHANGED <<hpc, timer_count, timedout, alarm, exit, targetVars, config, history>>

UnsetTimer ==
  /\ Main("unset")
  /\ alarm' = FALSE
  /\ pc' = "report"
  /\ UNCHANGED <<hpc, timer_count, timedout, exit, targetVars, reaped, config, history>>

(* What timer makes of the child's wait status.                            *)
RawStatus == fate                                               (* mutant *)
SignalIgnored == IF fate = Signalled THEN EXIT_PASS ELSE fate   (* mutant *)
ReportedStatus == IF fate = Signalled THEN EXIT_UNRESOLVED ELSE fate

Report ==
  /\ Main("report")
  /\ exit' = ReportedStatus
  /\ UNCHANGED <<pc, hpc, timer_count, timedout, alarm, targetVars, reaped, config, history>>

-----------------------------------------------------------------------------
(* timer_watcher(), once a second. get_load() multiplies the load by an    *)
(* integer 1/ncores, which is 0 on all but single-core machines: only      *)
(* there does a busy machine keep a SIGALRM from counting (oneCore).       *)
ExpiresEarly == timer_count - 1 <= 1                            (* mutant *)
Expires == timer_count - 1 <= 0

AlarmOnce ==                                                    (* mutant *)
  /\ alarm /\ ~timedout /\ hpc = "idle" /\ exit = Running
  /\ timer_count' = timer_count - 1
  /\ ticks' = ticks + 1
  /\ alarm' = FALSE
  /\ IF Expires THEN timedout' = TRUE /\ hpc' = "term"
                ELSE UNCHANGED <<timedout, hpc>>
  /\ UNCHANGED <<pc, exit, targetVars, reaped, config, intr, missed, badKill, outlived>>

Tick ==
  /\ alarm /\ ~timedout /\ hpc = "idle" /\ exit = Running
  /\ timer_count' = timer_count - 1
  /\ ticks' = ticks + 1
  /\ IF Expires THEN alarm' = FALSE /\ timedout' = TRUE /\ hpc' = "term"
                ELSE UNCHANGED <<alarm, timedout, hpc>>
  /\ UNCHANGED <<pc, exit, targetVars, reaped, config, intr, missed, badKill, outlived>>

(* A SIGTERM that reaches the target kills it unless the test handles or   *)
(* ignores it. What it does to the others is left to OthersEnd.            *)
Sigkill == target' = "dead" /\ fate' = Signalled /\ UNCHANGED <<grouped, others>>
Sigterm ==
  \/ Sigkill
  \/ target = "running" /\ UNCHANGED targetVars

(* cleanup(): pips -k, then pips -s KILL; each finds the test only when it *)
(* is a running PiP root.                                                  *)
PipsFinds == isPip /\ target = "running"

PipsTerm ==
  /\ Handler("term")
  /\ hpc' = "kill"
  /\ IF PipsFinds THEN Sigterm ELSE UNCHANGED targetVars
  /\ UNCHANGED <<pc, timer_count, timedout, alarm, exit, reaped, config, history>>

PipsKill ==
  /\ Handler("kill")
  /\ hpc' = "killpg"
  /\ IF PipsFinds THEN Sigkill ELSE UNCHANGED targetVars
  /\ UNCHANGED <<pc, timer_count, timedout, alarm, exit, reaped, config, history>>

(* killpg(): ESRCH when there is no such group ends cleanup().             *)
KillpgIgnored ==                                                (* mutant *)
  /\ Handler("killpg")
  /\ hpc' = "last"
  /\ IF GroupExists /\ Alive THEN Sigterm ELSE UNCHANGED targetVars
  /\ UNCHANGED <<pc, timer_count, timedout, alarm, exit, reaped, config, history>>

Killpg ==
  /\ Handler("killpg")
  /\ hpc' = IF GroupExists THEN "last" ELSE "idle"
  /\ IF GroupExists /\ Alive THEN Sigterm ELSE UNCHANGED targetVars
  /\ missed' = (~GroupExists /\ Alive)
  /\ outlived' = (outlived \/ (GroupExists /\ reaped))
  /\ UNCHANGED <<pc, timer_count, timedout, alarm, exit, reaped, config,
                 intr, ticks, badKill>>

KillDropped ==                                                  (* mutant *)
  /\ Handler("last")
  /\ hpc' = "idle"
  /\ UNCHANGED <<pc, timer_count, timedout, alarm, exit, targetVars, reaped, config, history>>

KillLast ==
  /\ Handler("last")
  /\ hpc' = "idle"
  /\ IF Alive THEN Sigkill ELSE UNCHANGED targetVars
  /\ badKill' = (badKill \/ reaped)
  /\ UNCHANGED <<pc, timer_count, timedout, alarm, exit, reaped, config,
                 intr, ticks, missed, outlived>>

-----------------------------------------------------------------------------
(* The forked child: setpgrp(), execvp(), then the test program, which may *)
(* exit, die of a signal of its own, or run forever, and which may leave   *)
(* processes of its own behind.                                            *)
SetPgrp ==
  /\ target = "forked"
  /\ target' = "grouped"
  /\ grouped' = TRUE
  /\ UNCHANGED <<timerVars, fate, others, reaped, config, history>>

Execvp ==
  /\ target = "grouped"
  /\ \/ target' = "running" /\ UNCHANGED fate
     \/ target' = "dead" /\ fate' = EXIT_UNTESTED
  /\ UNCHANGED <<timerVars, grouped, others, reaped, config, history>>

TargetEnds(code) ==
  /\ target = "running"
  /\ target' = "dead" /\ fate' = code
  /\ UNCHANGED <<timerVars, grouped, others, reaped, config, history>>

(* As pip_task forks its PiP root: into the same process group.            *)
TestForks ==
  /\ target = "running" /\ ~others
  /\ others' = TRUE
  /\ UNCHANGED <<timerVars, target, fate, grouped, reaped, config, history>>

(* They end by themselves, by pips or by a signal to the group.            *)
OthersEnd ==
  /\ others
  /\ others' = FALSE
  /\ UNCHANGED <<timerVars, target, fate, grouped, reaped, config, history>>

(* Control-C: sigint_watcher exits at once. The child is in timer's group, *)
(* and inherits the handler, only until its setpgrp().                     *)
Sigint ==
  /\ exit = Running
  /\ intr' = TRUE
  /\ exit' = EXIT_UNRESOLVED
  /\ IF target = "forked" THEN target' = "dead" /\ fate' = EXIT_UNRESOLVED
                          ELSE UNCHANGED <<target, fate>>
  /\ UNCHANGED <<pc, hpc, timer_count, timedout, alarm, grouped, others, reaped, config,
                 ticks, missed, badKill, outlived>>

Terminated == exit # Running /\ UNCHANGED vars

TimerStep ==
  \/ Fork \/ SetTimer \/ GiveUp \/ Wait \/ UnsetTimer \/ Report
  \/ PipsTerm \/ PipsKill \/ Killpg \/ KillLast

Launched == SetPgrp \/ Execvp

Next ==
  \/ TimerStep \/ Launched \/ Tick \/ Sigint \/ TestForks \/ OthersEnd \/ Terminated
  \/ \E code \in TargetStatuses \cup {Signalled} : TargetEnds(code)

(* timer and its forked child are scheduled, and the interval timer goes   *)
(* on; the test program itself may hang, and nobody has to interrupt.      *)
(* Tick needs an idle machine: on a single core (oneCore) that cannot be   *)
(* promised.                                                               *)
Spec == /\ Init /\ [][Next]_vars
        /\ WF_vars(TimerStep) /\ WF_vars(Launched) /\ WF_vars(~oneCore /\ Tick)

-----------------------------------------------------------------------------
TypeOK ==
  /\ pc \in {"fork", "arm", "giveup", "wait", "unset", "report"}
  /\ hpc \in {"idle", "term", "kill", "killpg", "last"}
  /\ time \in 0..MaxTime /\ timer_count \in -1..MaxTime
  /\ timedout \in BOOLEAN /\ alarm \in BOOLEAN
  /\ exit \in ExitStatus \cup {Running}
  /\ target \in {"none", "forked", "grouped", "running", "dead"}
  /\ fate \in ExitStatus \cup {Signalled, NoFate}
  /\ grouped \in BOOLEAN /\ others \in BOOLEAN /\ reaped \in BOOLEAN
  /\ oneCore \in BOOLEAN /\ isPip \in BOOLEAN
  /\ intr \in BOOLEAN /\ missed \in BOOLEAN /\ badKill \in BOOLEAN
  /\ outlived \in BOOLEAN
  /\ ticks \in 0..(MaxTime + 1)

(* timer says PASS only when the test itself exited with 0 and was waited  *)
(* for, whatever the alarm, cleanup() and Control-C did meanwhile.         *)
PassIsEarned == exit = EXIT_PASS => reaped /\ fate = EXIT_PASS

(* The alarm may go off between wait() and unset_timer(), when pid is no   *)
(* longer the child's. The ESRCH of killpg() keeps the SIGKILL away unless *)
(* processes the test left behind hold the group: then killpg() succeeds   *)
(* and, when they are gone, whoever has the pid is hit.                    *)
ReapedIsSpared == badKill => outlived

(* timer never ends with the test still running, except by Control-C when  *)
(* the test has left timer's process group and with it the reach of the    *)
(* terminal, and by giving up before the child had a group of its own.     *)
NoOrphan ==
  exit # Running /\ Alive => (intr /\ grouped) \/ (pc = "giveup" /\ missed)

(* The test gets its whole time: time seconds on an idle machine.          *)
NotEarly == timedout => ticks >= time /\ ticks >= 1

(* After the time-out timer ends even when the test ignores SIGTERM,       *)
(* unless the child had not reached its setpgrp() (see TimeoutKills).      *)
TimeoutEnds == timedout ~> (exit # Running \/ missed)

(* A test that never ends is timed out.                                    *)
HangIsTimedOut == (alarm /\ ~oneCore) ~> (timedout \/ target = "dead" \/ exit # Running)

(* include/test.h: `EXIT_KILLED 7 killed by Control-C or something'.       *)
InterruptedIsKilled == intr => exit = EXIT_KILLED

(* utils test lists, `NG timer 0 inf': the expiry of the timer ends a test *)
(* that runs forever.                                                      *)
TimeoutKills == timedout ~> exit # Running

=============================================================================

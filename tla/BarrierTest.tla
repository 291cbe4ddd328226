----------------------------- MODULE BarrierTest -----------------------------
(***************************************************************************)
(* The barrier tests: basics/pip_barrier.c and basics/pip_barrier2.c,      *)
(* where the root takes part in the barrier as well.  The tasks go round a *)
(* loop with two barriers; between them one task, a different one each     *)
(* time, increments a shared counter with a plain C increment, and         *)
(* everybody compares the counter with its own loop variable.  The         *)
(* barrier itself belongs to the PiP library and is modelled by what       *)
(* pip_barrier_wait promises: nobody returns from its k-th wait before     *)
(* everybody has entered its own k-th.                                     *)
(***************************************************************************)
EXTENDS ExitCodes

CONSTANTS ntasks, niters

ASSUME BarrierAssumption == ntasks \in Nat \ {0} /\ niters \in Nat \ {0}

Tasks   == 0..(ntasks - 1)                                (* the pipids    *)
Root    == ntasks
All     == 0..ntasks

VARIABLES joins,          (* pip_barrier2.c: the root is a party as well   *)
          pc,             (* of each party                                 *)
          i,              (* its loop variable                             *)
          entered,        (* how many waits it has entered                 *)
          reg,            (* the register of its count++                   *)
          count,          (* the shared counter, expp->count               *)
          spawned,        (* tasks the root has spawned so far             *)
          reaped,         (* tasks pip_wait_any has returned               *)
          exit            (* the exit status of the root, or Running       *)

vars == <<joins, pc, i, entered, reg, count, spawned, reaped, exit>>

PC == {"unborn", "check", "wait1", "load", "store", "body", "wait2",
       "last", "done", "failed"}

(* The count pip_barrier_init is called with: ntasks, or ntasks+1.         *)
Parties == IF joins THEN All ELSE Tasks

Init ==
  /\ joins \in BOOLEAN
  /\ pc = [p \in All |-> "unborn"]
  /\ i = [p \in All |-> 0]
  /\ entered = [p \in All |-> 0]
  /\ reg = [p \in All |-> 0]
  /\ count = 0 /\ spawned = 0 /\ reaped = {} /\ exit = Running

(* pip_barrier_wait: enter, and return when all parties have entered.      *)
Enter(p) == entered' = [entered EXCEPT ![p] = @ + 1]
OnePartyMissing(p) ==                                           (* mutant *)
  \E r \in Parties : \A q \in Parties \ {r} : entered[q] >= entered[p]
Released(p) == \A q \in Parties : entered[q] >= entered[p]

Goto(p, l) == pc' = [pc EXCEPT ![p] = l]

(* The tasks are counted 0, 1, ... and take turns.                         *)
Turn(k) == k % ntasks

-----------------------------------------------------------------------------
(* The root: spawn the tasks in order. When a spawn fails it returns at    *)
(* once. When it joins it starts its own loop after the last spawn.        *)
Spawn ==
  /\ exit = Running /\ spawned < ntasks
  /\ spawned' = spawned + 1
  /\ pc' = [p \in All |->
              IF p = spawned \/ (joins /\ p = Root /\ spawned + 1 = ntasks)
              THEN "check" ELSE pc[p]]
  /\ UNCHANGED <<joins, i, entered, reg, count, reaped, exit>>

SpawnFails ==
  /\ exit = Running /\ spawned < ntasks
  /\ exit' = EXIT_FAIL
  /\ UNCHANGED <<joins, pc, i, entered, reg, count, spawned, reaped>>

RootLoopOver == joins => pc[Root] = "done"
RootFailed   == joins /\ pc[Root] = "failed"

(* pip_wait_any: tasks come back in the order they end.                    *)
Reap(p) ==
  /\ exit = Running /\ spawned = ntasks /\ RootLoopOver
  /\ p \notin reaped /\ pc[p] \in {"done", "failed"}
  /\ IF pc[p] = "failed" THEN exit' = EXIT_FAIL /\ UNCHANGED reaped
                         ELSE reaped' = reaped \cup {p} /\ UNCHANGED exit
  /\ UNCHANGED <<joins, pc, i, entered, reg, count, spawned>>

(* The end of the root: at once when its own loop failed, otherwise after  *)
(* all tasks were reaped.                                                  *)
OneNotReaped ==                                                 (* mutant *)
  /\ exit = Running
  /\ \E t \in Tasks : reaped \cup {t} = Tasks
  /\ exit' = IF count = niters THEN EXIT_PASS ELSE EXIT_FAIL
  /\ UNCHANGED <<joins, pc, i, entered, reg, count, spawned, reaped>>

RootEnds ==
  /\ exit = Running
  /\ ~RootFailed => reaped = Tasks
  /\ exit' = IF ~RootFailed /\ count = niters THEN EXIT_PASS ELSE EXIT_FAIL
  /\ UNCHANGED <<joins, pc, i, entered, reg, count, spawned, reaped>>

-----------------------------------------------------------------------------
(* One party: the test of the counter and the first wait ...               *)
OneRoundMore(p) ==                                              (* mutant *)
  /\ pc[p] = "check" /\ i[p] <= niters
  /\ IF count # i[p] THEN Goto(p, "failed") /\ UNCHANGED entered
                     ELSE Goto(p, "wait1") /\ Enter(p)
  /\ UNCHANGED <<joins, i, reg, count, spawned, reaped, exit>>

Check(p) ==
  /\ pc[p] = "check" /\ i[p] < niters
  /\ IF count # i[p] THEN Goto(p, "failed") /\ UNCHANGED entered
                     ELSE Goto(p, "wait1") /\ Enter(p)
  /\ UNCHANGED <<joins, i, reg, count, spawned, reaped, exit>>

TwoIncrement(p) ==                                              (* mutant *)
  /\ pc[p] = "wait1" /\ Released(p)
  /\ Goto(p, IF p \in {Turn(i[p]), Turn(i[p] + 1)} THEN "load" ELSE "body")
  /\ UNCHANGED <<joins, i, entered, reg, count, spawned, reaped, exit>>

Return1(p) ==
  /\ pc[p] = "wait1" /\ Released(p)
  /\ Goto(p, IF p = Turn(i[p]) THEN "load" ELSE "body")
  /\ UNCHANGED <<joins, i, entered, reg, count, spawned, reaped, exit>>

(* ... count++, which reads and then writes the shared counter ...         *)
Load(p) ==
  /\ pc[p] = "load"
  /\ reg' = [reg EXCEPT ![p] = count]
  /\ Goto(p, "store")
  /\ UNCHANGED <<joins, i, entered, count, spawned, reaped, exit>>

Store(p) ==
  /\ pc[p] = "store"
  /\ count' = reg[p] + 1
  /\ Goto(p, "body")
  /\ UNCHANGED <<joins, i, entered, reg, spawned, reaped, exit>>

(* ... and the second wait.                                                *)
Enter2(p) ==
  /\ pc[p] = "body"
  /\ Enter(p) /\ Goto(p, "wait2")
  /\ UNCHANGED <<joins, i, reg, count, spawned, reaped, exit>>

Return2(p) ==
  /\ pc[p] = "wait2" /\ Released(p)
  /\ i' = [i EXCEPT ![p] = @ + 1]
  /\ Goto(p, "check")
  /\ UNCHANGED <<joins, entered, reg, count, spawned, reaped, exit>>

(* After the loop pip_barrier.c waits once more, pip_barrier2.c does not.  *)
LastWaitNotByAll(p) ==                                          (* mutant *)
  /\ pc[p] = "check" /\ i[p] = niters
  /\ IF joins \/ p = 0 THEN Goto(p, "done") /\ UNCHANGED entered
                        ELSE Goto(p, "last") /\ Enter(p)
  /\ UNCHANGED <<joins, i, reg, count, spawned, reaped, exit>>

LastWait(p) ==
  /\ pc[p] = "check" /\ i[p] = niters
  /\ IF joins THEN Goto(p, "done") /\ UNCHANGED entered
              ELSE Goto(p, "last") /\ Enter(p)
  /\ UNCHANGED <<joins, i, reg, count, spawned, reaped, exit>>

TaskEnds(p) ==
  /\ pc[p] = "last" /\ Released(p)
  /\ Goto(p, "done")
  /\ UNCHANGED <<joins, i, entered, reg, count, spawned, reaped, exit>>

Party(p) ==
  \/ Check(p) \/ Return1(p) \/ Load(p) \/ Store(p) \/ Enter2(p) \/ Return2(p)
  \/ LastWait(p) \/ TaskEnds(p)

RootStep == Spawn \/ RootEnds \/ \E p \in Tasks : Reap(p)

Terminated == exit # Running /\ UNCHANGED vars

Next == RootStep \/ SpawnFails \/ (\E p \in Parties : Party(p)) \/ Terminated

(* Every task and the root is an OS-scheduled process or thread.           *)
Spec == /\ Init /\ [][Next]_vars
        /\ WF_vars(RootStep) /\ \A p \in All : WF_vars(p \in Parties /\ Party(p))

-----------------------------------------------------------------------------
TypeOK ==
  /\ joins \in BOOLEAN
  /\ pc \in [All -> PC]
  /\ i \in [All -> 0..niters]
  /\ entered \in [All -> Nat]
  /\ reg \in [All -> Nat]
  /\ count \in Nat
  /\ spawned \in 0..ntasks
  /\ reaped \subseteq Tasks
  /\ exit \in Int

(* With a correct barrier no CHECK of the counter can fail: when a party   *)
(* compares, the counter is its loop variable, although the increment is   *)
(* made by another task and without a lock.                                *)
CountInStep == \A p \in Parties : /\ pc[p] = "check" => count = i[p]
                                  /\ pc[p] # "failed"

(* No increment is lost: two tasks are never inside count++ together.      *)
OneIncrements ==
  \A p, q \in Parties : pc[p] \in {"load", "store"} /\ pc[q] \in {"load", "store"} => p = q

(* The test passes only when all tasks have done all their iterations and  *)
(* every increment has arrived.                                            *)
PassMeansAll ==
  exit = EXIT_PASS => /\ count = niters
                      /\ \A p \in Parties : pc[p] = "done" /\ i[p] = niters

(* If all tasks can be spawned, the test ends and passes: nobody is left   *)
(* behind in a barrier.                                                    *)
Passes == spawned = ntasks ~> exit = EXIT_PASS

=============================================================================

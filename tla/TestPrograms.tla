---------------------------- MODULE TestPrograms -----------------------------
(***************************************************************************)
(* What the test programs promise together: a library that keeps its word  *)
(* passes, one that does not is found out, and what the programs share is  *)
(* used in order.                                                          *)
(***************************************************************************)
EXTENDS TaskMachine, ScriptOrder

Name == test.name

(* pthread_yield() between the two updates only makes it likely that the   *)
(* unlocked sum of spinlock.c is wrong: its CHECK (line 136) may fail. And *)
(* pip_abort.c whose tasks all abort fails at line 100 when a task is gone *)
(* before the root.                                                        *)
MayFailByChance == {"spinlock", "pip_abort all"}

(* A program whose library keeps its promises fails no CHECK, whatever the *)
(* order of its processes: no test reports a failure of its own making.    *)
NoSpuriousFailure == ~fault /\ Name \notin MayFailByChance => failed = {}

(* For all but these ten it shows in the order of what the scripts do,     *)
(* step by step: of the others, atomic, spinlock and pthread_mutex set     *)
(* their counter again, hook_and_coe and end look at pipes and hooks,      *)
(* pthread_exit, pip_task_spawn and spawn_pie may spawn a task again or be *)
(* refused, and pip_abort (twice) kills.                                   *)
Unsure == {"atomic", "spinlock", "pthread_mutex", "hook_and_coe", "end", "pthread_exit",
           "pip_task_spawn", "spawn_pie", "pip_abort", "pip_abort all"}
ASSUME SureAssumption == \A s \in ToSet(Scripts) : s.name \notin Unsure => AllSure(s)

(* The programs that do not look at the status of a task (pip_wait( 0,     *)
(* NULL ) in pip_fin.c:56, pip_init.c:210, pthread_mutex.c:82,             *)
(* pagefault.c:90 and cxx.cc:84, a status not used in pip_task_spawn.c:113 *)
(* and hook_and_coe.c:237), and pip_abort.c, whose abort may overtake it.  *)
StatusIgnored == {"pip_fin", "pip_init", "pip_task_spawn", "pthread_mutex", "pagefault", "cxx",
                  "hook_and_coe", "pip_abort", "pip_abort all"}

(* Every fault of the library, of spawn or of fork, in whichever process   *)
(* it is met, and a killed root end in something other than EXIT_PASS: no  *)
(* chain of exit statuses from task to root to parent loses it.            *)
FaultDetected ==
  fault /\ Name \notin StatusIgnored => state[Outer] # Exited(EXIT_PASS)

(* All others look at each status that may tell of a fault, and pass it on.*)
ASSUME StatusAssumption ==
  \A s \in ToSet(Scripts) : s.name \notin StatusIgnored => Vigilant(s)

(* What a launcher should report of its tasks: the lowest-numbered one     *)
(* that did not exit with 0 decides; a signal is EXIT_UNRESOLVED, and      *)
(* pip_task turns codes outside the vocabulary into EXIT_FAIL.             *)
Code(t) == IF state[t][1] = "exited" THEN state[t][2] ELSE EXIT_UNRESOLVED
LaunchVerdict ==
  LET bad == {t \in Tasks : Code(t) # 0}
      c   == Code(CHOOSE t \in bad : \A u \in bad : t <= u)
  IN IF bad = {} THEN EXIT_PASS
     ELSE IF Name = "pip_task" /\ c > EXIT_KILLED THEN EXIT_FAIL ELSE c

(* pip_task and pip_blt report the first failing task by number, whatever  *)
(* order the tasks ended in, and only after all of them were waited for.   *)
FirstFailure ==
  Name \in {"pip_task", "pip_blt"} /\ Over /\ ~fault
    /\ state[Outer] # Exited(EXIT_UNTESTED)
    => Tasks \subseteq reaped /\ state[Outer] = Exited(LaunchVerdict)

(* Both are launchers by the order of what they do.                        *)
ASSUME LaunchAssumption ==
  \A s \in ToSet(Scripts) : s.name \in {"pip_task", "pip_blt"} => Launcher(s)

(* pip_kill.c: never more than one signal is on its way, none reaches a    *)
(* process that would lose it to the handler, and the receiver reads the   *)
(* sender that sent it.                                                    *)
OneToken ==
  Name = "pip_kill" =>
    /\ lost = {}
    /\ \A p, q \in Everybody : pending[p] # {} /\ pending[q] # {} => p = q
    /\ \A p \in Everybody : pending[p] # {} =>
         sender = CASE p = Root -> ntasks - 1 [] p = 0 -> Root [] OTHER -> p - 1

(* Its script is a ring by the order of what its processes do.             *)
ASSUME RingAssumption == \A s \in ToSet(Scripts) : s.name = "pip_kill" => Ring(s)

(* No update of a shared counter is lost: under the locks, the atomics,    *)
(* the barriers and the ring of names. The first phase of spinlock.c takes *)
(* no lock, on purpose.                                                    *)
NoLostUpdate == (Name = "spinlock" => entered[Root] > 2) => count = ledger

(* The programs that keep their updates apart by barriers or by names, or  *)
(* not at all; all others lock or have no plain update.                    *)
NotLocked == {"spinlock", "blt/pip_barrier", "pip_namexp"}
ASSUME UpdatesAssumption ==
  \A s \in ToSet(Scripts) : s.name \notin NotLocked => Protected(s)

(* Task 0 owns the barrier, the lock, the counter or the table the other   *)
(* tasks use: when it has ended, on its stack or in its heap, nobody has a *)
(* use of them ahead other than returning from the last barrier.           *)
OwnedByTask0 == {"pthread", "pip_mutex", "blt/pip_barrier", "pip_namexp", "fork"}
Shared == {"lock", "unlock", "load", "store", "count", "assign", "barrier", "record", "wait child"}
Ahead(p) == {Script(p)[k].do :
               k \in (pc[p] + IF inside[p] THEN 1 ELSE 0)..Len(Script(p))}
OwnerOutlives ==
  Name \in OwnedByTask0 /\ ~fault /\ Gone(0) =>
    \A p \in Tasks : ~Gone(p) => Ahead(p) \cap Shared = {}

(* Their scripts see to it by the order of what they do.                   *)
ASSUME OwnerAssumption ==
  \A s \in ToSet(Scripts) : s.name \in OwnedByTask0 => OutlivesUse(s, Shared)
ASSUME TurnsAssumption ==
  \A s \in ToSet(Scripts) : s.name \in {"blt/pip_barrier", "pip_namexp"} => InTurns(s)

(* Every program ends: nobody waits for ever in a barrier, for a lock, a   *)
(* name, a signal or a task, and a fault leads to an end as well.          *)
ComesToAnEnd == <>Over

=============================================================================

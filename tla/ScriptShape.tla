----------------------------- MODULE ScriptShape -----------------------------
(***************************************************************************)
(* What the scripts have in common, whatever ntasks and niters are: every  *)
(* operation but the last has a next one, and what an operation names is   *)
(* there; and how a script keeps the updates of its counter apart.         *)
(***************************************************************************)
EXTENDS SyncTests

(* The script of a process, and its places.                                *)
ScriptOf(s, p) ==
  CASE p = Parent -> s.parent
    [] p = Root   -> s.root
    [] OTHER      -> s.task[p + 1]
Places(s, p) == 1..Len(ScriptOf(s, p))
Do(s, p, k)  == ScriptOf(s, p)[k].do

(* The operations after which a process does nothing more.                 *)
LastOps == {"exit", "return err", "abort", "sleep"}

(* The places an operation leads to are places of the script.              *)
GoesOn(s, p, k) ==
  LET o == ScriptOf(s, p)[k]  n == Len(ScriptOf(s, p)) IN
  /\ o.do \notin LastOps => k + 1 <= n
  /\ (o.do = "spawn" /\ o.errs # {}) \/ o.do = "relay" => k + 2 <= n
  /\ o.do = "pass on" => k > 1

(* What an operation names are tasks, processes, pipes, codes, numbers.    *)
Operands(o) ==
  /\ o.do = "call"   => o.fail \in Nat
  /\ o.do = "spawn"  => /\ o.who \in Tasks /\ o.hooks \in BOOLEAN /\ o.active \in BOOLEAN
                        /\ ~o.active => o.queue \in Nat
  /\ o.do = "wait"   => o.sigfail \in Nat /\ o.sigval \in Nat
  /\ o.do = "exit"   => o.statuses \subseteq AnyStatus
  /\ o.do = "raise"  => o.sig \in Nat
  /\ o.do \in {"store", "atomic"} => o.inc \in Int
  /\ o.do = "assign" => o.val \in Int
  /\ o.do = "kill"   => o.to \in Everybody
  /\ o.do = "write"  => o.chunk \in Int
  /\ o.do \in {"write", "relay", "pass on"} => o.pipe \in 0..ntasks
  /\ o.do \in {"fork child", "record", "wait child"} => o.pool \in Procs

WellFormed(s) ==
  /\ \A p \in Procs : /\ Len(ScriptOf(s, p)) \in Nat
                      /\ p \in Everybody \/ ScriptOf(s, p) # <<>> => Places(s, p) # {}
  /\ \A p \in Procs : \A k \in Places(s, p) :
       GoesOn(s, p, k) /\ Operands(ScriptOf(s, p)[k])

-----------------------------------------------------------------------------
(* A plain update of the counter stands between the lock and its unlock.   *)
Locked(s) ==
  \A p \in Procs : \A k \in Places(s, p) :
    \A step \in {<<"lock", "load">>, <<"load", "store">>, <<"store", "unlock">>} :
      Do(s, p, k) = step[2] => k > 1 /\ Do(s, p, k - 1) = step[1]

(* An assignment is made before its process enters any barrier, and who    *)
(* updates has left one with it before.                                    *)
SetUpFirst(s) ==
  \A p, q \in Procs : \A k \in Places(s, p), m \in Places(s, q) :
    Do(s, p, k) = "assign" /\ Do(s, q, m) = "store" =>
      /\ \A j \in 1..k : Do(s, p, j) # "barrier"
      /\ \E j \in 1..m : Do(s, q, j) = "barrier" /\ p \in ScriptOf(s, q)[j].parties

(* A script is run from its beginning to its end, and once: no operation   *)
(* leads elsewhere, each task is spawned, and the root forked, at one      *)
(* place, and only who may have children waits for some.                   *)
RunOnce(s) ==
  /\ \A p \in Procs : \A k \in Places(s, p) :
       /\ Do(s, p, k) \notin {"relay", "pass on"}
       /\ Do(s, p, k) = "spawn" => p = Root /\ ScriptOf(s, p)[k].errs = {}
       /\ Do(s, p, k) = "wait" => p \in {Root, Parent}
  /\ \A j, k \in Places(s, Root) :
       Do(s, Root, j) = "spawn" /\ Do(s, Root, k) = "spawn"
         /\ ScriptOf(s, Root)[j].who = ScriptOf(s, Root)[k].who => j = k
  /\ \A p \in Procs : \A j, k \in Places(s, p) :
       Do(s, p, j) = "fork" /\ Do(s, p, k) = "fork" => p = Parent /\ j = k

(* And nothing else touches the counter.                                   *)
Straight(s) ==
  RunOnce(s) /\ \A p \in Procs : \A k \in Places(s, p) : Do(s, p, k) \notin {"atomic", "fork"}

NoPlainUpdate(s) == \A p \in Procs : \A k \in Places(s, p) : Do(s, p, k) # "store"

Disciplined(s) == Locked(s) /\ SetUpFirst(s) /\ Straight(s)
Protected(s) == NoPlainUpdate(s) \/ Disciplined(s)

-----------------------------------------------------------------------------
(* Where a fault of the library may end a process.                         *)
FaultOps == {"call", "export", "import", "mask", "kill", "unmap", "pipe", "coe", "close",
             "spawn", "fork", "fork child"}
Exposed(s, p) == \E k \in Places(s, p) : Do(s, p, k) \in FaultOps

(* The process says 0 only by returning the first status that was not.     *)
ReportsErr(s, p) ==
  \A k \in Places(s, p) : Do(s, p, k) = "exit" => Exited(0) \notin ScriptOf(s, p)[k].statuses

(* The root looks at the status of a task that may fail: a CHECK accepts   *)
(* no failure, or the root reports the status.                             *)
Looks(s) ==
  \A k \in Places(s, Root), t \in Tasks :
    LET o == ScriptOf(s, Root)[k] IN
    o.do = "wait" /\ Exposed(s, t) =>
      IF o.ok[t] = Unchecked THEN ReportsErr(s, Root)
      ELSE \A st \in o.ok[t] : st[1] = "exited" => st[2] = 0

(* How often a process, or the root, has made an operation before place k. *)
Made(s, p, k, do) == Cardinality({j \in 1..(k - 1) : Do(s, p, j) = do})
Before(s, k, do)  == Made(s, Root, k, do)

(* The root ends with 0 only after as many waits as spawns.                *)
Balanced(s) ==
  \A k \in Places(s, Root) :
    Do(s, Root, k) = "return err"
      \/ (Do(s, Root, k) = "exit" /\ Exited(0) \in ScriptOf(s, Root)[k].statuses)
      => Before(s, k, "spawn") = Before(s, k, "wait")

(* Failure has a code other than 0; who spawns, waits and forks; a spawn   *)
(* that may be refused skips one wait.                                     *)
Orderly(s) ==
  \A p \in Procs : \A k \in Places(s, p) :
    LET o == ScriptOf(s, p)[k] IN
    /\ o.do = "call"  => o.fail # 0
    /\ o.do = "wait"  => p \in {Root, Parent} /\ o.sigfail # 0 /\ o.sigval # 0
    /\ o.do = "spawn" => p = Root /\ (o.errs # {} => Do(s, p, k + 1) = "wait")
    /\ o.do = "fork"  => p = Parent /\ \A j \in Places(s, p) : Do(s, p, j) = "fork" => j = k
    /\ o.do \in {"relay", "pass on"} => p \in Tasks

(* A parent forks once, waits for the root and returns its status.         *)
Relays(s) ==
  /\ ReportsErr(s, Parent)
  /\ \A k \in Places(s, Parent) :
       /\ Do(s, Parent, k) = "wait" => ScriptOf(s, Parent)[k].ok[Root] = Unchecked
       /\ Do(s, Parent, k) = "return err" => \E j \in 1..(k - 1) : Do(s, Parent, j) = "wait"

Vigilant(s) == Looks(s) /\ Balanced(s) /\ Orderly(s) /\ Relays(s)

-----------------------------------------------------------------------------
(* The tasks the root has waited for when it comes to place k.             *)
Awaited(s, k) == {ScriptOf(s, Root)[j].who : j \in {i \in 1..(k - 1) : Do(s, Root, i) = "wait"}}

(* The root of a launcher: pip_init, one spawn after the other, the queue  *)
(* of each looked at at once, then the tasks in their order, pip_fin and   *)
(* the status it has kept.                                                 *)
RootLaunches(s, k) ==
  LET o == ScriptOf(s, Root)[k] IN
  /\ o.do \in {"args", "call", "spawn", "queue", "wait", "return err"}
  /\ o.do = "args"  => s.parent = <<>>
  /\ o.do = "call"  => \/ /\ o.f = "pip_init" /\ o.arg = PipInit.arg /\ o.expect = Ok
                          /\ Before(s, k, "call") = 0
                       \/ /\ o.f = "pip_fin" /\ o.expect = Ok
                          /\ Before(s, k, "call") = 1 /\ Tasks \subseteq Awaited(s, k)
  /\ o.do = "spawn" => o.errs = {} /\ Awaited(s, k) = {}
  /\ o.do = "queue" => /\ k > 1 /\ Do(s, Root, k - 1) = "spawn"
                       /\ ScriptOf(s, Root)[k - 1].queue = o.queue
                       /\ ScriptOf(s, Root)[k - 1].active = o.empty
  /\ o.do = "wait"  => /\ o.who \in Tasks /\ \A t \in Awaited(s, k) : t < o.who
                       /\ o.sigval = EXIT_UNRESOLVED /\ \A t \in Procs : o.ok[t] = Unchecked
  /\ o.do = "return err" => /\ Tasks \subseteq Awaited(s, k)
                            /\ o.largest = IF s.name = "pip_task" THEN EXIT_KILLED ELSE AnyCode

(* Its parent, if any, only passes the root's status on, and its tasks end *)
(* with a code of one byte or by a signal.                                 *)
Launcher(s) ==
  /\ \A k \in Places(s, Root) : RootLaunches(s, k)
  /\ \A k \in Places(s, Parent) :
       /\ Do(s, Parent, k) \in {"args", "fork", "wait", "return err"}
       /\ Do(s, Parent, k) = "return err" => ScriptOf(s, Parent)[k].largest = AnyCode
  /\ \A t \in Tasks : \A k \in Places(s, t) :
       /\ Do(s, t, k) = "exit"
       /\ ScriptOf(s, t)[k].statuses \subseteq
            ({"exited"} \X (0..AnyCode)) \cup ({"signaled"} \X Nat)

-----------------------------------------------------------------------------
(* The ring of the root and all tasks, and how many tokens a process has   *)
(* in hand at place k: it gets one by sigwait and sends it by kill, and    *)
(* the root starts with one.                                               *)
Prev(p) == CASE p = Root -> ntasks - 1 [] p = 0 -> Root [] OTHER -> p - 1
Sent(s, p, k)   == Made(s, p, k, "kill")
Got(s, p, k)    == Made(s, p, k, "sigwait")
Tokens(s, p, k) == Got(s, p, k) - Sent(s, p, k) + IF p = Root THEN 1 ELSE 0

(* Who sends has a token, has just left its name, sends to the next in the *)
(* ring, and has left a barrier which that one enters only when it has     *)
(* blocked the signals. Who waits has no token.                            *)
RingOps == {"args", "call", "mask", "spawn", "barrier", "sender", "kill", "sigwait", "sender is",
            "wait", "exit"}
RingPlace(s, p, k) ==
  LET o == ScriptOf(s, p)[k] IN
  /\ o.do \in RingOps
  /\ Tokens(s, p, k) \in {0, 1}
  /\ o.do = "sigwait" => Tokens(s, p, k) = 0
  /\ o.do \in {"sender", "kill"} => Tokens(s, p, k) = 1
  /\ o.do = "kill" => /\ k > 1 /\ Do(s, p, k - 1) = "sender" /\ Prev(o.to) = p
                      /\ \E j \in 1..(k - 1) : Do(s, p, j) = "barrier"
                                                 /\ o.to \in ScriptOf(s, p)[j].parties
  /\ o.do = "barrier" => \E j \in 1..(k - 1) : Do(s, p, j) = "mask"

Ring(s) ==
  /\ Disciplined(s) /\ s.parent = <<>>
  /\ \A p \in Everybody : \A k \in Places(s, p) : RingPlace(s, p, k)

=============================================================================

----------------------------- MODULE TaskMachine -----------------------------
(***************************************************************************)
(* How the test programs run: their processes make their operations one    *)
(* after the other, in any interleaving, against the PiP library, which is *)
(* not part of the repository: what it promises is taken from what the     *)
(* tests rely on.                                                          *)
(***************************************************************************)
EXTENDS ScriptShape

(* The programs.                                                           *)
Scripts == LifeScripts \o SyncScripts

ASSUME ScriptsAssumption == \A s \in ToSet(Scripts) : WellFormed(s)

VARIABLES test,           (* the program that runs                         *)
          pc, state,      (* of each process: next operation, life         *)
          failed,         (* processes that left through a CHECK           *)
          err,            (* of each process: first non-zero task status   *)
          inited,         (* pip_init has succeeded in the root            *)
          reaped,         (* ended processes that were waited for          *)
          hooks,          (* calls of the before and the after hook        *)
          aborting,       (* pip_abort: not called, called, in the root    *)
          fault,          (* a spawn or fork failed, or the root was killed*)
          inside, entered,(* barrier: in a wait, waits entered so far      *)
          count, reg,     (* the shared counter, registers                 *)
          ledger,         (* sum of all additions (history)                *)
          lock,           (* owner of the lock, or ANY when it is free     *)
          names,          (* exported names, <<owner, name>>               *)
          children,       (* forked processes of each wait(2) pool         *)
          masked, pending,(* blocked SIGUSRs, signals waiting for delivery *)
          sender, lost,   (* expp->pipid_sender; signals handlers consumed *)
          fds, coe, data  (* open pipe ends, close-on-exec, what is inside *)

proc == <<pc, state, failed>>
lib  == <<inited, reaped, hooks, err, aborting, fault>>
barr == <<inside, entered>>
mem  == <<count, reg, ledger, lock>>
file == <<fds, coe, data>>
comm == <<names, children, masked, pending, sender, lost, file>>
vars == <<test, proc, lib, barr, mem, comm>>

Script(p) == ScriptOf(test, p)
Op(p) == Script(p)[pc[p]]
Outer == IF Script(Parent) # <<>> THEN Parent ELSE Root
Gone(p) == state[p] \in AnyStatus
Over == Gone(Outer)

Init ==
  /\ test \in ToSet(Scripts)
  /\ pc = [p \in Procs |-> 1]
  /\ state = [p \in Procs |-> IF p = Outer THEN Alive ELSE NotBorn]
  /\ failed = {} /\ err = [p \in Procs |-> 0]
  /\ inited = FALSE /\ reaped = {} /\ aborting = "no" /\ fault = FALSE
  /\ hooks = [t \in Tasks |-> [set |-> FALSE, before |-> 0, after |-> 0]]
  /\ inside = [p \in Procs |-> FALSE] /\ entered = [p \in Procs |-> 0]
  /\ count = 0 /\ ledger = 0 /\ reg = [p \in Procs |-> 0] /\ lock = ANY
  /\ children = [p \in Procs |-> [all |-> 0, known |-> 0]]
  /\ names = {} /\ masked = {} /\ sender = ANY /\ lost = {}
  /\ pending = [p \in Procs |-> {}]
  /\ fds = [p \in Procs |-> {}] /\ coe = {} /\ data = [i \in 0..ntasks |-> <<>>]

(* A process is at an operation. Tasks do not outlive their root, which    *)
(* gets no further when the signal of pip_abort has called it back.        *)
At(p, do) ==
  /\ state[p] = Alive /\ Op(p).do = do
  /\ p \in Tasks => state[Root] = Alive
  /\ p = Root => aborting # "root"

Advance(p) ==
  /\ pc' = [pc EXCEPT ![p] = @ + 1]
  /\ UNCHANGED <<state, failed>>
EndWith(p, s) == state' = [state EXCEPT ![p] = s]
CheckFails(p, code) ==
  /\ failed' = failed \cup {p} /\ EndWith(p, Exited(code)) /\ UNCHANGED pc

-----------------------------------------------------------------------------
(* The number of tasks is legal, or the test is not run.                   *)
DoArgs(p) ==
  /\ At(p, "args")
  /\ \/ Advance(p)
     \/ EndWith(p, Exited(EXIT_UNTESTED)) /\ UNCHANGED <<pc, failed>>
  /\ UNCHANGED <<test, lib, barr, mem, comm>>

(* Tasks the root has spawned and not waited for.                          *)
Unwaited == {t \in Tasks : state[t] # NotBorn} \ reaped

DoCall(p) ==
  /\ At(p, "call")
  /\ \E rv \in Returns(p, Op(p).f, Op(p).arg, inited, Unwaited) :
       IF rv \in Op(p).expect
       THEN /\ Advance(p)
            /\ inited' = IF p = Root /\ rv = "0" /\ Op(p).f \in {"pip_init", "pip_fin"}
                         THEN Op(p).f = "pip_init" ELSE inited
       ELSE CheckFails(p, Op(p).fail) /\ UNCHANGED inited
  /\ UNCHANGED <<test, reaped, hooks, err, aborting, fault, barr, mem, comm>>

(* The library breaks its promise: what the tests are there to detect. One *)
(* fault of any kind per behaviour. Barriers and locks do not fail here.   *)
Checked == {"call", "export", "import", "mask", "kill", "unmap", "pipe", "coe", "close"}
CallFaults(p) ==
  /\ \E op \in Checked : At(p, op)
  /\ ~fault
  /\ CheckFails(p, IF Op(p).do = "call" THEN Op(p).fail ELSE EXIT_FAIL) /\ fault' = TRUE
  /\ UNCHANGED <<test, inited, reaped, hooks, err, aborting, barr, mem, comm>>

-----------------------------------------------------------------------------
(* A spawn; an active task takes the inactive ones of its queue along. A   *)
(* pipid is free again once its task was waited for.                       *)
DoSpawn(p) ==
  LET o == Op(p) IN
  /\ At(p, "spawn")
  /\ state[o.who] = NotBorn \/ o.who \in reaped
  /\ state' = [t \in Procs |->
       IF t = o.who THEN IF o.active THEN Alive ELSE Queued(o.queue)
       ELSE IF o.active /\ state[t] = Queued(o.queue) THEN Alive ELSE state[t]]
  /\ pc' = [pc EXCEPT ![p] = @ + 1, ![o.who] = 1]
  /\ reaped' = reaped \ {o.who}
  /\ hooks' = [hooks EXCEPT ![o.who] =
       [set |-> o.hooks, before |-> IF o.hooks THEN 1 ELSE 0, after |-> 0]]
  /\ fds' = [fds EXCEPT ![o.who] = fds[p] \ coe]
  /\ UNCHANGED <<test, failed, inited, err, aborting, fault, barr, mem,
                 names, children, masked, pending, sender, lost, coe, data>>

(* A spawn that fails with an error the test allows: the wait is skipped.  *)
SpawnRefused(p) ==
  /\ At(p, "spawn") /\ Op(p).errs # {}
  /\ pc' = [pc EXCEPT ![p] = @ + 2]
  /\ UNCHANGED <<test, state, failed, lib, barr, mem, comm>>

(* No resources: any spawn may fail, and the test ends at once.            *)
SpawnFails(p) ==
  /\ At(p, "spawn") /\ ~fault
  /\ CheckFails(p, EXIT_FAIL) /\ fault' = TRUE
  /\ UNCHANGED <<test, inited, reaped, hooks, err, aborting, barr, mem, comm>>

(* A BLT queue is compared with what the launcher expects of it.           *)
DoQueue(p) ==
  /\ At(p, "queue")
  /\ IF (\A t \in Tasks : state[t] # Queued(Op(p).queue)) = Op(p).empty
     THEN Advance(p) ELSE CheckFails(p, EXIT_FAIL)
  /\ UNCHANGED <<test, lib, barr, mem, comm>>

DoFork(p) ==
  /\ At(p, "fork")
  /\ pc' = [pc EXCEPT ![p] = @ + 1]
  /\ state' = [state EXCEPT ![Root] = Alive]
  /\ UNCHANGED <<test, failed, lib, barr, mem, comm>>
ForkFails(p) ==
  /\ At(p, "fork") \/ At(p, "fork child")
  /\ ~fault
  /\ CheckFails(p, EXIT_UNTESTED) /\ fault' = TRUE
  /\ UNCHANGED <<test, inited, reaped, hooks, err, aborting, barr, mem, comm>>

(* The status of a process that was waited for, as an exit code, and the   *)
(* one a launcher keeps of several.                                        *)
SignalNegative(p, s) == IF s[1] = "exited" THEN s[2] ELSE -s[2] (* mutant *)
ValueOf(p, s) == IF s[1] = "exited" THEN s[2] ELSE Op(p).sigval

LastStatus(p, t) == ValueOf(p, state[t])                        (* mutant *)
LastNonZero(p, t) ==                                            (* mutant *)
  IF ValueOf(p, state[t]) # 0 THEN ValueOf(p, state[t]) ELSE err[p]
FirstNonZero(p, t) == IF err[p] = 0 THEN ValueOf(p, state[t]) ELSE err[p]

(* A wait returns an ended child; the CHECK is of its status.              *)
Reap(p, t) ==
  /\ At(p, "wait") /\ Op(p).who \in {t, ANY}
  /\ t \in (IF p = Parent THEN {Root} ELSE Tasks) \ reaped
  /\ Gone(t)
  /\ reaped' = reaped \cup {t}
  /\ err' = [err EXCEPT ![p] = FirstNonZero(p, t)]
  /\ IF Op(p).ok[t] = Unchecked \/ state[t] \in Op(p).ok[t] THEN Advance(p)
     ELSE CheckFails(p, IF state[t][1] = "signaled" THEN Op(p).sigfail ELSE EXIT_FAIL)
  /\ UNCHANGED <<test, inited, hooks, aborting, fault, barr, mem, comm>>

-----------------------------------------------------------------------------
(* The after hook runs unless the task leaves by _exit.                    *)
AfterHook(p, how) ==
  hooks' = IF p \in Tasks /\ how # "_exit" /\ hooks[p].set
           THEN [hooks EXCEPT ![p].after = @ + 1] ELSE hooks

DoExit(p) ==
  /\ At(p, "exit")
  /\ \E s \in Op(p).statuses : EndWith(p, s)
  /\ AfterHook(p, Op(p).how)
  /\ UNCHANGED <<test, pc, failed, inited, reaped, err, aborting, fault, barr, mem, comm>>

DoReturnErr(p) ==
  /\ At(p, "return err")
  /\ EndWith(p, Exited(IF err[p] <= Op(p).largest THEN err[p] ELSE EXIT_FAIL))
  /\ UNCHANGED <<test, pc, failed, lib, barr, mem, comm>>

DoRaise(p) ==
  /\ At(p, "raise")
  /\ IF Op(p).sig = 0 THEN Advance(p)
     ELSE EndWith(p, Signaled(Op(p).sig)) /\ UNCHANGED <<pc, failed>>
  /\ UNCHANGED <<test, lib, barr, mem, comm>>

(* The hook counters of all tasks are compared, after the last was reaped. *)
DoHooks(p) ==
  /\ At(p, "hooks")
  /\ IF \A t \in Tasks : hooks[t].before = Op(p).before /\ hooks[t].after = Op(p).after
     THEN Advance(p) ELSE CheckFails(p, EXIT_FAIL)
  /\ UNCHANGED <<test, lib, barr, mem, comm>>

(* pip_abort sends the root a signal. Its caller stays, or ends before the *)
(* root does, which then may still wait for it (pip_abort.c:95); the root, *)
(* called back by the signal, ends its tasks one after the other, while    *)
(* the rest of them goes on, and itself.                                   *)
DoAbort(p) ==
  /\ At(p, "abort") /\ aborting = "no"
  /\ aborting' = "called"
  /\ UNCHANGED <<test, proc, inited, reaped, hooks, err, fault, barr, mem, comm>>
CallBack ==
  /\ aborting = "called" /\ state[Root] = Alive
  /\ aborting' = "root"
  /\ UNCHANGED <<test, proc, inited, reaped, hooks, err, fault, barr, mem, comm>>
AbortEnds(p) ==
  /\ state[p] = Alive /\ state[Root] = Alive
  /\ \/ p \in Tasks /\ aborting = "root"
     \/ p \in Tasks /\ aborting = "called" /\ Op(p).do = "abort"
     \/ p = Root /\ aborting = "root" /\ \A t \in Tasks : state[t] # Alive
  /\ EndWith(p, Signaled(SIGABRT))
  /\ UNCHANGED <<test, pc, failed, lib, barr, mem, comm>>
AbortArrives == CallBack \/ \E p \in Everybody : AbortEnds(p)

(* A forked root is killed from outside.                                   *)
RootKilled(sig) ==
  /\ state[Root] = Alive /\ Outer = Parent /\ ~fault
  /\ EndWith(Root, Signaled(sig)) /\ fault' = TRUE
  /\ UNCHANGED <<test, pc, failed, inited, reaped, hooks, err, aborting, barr, mem, comm>>

(* The watchdog (Timer) kills what does not end: its time is ample, and    *)
(* only a program with a fault, which may hold it up, ever meets it.       *)
WatchdogKills ==
  /\ fault /\ ~Over
  /\ state' = [p \in Procs |-> IF state[p] = Alive THEN Signaled(SIGKILL) ELSE state[p]]
  /\ UNCHANGED <<test, pc, failed, lib, barr, mem, comm>>

-----------------------------------------------------------------------------
(* A barrier of some parties: nobody leaves its k-th wait before all have  *)
(* entered their k-th.                                                     *)
Enter(p) ==
  /\ At(p, "barrier") /\ ~inside[p]
  /\ inside' = [inside EXCEPT ![p] = TRUE]
  /\ entered' = [entered EXCEPT ![p] = @ + 1]
  /\ UNCHANGED <<test, proc, lib, mem, comm>>

OneMissing(p) ==                                                (* mutant *)
  /\ At(p, "barrier") /\ inside[p]
  /\ \E r \in Op(p).parties : \A q \in Op(p).parties \ {r} : entered[q] >= entered[p]
  /\ inside' = [inside EXCEPT ![p] = FALSE]
  /\ Advance(p)
  /\ UNCHANGED <<test, lib, entered, mem, comm>>

Leave(p) ==
  /\ At(p, "barrier") /\ inside[p]
  /\ \A q \in Op(p).parties : entered[q] >= entered[p]
  /\ inside' = [inside EXCEPT ![p] = FALSE]
  /\ Advance(p)
  /\ UNCHANGED <<test, lib, entered, mem, comm>>

(* A lock; a polling trylock loop waits like a blocking lock.              *)
NoWait(p) ==                                                    (* mutant *)
  /\ At(p, "lock") /\ lock' = p
  /\ Advance(p) /\ UNCHANGED <<test, lib, barr, count, reg, ledger, comm>>
DoLock(p) ==
  /\ At(p, "lock") /\ lock = ANY /\ lock' = p
  /\ Advance(p) /\ UNCHANGED <<test, lib, barr, count, reg, ledger, comm>>
DoUnlock(p) ==
  /\ At(p, "unlock") /\ lock' = ANY
  /\ Advance(p) /\ UNCHANGED <<test, lib, barr, count, reg, ledger, comm>>

(* A plain C update of the counter reads, then writes; an atomic one does  *)
(* both in one step.                                                       *)
DoLoad(p) ==
  /\ At(p, "load") /\ reg' = [reg EXCEPT ![p] = count]
  /\ Advance(p) /\ UNCHANGED <<test, lib, barr, count, ledger, lock, comm>>
DoStore(p) ==
  /\ At(p, "store") /\ count' = reg[p] + Op(p).inc /\ ledger' = ledger + Op(p).inc
  /\ Advance(p) /\ UNCHANGED <<test, lib, barr, reg, lock, comm>>
DoAtomic(p) ==
  /\ At(p, "atomic") /\ count' = count + Op(p).inc /\ ledger' = ledger + Op(p).inc
  /\ Advance(p) /\ UNCHANGED <<test, lib, barr, reg, lock, comm>>

DoAssign(p) ==
  /\ At(p, "assign") /\ count' = Op(p).val /\ ledger' = Op(p).val
  /\ Advance(p) /\ UNCHANGED <<test, lib, barr, reg, lock, comm>>

DoCount(p) ==
  /\ At(p, "count")
  /\ IF (count = Op(p).val) # Op(p).not THEN Advance(p) ELSE CheckFails(p, EXIT_FAIL)
  /\ UNCHANGED <<test, lib, barr, mem, comm>>

-----------------------------------------------------------------------------
(* pip_named_export, and pip_named_import, which waits for the name.       *)
DoExport(p) ==
  /\ At(p, "export") /\ names' = names \cup {<<p, Op(p).name>>}
  /\ Advance(p) /\ UNCHANGED <<test, lib, barr, mem, children, masked, pending, sender, lost, file>>
AnyOwner(p) ==                                                  (* mutant *)
  /\ At(p, "import") /\ \E q \in Tasks : <<q, Op(p).name>> \in names
  /\ Advance(p) /\ UNCHANGED <<test, lib, barr, mem, comm>>
DoImport(p) ==
  /\ At(p, "import") /\ <<Op(p).from, Op(p).name>> \in names
  /\ Advance(p) /\ UNCHANGED <<test, lib, barr, mem, comm>>

(* Processes forked by the tasks. Tasks that are threads share one pool of *)
(* children, where a wait may return a child of another task; one whose    *)
(* pid is not in the table yet is not counted.                             *)
DoForkChild(p) ==
  /\ At(p, "fork child") /\ children' = [children EXCEPT ![Op(p).pool].all = @ + 1]
  /\ Advance(p) /\ UNCHANGED <<test, lib, barr, mem, names, masked, pending, sender, lost, file>>
DoRecord(p) ==
  /\ At(p, "record") /\ children' = [children EXCEPT ![Op(p).pool].known = @ + 1]
  /\ Advance(p) /\ UNCHANGED <<test, lib, barr, mem, names, masked, pending, sender, lost, file>>
DoWaitChild(p) ==
  LET pool == Op(p).pool  c == children[pool] IN
  /\ At(p, "wait child")
  /\ IF c.all = 0 THEN CheckFails(p, EXIT_FAIL) /\ UNCHANGED children  (* ECHILD *)
     ELSE \E hit \in (IF c.known > 0 THEN {1} ELSE {})
                     \cup (IF c.all > c.known THEN {0} ELSE {}) :
            /\ children' = [children EXCEPT ![pool] = [all |-> c.all - 1, known |-> c.known - hit]]
            /\ pc' = [pc EXCEPT ![p] = @ + hit]
            /\ UNCHANGED <<state, failed>>
  /\ UNCHANGED <<test, lib, barr, mem, names, masked, pending, sender, lost, file>>

(* The user signals. One that is not blocked runs the handler, which does  *)
(* nothing but consume it; a blocked one stays pending until sigwait.      *)
MaskDropped(p) ==                                               (* mutant *)
  /\ At(p, "mask") /\ UNCHANGED masked
  /\ Advance(p) /\ UNCHANGED <<test, lib, barr, mem, names, children, pending, sender, lost, file>>
DoMask(p) ==
  /\ At(p, "mask") /\ masked' = masked \cup {p}
  /\ Advance(p) /\ UNCHANGED <<test, lib, barr, mem, names, children, pending, sender, lost, file>>
DoSender(p) ==
  /\ At(p, "sender") /\ sender' = p
  /\ Advance(p) /\ UNCHANGED <<test, lib, barr, mem, names, children, masked, pending, lost, file>>
DoKill(p) ==
  LET q == Op(p).to IN
  /\ At(p, "kill")
  /\ IF q \in masked
     THEN pending' = [pending EXCEPT ![q] = @ \cup {Op(p).sig}] /\ UNCHANGED lost
     ELSE lost' = lost \cup {q} /\ UNCHANGED pending
  /\ Advance(p) /\ UNCHANGED <<test, lib, barr, mem, names, children, masked, sender, file>>
DoSigWait(p) ==
  /\ At(p, "sigwait")
  /\ \E s \in pending[p] :
       /\ pending' = [pending EXCEPT ![p] = @ \ {s}]
       /\ IF s = Op(p).sig THEN Advance(p) ELSE CheckFails(p, EXIT_FAIL)
  /\ UNCHANGED <<test, lib, barr, mem, names, children, masked, sender, lost, file>>
DoSenderIs(p) ==
  /\ At(p, "sender is")
  /\ IF sender = Op(p).from THEN Advance(p) ELSE CheckFails(p, EXIT_FAIL)
  /\ UNCHANGED <<test, lib, barr, mem, comm>>

-----------------------------------------------------------------------------
(* Pages: to touch one that is not mapped is a SIGSEGV.                    *)
DiesOf(p, sig) == failed' = failed \cup {p} /\ EndWith(p, Signaled(sig)) /\ UNCHANGED pc
DoTouch(p) ==
  /\ At(p, "touch")
  /\ IF <<Op(p).owner, "page">> \in names THEN Advance(p) ELSE DiesOf(p, SIGSEGV)
  /\ UNCHANGED <<test, lib, barr, mem, comm>>
DoUnmap(p) ==
  /\ At(p, "unmap") /\ names' = names \ {<<p, "page">>}
  /\ Advance(p) /\ UNCHANGED <<test, lib, barr, mem, children, masked, pending, sender, lost, file>>

(* Pipes. An end is open while a living process has it.                    *)
Open(fd) == \E q \in Everybody : state[q] = Alive /\ fd \in fds[q]
Ready(i) == data[i] # <<>> \/ ~Open(<<i, "w">>)
Others == <<names, children, masked, pending, sender, lost>>
DoPipe(p) ==
  /\ At(p, "pipe") /\ fds' = [fds EXCEPT ![p] = @ \cup {<<Op(p).pipe, "r">>, <<Op(p).pipe, "w">>}]
  /\ Advance(p) /\ UNCHANGED <<test, lib, barr, mem, Others, coe, data>>
CoeIgnored(p) ==                                                (* mutant *)
  /\ At(p, "coe") /\ Advance(p) /\ UNCHANGED <<test, lib, barr, mem, comm>>
DoCoe(p) ==
  /\ At(p, "coe") /\ coe' = coe \cup {Op(p).fd}
  /\ Advance(p) /\ UNCHANGED <<test, lib, barr, mem, Others, fds, data>>
DoClose(p) ==
  /\ At(p, "close") /\ fds' = [fds EXCEPT ![p] = @ \ {Op(p).fd}]
  /\ Advance(p) /\ UNCHANGED <<test, lib, barr, mem, Others, coe, data>>

(* A chunk of the file is smaller than PIPE_BUF and goes through whole.    *)
DoWrite(p) ==
  /\ At(p, "write")
  /\ IF Open(<<Op(p).pipe, "r">>)
     THEN data' = [data EXCEPT ![Op(p).pipe] = Append(@, Op(p).chunk)] /\ Advance(p)
     ELSE DiesOf(p, SIGPIPE) /\ UNCHANGED data
  /\ UNCHANGED <<test, lib, barr, mem, Others, fds, coe>>
(* What comes back must be what was sent; end of file is not.              *)
DoRead(p) ==
  LET i == Op(p).pipe IN
  /\ At(p, "read") /\ Ready(i)
  /\ IF data[i] # <<>> /\ Head(data[i]) = Op(p).chunk
     THEN Advance(p) ELSE CheckFails(p, EXIT_FAIL)
  /\ data' = [data EXCEPT ![i] = IF @ = <<>> THEN @ ELSE Tail(@)]
  /\ UNCHANGED <<test, lib, barr, mem, Others, fds, coe>>
(* A task of the chain reads, and leaves its loop at end of file.          *)
DoRelay(p) ==
  LET i == Op(p).pipe IN
  /\ At(p, "relay") /\ Ready(i)
  /\ pc' = [pc EXCEPT ![p] = @ + IF data[i] = <<>> THEN 2 ELSE 1]
  /\ reg' = [reg EXCEPT ![p] = IF data[i] = <<>> THEN @ ELSE Head(data[i])]
  /\ data' = [data EXCEPT ![i] = IF @ = <<>> THEN @ ELSE Tail(@)]
  /\ UNCHANGED <<test, state, failed, lib, barr, count, ledger, lock, Others, fds, coe>>
DoPassOn(p) ==
  /\ At(p, "pass on")
  /\ IF Open(<<Op(p).pipe, "r">>)
     THEN /\ data' = [data EXCEPT ![Op(p).pipe] = Append(@, reg[p])]
          /\ pc' = [pc EXCEPT ![p] = @ - 1] /\ UNCHANGED <<state, failed>>
     ELSE DiesOf(p, SIGPIPE) /\ UNCHANGED data
  /\ UNCHANGED <<test, lib, barr, mem, Others, fds, coe>>

-----------------------------------------------------------------------------
Step(p) ==
  \/ DoArgs(p) \/ DoCall(p) \/ DoSpawn(p) \/ SpawnRefused(p) \/ DoQueue(p) \/ DoFork(p)
  \/ (\E t \in Procs : Reap(p, t))
  \/ DoExit(p) \/ DoReturnErr(p) \/ DoRaise(p) \/ DoHooks(p) \/ DoAbort(p)
  \/ Enter(p) \/ Leave(p) \/ DoLock(p) \/ DoUnlock(p)
  \/ DoLoad(p) \/ DoStore(p) \/ DoAtomic(p) \/ DoAssign(p) \/ DoCount(p)
  \/ DoExport(p) \/ DoImport(p) \/ DoForkChild(p) \/ DoRecord(p) \/ DoWaitChild(p)
  \/ DoMask(p) \/ DoSender(p) \/ DoKill(p) \/ DoSigWait(p) \/ DoSenderIs(p)
  \/ DoTouch(p) \/ DoUnmap(p) \/ DoPipe(p) \/ DoCoe(p) \/ DoClose(p)
  \/ DoWrite(p) \/ DoRead(p) \/ DoRelay(p) \/ DoPassOn(p)

Faults == \/ \E p \in Procs : CallFaults(p) \/ SpawnFails(p) \/ ForkFails(p)
          \/ RootKilled(SIGKILL)

Progress == (\E p \in Procs : Step(p)) \/ AbortArrives \/ WatchdogKills

Next == Progress \/ Faults

(* The operating system always schedules some process that can go on; no   *)
(* program spins for ever, so this is all the fairness it takes.           *)
Spec == Init /\ [][Next]_vars /\ WF_vars(Progress)

-----------------------------------------------------------------------------
TypeOK ==
  /\ \A p \in Procs : pc[p] \in 1..(Len(Script(p)) + 1)
  /\ \A p \in Procs : state[p] \in {NotBorn, Alive} \cup AnyStatus \cup ({"queued"} \X Nat)
  /\ failed \subseteq Procs /\ reaped \subseteq Procs
  /\ err \in [Procs -> Nat]
  /\ {inited, fault} \subseteq BOOLEAN /\ aborting \in {"no", "called", "root"}
  /\ hooks \in [Tasks -> [set : BOOLEAN, before : Nat, after : Nat]]
  /\ inside \in [Procs -> BOOLEAN] /\ entered \in [Procs -> Nat]
  /\ count \in Int /\ ledger \in Int /\ reg \in [Procs -> Int]
  /\ {lock, sender} \subseteq Procs \cup {ANY}
  /\ masked \subseteq Procs /\ lost \subseteq Procs

=============================================================================

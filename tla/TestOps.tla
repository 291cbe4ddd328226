------------------------------- MODULE TestOps -------------------------------
(***************************************************************************)
(* The operations the test programs of the suite are made of. A program is *)
(* a script for each of its processes: a root, the PiP tasks (or threads)  *)
(* it spawns and, for programs that fork first, the root's parent.  A      *)
(* script is the sequence of operations a main function makes; TaskMachine *)
(* has one action for each.  A CHECK( call, condition, return(code) ) of   *)
(* the source is an operation with the results it accepts and the code the *)
(* process ends with otherwise.                                            *)
(***************************************************************************)
EXTENDS ExitCodes, SequencesExt

CONSTANTS ntasks,         (* tasks a program spawns                        *)
          niters          (* stands for its NITERS or NTIMES               *)

ASSUME TestOpsAssumption == ntasks \in Nat \ {0} /\ niters \in Nat \ {0}

Tasks  == 0..(ntasks - 1)
Root   == -1
Parent == -2
Procs  == Tasks \cup {Root, Parent}
Everybody == Tasks \cup {Root}
ANY    == -3
NoSuchPipid == -123

SIGINT  == 2
SIGABRT == 6
SIGKILL == 9
SIGUSR1 == 10
SIGSEGV == 11
SIGUSR2 == 12
SIGPIPE == 13

(* What a process is or was: the wait status of one that has ended.        *)
NotBorn     == <<"unborn", 0>>
Alive       == <<"alive", 0>>
Queued(q)   == <<"queued", q>>                    (* an inactive BLT task  *)
Exited(c)   == <<"exited", c>>
Signaled(s) == <<"signaled", s>>
AnyStatus   == {"exited", "signaled"} \X Nat

(* for( i=0; i<ntasks; i++ ) ..., for( i=0; i<niters; i++ ) ...            *)
EachTask(Body(_)) == FlattenSeq([k \in 1..ntasks |-> Body(k - 1)])
Times(Body(_))    == FlattenSeq([k \in 1..niters |-> Body(k - 1)])
ForEach(args, F(_)) == [k \in 1..Len(args) |-> F(args[k])]

(* A program without and with a process that forks the root.               *)
Program(name, root, Task(_)) ==
  [name |-> name, parent |-> <<>>, root |-> root, task |-> EachTask(LAMBDA t : <<Task(t)>>)]
Forking(name, parent, root, Task(_)) ==
  [Program(name, root, Task) EXCEPT !.parent = parent]

-----------------------------------------------------------------------------
(* ntasks from the arguments against NTASKS, the environment's or the      *)
(* compiled limit: a test that asks for too many is not run. The tasks of  *)
(* a program run with the root's arguments and environment and pass again. *)
Args == [do |-> "args"]

(* A call that returns at once, and the results that are right.            *)
Call(f, arg, expect) ==
  [do |-> "call", f |-> f, arg |-> arg, expect |-> expect, fail |-> EXIT_FAIL]
Ok == {"0"}
Refused(f, arg, e) == Call(f, arg, {e})
PipInit == Call("pip_init", [ntasks |-> "some", opts |-> "none", mode |-> "none"], Ok)
PipFin  == Call("pip_fin", ANY, Ok)
PipGet  == Call("pip_get", ANY, Ok)           (* pip_get_pipid and others *)
Libc    == Call("libc", ANY, Ok)
Initialized(b) == Call("pip_is_initialized", ANY, {b})

(* A spawn of task t. errs: errors the test allows, upon which it skips    *)
(* its wait. A BLT spawn names a queue: an inactive task stays in it until *)
(* an active one is spawned on it, which takes all of them along.          *)
Spawn(t)       == [do |-> "spawn", who |-> t, errs |-> {}, hooks |-> FALSE,
                   queue |-> -1, active |-> TRUE]
SpawnHooked(t) == [Spawn(t) EXCEPT !.hooks = TRUE]
SpawnMay(t, e) == [Spawn(t) EXCEPT !.errs = e]
BltSpawn(t, q, act) == [Spawn(t) EXCEPT !.queue = q, !.active = act]
QueueIs(q, empty) == [do |-> "queue", queue |-> q, empty |-> empty]
Fork     == [do |-> "fork"]
SpawnAll == EachTask(LAMBDA t : <<Spawn(t)>>)

(* A wait for one process or for any, blocking or polling until it         *)
(* returns: ok[t] are the statuses of t the test accepts, if it looks at   *)
(* them, sigfail its exit code for a signaled one it does not. The process *)
(* keeps the first non-zero exit status; a signal counts as sigval.        *)
Unchecked == {}
Wait(who, ok, sigfail) ==
  [do |-> "wait", who |-> who, ok |-> [t \in Procs |-> ok], sigfail |-> sigfail,
   sigval |-> EXIT_UNRESOLVED]
WaitAll == EachTask(LAMBDA t : <<Wait(t, Unchecked, EXIT_FAIL)>>)

(* The ends of a process: with one of some statuses, with the status kept  *)
(* (a code above the largest becomes EXIT_FAIL), by its own signal, by     *)
(* pip_abort, or never: while( 1 ) sleep( 1 ).                             *)
AnyCode == 255
Ends(statuses, how) == [do |-> "exit", statuses |-> statuses, how |-> how]
Return(c) == Ends({Exited(c)}, "return")
ReturnErr(largest) == [do |-> "return err", largest |-> largest]
Raise(sig) == [do |-> "raise", sig |-> sig]
Abort == [do |-> "abort"]
Sleep == [do |-> "sleep"]

(* The hook counters of all tasks are compared.                            *)
HooksAre(b, a) == [do |-> "hooks", before |-> b, after |-> a]

Barrier(parties) == [do |-> "barrier", parties |-> parties]

(* A lock; a plain C update of the shared counter, which reads and then    *)
(* writes it, an atomic one, an assignment, and CHECKs of its value.       *)
Lock      == [do |-> "lock"]
Unlock    == [do |-> "unlock"]
Plus(k)   == <<[do |-> "load"], [do |-> "store", inc |-> k]>>
Atomic(k) == <<[do |-> "atomic", inc |-> k]>>
Assign(v) == [do |-> "assign", val |-> v]
CountIs(v)    == [do |-> "count", val |-> v, not |-> FALSE]
CountIsNot(v) == [do |-> "count", val |-> v, not |-> TRUE]
Guarded(update) == <<Lock>> \o update \o <<Unlock>>

(* pip_named_export, and pip_named_import, which waits for the name.       *)
Export(n)    == [do |-> "export", name |-> n]
Import(q, n) == [do |-> "import", from |-> q, name |-> n]
Shares(t, name) == IF t = 0 THEN <<Export(name)>> ELSE <<Import(0, name)>>

(* A page of memory: mapped and told to the others, written, unmapped.     *)
Map      == Export("page")
Touch(q) == [do |-> "touch", owner |-> q]
Unmap    == [do |-> "unmap"]

(* Pipes and their two ends, which a spawned task inherits unless they are *)
(* marked close-on-exec. Relay: read( 0 ) and write( 1 ) until end of file.*)
Pipe(i)  == [do |-> "pipe", pipe |-> i]
Coe(fd)  == [do |-> "coe", fd |-> fd]
Close(fd) == [do |-> "close", fd |-> fd]
Write(i, chunk) == [do |-> "write", pipe |-> i, chunk |-> chunk]
Read(i, chunk)  == [do |-> "read", pipe |-> i, chunk |-> chunk]
Relay(i, o) == <<[do |-> "relay", pipe |-> i], [do |-> "pass on", pipe |-> o]>>

(* A fork(2) that is entered in a table of pids, and a wait(2), in a pool. *)
ForkChild(pool) == <<[do |-> "fork child", pool |-> pool], [do |-> "record", pool |-> pool]>>
WaitChild(pool) == [do |-> "wait child", pool |-> pool]

(* Blocking SIGUSR1 and SIGUSR2, sending one, waiting for one; the pipid   *)
(* the sender leaves in shared memory.                                     *)
Mask         == [do |-> "mask"]
Kill(q, sig) == [do |-> "kill", to |-> q, sig |-> sig]
SigWait(sig) == [do |-> "sigwait", sig |-> sig]
Sender       == [do |-> "sender"]
SenderIs(q)  == [do |-> "sender is", from |-> q]

-----------------------------------------------------------------------------
(* What the calls return that do not wait: ini says whether pip_init has   *)
(* succeeded in the root, un are the tasks it has spawned and not waited   *)
(* for.                                                                    *)
(* pip_init with a number of tasks and options. A task is initialised by   *)
(* the library and may call it again. mode is the environment's PIP_MODE.  *)
InitReturns(a, ini) ==
  CASE ini                                          -> {"EBUSY"}
    [] a.opts = "invalid" \/ a.ntasks = "zero"      -> {"EINVAL"}
    [] a.ntasks = "too big"                         -> {"EOVERFLOW"}
    [] a.opts = "preload" /\ a.mode \notin {"none", "preload"} -> {"EPERM"}
    [] a.opts = "got" /\ a.mode = "preload"         -> {"EPERM"}
    [] OTHER                                        -> Ok

FinReturns(p, ini, un) ==
  IF p # Root THEN Ok
  ELSE IF ~ini THEN {"EPERM"} ELSE IF un # {} THEN {"EBUSY"} ELSE Ok

(* The calls of the wait family that do not wait.                          *)
WaitReturns(p, who, un) ==
  CASE p # Root                     -> {"EPERM"}
    [] who = Root                   -> {"EDEADLK"}
    [] who \notin Tasks \cup {ANY}  -> {"ERANGE"}
    [] who = ANY /\ un # {}         -> Ok
    [] who \in un                   -> Ok
    [] OTHER                        -> {"ECHILD"}

(* Calls of pip_spawn and pip_task_spawn that must fail.                   *)
SpawnReturns(p, a, ini) ==
  CASE p # Root          -> {"EPERM"}
    [] ~ini              -> IF a = "no program" THEN {"EPERM", "EINVAL"} ELSE {"EPERM"}
    [] a = "not executable" -> {"EACCES"}
    [] OTHER             -> {"EINVAL"}

KillReturns(p, to) == IF to \notin Tasks THEN {"ERANGE"} ELSE {"ESRCH"}

Returns(p, f, a, ini, un) ==
  CASE f = "pip_init"  -> IF p = Root THEN InitReturns(a, ini) ELSE Ok
    [] f = "pip_fin"   -> FinReturns(p, ini, un)
    [] f = "pip_wait"  -> WaitReturns(p, a, un)
    [] f = "pip_spawn" -> SpawnReturns(p, a, ini)
    [] f = "pip_kill"  -> KillReturns(p, a)
    [] f = "pip_is_initialized" -> IF p # Root \/ ini THEN {"TRUE"} ELSE {"FALSE"}
    [] f = "pip_get_mode" -> {a}
    [] f = "pip_yield" -> {"0", "EINTR"}
    [] f \in {"pip_get", "libc"} -> Ok
    [] f = "pip_named_import" -> {"EDEADLK"}      (* of oneself, no such name *)

=============================================================================

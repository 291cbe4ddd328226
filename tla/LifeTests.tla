------------------------------ MODULE LifeTests ------------------------------
(***************************************************************************)
(* The programs of basics/ that test the life of a PiP task (pip_init,     *)
(* pip_spawn, the wait family, the ways to end, pip_abort, pip_fin) and    *)
(* the launchers of utils/, as scripts.                                     *)
(* Where the source chooses by the version of the PiP library the branch   *)
(* of version 2 (minor 4) is taken.                                        *)
(***************************************************************************)
EXTENDS TestOps

(* The status of a task that sends itself a signal, 0 being none.          *)
Ended(sig) == IF sig = 0 THEN Exited(0) ELSE Signaled(sig)

-----------------------------------------------------------------------------
(* The wait family: illegal calls, then a task or any task, until it ends  *)
(* by itself or by the signal it sends itself.                             *)
Waiter(name, refusals, who, again, last, sig, twice) ==
  Program(name,
    <<Args, PipInit>> \o refusals \o SpawnAll
      \o EachTask(LAMBDA t : <<Wait(who[t], {Ended(sig)}, EXIT_FAIL)>> \o again[t])
      \o last \o <<PipFin, Return(0)>>,
    LAMBDA t :
      <<PipInit, Barrier(Tasks), Refused("pip_wait", who[0], "EPERM"), Raise(sig)>>
        \o twice \o <<PipFin, Return(0)>>)

SelfWait == Refused("pip_wait", Root, "EDEADLK")
NoChild(who) == Refused("pip_wait", who, "ECHILD")
InOrder == [t \in Tasks |-> t]
AnyTask == [t \in Tasks |-> ANY]
Once    == [t \in Tasks |-> <<>>]

PipWait(sig) ==
  Waiter("pip_wait", <<SelfWait, NoChild(0)>>, InOrder, [t \in Tasks |-> <<NoChild(t)>>], <<>>,
         sig, <<Refused("pip_wait", 0, "EPERM")>>)
PipWaitAny(sig) ==
  Waiter("pip_wait_any", <<SelfWait, NoChild(ANY)>>, AnyTask, Once, <<NoChild(ANY)>>,
         sig, <<Refused("pip_wait", ANY, "EPERM")>>)
PipTrywait(sig) ==
  Waiter("pip_trywait", <<SelfWait, NoChild(0)>>, InOrder, Once, <<>>, sig, <<>>)
PipTrywaitAny(sig) ==
  Waiter("pip_trywait_any", <<NoChild(ANY)>>, AnyTask, Once, <<NoChild(ANY)>>, sig, <<>>)

-----------------------------------------------------------------------------
(* end.c: the ways a root and its tasks end, and the hooks around a task.  *)
Endings == ForEach(<<"return", "exit", "pip_exit", "_exit">>, LAMBDA h : [how |-> h, fin |-> FALSE])
  \o ForEach(<<"return", "exit", "pip_exit", "_exit">>, LAMBDA h : [how |-> h, fin |-> TRUE])
choice(end) == (IF end.fin THEN <<PipFin>> ELSE <<>>) \o <<Ends({Exited(0)}, end.how)>>
check(tk) == HooksAre(1, IF tk.how = "_exit" THEN 0 ELSE 1)
EndTest(rt, tk) ==
  Program("end",
    <<Args, PipInit>>
      \o EachTask(LAMBDA t : <<SpawnHooked(t), Wait(ANY, {Exited(0)}, EXIT_UNRESOLVED)>>)
      \o <<check(tk)>> \o choice(rt),
    LAMBDA t : <<PipInit>> \o choice(tk))

PipFinTest ==
  Program("pip_fin",
          <<Refused("pip_fin", ANY, "EPERM"), PipInit, Spawn(0),
            Refused("pip_fin", ANY, "EBUSY"), Wait(0, Unchecked, EXIT_FAIL),
            PipFin, Refused("pip_fin", ANY, "EPERM"), Return(EXIT_PASS)>>,
          LAMBDA t : <<PipFin, Return(0)>>)

(* Spawns that must fail, in every state of the library, and one that not. *)
BadSpawn(arg, e) == Refused("pip_spawn", arg, e)
PipSpawn ==
  Program("pip_spawn",
          <<BadSpawn("program", "EPERM"), PipInit, BadSpawn("no program", "EINVAL")>>
            \o [i \in 1..2 |-> BadSpawn("bad core", "EINVAL")]
            \o [i \in 1..3 |-> BadSpawn("bad pipid", "EINVAL")]
            \o <<Spawn(0), Refused("pip_wait", NoSuchPipid, "ERANGE"),
                 Wait(0, Unchecked, EXIT_FAIL), ReturnErr(AnyCode)>>,
          LAMBDA t : <<BadSpawn("program", "EPERM"), PipInit, BadSpawn("program", "EPERM"),
                       PipFin, Return(EXIT_PASS)>>)

(* The first task compares its pipid with a variable nobody has set, and   *)
(* its status is not looked at.                                            *)
static_user_func(t) ==
  <<PipGet, PipInit, PipGet, IF t = 0 THEN Ends({Exited(0), Exited(1)}, "return") ELSE Return(0)>>
PipTaskSpawn ==
  Program("pip_task_spawn",
          <<Call("pip_spawn", "no program", {"EPERM", "EINVAL"}),
            BadSpawn("program", "EPERM"), BadSpawn("program", "EPERM"), PipInit,
            BadSpawn("no program", "EINVAL"), BadSpawn("empty program", "EINVAL"),
            Spawn(0), Wait(0, Unchecked, EXIT_FAIL),
            Spawn(ntasks - 1), Wait(ntasks - 1, {Exited(0)}, EXIT_UNRESOLVED),
            PipFin, Return(EXIT_PASS)>>,
          static_user_func)

(* Programs built in several ways: some may be refused, the rest must run, *)
(* each as task 0 again.                                                   *)
wait_termination == Wait(ANY, {Exited(0)}, EXIT_FAIL)
SpawnPie ==
  Program("spawn_pie",
          <<PipInit, BadSpawn("not executable", "EACCES"),
            SpawnMay(0, {"ELIBEXEC"}), wait_termination,
            Spawn(0), wait_termination,
            SpawnMay(0, {"ENOENT"}), wait_termination,
            SpawnMay(0, {"ELIBBAD"}), wait_termination,
            Spawn(0), wait_termination, Spawn(0), wait_termination,
            PipFin, Return(EXIT_PASS)>>,
          LAMBDA t : <<Return(0)>>)

(* Each task reads an integer of the root's through its aux pointer.       *)
PipAux ==
  Program("pip_aux",
          <<Args, PipInit, Libc>> \o SpawnAll
            \o EachTask(LAMBDA t : <<Wait(t, {Exited(0)}, EXIT_UNRESOLVED)>>)
            \o <<PipFin, Return(EXIT_PASS)>>,
          LAMBDA t : <<PipGet, PipGet, Return(0)>>)

(* The first half of the tasks is bound to cores by pip_spawn, the rest    *)
(* inherits the binding of the root. After a signaled task the source goes *)
(* on to pip_fin, which is refused (EXIT_FAIL) while others are left.      *)
corebind ==
  LET half == IF ntasks < 2 THEN 1 ELSE ntasks \div 2 IN
  Program("corebind",
          <<Args, Libc, PipInit>>
            \o EachTask(LAMBDA t : IF t < half THEN <<Spawn(t)>>
                                   ELSE <<[Libc EXCEPT !.fail = EXIT_UNRESOLVED], Spawn(t)>>)
            \o EachTask(LAMBDA t : <<Wait(ANY, {Exited(0)},
                            IF t = ntasks - 1 THEN EXIT_UNRESOLVED ELSE EXIT_FAIL)>>)
            \o <<PipFin, Return(0)>>,
          LAMBDA t : <<Libc, PipInit, Libc, Libc, PipFin, Return(0)>>)

(* pip_exit.c, exit.c, return.c, prog.c: programs that only end.           *)
PipExit    == <<PipInit, Ends({Exited(EXIT_PASS)}, "pip_exit")>>
ExitProg   == <<Ends({Exited(0)}, "exit")>>
ReturnProg == <<Return(0)>>
prog       == <<Return(0)>>
Alone(main) == Program("alone", main, LAMBDA t : prog)

-----------------------------------------------------------------------------
(* pip_init.c: one function per argument. mode is the environment's        *)
(* PIP_MODE, "none" when it is not set.                                    *)
Modes == <<"none", "pthread", "preload", "pipclone", "got">>
InitCall(nt, opts, mode, e) ==
  Call("pip_init", [ntasks |-> nt, opts |-> opts, mode |-> mode], {e})

test_pip_init == <<Initialized("FALSE"), PipInit, Initialized("TRUE")>>
test_pip_init_null(mode) ==
  <<InitCall("some", "none", mode, "0")>>
    \o IF mode = "none" THEN <<>> ELSE <<Call("pip_get_mode", mode, {mode})>>
test_pip_init_preload(mode) ==
  <<InitCall("some", "preload", mode, IF mode \in {"none", "preload"} THEN "0" ELSE "EPERM")>>
test_pip_init_got(mode) ==
  <<InitCall("some", "got", mode, IF mode = "preload" THEN "EPERM" ELSE "0")>>
test_twice         == <<PipInit, InitCall("some", "none", "none", "EBUSY")>>
test_ntask_is_zero == <<InitCall("zero", "none", "none", "EINVAL")>>
test_ntask_too_big == <<InitCall("too big", "none", "none", "EOVERFLOW")>>
test_invalid_opts  == <<InitCall("zero", "invalid", "none", "EINVAL")>>
test_both_pthread_process == <<InitCall("zero", "invalid", "none", "EINVAL")>>
test_both_preload_clone   == <<InitCall("zero", "invalid", "none", "EINVAL")>>
test_pip_task_unset == <<PipInit, Spawn(0), Wait(0, Unchecked, EXIT_FAIL), PipFin>>
test_pip_child_task == <<PipInit, PipFin>>

PipInitNames ==
  <<"", "null", "preload", "got", "twice", "ntask_is_zero", "ntask_too_big", "invalid_opts",
   "both_pthread_process", "both_preload_clone", "pip_task_unset", "pip_child_task", "unknown">>
PipInitTest(name, mode) ==
  LET body ==
    CASE name = ""                     -> test_pip_init
      [] name = "null"                 -> test_pip_init_null(mode)
      [] name = "preload"              -> test_pip_init_preload(mode)
      [] name = "got"                  -> test_pip_init_got(mode)
      [] name = "twice"                -> test_twice
      [] name = "ntask_is_zero"        -> test_ntask_is_zero
      [] name = "ntask_too_big"        -> test_ntask_too_big
      [] name = "invalid_opts"         -> test_invalid_opts
      [] name = "both_pthread_process" -> test_both_pthread_process
      [] name = "both_preload_clone"   -> test_both_preload_clone
      [] name = "pip_task_unset"       -> test_pip_task_unset
      [] name = "pip_child_task"       -> test_pip_child_task
      [] OTHER                         -> <<Return(EXIT_FAIL)>>
  IN Program("pip_init", Append(body, Ends({Exited(EXIT_PASS)}, "pip_exit")),
             LAMBDA t : <<PipInit, PipFin, Ends({Exited(EXIT_PASS)}, "pip_exit")>>)

-----------------------------------------------------------------------------
(* pip_abort.c: the root (target < 0), one task or all of them (target >=  *)
(* ntasks) abort; the parent wants the root's SIGABRT. When all of them do *)
(* the root takes none of their SIGABRTs for right (line 100).             *)
AbortWait(target) ==
  [Wait(ANY, {Exited(0)}, EXIT_FAIL) EXCEPT
     !.ok = [t \in Procs |-> IF t = target THEN {Signaled(SIGABRT)} ELSE {Exited(0)}]]
PipAbort(target) ==
  Forking(IF target >= ntasks THEN "pip_abort all" ELSE "pip_abort",
    <<Args, Fork, Wait(Root, {Signaled(SIGABRT)}, EXIT_FAIL), Return(EXIT_PASS)>>,
    <<PipInit>> \o SpawnAll \o <<Barrier(Tasks \cup {Root})>>
      \o (IF target < 0 THEN <<AbortWait(target), Abort>>
          ELSE EachTask(LAMBDA t : <<AbortWait(target)>>) \o <<NoChild(ANY), Sleep>>),
    LAMBDA t : <<PipInit, Barrier(Tasks \cup {Root})>>
                 \o IF t = target \/ target >= ntasks THEN <<Abort>>
                    ELSE <<PipFin, Return(EXIT_PASS)>>)

-----------------------------------------------------------------------------
(* The launchers, for a program whose tasks end in any way.                *)
Outcomes == {Exited(0), Exited(EXIT_FAIL), Exited(EXIT_UNSUPPORTED), Exited(99), Signaled(SIGSEGV)}
AnyEnd == [t \in Tasks |-> <<Ends(Outcomes, "return")>>]

(* pip_task: a code that is not one of the suite's becomes EXIT_FAIL.      *)
spawn_tasks ==
  <<[PipInit EXCEPT !.fail = EXIT_UNTESTED]>> \o SpawnAll \o WaitAll
    \o <<PipFin, ReturnErr(EXIT_KILLED)>>
pip_task(name, task) ==
  Forking(name,
    <<Args, Fork, [Wait(Root, Unchecked, EXIT_FAIL) EXCEPT !.sigval = EXIT_FAIL],
      ReturnErr(AnyCode)>>,
    spawn_tasks, LAMBDA t : task[t])

(* pip_blt: the inactive tasks go round the queues, then each active task  *)
(* takes one queue.                                                        *)
pip_blt(name, nacts, task) ==
  LET npass == ntasks - nacts IN
  Program(name,
    <<Args, PipInit>>
      \o FlattenSeq([k \in 1..npass |-> LET q == (k - 1) % nacts IN
                       <<BltSpawn(k - 1, q, FALSE), QueueIs(q, FALSE)>>])
      \o FlattenSeq([k \in 1..nacts |->
                       <<BltSpawn(npass + k - 1, k - 1, TRUE), QueueIs(k - 1, TRUE)>>])
      \o WaitAll \o <<PipFin, ReturnErr(AnyCode)>>,
    LAMBDA t : task[t])

(* pip_misc.c, run by pip_task: a task may call the getters of the library *)
(* (here one call for each group of them) before pip_init.                 *)
pip_misc ==
  pip_task("pip_misc", [t \in Tasks |->
    <<Initialized("TRUE"), PipGet, PipInit, Initialized("TRUE"), PipGet, Libc, PipFin,
      Return(EXIT_PASS)>>])

-----------------------------------------------------------------------------
(* The runs of the test lists: every ending, PIP_MODE, target and division *)
(* of the tasks into active and inactive ones.                             *)
LifeScripts ==
  FlattenSeq(ForEach(<<0, SIGINT>>,
               LAMBDA s : <<PipWait(s), PipWaitAny(s), PipTrywait(s), PipTrywaitAny(s)>>))
    \o FlattenSeq(ForEach(Endings, LAMBDA rt : ForEach(Endings, LAMBDA tk : EndTest(rt, tk))))
    \o FlattenSeq(ForEach(PipInitNames,
                   LAMBDA n : ForEach(Modes, LAMBDA m : PipInitTest(n, m))))
    \o [k \in 1..(ntasks + 2) |-> PipAbort(k - 2)]
    \o [k \in 1..ntasks |-> pip_blt("pip_blt", k, AnyEnd)]
    \o ForEach(<<PipExit, ExitProg, ReturnProg, prog>>, Alone)
    \o <<pip_task("pip_task", AnyEnd), PipFinTest, PipSpawn, PipTaskSpawn, SpawnPie,
         PipAux, corebind, pip_misc>>

=============================================================================

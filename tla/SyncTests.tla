------------------------------ MODULE SyncTests ------------------------------
(***************************************************************************)
(* The programs that test how tasks or threads share things: barriers,     *)
(* locks and atomic counters (porting/, pthread/, blt/), named exports, a  *)
(* ring of signals (basics/) and fork(2) in tasks (compat/), as scripts.   *)
(***************************************************************************)
EXTENDS LifeTests

InTurn    == EachTask(LAMBDA t : <<Barrier(Everybody)>>)   (* to print one by one *)

-----------------------------------------------------------------------------
(* porting/: threads that add and subtract their own increment.            *)
atomic ==
  Program("atomic",
          SpawnAll \o <<Barrier(Everybody), Barrier(Everybody)>> \o InTurn \o WaitAll
            \o <<CountIs(0), Return(0)>>,
          LAMBDA t :
            <<Barrier(Everybody)>>
              \o Times(LAMBDA i : Atomic(t + 20) \o Atomic(-(t + 20)))
              \o <<Barrier(Everybody)>> \o InTurn \o <<Return(0)>>)

(* The programs with the most lock steps get two threads or tasks, which   *)
(* are enough for a lost update.                                           *)
nthreads == IF ntasks < 2 THEN ntasks ELSE 2
EachThread(op(_)) == [k \in 1..nthreads |-> op(k - 1)]
Join(t) == Wait(t, Unchecked, EXIT_FAIL)
Meet    == Barrier((0..(nthreads - 1)) \cup {Root})

(* Without the lock first, when the sum must come out wrong, then with it. *)
spinlock ==
  LET in_turn == EachThread(LAMBDA t : Meet) IN
  Program("spinlock",
          EachThread(Spawn)
            \o <<Assign(0), Meet, Meet, CountIsNot(0), Assign(0), Meet, Meet>> \o in_turn
            \o EachThread(Join) \o <<CountIs(0), Return(0)>>,
          LAMBDA t :
            <<Meet>> \o Times(LAMBDA i : Plus(t + 10) \o Plus(-(t + 10))) \o <<Meet, Meet>>
              \o Times(LAMBDA i : Guarded(Plus(t + 10)) \o Guarded(Plus(-(t + 10))))
              \o <<Meet>> \o in_turn \o <<Return(0)>>)

-----------------------------------------------------------------------------
(* pthread/.                                                               *)
pthread_mutex ==
  LET work == Times(LAMBDA i : Guarded(Plus(1))) IN
  Program("pthread_mutex",
          <<PipInit, Assign(0)>> \o EachThread(Spawn) \o <<Meet>> \o work \o EachThread(Join)
            \o <<CountIs(niters * (nthreads + 1)), PipFin, Return(0)>>,
          LAMBDA t : <<PipInit, Meet>> \o work \o <<PipFin, Return(0)>>)

pthread_barrier ==
  Program("pthread_barrier",
          SpawnAll \o WaitAll \o <<Return(0)>>,
          LAMBDA t : Times(LAMBDA i : <<Barrier(Tasks)>>) \o <<Return(0)>>)

(* niters rounds of threads, each joined before the next; with BARRIER the *)
(* threads of a round meet.                                                *)
pthread_exit(meet) ==
  Program("pthread_exit",
          Times(LAMBDA i : SpawnAll \o WaitAll) \o <<Return(0)>>,
          LAMBDA t : (IF meet THEN <<Barrier(Tasks)>> ELSE <<>>) \o <<Return(0)>>)

(* Tasks of pip_task; the threads a task then creates and joins touch      *)
(* nothing shared.                                                         *)
pthread == pip_task("pthread", [t \in Tasks |-> <<PipGet>> \o Shares(t, "barrier") \o <<Barrier(Tasks), Return(0)>>])

-----------------------------------------------------------------------------
(* blt/, run by pip_blt: task 0 owns what the others import.               *)
pip_mutex(nacts) ==
  pip_blt("pip_mutex", nacts, [t \in Tasks |->
    <<PipInit>> \o Shares(t, "MUTEX") \o Shares(t, "BARRIER")
      \o (IF t = 0 THEN <<Assign(0)>> ELSE <<>>) \o Shares(t, "COUNT")
      \o <<Barrier(Tasks)>> \o Times(LAMBDA i : Guarded(Plus(1))) \o <<Barrier(Tasks)>>
      \o (IF t = 0 THEN <<CountIs(ntasks * niters)>> ELSE <<>>) \o <<PipFin, Return(0)>>])

blt_barrier(nacts) ==
  pip_blt("blt/pip_barrier", nacts, [t \in Tasks |->
    <<PipInit>> \o Shares(t, "BARRIER")
      \o (IF t = 0 THEN <<Assign(0)>> ELSE <<>>) \o Shares(t, "COUNT")
      \o Times(LAMBDA i : <<CountIs(i), Barrier(Tasks)>>
                            \o (IF i % ntasks = t THEN Plus(1) ELSE <<>>) \o <<Barrier(Tasks)>>)
      \o (IF t = 0 THEN <<CountIs(niters)>> ELSE <<>>) \o <<PipFin, Return(EXIT_PASS)>>])

(* pip_yield() may also be interrupted.                                    *)
pip_yield(nacts) ==
  pip_blt("pip_yield", nacts, [t \in Tasks |->
    <<PipInit>> \o Times(LAMBDA i : <<Call("pip_yield", ANY, {"0", "EINTR"})>>)
      \o <<PipFin, Return(0)>>])

-----------------------------------------------------------------------------
(* basics/pip_namexp.c: a counter of task 0 goes round the ring of tasks,  *)
(* forward and backward, each task adding one. A task's own name is found  *)
(* at once when it is exported and never when it is not.                   *)
Forward(i)  == <<"forward", i>>
Backward(i) == <<"backward", i>>
Around(t, name, from) ==
  IF t = 0 THEN <<Assign(1), Export(name), Import(from, name), CountIs(ntasks)>>
  ELSE <<Import(from, name)>> \o Plus(1) \o <<Export(name)>>
pip_namexp ==
  LET prev(t) == (t - 1) % ntasks
      next(t) == (t + 1) % ntasks
  IN pip_task("pip_namexp", [t \in Tasks |->
       <<PipInit, Refused("pip_named_import", t, "EDEADLK"),
         Export(<<"must be found", 0>>), Import(t, <<"must be found", 0>>)>>
         \o Shares(t, <<"barrier", 0>>) \o <<Barrier(Tasks)>>
         \o Times(LAMBDA i : Around(t, Forward(i), prev(t)) \o Around(t, Backward(i), next(t)))
         \o <<Barrier(Tasks), PipFin, Return(EXIT_PASS)>>])

(* basics/pip_kill.c: a signal goes round the ring of the root and all     *)
(* tasks, every one having blocked it before the barrier.                  *)
BadKill(to, errs) == Call("pip_kill", to, errs)
wait_signal_root(sig) == <<Sender, Kill(0, sig), SigWait(sig), SenderIs(ntasks - 1)>>
wait_signal_task(t, sig) ==
  <<SigWait(sig), SenderIs(IF t = 0 THEN Root ELSE t - 1), Sender,
    Kill(IF t = ntasks - 1 THEN Root ELSE t + 1, sig)>>
block_sigusrs == Mask
pip_kill ==
  Program("pip_kill",
    <<Args, PipInit, block_sigusrs, BadKill(NoSuchPipid, {"ERANGE", "EINVAL"}),
      BadKill(ntasks, {"ERANGE", "EINVAL"}), BadKill(0, {"ESRCH"})>>
      \o SpawnAll \o <<Barrier(Everybody)>>
      \o Times(LAMBDA i : wait_signal_root(SIGUSR1) \o wait_signal_root(SIGUSR2))
      \o <<Barrier(Everybody)>>
      \o EachTask(LAMBDA t : <<Wait(t, {Exited(0)}, EXIT_UNRESOLVED)>>)
      \o <<PipFin, Return(0)>>,
    LAMBDA t :
      <<PipInit, block_sigusrs, BadKill(NoSuchPipid, {"ERANGE"}), BadKill(ntasks, {"ERANGE"}),
        Barrier(Everybody)>>
        \o Times(LAMBDA i : wait_signal_task(t, SIGUSR1) \o wait_signal_task(t, SIGUSR2))
        \o <<Barrier(Everybody), PipFin, Return(0)>>)

(* compat/fork.c: every task forks niters children and waits for as many;  *)
(* nobody waits before all have forked, and task 0, which owns the table   *)
(* of pids, ends last.                                                     *)
ImportAll(name)  == [k \in 1..(ntasks - 1) |-> Import(k, name)]
fork(threaded) ==
  pip_task("fork", [t \in Tasks |->
    LET pool == IF threaded THEN 0 ELSE t IN
    <<PipGet>> \o Shares(t, "FORKED") \o Times(LAMBDA i : ForkChild(pool))
      \o (IF t = 0 THEN ImportAll("forked") \o <<Export("CHECK")>>
          ELSE <<Export("forked"), Import(0, "CHECK")>>)
      \o Times(LAMBDA i : <<WaitChild(pool)>>)
      \o (IF t = 0 THEN ImportAll("DONE") ELSE <<Export("DONE")>>) \o <<Return(0)>>])

(* compat/pagefault.c: everybody writes to everybody's page, between the   *)
(* barriers.                                                               *)
pagefault ==
  LET touches(t) == [k \in 1..(ntasks - t) |-> Touch(t + k - 1)] \o <<Touch(Root)>>
                      \o [k \in 1..t |-> Touch(k - 1)]
  IN Program("pagefault",
       <<Args, PipInit, Map>> \o SpawnAll \o <<Barrier(Everybody)>> \o touches(0)
         \o <<Barrier(Everybody)>> \o WaitAll \o <<Unmap, PipFin, Return(0)>>,
       LAMBDA t :
         <<PipInit, Map, Barrier(Everybody)>> \o touches(t)
           \o <<Barrier(Everybody), Unmap, PipFin, Return(0)>>)

(* cxx/cxx.cc: every task checks and deletes the objects it made itself.   *)
New == [Libc EXCEPT !.fail = EXIT_UNTESTED]
cxx ==
  Program("cxx",
          <<New, PipInit>> \o SpawnAll \o WaitAll \o <<PipFin, Return(0)>>,
          LAMBDA t : <<New, PipInit, Libc, PipGet, PipFin, Return(0)>>)

(* basics/hook_and_coe.c: a chain of tasks from the root to the root; the  *)
(* before hook makes a pipe's reading end a task's stdin and the next      *)
(* one's writing end its stdout. It inherits the other ends as well, but   *)
(* for the two the root itself uses.                                       *)
hook_and_coe ==
  LET into == <<0, "w">>  outof == <<ntasks, "r">> IN
  Program("hook_and_coe",
          <<Args, PipInit, Pipe(0), Coe(into)>>
            \o [k \in 1..(ntasks - 1) |-> Pipe(k)] \o <<Pipe(ntasks), Coe(outof)>>
            \o EachTask(LAMBDA t : <<SpawnHooked(t), Close(<<t, "r">>), Close(<<t + 1, "w">>)>>)
            \o <<Libc>> \o Times(LAMBDA i : <<Write(0, i), Read(ntasks, i)>>)
            \o <<Libc, Close(into), Close(outof)>> \o WaitAll \o <<Return(0)>>,
          LAMBDA t : <<PipInit>> \o Relay(t, t + 1)
                       \o <<Close(<<t, "r">>), Close(<<t + 1, "w">>), Return(0)>>)

-----------------------------------------------------------------------------
SyncScripts ==
  <<pip_mutex(1), pip_mutex(ntasks)>> \o [k \in 1..ntasks |-> blt_barrier(k)]
    \o [k \in 1..ntasks |-> pip_yield(k)]
    \o <<pagefault, cxx, hook_and_coe, fork(TRUE), fork(FALSE), pthread_exit(TRUE), pthread_exit(FALSE), atomic, spinlock,
         pthread_mutex, pthread_barrier, pthread, pip_namexp, pip_kill>>

=============================================================================

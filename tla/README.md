# A TLA+ model of the PiP test suite

The PiP test suite tests the Process-in-Process (PiP) library: a runner
(`test.sh`) walks lists of test commands, runs each command in the execution
modes of the library, decodes the exit statuses and gives a verdict; a watchdog
(`utils/timer`) keeps tests from hanging; `loop.sh` repeats one test; and the
tests themselves are small multi-process programs that use the library. The
library is not part of the repository; where a test uses it, the model states
what the call promises and marks it external.

The models are about the suite, not about the library: can a result get lost,
can a failed test be reported as passed, can a run fail to end, and can a test
program fail although the library is right?

## Inventory

| component | state it keeps | operations | hard behaviour | what makes it correct |
|---|---|---|---|---|
| exit codes (`exit_code.sh.inc`, `include/test.h`) | none | decode a status, count it, give the verdict | boundary of the threshold | PASS only when it is earned |
| `test.sh` | counters (shell variables), `sum_file`, XML log, position in the list, modes | start, skip, `%include`, run a test in each mode, finish, Control-C | the counters move between nested processes through a file; a child may stop early; Control-C reaches all of them | no result lost or counted twice; verdict and XML agree with what ran; every line reached; the run ends |
| `utils/timer.c` | seconds left, `timedout`, the alarm, the child's pid | fork, arm, alarm handler, `cleanup()`, wait, report | the handler interrupts the main flow anywhere; child and alarm race; pid reuse after wait | the status is the test's own; a hang is ended; a pid that is no longer the test's is not killed |
| `loop.sh` | iteration, error count, `ext`, TMP file, log | run, check, limits, finalize, traps | `$?` read too late; two limits; log kept or removed | errors stop the loop and keep their output |
| `utils/pip_task.c`, `pip_blt.c` | exit statuses of the tasks | fork, spawn loop, wait loop | one of several tasks or spawns failing | first failure is returned |
| `utils/OK`, `NG`, `skip`, `path-*.sh` | none | map an exit status | boundary values, undefined shell variables | expected failures become PASS and nothing else |
| environment probes (`clone_check`, `check_ptrace`, `dlmopen_count`, `ompnumthread`, `pip_mode_check`) | none | one probe each | none | inputs of the runner |
| barrier tests (`basics/pip_barrier.c`, `pip_barrier2.c`, `blt/pip_barrier.c`) | shared counter, loop variable of each task | two waits and one increment per round | increments without a lock, parties a round apart | no comparison fails, the test ends |
| shared file offset (`basics/seek.c`) | one file offset used by all | barriers, write or read one record, lseek | access out of turn, short reads and writes | records in order, each read by its owner |
| hand-over tests (`pip_kill.c`, `pip_namexp.c`, `malloc-x.c`, `realloc-x.c`, `memalign-x.c`) | pending signals, exported names, memory slots | take the token, use it, pass it on | out-of-turn access, lost signals | every task gets exactly its own record |
| life-cycle tests (`pip_init.c`, `pip_spawn.c`, `end.c`, `pip_wait*.c`, `pip_trywait*.c`, `hook_and_coe.c`, `pip_abort.c`) | task table of the library | spawn, the ways to end, wait | order of ends, waiting twice | each end is reported once, with its status |
| lock tests (`spinlock.c`, `atomic.c`, `pthread_mutex.c`, `pip_mutex.c`) | a counter under a lock | lock, add, unlock | trylock failing spuriously | no update lost |
| BLT tests (`pip_couple.c`, `migrate.c`, `pip_yield.c`) | scheduling queues of the library | couple, decouple, yield | the library's scheduler | needs a model of it |
| pthread tests (`pthread.c`, `pthread_exit.c`, `pthread_barrier.c`) | thread barriers and counters inside tasks | create, join, wait | threads of several tasks at once | all threads end and are joined |
| libc tests (`fork.c`, `pagefault.c` and single calls) | children, pages | fork and wait, map and unmap | `wait` returns another task's child; unmapping too early | each child counted once, no fault |
| pips, debugger, compiler and other language tests; build files | almost none | call one thing and compare | external tools | not modelled |

How they interact: `test.sh` runs `pip-mode -X <test>`; the test command is
usually `timer N pip_task M prog`, often behind `OK` or `NG`; each of these
passes an exit status of the common vocabulary upwards. `test.sh` runs itself
for `%include` and shares `sum_file` and the XML log with the child.

## Modules

| module | models | state and actions |
|---|---|---|
| `ExitCodes` | `exit_code.sh.inc`, `test.h`, decoding and verdict of `test.sh` | operators only |
| `TestLedger` | what a whole run of `test.sh` promises | counters and exit status; `Record`, `Finish`, `GiveUp` |
| `TestRunner` | `test.sh` | `frames` is the stack of nested invocations, each with its list, line, modes, modes left for the current test and counters; `sumFile`/`sumExists` the hand-over file; `xml` the testcases in the log by kind; `tally`, `ran`, `started`, `refused` are history |
| `Timer` | `utils/timer.c`, `sigint_watcher` of `test.h` | `pc` the main flow, `hpc` `cleanup()` running in the handler (main stands still meanwhile), `target` the life of the child, `grouped` whether it has its own process group, `others` whether processes it forked (`TestForks`) live there; `intr`, `ticks`, `missed`, `badKill`, `outlived` are history |
| `LoopRunner` | `loop.sh` | `opt` the command line, `todo` the modes left in this iteration, `ext` the script's copy of the status, `tmp`/`logfile` the two files; `last`, `failed`, `intr` are history |
| `BarrierTest` | `basics/pip_barrier.c`, `pip_barrier2.c` (`joins`) | position, loop variable and number of waits entered of each party; `count++` is a load and a store |
| `SeekTest` | `basics/seek.c` | place, loop, iteration `i` and barrier `ii` of each party; `file` and the shared `offset`; a record is two pieces, because `read` and `write` may be short |
| `TestOps` | the calls the test programs are made of | operators only: one per kind of call, with the results its `CHECK` accepts |
| `LifeTests` | `pip_task.c`, `pip_blt.c` and the life-cycle tests of `basics/` | one script per program and set of arguments |
| `SyncTests` | lock, barrier, pthread, hand-over, fork, page, pipe and C++ tests | the same |
| `ScriptShape` | | what the scripts have in common (`WellFormed`), and what it takes for one to keep its updates apart (`Protected`), to look at every status (`Vigilant`), to be a launcher (`Launcher`), a ring of signals (`Ring`) |
| `ScriptOrder` | | what barriers and names put in order in a script: what comes before what (`Follows`), that updates take turns (`InTurns`), which steps cannot fail (`Sure`), that task 0 outlives the use of what it owns (`OutlivesUse`) |
| `TaskMachine` | the processes that run a script and the library they call | `pc`, `state` and `err` of each process; task table, barrier, counter, lock, names, children, signals and pipes; one action per kind of operation, faults, `pip_abort`, the watchdog |
| `TestPrograms` | | the properties of all these programs |
| `Slots` | `compat/malloc-x.c`, `realloc-x.c`, `memalign-x.c` | `pc`, round `i` and slot `n` of each task; `region`, `who`, `lock` of each slot; `count`; `live` is the heap |
| `MC*` | | values of the constants for TLC |
| `TestRunnerProofs`, `TimerProofs`, `LoopRunnerProofs`, `BarrierTestProofs`, `SeekTestProofs`, `SlotsProofs`, `TestProgramsProofs`, `TestResultsProofs` | | theorems |

Names follow the source. In `TestRunner` one step is one line of a list, one
start or end of an invocation, or one test in one mode; everything the script
does there (decode, count, XML entry, `break 2`) is part of the step. A shell
runs its trap when the foreground command has ended, so `Interrupt` only makes
Control-C pending (`At` is then false) and `Cleanup` is the trap of the
innermost invocation.  `Usage` and `Start` choose what `clone_check` and
`pip_mode_check` answer anew for each invocation, as the script asks anew.
In `Timer` the whole of `timer_watcher` up to `cleanup()` is one step, because
nothing else of `timer` runs meanwhile; `cleanup()` is four steps because the
child goes on. A process group lives as long as it has a member: the child, also
as a zombie, or the processes it has forked and left behind (`GroupExists`). They
may end at any time (`OthersEnd`), of a signal or by themselves. A `wait()` that
fails is left out: it needs a child that somebody else has reaped. The scaling of the time by debug build, container and environment
is the choice of `time` in `Init`. The `getconf` fallback of `get_load` is left out.

### The test programs

Almost all test programs have one shape: a root calls `pip_init`, spawns tasks
and waits for them, and every call stands in a `CHECK` that names the results it
does not accept and the exit code to leave with. `LifeTests` and `SyncTests`
translate each `main` into one sequence of operations per process (parent, root,
tasks; threads have a script like a task's), with the loops unrolled for
`ntasks` and `niters`. `TaskMachine` runs the processes of one program in every
interleaving; `Init` chooses the program and, where a program has arguments
(the signal of `pip_wait`, the way to end of `end`, the mode of `pip_init`), a
script for each. A plain `count += inc` is a load and a store; an operation that
waits is enabled when the wait is over. A polled `trylock`, `pip_trywait` or
`sigwait` loop waits like its blocking form.

The library is external. `Returns` and the actions say what its calls promise,
as the tests rely on it: `pip_fin` is `EBUSY` while tasks are not waited for,
`pip_wait` of oneself `EPERM`, and so on. `CallFaults`, `SpawnFails`,
`ForkFails` and `RootKilled` break one promise per behaviour, since detecting
that is what the tests are for; the watchdog ends a program only after such a
fault, so without one every program must end by itself. `pip_abort` is not one
step: its caller signals the root and may end with the signal, and be waited
for, before the root is called back (`CallBack`); then the root goes no further,
while its tasks end one after the other (`AbortEnds`) and it last. Barriers and locks keep
their promise always: a test that uses one cannot see more than a hang.

In `Slots` every read of shared memory is a step of its own, in particular the
read of `who` before `trylock`. The heap of the C library is a set of
addresses; `malloc` succeeds, `posix_memalign` may fail, `mprobe` may find a
block damaged at any time. The NULL that a `realloc` to size 0 leaves in a slot
is either reported by `mprobe` or, with `mcheck` disabled, handed to `realloc`,
which allocates anew. `niters` is read uninitialised in the code when
there is no argument, so each task starts with any number of rounds.

A definition marked `(* mutant *)` is not part of a model. It is the faulty
variant of the definition after it with which the property named in
`PROJECT.json` was seen to fail.

## Runs

| run | bounds | checks |
|---|---|---|
| `runner` | four lists, nested three deep, with tests before and between the includes, a missing include and a comment; modes L and T; statuses PASS, FAIL, UNSUPPORTED, KILLED and 139; threshold 2 | `Conservation`, `SumFilePresent`, `VerdictSound`, `XmlAgrees`, `Complete`; `InterruptUnwinds`, `Ends`; `ImplementsLedger` (refinement of `TestLedger`) |
| `runner_killed` | the same | violates `NoTestAfterKilled` |
| `timer` | times 0 to 2, statuses of `MCTimer`, one core or several, a PiP test or not | `PassIsEarned`, `ReapedIsSpared`, `NoOrphan`, `NotEarly`; `TimeoutEnds`, `HangIsTimedOut` |
| `timer_interrupt`, `timer_race` | the same | violate `InterruptedIsKilled`, `TimeoutKills` |
| `loop` | two modes, `-n` and `-t` up to 2, statuses 0, 1, 139 | `NoModeErrors`, `EndReason`; `IterationsEnd` |
| `loop_stop` | the same | violates `StopsOnError` |
| `barrier` | three tasks, four rounds, root in the barrier or not | `CountInStep`, `OneIncrements`, `PassMeansAll`; `Passes` |
| `seek` | three tasks, two iterations, the three programs | `FileInOrder`, `OwnRecord`, `PassMeansAll`; `Passes` |
| `tests` | three tasks (two threads each in `spinlock.c` and `pthread_mutex.c`), two iterations, 136 scripts of 35 programs, at most one fault | `NoSpuriousFailure`, `FaultDetected`, `FirstFailure`, `OneToken`, `NoLostUpdate`, `OwnerOutlives`; `ComesToAnEnd` |
| `slots` | three tasks, one round, three blocks up to renaming, `realloc-x` and `memalign-x` (whose steps include those of `malloc-x`) | `HeapSound`, `OthersOnly` |
| `slots_end` | two tasks, up to three rounds, two blocks, all three programs | `AllEnd` |

The runs `runner`, `timer`, `barrier`, `tests` and `slots` also check the
module's `TypeOK`.

What the `timer` properties say. `ReapedIsSpared`: `cleanup()` sends `SIGKILL` to
a pid that `wait()` has given back only if processes the test has left behind
still held its group when `killpg()` was called. `NoOrphan`: `timer` ends before
the test only by Control-C, when the test has a group of its own, or by giving
up before it has one; Control-C before `setpgrp()` takes the child along.

`InterruptUnwinds` of the runner: Control-C, also in the middle of a hand-over,
ends every invocation and no `sum_file` stays behind. The exit status is not part
of it: the trap's `exit 1` is not what the exit code list says (see the
divergences).

What the `tests` properties say. `NoSpuriousFailure`: with a library that keeps
its promises no `CHECK` fails, in whatever order things happen. Two uses are
excepted (`MayFailByChance`): `spinlock.c`, and `pip_abort.c` with all tasks
aborting, whose root fails at its line 100 when it is told of a task that ended
by its own abort before the root did.
`FaultDetected`: with one that breaks one, the outermost process never ends with
`EXIT_PASS`, however many processes the status has to pass through; eight
programs, which do not look at a task's status, are named there and excepted.
`FirstFailure`: a launcher returns the status of the lowest-numbered failing
task, after waiting for all. `OneToken`: the ring of `pip_kill.c` holds one
signal, none is lost to the handler, and the receiver sees the right sender.
`NoLostUpdate`: the shared counter is the sum of what was added.
`OwnerOutlives`: when task 0 ends, nobody has a use ahead of what it owns.

`HeapSound` of `slots` is two things: every allocated block is in one slot and
every slot's block is allocated (`BlocksSound`), also after a `realloc` to size 0;
and a slot that an early return leaves locked, with a block that is damaged or
gone, is touched by nobody (`LeftAlone`). The others may then look for a block
for ever, which `AllEnd` excepts: the watchdog has to end the test.

The bounds let the interesting cases happen: two errors reach the threshold, an
include is followed by another test and by another include, a KILLED result can
come in the innermost list, the turn of the barrier test comes round to task 0
again, and `-n` and `-t` can be reached in the same iteration. With three tasks
a ring has a member that is neither first nor last, two tasks can end in the
other order than they are waited for, and a chain of pipes has a middle; with
two iterations a barrier or a lock is used again. A task of `slots_end` can be
left with nothing but its own blocks only if the other made fewer rounds: with
two tasks three rounds are the fewest for which leaving the loop by `count` is
the only way out. `MaxLoops` cuts
endless loops of `loop.sh`, which is why that run does not check for deadlock.

### What the violations show

* `runner_killed`: `break 2` leaves only the loops of the invocation that saw
  the KILLED result. The parent does not look at its child's exit status and
  runs its next test, against the comment that the run is stopped.
* `timer_interrupt`: Control-C ends `timer` with `EXIT_UNRESOLVED`, against the
  exit code list, which has `EXIT_KILLED` for it.
* `timer_race`: if the alarm (10 ms for `timer 0`) comes before the child's
  `setpgrp()`, `killpg()` fails with `ESRCH`, no `SIGKILL` follows and `timer`
  waits for ever. `TimeoutEnds` says that this is the only way.
* `loop_stop`: in the mode loop `ext=$?` comes after other statements and is
  always 0: without `-i`, errors are ignored all the same.

### Fairness

* `TestRunner`: weak fairness of the script's steps. The shell goes on, and each
  test command ends because the lists run it under `timer`. Nobody has to
  press Control-C.
* `Timer`: weak fairness of `timer`, of the child up to `execvp`, and of the
  alarm on a machine with several cores. The test program has none: it may
  hang. On a single core `get_load` may keep the alarm from counting for ever
  (with several cores its integer `1/ncores` is 0 and the load never counts).
* `LoopRunner`: weak fairness of the script, whose command ends.
* `TaskMachine`: weak fairness of "some process makes a step, an abort arrives or
  the watchdog kills", the weakest there is: the machine does not stand still.
  Faults have none.
* `Slots`: weak fairness of each task, which the operating system schedules, and
  strong fairness of picking each slot: `random() % nt` returns every slot again
  and again. `ProbeFails` and `AllocFails` have none.
* `BarrierTest`, `SeekTest`: weak fairness of the root and of each task, which the operating
  system schedules. A spawn never has to fail.

## Proofs

`TestRunnerProofs` proves, for every set of lists with any contents (inclusion
cycles too), modes, statuses and threshold: `TypeOK`, `Conservation`,
`SumFilePresent`, `VerdictSound`, `XmlAgrees` and the refinement of
`TestLedger`. The assumptions are those of `RunnerAssumption`. The inductive
invariant adds two parts to the properties. `StackInv`: every invocation below
the top waits in an `%include`; without it nothing is known of the parent a
child returns to. `FreshInv`: before the root has started nothing has run;
without it the reset of the counters and of the XML log could lose results. The
refinement proof goes through the actions: `Result` is `Record`, the root's
`Finish` is `Finish`, every other end of the root is `GiveUp`, and all other
steps leave the ledger as it is, because by `Conservation` the counters that
appear on the other side of a hand-over are those that disappeared on this one.

It goes on from there and proves `Complete`: a verdict without a
KILLED result is about everything. As long as there is no Control-C and no
KILLED result, `StackDone` holds of the whole stack: every invocation has dealt
with all lines before the current one; a parent's current line is dealt with
too, except while its child, one level up, has not started (`Awaits`); and a
started list is either done or is that of an invocation on the stack. The
last part is what `Complete` needs when the stack is gone; the others make it
inductive. What the run has done only grows (`Grows`), so what was done stays
done.

`TimerProofs` proves `TypeOK`, `PassIsEarned`, `ReapedIsSpared`, `NoOrphan` and
`NotEarly` for every time-out and set of statuses. The invariant adds
`ChildInv` (the child's life against main's place and the wait status),
`AlarmInv` (where main can be when the handler runs: this is what makes "the
alarm after `wait()`" one case and not a surprise), `CountInv` (what is left and
what has gone by make up the time) and `CleanupInv` (the last signal is sent
only when the child had a group, which, if the child is reaped by then, others
were found to hold; and what is still alive when `timer` has given up was
missed).

`LoopRunnerProofs` proves `NoModeErrors` and `EndReason`, for every `-n`, `-t`,
set of modes and statuses. `ErrorInv` is the point: without modes the only
failure known while the loop goes on is the one about to be checked;
`LimitInv` bounds the iterations and `OutputInv` says when the output is in the
temporary file.

`BarrierTestProofs` proves `TypeOK`, `CountInStep`, `OneIncrements` and
`PassMeansAll` for every number of tasks and of rounds. The invariant: `Sync` (nobody is past a
wait that somebody has not entered), `Shape` (the place in the loop determines
the number of waits entered), `Lane` (who increments has the turn) and
`CountInv` (the counter is a party's loop variable, plus one if the increment of
that round is made). `SameIteration` is the key: while someone is between the
two waits everybody is in the same round, so the turn is one party's, and
nobody compares.

`SlotsProofs` proves `TypeOK`, `HeapSound` and `OthersOnly` for any number of
tasks, rounds and blocks, under `SlotsAssumption`. The inductive invariant adds
to them: `LockInv` (who is between `trylock` and `unlock` holds the lock of its
slot, so no two tasks are inside one slot), `OtherInv` (who has read `who`
without the lock has still read right: only the task itself writes its own
number there, and it is busy reading), `FreeInv` (only `realloc` leaves a slot
without a block), `FillInv` and `BarrierInv` (a task past the barrier finds
every slot filled, for all have passed the fill), and `CountInv` (`count` is
`nt - 1` less the tasks that have ended, which bounds it). `OthersOnly` follows
from `LockInv` and `OtherInv`, `BlocksSound` from `LockInv` and `FreeInv`, and
`LeftAlone` from `LockInv` alone.

`SeekTestProofs` proves `FileInOrder`, `OwnRecord` and `PassMeansAll` for every
number of tasks and iterations and all three programs. The places of the parties
differ by at most one barrier (`SyncInv`: the number of barriers passed
determines loop, iteration and turn), so the parties that are ahead (`Leaders`)
agree on the place, and the place determines the offset and the length of the
file (`OffsetInv`, `LengthInv`): all records before, plus what the owner of the
turn has made of its own. Records are numbered through all iterations
(`RecordAt`), hence the lemmas about remainders. `OwnRecord` needs no part of
its own: the state of a failed comparison is not in `TypeInv`, and that a read
stays in it is `OffsetInv` with `FileInOrder`.

`TestProgramsProofs` proves, for any `ntasks` and `niters`, with faults,
`TypeOK` of `TaskMachine`, and `NoLostUpdate` of all programs except `NotLocked`.
The scripts are defined with folds over `ntasks` and `niters`, and what a fold
produces for every number is beyond the provers (induction over data). The
theorems therefore rest on assumptions about the scripts, which TLC evaluates
in the run `tests`: here `ScriptsAssumption` (`WellFormed`: an operation that
goes on has a place to go on to, and what it names exists),
`UpdatesAssumption` (`Protected`: no plain update, or `Locked`, `SetUpFirst` and
`Straight`) and `RingAssumption`. All are syntactic; nothing in them speaks of
interleavings, faults or states of the library. What is proved is that the
syntax is enough. `LockInv`:
who is between lock and unlock has the lock, and what it has loaded is still
there, also when others die holding the lock. The assignment that sets the
counter up takes no lock; it cannot come between a load and a store because
who stores has left a barrier which the assigning process has yet to enter.
That is `BarrierInv`, and it needs `SpawnInv`: a task started twice would be
before its first barrier and have entered it. `Quiet` collects the thirty
operations that touch none of this.

The same module proves `OneToken` of `pip_kill.c`. `Ring` says of the script what
one process does: it sends when it has received, to the next in the ring, after
a barrier which that one enters with the signals blocked. That there is one
token in the whole ring is not in it and is what is proved. `RingInv`: a process
has sent as many signals as its place says, and what it has received is what
the one before has sent, less the one still pending; `OneHolder`: then at most
one process of the ring has a token or has one coming, because round the ring
the numbers only fall, and by one in all. `MaskInv`, which `BarrierInv`
gives, is why no signal meets a handler; `SignalInv` ties the pending signal to
the pipid in the shared memory.

`TestResultsProofs` proves `FaultDetected`, for all programs but those of
`StatusIgnored`, and `FirstFailure`. For the first `StatusAssumption` says what
the scripts look at (`Vigilant`): a status that may tell of a fault is compared
or passed on, as many waits as spawns come before a 0, and a parent returns
its root's status. The invariant follows the evidence: a fault has left a
process that ended with something other than 0 (`Evidence`), and this is a task
not yet waited for, or the root, or is kept in `err` of the root, or of its
parent (`Watch`). `CountInv` is why a task cannot be forgotten: the root has as
many tasks to wait for as spawns less waits. For the second `LaunchAssumption`
says the order of what a launcher does; `RootInv` then gives from the root's
place the tasks waited for, the status kept and the queue, and `EndInv` carries
it over the root's end to its parent. `LaunchersPass` falls out:
`NoSpuriousFailure` for `pip_task` and `pip_blt`.

The last three theorems, `NoCheckFails`, `OrderedUpdates` and `OwnersOutlive`,
say of a run what the order within each script implies. The bridge between the
two is `Follows(s, q, k, r, m)`, a relation on one script: before place `k`
process `q` has left a barrier that `r` enters after place `m`, or has imported
a name that `r` exports after it, directly or by way of task 0. `OrderInv` makes
it a fact of every state: when `q` is at `k`, `r` is past `m` (`FollowedThat`),
for a barrier as many times as it is used, because who has left it has left it
with all its parties (`MeetInv`). The scripts this is applied to are
run once (`RunOnce`): no task is started again. On this rest, each an invariant of its
own with a lemma per operation that touches it:

* `TurnInv`: in a script whose updates are totally ordered (`InTurns`) the
  counter is, at every moment, the value after the last update made, and what a
  process has loaded and not yet stored is still there. This is `OrderedUpdates`:
  `NoLostUpdate` of `blt/pip_barrier.c` and `pip_namexp.c`, which have no lock.
* `SumInv`: where all updates are locked or atomic and add one, the counter is
  the number of them made. `PoolInv`: the forked children in a pool are those
  forked less those waited for, so that nobody waits for one too many.
* `LibraryInv`, `QueueInv`, `PageInv`: from the root's place it is known whether
  the library is initialised, which tasks may be left and what is in the queue;
  a page that a task may touch is mapped.
* `ArriveInv`: round the ring, the signal on its way is the one its receiver's
  place expects.

A step is `Firm` in a script if these facts leave it no result its `CHECK`
rejects, and `Sure` if it is firm or a wait whose tasks only have firm steps
before an end with a status the wait accepts. `FinishInv` carries that through:
who has ended has done so at a place where its script ends, with a status that
place may have, or at a step that is not sure. `NoCheckFails` follows where all
steps are sure (`AllSure`), `OwnersOutlive` where the uses of what task 0 owns
come before each place at which it may end.

`SureAssumption`, `OwnerAssumption` and `TurnsAssumption` say which programs
have these shapes. They speak of the text of single scripts only; that the
interleavings of all processes, with every order of ending and waiting, then
fail no `CHECK` is what is proved. TLC evaluates them for `ntasks` 3 and
`niters` 2 in the run `tests`. `AllSure` holds of 23 of the 33 names a script may
have. The others (`Unsure`): `atomic.c`, `spinlock.c` and
`pthread_mutex.c` set their counter again for each phase, so its value is not
the number of updates made; `hook_and_coe.c` and `end.c` look at
pipes, descriptors and hooks, which have no invariant of this kind;
`pthread_exit.c`, `pip_task_spawn.c` and `spawn_pie.c` may be refused a spawn
or use a `pipid` again; `pip_abort.c`, which has two names, kills from outside.

Only model-checked:

* Liveness (`Ends`, `InterruptUnwinds`, `TimeoutEnds`, `HangIsTimedOut`,
  `IterationsEnd`, both `Passes`, `ComesToAnEnd`, `AllEnd`): beyond the prover.
* `NoSpuriousFailure` of the nine programs in `Unsure`, and `NoLostUpdate` of the
  locked phase of `spinlock.c`, whose unlocked phase before it has plain updates.
* The violations, which are counterexamples.

## Not modelled

* Text logs and screen output of `test.sh` (`test.log`, the error log that every
  nested invocation removes, the printed summary), elapsed times, the display,
  quiet and clean options of `loop.sh`.
* `OK`, `NG`, `skip`, `path-task.sh`, `path-blt.sh`: one comparison of an exit
  status each, no state; the environment probes, whose answers are inputs.
* `blt/pip_couple.c`: which kernel thread a task runs on is decided by the
  library's scheduler, which is not in the repository; `blt/migrate.c` and
  `compat/sid.c` are not built, `compat/sigchld.c` is in no list.
* The other libc tests (`malloc.c`, `environ.c`, `getaddrinfo.c`, ...) call one
  function and compare its result, in one process.
* pips, debuggers, compilers, Fortran, OpenMP: external programs are run and
  their output compared. The build files.
* `pip_blt` with active tasks zero and passive ones not: no queue is ever taken
  along and the launcher waits for ever; the lists never do that.
* In `Slots` there is no barrier at the end: blocks of a task that has ended are
  still used, which is sound as long as the heap outlives its task. The
  library promises that, and the model has no way to doubt it.

## Divergences found by reading

Besides the four violations above `PROJECT.json` lists places where the code
does not do what it says, met while translating it: an undefined variable in
`path-task.sh`, `=-` for `-=` in `hook_and_coe.c`, the wrong argument in
`pip_kill.c`, uninitialised `niters` in the block exchange tests, three tests of
`pip_init.c` that cannot fail, a test of `spinlock.c` that may fail by chance, an
inverted condition in `malloc.c`, and the task statuses nobody looks at. Two more
concern the runs above:

* `timer.c:76`: an alarm after `wait()` while processes the test forked are left
  in its group. `killpg()` succeeds, its `SIGTERM` may end them, and 10 ms later
  `SIGKILL` goes to whatever process has the pid by then. `ReapedIsSpared` says
  that there is no other such case.
* `test.sh:133`: the trap for Control-C exits with 1, `EXIT_FAIL`, although the
  exit code list has `EXIT_KILLED` for it; `timer_interrupt` shows the same of
  `timer`.

## Plan

1. A composition of `TaskMachine` and `Timer`: what a time-out leaves running.
2. One abstract token for the rings of `pip_kill.c`, `pip_namexp.c` and `seek.c`,
   and the refinements to it.

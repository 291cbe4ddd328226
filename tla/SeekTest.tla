------------------------------- MODULE SeekTest ------------------------------
(***************************************************************************)
(* basics/seek.c: the root and its tasks share one open file, and with it  *)
(* one file offset, and use it in turn.  An iteration is a sequence of     *)
(* ntasks+1 barriers; a task uses the file between the barriers its pipid  *)
(* selects, the root before the first one.  There are three programs:      *)
(* "file" writes a file and reads it back, "stdout" only writes, "stdin"   *)
(* only reads what a "stdout" program has written.  The barrier is that of *)
(* the pthread library, the file that of the kernel.                       *)
(***************************************************************************)
EXTENDS ExitCodes, Sequences

CONSTANTS ntasks, niters

ASSUME SeekAssumption == ntasks \in Nat \ {0} /\ niters \in Nat \ {0}

Tasks   == 0..(ntasks - 1)                                (* the pipids    *)
Root    == ntasks
Parties == 0..ntasks

VARIABLES mode,           (* "file", "stdout" or "stdin"                   *)
          pc,             (* of each party                                 *)
          phase,          (* it is in its writing or its reading loop      *)
          i,              (* its iteration                                 *)
          ii,             (* barriers it has passed in this iteration      *)
          entered,        (* barriers it has entered since the start       *)
          file,           (* the contents: pieces of records               *)
          offset,         (* the shared file offset                        *)
          spawned, reaped, exit

vars == <<mode, pc, phase, i, ii, entered, file, offset, spawned, reaped, exit>>

(* A record is written and read in pieces: read() and write() may be short *)
(* and my_read, my_write go on where they stopped. Here there are two.     *)
Pieces == 2
Piece(p, h) == <<p, h>>

(* Whose record the n-th piece of a correct file belongs to.               *)
RecordOf(n) == (n - 1) \div Pieces
Owner(r) ==
  IF mode = "file"
  THEN IF r % (ntasks + 1) = 0 THEN Root ELSE (r % (ntasks + 1)) - 1
  ELSE IF r = 0 THEN Root ELSE (r - 1) % ntasks
Expected(n) == Piece(Owner(RecordOf(n)), (n - 1) % Pieces)
Total == Pieces * (IF mode = "file" THEN niters * (ntasks + 1) ELSE niters * ntasks + 1)

Init ==
  /\ mode \in {"file", "stdout", "stdin"}
  /\ pc = [p \in Parties |-> IF p = Root THEN "open" ELSE "unborn"]
  /\ phase = [p \in Parties |-> IF mode = "stdin" THEN "read" ELSE "write"]
  /\ i = [p \in Parties |-> 0] /\ ii = [p \in Parties |-> 0]
  /\ entered = [p \in Parties |-> 0]
  /\ file = IF mode = "stdin" THEN [n \in 1..Total |-> Expected(n)] ELSE <<>>
  /\ offset = 0
  /\ spawned = 0 /\ reaped = {} /\ exit = Running

Goto(p, l) == pc' = [pc EXCEPT ![p] = l]

(* write() puts a piece at the shared offset, read() takes one from there. *)
Put(x) ==
  /\ file' = IF offset < Len(file) THEN [file EXCEPT ![offset + 1] = x]
                                   ELSE Append(file, x)
  /\ offset' = offset + 1
Got(x) == offset < Len(file) /\ file[offset + 1] = x

-----------------------------------------------------------------------------
(* The root opens the file. With stdin and stdout it uses it once, before  *)
(* there is anybody else; what it reads is the record it expects, because  *)
(* the file on stdin is a correct one.                                     *)
Open ==
  /\ pc[Root] = "open" /\ exit = Running
  /\ \/ /\ Goto(Root, "spawn")
        /\ CASE mode = "file"   -> UNCHANGED <<file, offset>>
             [] mode = "stdout" -> /\ file' = <<Piece(Root, 0), Piece(Root, 1)>>
                                   /\ offset' = Pieces
             [] mode = "stdin"  -> offset' = Pieces /\ UNCHANGED file
        /\ UNCHANGED exit
     \/ exit' = EXIT_FAIL /\ UNCHANGED <<pc, file, offset>>
  /\ UNCHANGED <<mode, phase, i, ii, entered, spawned, reaped>>

Spawn ==
  /\ pc[Root] = "spawn" /\ exit = Running
  /\ spawned' = spawned + 1
  /\ pc' = [p \in Parties |-> IF p = spawned \/ (p = Root /\ spawned + 1 = ntasks)
                              THEN "loop" ELSE pc[p]]
  /\ UNCHANGED <<mode, phase, i, ii, entered, file, offset, reaped, exit>>

SpawnFails ==
  /\ pc[Root] = "spawn" /\ exit = Running
  /\ exit' = EXIT_FAIL
  /\ UNCHANGED <<mode, pc, phase, i, ii, entered, file, offset, spawned, reaped>>

-----------------------------------------------------------------------------
(* When a party has its turn in an iteration.                              *)
OneBarrierEarly(p) == IF p = Root THEN 0 ELSE p                 (* mutant *)
Slot(p) == IF p = Root THEN 0 ELSE p + 1
HasTurn(p) == ii[p] = Slot(p) /\ (p = Root => mode = "file")

(* my_write, my_read and the comparison of what was read.                  *)
Access(p, here, h, there) ==
  /\ pc[p] = here
  /\ IF phase[p] = "write" THEN Put(Piece(p, h)) /\ Goto(p, there)
     ELSE IF Got(Piece(p, h)) THEN offset' = offset + 1 /\ UNCHANGED file /\ Goto(p, there)
     ELSE Goto(p, "failed") /\ UNCHANGED <<file, offset>>
  /\ UNCHANGED <<mode, phase, i, ii, entered, spawned, reaped, exit>>

FirstPiece(p)  == HasTurn(p) /\ Access(p, "loop", 0, "half")
SecondPiece(p) == Access(p, "half", 1, "used")

(* pthread_barrier_wait.                                                   *)
Released(p) == \A q \in Parties : entered[q] >= entered[p]

Enter(p) ==
  /\ pc[p] = "used" \/ (pc[p] = "loop" /\ ~HasTurn(p))
  /\ entered' = [entered EXCEPT ![p] = @ + 1]
  /\ Goto(p, "wait")
  /\ UNCHANGED <<mode, phase, i, ii, file, offset, spawned, reaped, exit>>

(* The last barrier of an iteration ends it; the writing loop is followed  *)
(* by the reading loop in "file", which the root begins with lseek().      *)
TaskSkipsLast(p) ==                                             (* mutant *)
  IF p = 0 THEN ntasks ELSE ntasks + 1
BarriersOf(p) == ntasks + 1
LastBarrier(p) == ii[p] + 1 = BarriersOf(p)
LoopOver(p) == LastBarrier(p) /\ i[p] + 1 = niters
NextLoop(p) == LoopOver(p) /\ phase[p] = "write" /\ mode = "file"

Return(p) ==
  /\ pc[p] = "wait" /\ Released(p)
  /\ ii' = [ii EXCEPT ![p] = IF LastBarrier(p) THEN 0 ELSE @ + 1]
  /\ i' = [i EXCEPT ![p] = IF NextLoop(p) THEN 0 ELSE IF LastBarrier(p) THEN @ + 1 ELSE @]
  /\ phase' = [phase EXCEPT ![p] = IF NextLoop(p) THEN "read" ELSE @]
  /\ Goto(p, IF NextLoop(p) /\ p = Root THEN "lseek"
             ELSE IF LoopOver(p) /\ ~NextLoop(p) THEN "done"
             ELSE "loop")
  /\ UNCHANGED <<mode, entered, file, offset, spawned, reaped, exit>>

NoLseek ==                                                      (* mutant *)
  /\ pc[Root] = "lseek"
  /\ Goto(Root, "loop")
  /\ UNCHANGED <<mode, phase, i, ii, entered, file, offset, spawned, reaped, exit>>

Lseek ==
  /\ pc[Root] = "lseek"
  /\ offset' = 0
  /\ Goto(Root, "loop")
  /\ UNCHANGED <<mode, phase, i, ii, entered, file, spawned, reaped, exit>>

-----------------------------------------------------------------------------
(* pip_wait_any and the end of the root.                                   *)
Reap(p) ==
  /\ exit = Running /\ pc[Root] = "done"
  /\ p \notin reaped /\ pc[p] \in {"done", "failed"}
  /\ IF pc[p] = "failed" THEN exit' = EXIT_FAIL /\ UNCHANGED reaped
                         ELSE reaped' = reaped \cup {p} /\ UNCHANGED exit
  /\ UNCHANGED <<mode, pc, phase, i, ii, entered, file, offset, spawned>>

RootPasses ==                                                   (* mutant *)
  /\ exit = Running /\ pc[Root] = "done"
  /\ exit' = EXIT_PASS
  /\ UNCHANGED <<mode, pc, phase, i, ii, entered, file, offset, spawned, reaped>>

RootEnds ==
  /\ exit = Running
  /\ pc[Root] # "failed" => pc[Root] = "done" /\ reaped = Tasks
  /\ exit' = IF pc[Root] = "failed" THEN EXIT_FAIL ELSE EXIT_PASS
  /\ UNCHANGED <<mode, pc, phase, i, ii, entered, file, offset, spawned, reaped>>

Party(p) == FirstPiece(p) \/ SecondPiece(p) \/ Enter(p) \/ Return(p)
RootStep == Open \/ Spawn \/ Lseek \/ RootEnds \/ \E p \in Tasks : Reap(p)
Terminated == exit # Running /\ UNCHANGED vars

Next == RootStep \/ SpawnFails \/ (\E p \in Parties : Party(p)) \/ Terminated

(* The root and every task is a process or thread that the system runs.    *)
Spec == /\ Init /\ [][Next]_vars
        /\ WF_vars(RootStep) /\ \A p \in Parties : WF_vars(Party(p))

-----------------------------------------------------------------------------
(* What is in the file, complete or not, is the root's and the tasks'      *)
(* records in the order of the turns, none torn, missing or overwritten.   *)
FileInOrder == \A n \in DOMAIN file : file[n] = Expected(n)

(* Nobody ever reads a piece of another party's record.                    *)
OwnRecord == \A p \in Parties : pc[p] # "failed"

(* PASS: the whole file was written, read to its end, and by all.          *)
PassMeansAll ==
  exit = EXIT_PASS => /\ Len(file) = Total /\ offset = Total
                      /\ \A p \in Parties : pc[p] = "done"

(* Once all tasks are spawned the test ends, and with PASS: every party    *)
(* enters as many barriers as every other.                                 *)
Passes == spawned = ntasks ~> exit = EXIT_PASS

=============================================================================

-------------------------- MODULE TestProgramsProofs -------------------------
(***************************************************************************)
(* Safety of the machine that runs the test programs, for any number of    *)
(* tasks and iterations and for all scripts that are well-formed: types,   *)
(* no lost update of a counter under a lock, one token in a ring; and what *)
(* the order within the scripts implies for the order of a run.            *)
(***************************************************************************)
EXTENDS TestPrograms, TLAPS, FiniteSetTheorems

Queues == {"queued"} \X Nat
Life   == {NotBorn, Alive} \cup AnyStatus \cup Queues

(* TypeOK, and what else is needed of the types: the program is one of the *)
(* scripts, and pipes carry numbers.                                       *)
ProcType ==
  /\ test \in ToSet(Scripts)
  /\ pc \in [Procs -> Nat] /\ state \in [Procs -> Life]
  /\ failed \subseteq Procs
LibType ==
  /\ reaped \subseteq Procs /\ err \in [Procs -> Nat]
  /\ inited \in BOOLEAN /\ aborting \in {"no", "called", "root"} /\ fault \in BOOLEAN
  /\ hooks \in [Tasks -> [set : BOOLEAN, before : Nat, after : Nat]]
BarrierType == inside \in [Procs -> BOOLEAN] /\ entered \in [Procs -> Nat]
MemType ==
  /\ count \in Int /\ ledger \in Int /\ reg \in [Procs -> Int]
  /\ lock \in Procs \cup {ANY}
CommType ==
  /\ sender \in Procs \cup {ANY} /\ masked \subseteq Procs /\ lost \subseteq Procs
  /\ data \in [0..ntasks -> Seq(Int)]

(* Every process is at a place of its script; one that has not started is  *)
(* at the first.                                                           *)
PlaceInv == \A p \in Procs :
  /\ pc[p] \in Places(test, p) \/ (Places(test, p) = {} /\ pc[p] = 1)
  /\ state[p] # NotBorn => Places(test, p) # {}
  /\ state[p] \in {NotBorn} \cup Queues => pc[p] = 1

TypeInv == ProcType /\ LibType /\ BarrierType /\ MemType /\ CommType /\ PlaceInv

(* Mutual exclusion: who is between lock and unlock has the lock, and what *)
(* it has read is still what is there.                                     *)
LockInv == \A p \in Procs : state[p] = Alive =>
  /\ Op(p).do \in {"load", "store", "unlock"} => lock = p
  /\ Op(p).do = "store" => reg[p] = count

(* Barriers: the place of a process tells whether it has entered one, and  *)
(* who has left one has left it with all its parties.                      *)
BarrierInv == \A p \in Procs :
  /\ inside[p] => entered[p] > 0
  /\ entered[p] > 0 => state[p] # NotBorn
  /\ entered[p] > 0 => \E j \in 1..pc[p] : Do(test, p, j) = "barrier"
  /\ \A j \in 1..(pc[p] - 1) : Do(test, p, j) = "barrier" =>
       \A r \in ScriptOf(test, p)[j].parties \cap Procs : entered[r] > 0

(* No task is spawned twice.                                               *)
SpawnInv == \A k \in Places(test, Root) :
  k >= pc[Root] /\ Do(test, Root, k) = "spawn" => state[ScriptOf(test, Root)[k].who] = NotBorn

UpdateInv ==
  /\ Protected(test) => count = ledger
  /\ Disciplined(test) => LockInv /\ BarrierInv /\ SpawnInv

Inv == TypeInv /\ UpdateInv

-----------------------------------------------------------------------------
(* The names of the processes, and the wait statuses.                      *)
LEMMA Ids ==
  /\ Root \in Procs /\ Parent \in Procs /\ Tasks \subseteq Procs /\ Everybody \subseteq Procs
  /\ Root \in Everybody /\ Parent \notin Everybody /\ Tasks \subseteq Everybody
  /\ Root \notin Tasks /\ ANY \notin Procs
  BY TestOpsAssumption DEF Root, Parent, Tasks, Procs, Everybody, ANY

LEMMA Lives ==
  /\ Alive # NotBorn /\ Alive \notin Queues /\ NotBorn \notin Queues
  /\ \A q \in Nat : Queued(q) \in Queues
  /\ \A c \in Nat : Exited(c) \in AnyStatus /\ Signaled(c) \in AnyStatus
  /\ \A s \in AnyStatus : s # Alive /\ s # NotBorn /\ s \notin Queues /\ s[2] \in Nat
  BY DEF Alive, NotBorn, Queues, Queued, Exited, Signaled, AnyStatus

LEMMA Codes == {EXIT_PASS, EXIT_FAIL, EXIT_UNTESTED, EXIT_UNRESOLVED} \subseteq Nat
  BY DEF EXIT_PASS, EXIT_FAIL, EXIT_UNTESTED, EXIT_UNRESOLVED

LEMMA Signals == {SIGABRT, SIGKILL, SIGSEGV, SIGPIPE} \subseteq Nat
  BY DEF SIGABRT, SIGKILL, SIGSEGV, SIGPIPE

(* What is known of the operation a living process is at.                  *)
LEMMA Present ==
  ASSUME TypeInv, NEW p \in Procs, state[p] = Alive
  PROVE  /\ pc[p] \in Places(test, p) /\ pc[p] \in Nat /\ Len(ScriptOf(test, p)) \in Nat
         /\ Op(p) = ScriptOf(test, p)[pc[p]] /\ Op(p).do = Do(test, p, pc[p])
         /\ Operands(Op(p)) /\ GoesOn(test, p, pc[p])
         /\ Op(p).do \notin LastOps => pc[p] + 1 \in Places(test, p)
<1>1. WellFormed(test) BY ScriptsAssumption DEF TypeInv, ProcType
<1>2. pc[p] \in Places(test, p) BY Lives DEF TypeInv, PlaceInv
<1>3. Len(ScriptOf(test, p)) \in Nat BY <1>1 DEF WellFormed
<1>4. pc[p] \in Nat BY DEF TypeInv, ProcType
<1>5. Op(p) = ScriptOf(test, p)[pc[p]] /\ Op(p).do = Do(test, p, pc[p])
  BY DEF Op, Script, Do
<1>6. Operands(Op(p)) /\ GoesOn(test, p, pc[p]) BY <1>1, <1>2, <1>5 DEF WellFormed
<1>7. Op(p).do \notin LastOps => pc[p] + 1 \in Places(test, p)
  <2>1. Op(p).do \notin LastOps => pc[p] + 1 <= Len(ScriptOf(test, p))
    BY <1>5, <1>6, Zenon DEF GoesOn
  <2> QED BY <1>3, <1>4, <2>1 DEF Places
<1> QED BY <1>2, <1>3, <1>4, <1>5, <1>6, <1>7

LEMMA NotEmpty ==
  ASSUME TypeInv
  PROVE  /\ \A p \in Everybody : 1 \in Places(test, p)
         /\ \A p \in Procs : Len(ScriptOf(test, p)) \in Nat
<1>1. WellFormed(test) BY ScriptsAssumption DEF TypeInv, ProcType
<1>2. \A p \in Procs : Len(ScriptOf(test, p)) \in Nat BY <1>1 DEF WellFormed
<1>3. \A p \in Everybody : Places(test, p) # {} BY <1>1, Ids DEF WellFormed
<1> QED BY <1>2, <1>3, Ids DEF Places

-----------------------------------------------------------------------------
(* The steps as far as processes are concerned: one goes to another place, *)
(* or some end.                                                            *)
Run(p, n) == pc' = [pc EXCEPT ![p] = n] /\ state' = state /\ failed' = failed
Die ==
  /\ pc' = pc /\ state' \in [Procs -> Life] /\ failed' \subseteq Procs
  /\ \A q \in Procs : state'[q] = state[q] \/ (state[q] = Alive /\ state'[q] \in AnyStatus)

(* A step that keeps off the counter, the lock and the barrier.            *)
Busy == {"lock", "load", "store", "unlock", "barrier"}
Jumps(p) == Op(p).do \in {"relay", "pass on"} \/ (Op(p).do = "spawn" /\ Op(p).errs # {})
Quiet ==
  /\ UNCHANGED <<test, lock, inside, entered, count, ledger>>
  /\ \/ Die /\ UNCHANGED reg
     \/ \E p \in Procs : \E n \in Places(test, p) :
          /\ state[p] = Alive /\ Op(p).do \notin Busy /\ Run(p, n)
          /\ \/ n \in {pc[p], pc[p] + 1} /\ UNCHANGED reg
             \/ Jumps(p) /\ reg' \in [Procs -> Int]

LEMMA RunType ==
  ASSUME TypeInv, UNCHANGED test,
         NEW p \in Procs, state[p] = Alive, NEW n \in Places(test, p), Run(p, n)
  PROVE  ProcType' /\ PlaceInv'
<1>1. n \in Nat BY NotEmpty DEF Places
<1>2. ProcType' BY <1>1 DEF TypeInv, ProcType, Run
<1>3. PlaceInv' BY Lives DEF TypeInv, ProcType, PlaceInv, Run, Places
<1> QED BY <1>2, <1>3

LEMMA DieType == ASSUME TypeInv, UNCHANGED test, Die PROVE ProcType' /\ PlaceInv'
<1>1. ProcType' BY DEF TypeInv, ProcType, Die
<1>2. PlaceInv' BY Lives DEF TypeInv, ProcType, PlaceInv, Die, Places
<1> QED BY <1>1, <1>2

(* A step to the same or the next place that is not one of a barrier.      *)
LEMMA StepBarrier ==
  ASSUME TypeInv, BarrierInv, SpawnInv, UNCHANGED <<test, inside, entered>>,
         NEW p \in Procs, state[p] = Alive, Op(p).do # "barrier",
         NEW n \in {pc[p], pc[p] + 1}, Run(p, n)
  PROVE  BarrierInv' /\ SpawnInv'
<1>1. pc[p] \in Nat /\ Do(test, p, pc[p]) # "barrier" BY Present
<1>2. pc' = [pc EXCEPT ![p] = n] /\ pc \in [Procs -> Nat] /\ state' = state /\ n \in Nat
  BY <1>1 DEF Run, TypeInv, ProcType
<1>3. BarrierInv'
  <2> SUFFICES ASSUME NEW q \in Procs
               PROVE  /\ inside[q] => entered[q] > 0
                      /\ entered[q] > 0 => state[q] # NotBorn
                      /\ entered[q] > 0 => \E j \in 1..pc'[q] : Do(test, q, j) = "barrier"
                      /\ \A j \in 1..(pc'[q] - 1) : Do(test, q, j) = "barrier" =>
                           \A r \in ScriptOf(test, q)[j].parties \cap Procs : entered[r] > 0
    BY <1>2 DEF BarrierInv
  <2>1. CASE q # p BY <1>2, <2>1 DEF BarrierInv
  <2>2. CASE q = p
    <3>1. pc'[q] = n BY <1>2, <2>2
    <3>2. \A j \in 1..pc[p] : j \in 1..n BY <1>1
    <3>3. \A j \in 1..(n - 1) : j \in 1..(pc[p] - 1) \/ j = pc[p] BY <1>1
    <3> QED BY <1>1, <2>2, <3>1, <3>2, <3>3 DEF BarrierInv
  <2> QED BY <2>1, <2>2
<1>4. SpawnInv'
  <2>1. pc'[Root] >= pc[Root] BY <1>1, <1>2, Ids
  <2>2. pc[Root] \in Nat /\ pc'[Root] \in Nat /\ Places(test, Root) \subseteq Nat
    BY <1>2, Ids, NotEmpty DEF Places
  <2> QED BY <1>2, <2>1, <2>2 DEF SpawnInv
<1> QED BY <1>3, <1>4

(* Who goes on goes to a place of its script that is not inside the lock.  *)
LEMMA QuietInv ==
  ASSUME Inv, Quiet
  PROVE  ProcType' /\ PlaceInv' /\ BarrierType' /\ MemType' /\ UpdateInv'
<1>0. TypeInv /\ UpdateInv BY DEF Inv
<1>1. UNCHANGED <<test, lock, inside, entered, count, ledger>> BY DEF Quiet
<1>2. BarrierType' BY <1>0, <1>1 DEF TypeInv, BarrierType
<1>3. reg' \in [Procs -> Int] BY <1>0 DEF Quiet, TypeInv, MemType
<1>4. MemType' BY <1>0, <1>1, <1>3 DEF TypeInv, MemType
<1>5. (Protected(test) => count = ledger)' BY <1>0, <1>1 DEF UpdateInv
<1>6. CASE Die /\ UNCHANGED reg
  <2>1. ProcType' /\ PlaceInv' BY <1>0, <1>1, <1>6, DieType
  <2>2. ASSUME Disciplined(test) PROVE LockInv' /\ BarrierInv' /\ SpawnInv'
    <3>1. LockInv /\ BarrierInv /\ SpawnInv BY <1>0, <2>2 DEF UpdateInv
    <3>2. LockInv' BY <1>1, <1>6, <3>1, Lives DEF LockInv, Op, Script, Die
    <3>3. BarrierInv' BY <1>1, <1>6, <3>1, Lives DEF BarrierInv, Die
    <3>4. \A k \in Places(test, Root) : Do(test, Root, k) = "spawn" =>
            ScriptOf(test, Root)[k].who \in Procs
      BY <1>0, Ids, ScriptsAssumption DEF TypeInv, ProcType, WellFormed, Operands, Do
    <3>5. SpawnInv' BY <1>1, <1>6, <3>1, <3>4, Lives DEF SpawnInv, Die
    <3> QED BY <3>2, <3>3, <3>5
  <2> QED BY <1>1, <1>2, <1>4, <1>5, <2>1, <2>2 DEF UpdateInv
<1>7. ASSUME NEW p \in Procs, NEW n \in Places(test, p),
             state[p] = Alive, Op(p).do \notin Busy, Run(p, n),
             (n \in {pc[p], pc[p] + 1} /\ UNCHANGED reg) \/ Jumps(p)
      PROVE  ProcType' /\ PlaceInv' /\ BarrierType' /\ MemType' /\ UpdateInv'
  <2>1. ProcType' /\ PlaceInv' BY <1>0, <1>1, <1>7, RunType
  <2>2. /\ pc[p] \in Places(test, p) /\ pc[p] \in Nat /\ Op(p) = ScriptOf(test, p)[pc[p]]
        /\ Op(p).do = Do(test, p, pc[p])
    BY <1>0, <1>7, Present
  <2>3. ASSUME Disciplined(test) PROVE LockInv' /\ BarrierInv' /\ SpawnInv'
    <3>1. LockInv /\ BarrierInv /\ SpawnInv BY <1>0, <2>3 DEF UpdateInv
    <3>2. n \in {pc[p], pc[p] + 1} /\ UNCHANGED reg
      <4>1. ~Jumps(p) BY <2>2, <2>3 DEF Disciplined, Straight, RunOnce, Jumps, Do
      <4> QED BY <1>7, <4>1
    <3>3. pc' = [pc EXCEPT ![p] = n] /\ pc \in [Procs -> Nat] /\ state' = state /\ n \in Nat
      BY <1>0, <1>7, <2>2, <3>2 DEF Run, TypeInv, ProcType
    <3>4. \A q \in Procs : q # p => pc'[q] = pc[q] BY <3>3
    <3>5. pc'[p] = n BY <3>3
    <3>6. LockInv'
      <4>1. Do(test, p, n) \notin {"load", "store", "unlock"}
        BY <1>7, <2>2, <2>3, <3>2 DEF Disciplined, Locked, Busy
      <4>2. Op(p)'.do = Do(test, p, n) BY <1>1, <3>5 DEF Op, Script, Do
      <4>3. \A q \in Procs : q # p => Op(q)' = Op(q) BY <1>1, <3>4 DEF Op, Script
      <4> QED BY <1>1, <3>1, <3>2, <3>3, <4>1, <4>2, <4>3 DEF LockInv
    <3>7. BarrierInv' /\ SpawnInv'
      BY <1>0, <1>1, <1>7, <2>2, <3>1, <3>2, StepBarrier DEF Busy
    <3> QED BY <3>6, <3>7
  <2> QED BY <1>1, <1>2, <1>4, <1>5, <2>1, <2>3 DEF UpdateInv
<1> QED BY <1>6, <1>7 DEF Quiet

-----------------------------------------------------------------------------
(* The three ways an operation ends: it goes on, its CHECK fails, or it    *)
(* dies of a signal.                                                       *)
LEMMA Outcome ==
  ASSUME Inv, NEW p \in Procs, state[p] = Alive, Op(p).do \notin Busy,
         \/ Advance(p) /\ Op(p).do \notin LastOps
         \/ \E c \in Nat : CheckFails(p, c) \/ DiesOf(p, c)
         \/ (\E s \in AnyStatus : EndWith(p, s)) /\ UNCHANGED <<pc, failed>>
         \/ UNCHANGED proc,
         UNCHANGED <<test, barr, mem>>
  PROVE  Quiet
<1>0. TypeInv BY DEF Inv
<1>1. UNCHANGED <<test, lock, inside, entered, count, ledger, reg>> BY DEF barr, mem
<1>2. /\ pc[p] \in Places(test, p)
      /\ Op(p).do \notin LastOps => pc[p] + 1 \in Places(test, p)
  BY <1>0, Present
<1>3. CASE Advance(p) /\ Op(p).do \notin LastOps
  <2>1. Run(p, pc[p] + 1) BY <1>3 DEF Advance, Run
  <2> QED BY <1>1, <1>2, <1>3, <2>1 DEF Quiet
<1>4. ASSUME NEW s \in AnyStatus, EndWith(p, s), UNCHANGED pc, failed' \subseteq failed \cup {p}
      PROVE  Quiet
  <2>1. Die BY <1>0, <1>4 DEF TypeInv, ProcType, Life, EndWith, Die
  <2> QED BY <1>1, <2>1 DEF Quiet
<1>5. ASSUME NEW c \in Nat, CheckFails(p, c) \/ DiesOf(p, c) PROVE Quiet
  <2>1. Exited(c) \in AnyStatus /\ Signaled(c) \in AnyStatus BY Lives
  <2> QED BY <1>4, <1>5, <2>1 DEF CheckFails, DiesOf
<1>6. CASE UNCHANGED proc
  <2>1. Die BY <1>0, <1>6 DEF TypeInv, ProcType, proc, Die
  <2> QED BY <1>1, <2>1 DEF Quiet
<1> QED BY <1>3, <1>4, <1>5, <1>6

(* What follows when such a step leaves the types of the library and of    *)
(* the means of communication alone.                                       *)
LEMMA QuietStep == ASSUME Inv, Quiet, LibType', CommType' PROVE Inv'
  BY QuietInv DEF Inv, TypeInv

LEMMA Untouched ==
  ASSUME Inv
  PROVE  (UNCHANGED lib => LibType') /\ (UNCHANGED comm => CommType')
         /\ (UNCHANGED barr => BarrierType')
  BY DEF Inv, TypeInv, LibType, CommType, BarrierType, lib, comm, file, barr

(* Operations that change nothing but the place or the life of a process.  *)
LEMMA PlainInv ==
  ASSUME Inv, NEW p \in Procs,
         DoArgs(p) \/ DoQueue(p) \/ DoReturnErr(p) \/ DoRaise(p) \/ DoHooks(p) \/ DoCount(p)
           \/ DoImport(p) \/ DoSenderIs(p) \/ DoTouch(p)
  PROVE  Inv'
<1>0. TypeInv /\ UNCHANGED <<test, lib, barr, mem, comm>> /\ state[p] = Alive
  BY DEF Inv, DoArgs, DoQueue, DoReturnErr, DoRaise, DoHooks, DoCount, DoImport, DoSenderIs,
         DoTouch, At
<1>1. Operands(Op(p)) BY <1>0, Present
<1>2. LibType' /\ CommType' BY <1>0, Untouched
<1>3. CASE DoArgs(p) \/ DoQueue(p) \/ DoHooks(p) \/ DoCount(p) \/ DoImport(p) \/ DoSenderIs(p)
  <2>1. Op(p).do \in {"args", "queue", "hooks", "count", "import", "sender is"}
    BY <1>3 DEF DoArgs, DoQueue, DoHooks, DoCount, DoImport, DoSenderIs, At
  <2>2. Op(p).do \notin Busy /\ Op(p).do \notin LastOps BY <2>1 DEF Busy, LastOps
  <2>3. \/ Advance(p) \/ \E c \in Nat : CheckFails(p, c)
        \/ (\E s \in AnyStatus : EndWith(p, s)) /\ UNCHANGED <<pc, failed>>
    BY <1>3, Codes, Lives DEF DoArgs, DoQueue, DoHooks, DoCount, DoImport, DoSenderIs
  <2> QED BY <1>0, <1>2, <2>2, <2>3, Outcome, QuietStep
<1>4. CASE DoReturnErr(p)
  <2>1. Op(p).do \notin Busy BY <1>4 DEF DoReturnErr, At, Busy
  <2>2. err[p] \in Nat BY <1>0 DEF TypeInv, LibType
  <2>3. (\E s \in AnyStatus : EndWith(p, s)) /\ UNCHANGED <<pc, failed>>
    BY <1>4, <2>2, Codes, Lives DEF DoReturnErr
  <2> QED BY <1>0, <1>2, <2>1, <2>3, Outcome, QuietStep
<1>5. CASE DoRaise(p)
  <2>1. Op(p).do = "raise" BY <1>5 DEF DoRaise, At
  <2>2. Op(p).do \notin Busy /\ Op(p).do \notin LastOps BY <2>1 DEF Busy, LastOps
  <2>3. Advance(p) \/ ((\E s \in AnyStatus : EndWith(p, s)) /\ UNCHANGED <<pc, failed>>)
    <3>1. Op(p).sig \in Nat BY <1>1, <2>1 DEF Operands
    <3>2. Signaled(Op(p).sig) \in AnyStatus BY <3>1, Lives
    <3> QED BY <1>5, <3>2 DEF DoRaise
  <2> QED BY <1>0, <1>2, <2>2, <2>3, Outcome, QuietStep
<1>6. CASE DoTouch(p)
  <2>1. Op(p).do \notin Busy /\ Op(p).do \notin LastOps
    BY <1>6 DEF DoTouch, At, Busy, LastOps
  <2>2. Advance(p) \/ DiesOf(p, SIGSEGV) BY <1>6 DEF DoTouch
  <2> QED BY <1>0, <1>2, <2>1, <2>2, Signals, Outcome, QuietStep
<1> QED BY <1>3, <1>4, <1>5, <1>6

(* Calls of the library, and its faults.                                   *)
LEMMA CallInv ==
  ASSUME Inv, NEW p \in Procs,
         DoCall(p) \/ CallFaults(p) \/ SpawnFails(p) \/ ForkFails(p)
  PROVE  Inv'
<1>0. /\ TypeInv /\ UNCHANGED <<test, barr, mem, comm>> /\ state[p] = Alive
      /\ UNCHANGED <<reaped, hooks, err, aborting>>
  BY DEF Inv, DoCall, CallFaults, SpawnFails, ForkFails, At
<1>1. Operands(Op(p)) BY <1>0, Present
<1>2. CommType' BY <1>0, Untouched
<1>3. Op(p).do \in {"spawn", "fork", "fork child"} \cup Checked
  BY DEF DoCall, CallFaults, SpawnFails, ForkFails, At, Checked
<1>4. Op(p).do \notin Busy /\ Op(p).do \notin LastOps BY <1>3 DEF Busy, LastOps, Checked
<1>5. Advance(p) \/ \E c \in Nat : CheckFails(p, c)
  <2>1. CASE DoCall(p)
    <3>1. Op(p).fail \in Nat BY <1>1, <2>1 DEF DoCall, At, Operands
    <3> QED BY <2>1, <3>1 DEF DoCall
  <2>2. CASE CallFaults(p)
    <3>1. Op(p).do = "call" => Op(p).fail \in Nat BY <1>1 DEF Operands
    <3> QED BY <2>2, <3>1, Codes DEF CallFaults
  <2>3. CASE SpawnFails(p) \/ ForkFails(p) BY <2>3, Codes DEF SpawnFails, ForkFails
  <2> QED BY <2>1, <2>2, <2>3
<1>6. inited' \in BOOLEAN /\ fault' \in BOOLEAN
  <2>1. inited \in BOOLEAN /\ fault \in BOOLEAN BY <1>0 DEF TypeInv, LibType
  <2>2. CASE DoCall(p) BY <2>1, <2>2, Zenon DEF DoCall
  <2>3. CASE CallFaults(p) \/ SpawnFails(p) \/ ForkFails(p)
    BY <2>1, <2>3 DEF CallFaults, SpawnFails, ForkFails
  <2> QED BY <2>2, <2>3
<1>7. LibType' BY <1>0, <1>6 DEF TypeInv, LibType
<1> QED BY <1>0, <1>2, <1>4, <1>5, <1>7, Outcome, QuietStep

(* A wait takes a wait status into the exit code the process keeps.        *)
LEMMA ReapInv ==
  ASSUME Inv, NEW p \in Procs, NEW t \in Procs, Reap(p, t)
  PROVE  Inv'
<1>0. /\ TypeInv /\ UNCHANGED <<test, barr, mem, comm>> /\ state[p] = Alive
      /\ UNCHANGED <<inited, hooks, aborting, fault>> /\ Op(p).do = "wait"
  BY DEF Inv, Reap, At
<1>1. Op(p).sigfail \in Nat /\ Op(p).sigval \in Nat BY <1>0, Present DEF Operands
<1>2. CommType' BY <1>0, Untouched
<1>3. Op(p).do \notin Busy /\ Op(p).do \notin LastOps BY <1>0 DEF Busy, LastOps
<1>4. Advance(p) \/ \E c \in Nat : CheckFails(p, c) BY <1>1, Codes DEF Reap
<1>5. state[t][2] \in Nat BY Lives DEF Reap, Gone
<1>6. err \in [Procs -> Nat] BY <1>0 DEF TypeInv, LibType
<1>7. FirstNonZero(p, t) \in Nat BY <1>1, <1>5, <1>6 DEF FirstNonZero, ValueOf
<1>8. err' \in [Procs -> Nat] BY <1>6, <1>7 DEF Reap
<1>9. reaped' \subseteq Procs BY <1>0 DEF TypeInv, LibType, Reap
<1>10. LibType' BY <1>0, <1>8, <1>9 DEF TypeInv, LibType
<1> QED BY <1>0, <1>2, <1>3, <1>4, <1>10, Outcome, QuietStep

LEMMA ExitInv == ASSUME Inv, NEW p \in Procs, DoExit(p) PROVE Inv'
<1>0. /\ TypeInv /\ UNCHANGED <<test, barr, mem, comm>> /\ state[p] = Alive
      /\ UNCHANGED <<inited, reaped, err, aborting, fault>> /\ Op(p).do = "exit"
  BY DEF Inv, DoExit, At
<1>1. Op(p).statuses \subseteq AnyStatus BY <1>0, Present DEF Operands
<1>2. CommType' BY <1>0, Untouched
<1>3. Op(p).do \notin Busy BY <1>0 DEF Busy
<1>4. (\E s \in AnyStatus : EndWith(p, s)) /\ UNCHANGED <<pc, failed>> BY <1>1 DEF DoExit
<1>5. hooks' \in [Tasks -> [set : BOOLEAN, before : Nat, after : Nat]]
  BY <1>0 DEF TypeInv, LibType, DoExit, AfterHook
<1>6. LibType' BY <1>0, <1>5 DEF TypeInv, LibType
<1> QED BY <1>0, <1>2, <1>3, <1>4, <1>6, Outcome, QuietStep

LEMMA AbortInv == ASSUME Inv, NEW p \in Procs, DoAbort(p) PROVE Inv'
<1>0. /\ TypeInv /\ UNCHANGED <<test, proc, barr, mem, comm>> /\ state[p] = Alive
      /\ UNCHANGED <<inited, reaped, hooks, err, fault>> /\ Op(p).do = "abort"
  BY DEF Inv, DoAbort, At
<1>1. Op(p).do \notin Busy BY <1>0 DEF Busy
<1>2. CommType' BY <1>0, Untouched
<1>3. LibType' BY <1>0 DEF TypeInv, LibType, DoAbort
<1> QED BY <1>0, <1>1, <1>2, <1>3, Outcome, QuietStep

(* The abort changes how far it is, or ends one process.                   *)
LEMMA AbortFacts ==
  AbortArrives =>
    /\ UNCHANGED <<test, pc, failed, inited, reaped, hooks, err, fault, barr, mem, comm>>
    /\ state[Root] = Alive /\ aborting # "no" /\ aborting' \in {aborting, "root"}
<1>1. CallBack =>
        /\ UNCHANGED <<test, pc, failed, inited, reaped, hooks, err, fault, barr, mem, comm>>
        /\ state[Root] = Alive /\ aborting # "no" /\ aborting' \in {aborting, "root"}
  BY DEF CallBack, proc
<1>2. ASSUME NEW p \in Everybody, AbortEnds(p)
      PROVE  /\ UNCHANGED <<test, pc, failed, inited, reaped, hooks, err, fault, barr, mem, comm>>
             /\ state[Root] = Alive /\ aborting # "no" /\ aborting' \in {aborting, "root"}
  BY <1>2 DEF AbortEnds, lib
<1> QED BY <1>1, <1>2 DEF AbortArrives

LEMMA AbortFalls ==
  ASSUME Inv, AbortArrives
  PROVE  /\ state' \in [Procs -> Life]
         /\ \A q \in Procs : state'[q] # state[q] =>
                              state[q] = Alive /\ state'[q] = Signaled(SIGABRT)
<1>1. state \in [Procs -> Life] BY DEF Inv, TypeInv, ProcType
<1>2. Signaled(SIGABRT) \in Life BY Signals, Lives DEF Life
<1>3. CASE CallBack BY <1>1, <1>3 DEF CallBack, proc
<1>4. ASSUME NEW p \in Everybody, AbortEnds(p)
      PROVE  state[p] = Alive /\ state' = [state EXCEPT ![p] = Signaled(SIGABRT)]
  BY <1>4 DEF AbortEnds, EndWith
<1> QED BY <1>1, <1>2, <1>3, <1>4 DEF AbortArrives

(* Processes end from outside.                                             *)
LEMMA KilledInv ==
  ASSUME Inv, AbortArrives \/ RootKilled(SIGKILL) \/ WatchdogKills
  PROVE  Inv'
<1>0. TypeInv /\ UNCHANGED <<test, pc, failed, barr, mem, comm>>
  BY AbortFacts DEF Inv, RootKilled, WatchdogKills
<1>1. CommType' BY <1>0, Untouched
<1>2. LibType'
  <2>1. CASE WatchdogKills BY <2>1, Untouched DEF WatchdogKills
  <2>2. CASE RootKilled(SIGKILL) BY <1>0, <2>2 DEF RootKilled, TypeInv, LibType
  <2>3. CASE AbortArrives BY <1>0, <2>3, AbortFacts DEF TypeInv, LibType
  <2> QED BY <2>1, <2>2, <2>3
<1>3. Signaled(SIGABRT) \in AnyStatus /\ Signaled(SIGKILL) \in AnyStatus BY Signals, Lives
<1>4. state \in [Procs -> Life] /\ AnyStatus \subseteq Life
  BY <1>0 DEF TypeInv, ProcType, Life
<1>5. Die
  <2>1. CASE WatchdogKills
    BY <1>0, <1>3, <1>4, <2>1 DEF WatchdogKills, Die, TypeInv, ProcType
  <2>2. CASE RootKilled(SIGKILL)
    BY <1>0, <1>3, <1>4, <2>2 DEF RootKilled, EndWith, Die, TypeInv, ProcType
  <2>3. CASE AbortArrives
    BY <1>0, <1>3, <2>3, AbortFalls DEF Die, TypeInv, ProcType
  <2> QED BY <2>1, <2>2, <2>3
<1>6. Quiet BY <1>0, <1>5 DEF Quiet, barr, mem
<1> QED BY <1>1, <1>2, <1>6, QuietStep

-----------------------------------------------------------------------------
(* Names, children, signals, pipes.                                        *)
LEMMA CommInv ==
  ASSUME Inv, NEW p \in Procs,
         DoExport(p) \/ DoUnmap(p) \/ DoForkChild(p) \/ DoRecord(p) \/ DoMask(p) \/ DoSender(p)
           \/ DoKill(p) \/ DoSigWait(p) \/ DoPipe(p) \/ DoCoe(p) \/ DoClose(p)
  PROVE  Inv'
<1>0. /\ TypeInv /\ UNCHANGED <<test, lib, barr, mem, data>> /\ state[p] = Alive
      /\ Op(p).do \in {"export", "unmap", "fork child", "record", "mask", "sender", "kill",
                       "sigwait", "pipe", "coe", "close"}
  BY DEF Inv, DoExport, DoUnmap, DoForkChild, DoRecord, DoMask, DoSender, DoKill, DoSigWait,
         DoPipe, DoCoe, DoClose, At, file
<1>1. Op(p).do = "kill" => Op(p).to \in Procs BY <1>0, Present, Ids DEF Operands
<1>2. LibType' BY <1>0, Untouched
<1>3. Op(p).do \notin Busy /\ Op(p).do \notin LastOps BY <1>0 DEF Busy, LastOps
<1>4. Advance(p) \/ \E c \in Nat : CheckFails(p, c)
  BY Codes DEF DoExport, DoUnmap, DoForkChild, DoRecord, DoMask, DoSender, DoKill, DoSigWait,
               DoPipe, DoCoe, DoClose
<1>5. sender' \in {sender, p} /\ masked' \subseteq masked \cup {p} /\ lost' \subseteq Procs
  <2>1. lost \subseteq Procs BY <1>0 DEF TypeInv, CommType
  <2>2. CASE DoKill(p)
    <3>1. Op(p).to \in Procs BY <1>1, <2>2 DEF DoKill, At
    <3> QED BY <2>1, <2>2, <3>1 DEF DoKill
  <2>3. CASE DoMask(p) \/ DoSender(p) \/ DoSigWait(p)
    BY <2>1, <2>3 DEF DoMask, DoSender, DoSigWait
  <2>4. CASE DoExport(p) \/ DoUnmap(p) \/ DoForkChild(p) \/ DoRecord(p)
    BY <2>1, <2>4 DEF DoExport, DoUnmap, DoForkChild, DoRecord
  <2>5. CASE DoPipe(p) \/ DoCoe(p) \/ DoClose(p) BY <2>1, <2>5 DEF DoPipe, DoCoe, DoClose, Others
  <2> QED BY <2>2, <2>3, <2>4, <2>5
<1>6. CommType' BY <1>0, <1>5 DEF TypeInv, CommType
<1> QED BY <1>0, <1>2, <1>3, <1>4, <1>6, Outcome, QuietStep

(* A wait(2) that finds a child not recorded yet is made again.            *)
LEMMA WaitChildInv == ASSUME Inv, NEW p \in Procs, DoWaitChild(p) PROVE Inv'
<1>0. /\ TypeInv /\ UNCHANGED <<test, lib, barr, mem>> /\ state[p] = Alive
      /\ UNCHANGED <<names, masked, pending, sender, lost, file>> /\ Op(p).do = "wait child"
  BY DEF Inv, DoWaitChild, At
<1>1. Op(p).do \notin Busy /\ Op(p).do \notin LastOps BY <1>0 DEF Busy, LastOps
<1>2. LibType' /\ CommType' BY <1>0, Untouched DEF TypeInv, CommType, file
<1>3. CASE CheckFails(p, EXIT_FAIL)
  BY <1>0, <1>1, <1>2, <1>3, Codes, Outcome, QuietStep
<1>4. CASE \E hit \in {0, 1} : pc' = [pc EXCEPT ![p] = @ + hit] /\ UNCHANGED <<state, failed>>
  <2>1. PICK hit \in {0, 1} : pc' = [pc EXCEPT ![p] = @ + hit] /\ UNCHANGED <<state, failed>>
    BY <1>4
  <2>2. Run(p, pc[p] + hit) BY <2>1 DEF Run
  <2>3. pc[p] + hit \in Places(test, p) /\ pc[p] + hit \in {pc[p], pc[p] + 1}
    <3>1. pc[p] \in Nat /\ pc[p] \in Places(test, p) /\ pc[p] + 1 \in Places(test, p)
      BY <1>0, <1>1, Present
    <3>2. CASE hit = 0 BY <3>1, <3>2
    <3>3. CASE hit = 1 BY <3>1, <3>3
    <3> QED BY <3>2, <3>3
  <2>4. Quiet BY <1>0, <1>1, <2>2, <2>3 DEF Quiet, barr, mem
  <2> QED BY <1>2, <2>4, QuietStep
<1>5. CheckFails(p, EXIT_FAIL) \/ \E hit \in {0, 1} :
        pc' = [pc EXCEPT ![p] = @ + hit] /\ UNCHANGED <<state, failed>>
  BY DEF DoWaitChild
<1> QED BY <1>3, <1>4, <1>5

(* Data in pipes.                                                          *)
LEMMA Chunks ==
  ASSUME CommType, NEW i \in 0..ntasks
  PROVE  /\ data[i] \in Seq(Int)
         /\ \A c \in Int : [data EXCEPT ![i] = Append(@, c)] \in [0..ntasks -> Seq(Int)]
         /\ data[i] # <<>> => Head(data[i]) \in Int /\ Tail(data[i]) \in Seq(Int)
  BY DEF CommType

LEMMA Drained ==
  ASSUME CommType, NEW i
  PROVE  [data EXCEPT ![i] = IF @ = <<>> THEN @ ELSE Tail(@)] \in [0..ntasks -> Seq(Int)]
<1>1. CASE i \in 0..ntasks
  <2>1. (IF data[i] = <<>> THEN data[i] ELSE Tail(data[i])) \in Seq(Int) BY <1>1, Chunks
  <2> QED BY <2>1 DEF CommType
<1>2. CASE i \notin 0..ntasks BY <1>2 DEF CommType
<1> QED BY <1>1, <1>2

LEMMA PipeInv ==
  ASSUME Inv, NEW p \in Procs, DoWrite(p) \/ DoRead(p)
  PROVE  Inv'
<1>0. /\ TypeInv /\ UNCHANGED <<test, lib, barr, mem, Others, fds, coe>> /\ state[p] = Alive
      /\ Op(p).do \in {"write", "read"}
  BY DEF Inv, DoWrite, DoRead, At
<1>1. Operands(Op(p)) BY <1>0, Present
<1>2. LibType' BY <1>0, Untouched
<1>3. Op(p).do \notin Busy /\ Op(p).do \notin LastOps BY <1>0 DEF Busy, LastOps
<1>4. Advance(p) \/ \E c \in Nat : CheckFails(p, c) \/ DiesOf(p, c)
  BY Codes, Signals DEF DoWrite, DoRead
<1>5. data' \in [0..ntasks -> Seq(Int)]
  <2>1. CommType BY <1>0 DEF TypeInv
  <2>2. CASE DoWrite(p)
    <3>1. Op(p).pipe \in 0..ntasks /\ Op(p).chunk \in Int BY <1>1, <2>2 DEF DoWrite, At, Operands
    <3>2. [data EXCEPT ![Op(p).pipe] = Append(@, Op(p).chunk)] \in [0..ntasks -> Seq(Int)]
      BY <2>1, <3>1, Chunks
    <3> QED BY <2>1, <2>2, <3>2 DEF DoWrite, CommType
  <2>3. CASE DoRead(p) BY <2>1, <2>3, Drained DEF DoRead
  <2> QED BY <2>2, <2>3
<1>6. CommType' BY <1>0, <1>5 DEF TypeInv, CommType, Others
<1> QED BY <1>0, <1>2, <1>3, <1>4, <1>6, Outcome, QuietStep

(* The loop of a relay, and a spawn that is refused, jump.                 *)
LEMMA JumpInv ==
  ASSUME Inv, NEW p \in Procs, DoRelay(p) \/ DoPassOn(p) \/ SpawnRefused(p)
  PROVE  Inv'
<1>0. /\ TypeInv /\ CommType /\ UNCHANGED <<test, lib, barr, count, ledger, lock, Others>>
      /\ state[p] = Alive
  BY DEF Inv, TypeInv, DoRelay, DoPassOn, SpawnRefused, At, mem, comm, Others
<1>1. /\ Operands(Op(p)) /\ GoesOn(test, p, pc[p]) /\ pc[p] \in Places(test, p)
      /\ Op(p) = ScriptOf(test, p)[pc[p]] /\ pc[p] \in Nat /\ Len(ScriptOf(test, p)) \in Nat
  BY <1>0, Present
<1>2. LibType' BY <1>0, Untouched
<1>3. reg \in [Procs -> Int] BY <1>0 DEF TypeInv, MemType
<1>4. CASE DoRelay(p)
  <2>1. Op(p).do = "relay" /\ Op(p).pipe \in 0..ntasks BY <1>1, <1>4 DEF DoRelay, At, Operands
  <2>2. data' \in [0..ntasks -> Seq(Int)] BY <1>0, <1>4, Drained DEF DoRelay
  <2>3. reg' \in [Procs -> Int]
    <3>1. (IF data[Op(p).pipe] = <<>> THEN reg[p] ELSE Head(data[Op(p).pipe])) \in Int
      BY <1>0, <1>3, <2>1, Chunks
    <3> QED BY <1>3, <1>4, <3>1 DEF DoRelay
  <2>4. CommType' BY <1>0, <2>2 DEF CommType, Others
  <2>5. pc[p] + 2 <= Len(ScriptOf(test, p)) BY <1>1, <2>1, Zenon DEF GoesOn
  <2>6. PICK n \in {pc[p] + 1, pc[p] + 2} : Run(p, n) BY <1>4 DEF DoRelay, Run
  <2>7. n \in Places(test, p) BY <1>1, <2>5 DEF Places
  <2>8. Jumps(p) /\ Op(p).do \notin Busy BY <2>1 DEF Jumps, Busy
  <2>9. Quiet BY <1>0, <2>3, <2>6, <2>7, <2>8 DEF Quiet, barr
  <2> QED BY <1>2, <2>4, <2>9, QuietStep
<1>5. CASE DoPassOn(p)
  <2>1. Op(p).do = "pass on" /\ Op(p).pipe \in 0..ntasks BY <1>1, <1>5 DEF DoPassOn, At, Operands
  <2>2. data' \in [0..ntasks -> Seq(Int)]
    <3>1. reg[p] \in Int BY <1>3
    <3>2. [data EXCEPT ![Op(p).pipe] = Append(@, reg[p])] \in [0..ntasks -> Seq(Int)]
      BY <1>0, <2>1, <3>1, Chunks
    <3> QED BY <1>0, <1>5, <3>2 DEF DoPassOn, CommType
  <2>3. CommType' BY <1>0, <2>2 DEF CommType, Others
  <2>4. Jumps(p) /\ Op(p).do \notin Busy BY <2>1 DEF Jumps, Busy
  <2>5. UNCHANGED mem BY <1>5 DEF DoPassOn
  <2>6. CASE DiesOf(p, SIGPIPE)
    BY <1>0, <1>2, <2>3, <2>4, <2>5, <2>6, Signals, Outcome, QuietStep
  <2>7. CASE Run(p, pc[p] - 1)
    <3>1. pc[p] > 1 BY <1>1, <2>1, Zenon DEF GoesOn
    <3>2. pc[p] - 1 \in Places(test, p) BY <1>1, <3>1 DEF Places
    <3>3. Quiet BY <1>0, <1>3, <2>4, <2>5, <2>7, <3>2 DEF Quiet, barr, mem
    <3> QED BY <1>2, <2>3, <3>3, QuietStep
  <2> QED BY <1>5, <2>6, <2>7 DEF DoPassOn, Run
<1>6. CASE SpawnRefused(p)
  <2>1. Op(p).do = "spawn" /\ Op(p).errs # {} BY <1>6 DEF SpawnRefused, At
  <2>2. CommType' BY <1>6, Untouched DEF SpawnRefused
  <2>3. pc[p] + 2 <= Len(ScriptOf(test, p)) BY <1>1, <2>1, Zenon DEF GoesOn
  <2>4. pc[p] + 2 \in Places(test, p) BY <1>1, <2>3 DEF Places
  <2>5. Jumps(p) /\ Op(p).do \notin Busy BY <2>1 DEF Jumps, Busy
  <2>6. Run(p, pc[p] + 2) BY <1>6 DEF SpawnRefused, Run
  <2>7. UNCHANGED mem BY <1>6 DEF SpawnRefused
  <2>8. Quiet BY <1>0, <1>3, <2>4, <2>5, <2>6, <2>7 DEF Quiet, barr, mem
  <2> QED BY <1>2, <2>2, <2>8, QuietStep
<1> QED BY <1>4, <1>5, <1>6

-----------------------------------------------------------------------------
(* A spawn starts a task at its first place, the first time at that; with  *)
(* it the inactive ones of its queue.                                      *)
LEMMA SpawnStepInv == ASSUME Inv, NEW p \in Procs, DoSpawn(p) PROVE Inv'
<1> DEFINE o == Op(p)
<1>0. /\ TypeInv /\ UpdateInv /\ state[p] = Alive /\ o.do = "spawn"
      /\ UNCHANGED <<test, barr, mem, sender, masked, lost, data>>
      /\ UNCHANGED <<failed, inited, err, aborting, fault>>
  BY DEF Inv, DoSpawn, At
<1>1. /\ pc[p] \in Places(test, p) /\ pc[p] + 1 \in Places(test, p) /\ pc[p] \in Nat
      /\ Op(p) = ScriptOf(test, p)[pc[p]] /\ Do(test, p, pc[p]) = "spawn"
  BY <1>0, Present DEF LastOps
<1>2. /\ o.who \in Tasks /\ o.who \in Procs /\ o.hooks \in BOOLEAN /\ o.active \in BOOLEAN
      /\ ~o.active => o.queue \in Nat
  BY <1>0, Present, Ids DEF Operands
<1>3. 1 \in Places(test, o.who) BY <1>0, <1>2, Ids, NotEmpty
<1>4. /\ state' = [t \in Procs |->
           IF t = o.who THEN IF o.active THEN Alive ELSE Queued(o.queue)
           ELSE IF o.active /\ state[t] = Queued(o.queue) THEN Alive ELSE state[t]]
      /\ pc' = [pc EXCEPT ![p] = @ + 1, ![o.who] = 1]
      /\ state[o.who] = NotBorn \/ o.who \in reaped
  BY DEF DoSpawn
<1>5. pc \in [Procs -> Nat] /\ state \in [Procs -> Life] BY <1>0 DEF TypeInv, ProcType
<1> HIDE DEF o
<1>6. /\ pc' \in [Procs -> Nat]
      /\ \A q \in Procs : pc'[q] = IF q = o.who THEN 1 ELSE IF q = p THEN pc[p] + 1 ELSE pc[q]
  BY <1>1, <1>2, <1>4, <1>5
<1>7. /\ state'[o.who] \in {Alive} \cup Queues
      /\ \A q \in Procs : q # o.who =>
           state'[q] = state[q] \/ (state[q] = Queued(o.queue) /\ state'[q] = Alive)
  BY <1>2, <1>4, <1>5, Lives
<1>8. ProcType'
  <2>1. state' \in [Procs -> Life] BY <1>4, <1>5, <1>7 DEF Life
  <2> QED BY <1>0, <1>6, <2>1 DEF TypeInv, ProcType
<1>9. PlaceInv'
  <2> SUFFICES ASSUME NEW q \in Procs
               PROVE  /\ pc'[q] \in Places(test, q) \/ (Places(test, q) = {} /\ pc'[q] = 1)
                      /\ state'[q] # NotBorn => Places(test, q) # {}
                      /\ state'[q] \in {NotBorn} \cup Queues => pc'[q] = 1
    BY <1>0 DEF PlaceInv, Places
  <2>1. CASE q = o.who BY <1>3, <1>6, <2>1
  <2>2. CASE q # o.who
    <3>1. /\ pc[q] \in Places(test, q) \/ (Places(test, q) = {} /\ pc[q] = 1)
          /\ state[q] # NotBorn => Places(test, q) # {}
          /\ state[q] \in {NotBorn} \cup Queues => pc[q] = 1
      BY <1>0 DEF TypeInv, PlaceInv
    <3>2. state[q] = NotBorn => state'[q] = NotBorn
      BY <1>4, <2>2, Lives DEF NotBorn, Queued
    <3>3. state'[q] # state[q] => state'[q] = Alive BY <1>7, <2>2
    <3>4. CASE q = p BY <1>0, <1>1, <1>6, <2>2, <3>1, <3>2, <3>3, <3>4, Lives
    <3>5. CASE q # p BY <1>6, <2>2, <3>1, <3>2, <3>3, <3>5, Lives
    <3> QED BY <3>4, <3>5
  <2> QED BY <2>1, <2>2
<1>10. LibType'
  <2>1. hooks' \in [Tasks -> [set : BOOLEAN, before : Nat, after : Nat]]
    BY <1>0, <1>2 DEF TypeInv, LibType, DoSpawn, o
  <2>2. reaped' \subseteq Procs BY <1>0 DEF TypeInv, LibType, DoSpawn
  <2> QED BY <1>0, <2>1, <2>2 DEF TypeInv, LibType
<1>11. BarrierType' /\ MemType' /\ CommType'
  BY <1>0 DEF TypeInv, BarrierType, MemType, CommType, barr, mem
<1>12. (Protected(test) => count = ledger)' BY <1>0 DEF UpdateInv, mem
<1>13. ASSUME Disciplined(test) PROVE LockInv' /\ BarrierInv' /\ SpawnInv'
  <2>0. /\ LockInv /\ BarrierInv /\ SpawnInv /\ UNCHANGED <<test, lock, reg, count>>
        /\ UNCHANGED <<inside, entered>>
    BY <1>0, <1>13 DEF UpdateInv, barr, mem
  <2>1. p = Root BY <1>1, <1>13 DEF Disciplined, Straight, RunOnce
  <2>2. state[o.who] = NotBorn BY <1>1, <2>0, <2>1 DEF SpawnInv, o
  <2>3. ~(entered[o.who] > 0) BY <1>2, <2>0, <2>2 DEF BarrierInv
  <2>4. LockInv'
    <3> SUFFICES ASSUME NEW q \in Procs, state'[q] = Alive
                 PROVE  /\ Op(q)'.do \in {"load", "store", "unlock"} => lock = q
                        /\ Op(q)'.do = "store" => reg[q] = count
      BY <2>0 DEF LockInv
    <3>0. Op(q)'.do = Do(test, q, pc'[q]) BY <2>0 DEF Op, Script, Do
    <3>1. pc'[q] \in Places(test, q)
      BY <1>9, <2>0, Lives DEF PlaceInv, Places
    <3>2. CASE state[q] # Alive
      <4>1. q = o.who \/ state[q] = Queued(o.queue) BY <1>7, <3>2
      <4>2. state[q] \in {NotBorn} \cup Queues
        BY <1>5, <2>2, <4>1 DEF Life, Queues, Queued, AnyStatus, Alive
      <4>3. pc'[q] = 1 BY <1>0, <1>6, <3>2, <4>2 DEF TypeInv, PlaceInv
      <4> QED BY <1>13, <3>0, <3>1, <4>3 DEF Disciplined, Locked
    <3>3. CASE q = p
      <4>1. pc'[q] = pc[p] + 1 BY <1>0, <1>6, <2>2, <3>3, Lives
      <4>2. Do(test, q, pc'[q] - 1) = "spawn" BY <1>1, <3>3, <4>1
      <4> QED BY <1>13, <3>0, <3>1, <4>2 DEF Disciplined, Locked
    <3>4. CASE q # p /\ state[q] = Alive
      <4>1. pc'[q] = pc[q] BY <1>6, <2>2, <3>4, Lives
      <4>2. Op(q)' = Op(q) BY <2>0, <4>1 DEF Op, Script
      <4> QED BY <2>0, <3>4, <4>2 DEF LockInv
    <3> QED BY <3>2, <3>3, <3>4
  <2>5. BarrierInv'
    <3> SUFFICES ASSUME NEW q \in Procs
                 PROVE  /\ inside[q] => entered[q] > 0
                        /\ entered[q] > 0 => state'[q] # NotBorn
                        /\ entered[q] > 0 => \E j \in 1..pc'[q] : Do(test, q, j) = "barrier"
                        /\ \A j \in 1..(pc'[q] - 1) : Do(test, q, j) = "barrier" =>
                             \A r \in ScriptOf(test, q)[j].parties \cap Procs : entered[r] > 0
      BY <2>0 DEF BarrierInv
    <3>1. CASE q = o.who
      <4>1. pc'[q] = 1 /\ ~(entered[q] > 0) BY <1>6, <2>3, <3>1
      <4> QED BY <2>0, <4>1 DEF BarrierInv
    <3>2. CASE q # o.who
      <4>1. state[q] # NotBorn => state'[q] # NotBorn BY <1>7, <3>2, Lives
      <4>2. CASE q # p BY <1>6, <2>0, <3>2, <4>1, <4>2 DEF BarrierInv
      <4>3. CASE q = p
        <5>1. pc'[q] = pc[p] + 1 BY <1>6, <3>2, <4>3
        <5>2. \A j \in 1..pc[p] : j \in 1..(pc[p] + 1) BY <1>1
        <5>3. \A j \in 1..(pc[p] + 1 - 1) : j \in 1..(pc[p] - 1) \/ j = pc[p] BY <1>1
        <5> QED BY <1>1, <2>0, <4>1, <4>3, <5>1, <5>2, <5>3 DEF BarrierInv
      <4> QED BY <4>2, <4>3
    <3> QED BY <3>1, <3>2
  <2>6. SpawnInv'
    <3> SUFFICES ASSUME NEW k \in Places(test, Root), k >= pc'[Root], Do(test, Root, k) = "spawn"
                 PROVE  state'[ScriptOf(test, Root)[k].who] = NotBorn
      BY <2>0 DEF SpawnInv, Places
    <3> DEFINE w == ScriptOf(test, Root)[k].who
    <3>1. pc'[Root] = pc[Root] + 1 BY <1>2, <1>6, <2>1, Ids
    <3>2. k \in Nat /\ k > pc[Root] BY <1>0, <1>1, <2>1, <3>1, NotEmpty, Ids DEF Places
    <3>3. state[w] = NotBorn BY <1>1, <2>0, <2>1, <3>2 DEF SpawnInv
    <3>4. w # o.who
      <4>1. o.who = ScriptOf(test, Root)[pc[Root]].who BY <1>1, <2>1 DEF o
      <4>2. pc[Root] \in Places(test, Root) /\ Do(test, Root, pc[Root]) = "spawn" BY <1>1, <2>1
      <4>3. w = ScriptOf(test, Root)[pc[Root]].who => pc[Root] = k
        BY <1>13, <4>2, Zenon DEF Disciplined, Straight, RunOnce
      <4> QED BY <1>1, <2>1, <3>2, <4>1, <4>3
    <3>5. w \in Procs
      BY <1>0, Ids, ScriptsAssumption DEF TypeInv, ProcType, WellFormed, Operands, Do
    <3>6. state[w] # Queued(o.queue) BY <3>3 DEF NotBorn, Queued
    <3> QED BY <1>7, <3>3, <3>4, <3>5, <3>6
  <2> QED BY <2>4, <2>5, <2>6
<1> QED BY <1>0, <1>8, <1>9, <1>10, <1>11, <1>12, <1>13 DEF Inv, TypeInv, UpdateInv

(* A fork starts the root of a program that has nothing to lock.           *)
LEMMA ForkInv == ASSUME Inv, NEW p \in Procs, DoFork(p) PROVE Inv'
<1>0. /\ TypeInv /\ UpdateInv /\ state[p] = Alive /\ Op(p).do = "fork"
      /\ UNCHANGED <<test, lib, barr, mem, comm, failed>>
      /\ pc' = [pc EXCEPT ![p] = @ + 1] /\ state' = [state EXCEPT ![Root] = Alive]
  BY DEF Inv, DoFork, At
<1>1. /\ pc[p] \in Places(test, p) /\ pc[p] + 1 \in Places(test, p) /\ pc[p] \in Nat
      /\ Do(test, p, pc[p]) = "fork"
  BY <1>0, Present DEF LastOps
<1>2. pc \in [Procs -> Nat] /\ state \in [Procs -> Life] BY <1>0 DEF TypeInv, ProcType
<1>3. pc' \in [Procs -> Nat] /\ state' \in [Procs -> Life]
  BY <1>0, <1>1, <1>2, Ids DEF Life
<1>4. ProcType' BY <1>0, <1>3 DEF TypeInv, ProcType
<1>5. 1 \in Places(test, Root) BY <1>0, NotEmpty, Ids
<1>6. PlaceInv'
  <2>1. \A q \in Procs : /\ pc'[q] = pc[q] \/ (q = p /\ pc'[q] = pc[p] + 1)
                         /\ state'[q] = state[q] \/ (q = Root /\ state'[q] = Alive)
    BY <1>0, <1>2
  <2> QED BY <1>0, <1>1, <1>5, <2>1, Lives DEF TypeInv, PlaceInv, Places
<1>7. LibType' /\ CommType' /\ BarrierType' BY <1>0, Untouched
<1>8. MemType' BY <1>0 DEF TypeInv, MemType, mem
<1>9. (Protected(test) => count = ledger)' BY <1>0 DEF UpdateInv, mem
<1>10. ~Disciplined(test) BY <1>1 DEF Disciplined, Straight
<1> QED BY <1>0, <1>4, <1>6, <1>7, <1>8, <1>9, <1>10 DEF Inv, TypeInv, UpdateInv

-----------------------------------------------------------------------------
(* Who enters a barrier is at it; who leaves it has seen all its parties.  *)
LEMMA EnterInv == ASSUME Inv, NEW p \in Procs, Enter(p) PROVE Inv'
<1>0. /\ TypeInv /\ UpdateInv /\ state[p] = Alive /\ Op(p).do = "barrier"
      /\ UNCHANGED <<test, proc, lib, mem, comm>>
      /\ inside' = [inside EXCEPT ![p] = TRUE] /\ entered' = [entered EXCEPT ![p] = @ + 1]
  BY DEF Inv, Enter, At
<1>1. inside \in [Procs -> BOOLEAN] /\ entered \in [Procs -> Nat]
  BY <1>0 DEF TypeInv, BarrierType
<1>2. BarrierType' BY <1>0, <1>1 DEF BarrierType
<1>3. ProcType' /\ PlaceInv' /\ MemType'
  BY <1>0 DEF TypeInv, ProcType, PlaceInv, MemType, proc, mem, Places
<1>4. LibType' /\ CommType' BY <1>0, Untouched
<1>5. (Protected(test) => count = ledger)' BY <1>0 DEF UpdateInv, mem
<1>6. ASSUME Disciplined(test) PROVE LockInv' /\ BarrierInv' /\ SpawnInv'
  <2>0. LockInv /\ BarrierInv /\ SpawnInv /\ UNCHANGED <<test, pc, state, lock, reg, count>>
    BY <1>0, <1>6 DEF UpdateInv, proc, mem
  <2>1. LockInv' BY <2>0 DEF LockInv, Op, Script
  <2>2. SpawnInv' BY <2>0 DEF SpawnInv, Places
  <2>3. pc[p] \in Nat /\ pc[p] \in 1..pc[p] /\ Do(test, p, pc[p]) = "barrier"
    BY <1>0, Present DEF Places
  <2>4. \A q \in Procs : entered[q] > 0 => entered'[q] > 0 BY <1>0, <1>1
  <2>5. \A q \in Procs : q # p => inside'[q] = inside[q] /\ entered'[q] = entered[q]
    BY <1>0, <1>1
  <2>6. entered'[p] > 0 BY <1>0, <1>1
  <2>7. BarrierInv'
    <3> SUFFICES ASSUME NEW q \in Procs
                 PROVE  /\ inside'[q] => entered'[q] > 0
                        /\ entered'[q] > 0 => state[q] # NotBorn
                        /\ entered'[q] > 0 => \E j \in 1..pc[q] : Do(test, q, j) = "barrier"
                        /\ \A j \in 1..(pc[q] - 1) : Do(test, q, j) = "barrier" =>
                             \A r \in ScriptOf(test, q)[j].parties \cap Procs : entered'[r] > 0
      BY <2>0 DEF BarrierInv
    <3>1. CASE q # p BY <2>0, <2>4, <2>5, <3>1 DEF BarrierInv
    <3>2. CASE q = p BY <1>0, <2>0, <2>3, <2>4, <2>6, <3>2, Lives DEF BarrierInv
    <3> QED BY <3>1, <3>2
  <2> QED BY <2>1, <2>2, <2>7
<1> QED BY <1>0, <1>2, <1>3, <1>4, <1>5, <1>6 DEF Inv, TypeInv, UpdateInv

LEMMA LeaveInv == ASSUME Inv, NEW p \in Procs, Leave(p) PROVE Inv'
<1>0. /\ TypeInv /\ UpdateInv /\ state[p] = Alive /\ Op(p).do = "barrier" /\ inside[p]
      /\ UNCHANGED <<test, lib, entered, mem, comm>> /\ Advance(p)
      /\ inside' = [inside EXCEPT ![p] = FALSE]
      /\ \A q \in Op(p).parties : entered[q] >= entered[p]
  BY DEF Inv, Leave, At
<1>1. inside \in [Procs -> BOOLEAN] /\ entered \in [Procs -> Nat] /\ pc \in [Procs -> Nat]
  BY <1>0 DEF TypeInv, BarrierType, ProcType
<1>2. BarrierType' BY <1>0, <1>1 DEF BarrierType
<1>3. /\ pc[p] \in Nat /\ pc[p] + 1 \in Places(test, p) /\ Do(test, p, pc[p]) = "barrier"
      /\ Op(p) = ScriptOf(test, p)[pc[p]]
  BY <1>0, Present DEF LastOps
<1>4. Run(p, pc[p] + 1) BY <1>0 DEF Advance, Run
<1>5. ProcType' /\ PlaceInv' BY <1>0, <1>3, <1>4, RunType
<1>6. LibType' /\ CommType' /\ MemType' BY <1>0, Untouched DEF TypeInv, MemType, mem
<1>7. (Protected(test) => count = ledger)' BY <1>0 DEF UpdateInv, mem
<1>8. ASSUME Disciplined(test) PROVE LockInv' /\ BarrierInv' /\ SpawnInv'
  <2>0. LockInv /\ BarrierInv /\ SpawnInv /\ UNCHANGED <<test, state, lock, reg, count>>
    BY <1>0, <1>4, <1>8 DEF UpdateInv, Run, mem
  <2>1. \A q \in Procs : pc'[q] = IF q = p THEN pc[p] + 1 ELSE pc[q] BY <1>1, <1>4 DEF Run
  <2>2. LockInv'
    <3>1. Op(p)'.do = Do(test, p, pc[p] + 1) BY <2>0, <2>1 DEF Op, Script, Do
    <3>2. Op(p)'.do \notin {"load", "store", "unlock"}
      BY <1>3, <1>8, <3>1 DEF Disciplined, Locked
    <3>3. \A q \in Procs : q # p => Op(q)' = Op(q) BY <2>0, <2>1 DEF Op, Script
    <3> QED BY <2>0, <3>2, <3>3 DEF LockInv
  <2>3. BarrierInv'
    <3> SUFFICES ASSUME NEW q \in Procs
                 PROVE  /\ inside'[q] => entered[q] > 0
                        /\ entered[q] > 0 => state[q] # NotBorn
                        /\ entered[q] > 0 => \E j \in 1..pc'[q] : Do(test, q, j) = "barrier"
                        /\ \A j \in 1..(pc'[q] - 1) : Do(test, q, j) = "barrier" =>
                             \A r \in ScriptOf(test, q)[j].parties \cap Procs : entered[r] > 0
      BY <1>0, <2>0 DEF BarrierInv
    <3>1. inside'[q] => inside[q] BY <1>0, <1>1
    <3>2. CASE q # p BY <2>0, <2>1, <3>1, <3>2 DEF BarrierInv
    <3>3. CASE q = p
      <4>1. entered[p] > 0 BY <1>0, <2>0 DEF BarrierInv
      <4>2. \A r \in ScriptOf(test, p)[pc[p]].parties \cap Procs : entered[r] > 0
        BY <1>0, <1>1, <1>3, <4>1
      <4>3. \A j \in 1..(pc[p] + 1 - 1) : j \in 1..(pc[p] - 1) \/ j = pc[p] BY <1>3
      <4>4. pc'[q] = pc[p] + 1 BY <2>1, <3>3
      <4>5. \E j \in 1..(pc[p] + 1) : Do(test, p, j) = "barrier"
        BY <1>3, <2>0, <4>1 DEF BarrierInv
      <4>6. \A j \in 1..(pc[p] + 1 - 1) : Do(test, p, j) = "barrier" =>
              \A r \in ScriptOf(test, p)[j].parties \cap Procs : entered[r] > 0
        BY <2>0, <4>2, <4>3 DEF BarrierInv
      <4>7. /\ inside'[p] => entered[p] > 0
            /\ entered[p] > 0 => state[p] # NotBorn
        BY <2>0, <4>1 DEF BarrierInv
      <4>8. \E j \in 1..pc'[p] : Do(test, p, j) = "barrier" BY <1>3, <3>3, <4>4, <4>5
      <4>9. \A j \in 1..(pc'[p] - 1) : Do(test, p, j) = "barrier" =>
              \A r \in ScriptOf(test, p)[j].parties \cap Procs : entered[r] > 0
        BY <1>3, <3>3, <4>4, <4>6
      <4> QED BY <3>3, <4>7, <4>8, <4>9, Zenon
    <3> QED BY <3>2, <3>3
  <2>4. SpawnInv'
    <3>1. pc'[Root] >= pc[Root] BY <1>1, <2>1, Ids
    <3>2. pc[Root] \in Nat /\ pc'[Root] \in Nat BY <1>1, <2>1, Ids
    <3>3. Places(test, Root) \subseteq Nat BY <1>0, Ids, NotEmpty DEF Places
    <3> QED BY <2>0, <3>1, <3>2, <3>3 DEF SpawnInv
  <2> QED BY <2>2, <2>3, <2>4
<1> QED BY <1>0, <1>2, <1>5, <1>6, <1>7, <1>8 DEF Inv, TypeInv, UpdateInv

-----------------------------------------------------------------------------
(* The lock and the counter. Nobody but the owner of the lock is between   *)
(* load and store; nobody assigns when somebody may be.                    *)
LEMMA MemInv ==
  ASSUME Inv, NEW p \in Procs,
         DoLock(p) \/ DoUnlock(p) \/ DoLoad(p) \/ DoStore(p) \/ DoAtomic(p) \/ DoAssign(p)
  PROVE  Inv'
<1>0. /\ TypeInv /\ UpdateInv /\ state[p] = Alive /\ Advance(p)
      /\ UNCHANGED <<test, lib, barr, comm>>
      /\ Op(p).do \in {"lock", "unlock", "load", "store", "atomic", "assign"}
  BY DEF Inv, DoLock, DoUnlock, DoLoad, DoStore, DoAtomic, DoAssign, At
<1>1. /\ pc[p] \in Nat /\ pc[p] \in Places(test, p) /\ pc[p] + 1 \in Places(test, p)
      /\ Op(p).do = Do(test, p, pc[p]) /\ Operands(Op(p))
  BY <1>0, Present DEF LastOps
<1>2. Run(p, pc[p] + 1) BY <1>0 DEF Advance, Run
<1>3. ProcType' /\ PlaceInv' BY <1>0, <1>1, <1>2, RunType
<1>4. LibType' /\ CommType' /\ BarrierType' BY <1>0, Untouched
<1>5. count \in Int /\ ledger \in Int /\ reg \in [Procs -> Int] /\ lock \in Procs \cup {ANY}
  BY <1>0 DEF TypeInv, MemType
<1>6. MemType'
  <2>1. CASE DoLock(p) \/ DoUnlock(p) \/ DoLoad(p)
    BY <1>5, <2>1 DEF DoLock, DoUnlock, DoLoad, MemType
  <2>2. CASE DoStore(p) \/ DoAtomic(p)
    <3>1. Op(p).inc \in Int BY <1>1, <2>2 DEF DoStore, DoAtomic, At, Operands
    <3> QED BY <1>5, <2>2, <3>1 DEF DoStore, DoAtomic, MemType
  <2>3. CASE DoAssign(p)
    <3>1. Op(p).val \in Int BY <1>1, <2>3 DEF DoAssign, At, Operands
    <3> QED BY <1>5, <2>3, <3>1 DEF DoAssign, MemType
  <2> QED BY <2>1, <2>2, <2>3
<1>7. (Protected(test) => count = ledger)'
  <2> SUFFICES ASSUME Protected(test) PROVE count' = ledger'
    BY <1>0
  <2>1. count = ledger BY <1>0 DEF UpdateInv
  <2>2. CASE DoStore(p)
    <3>1. Op(p).do = "store" BY <2>2 DEF DoStore, At
    <3>2. Disciplined(test) BY <1>1, <3>1 DEF Protected, NoPlainUpdate
    <3>3. reg[p] = count BY <1>0, <3>1, <3>2 DEF UpdateInv, LockInv
    <3> QED BY <2>1, <2>2, <3>3 DEF DoStore
  <2>3. CASE DoLock(p) \/ DoUnlock(p) \/ DoLoad(p) \/ DoAtomic(p) \/ DoAssign(p)
    BY <2>1, <2>3 DEF DoLock, DoUnlock, DoLoad, DoAtomic, DoAssign
  <2> QED BY <2>2, <2>3
<1>8. ASSUME Disciplined(test) PROVE LockInv' /\ BarrierInv' /\ SpawnInv'
  <2>0. /\ LockInv /\ BarrierInv /\ SpawnInv /\ UNCHANGED <<test, state, inside, entered>>
    BY <1>0, <1>2, <1>8 DEF UpdateInv, Run, barr
  <2>1. BarrierInv' /\ SpawnInv' BY <1>0, <1>2, <2>0, StepBarrier
  <2>2. \A q \in Procs : pc'[q] = IF q = p THEN pc[p] + 1 ELSE pc[q]
    BY <1>0, <1>2 DEF TypeInv, ProcType, Run
  <2>3. Op(p)'.do = Do(test, p, pc[p] + 1) BY <2>0, <2>2 DEF Op, Script, Do
  <2>4. /\ Op(p)'.do = "load" => Op(p).do = "lock"
        /\ Op(p)'.do = "store" => Op(p).do = "load"
        /\ Op(p)'.do = "unlock" => Op(p).do = "store"
    BY <1>1, <1>8, <2>3 DEF Disciplined, Locked
  <2>5. \A q \in Procs : q # p => Op(q)' = Op(q) BY <2>0, <2>2 DEF Op, Script
  <2>6. Op(p).do # "atomic" BY <1>1, <1>8 DEF Disciplined, Straight
  <2>7. \A q \in Procs : state[q] = Alive /\ Op(q).do = "store" => Op(p).do # "assign"
    <3> SUFFICES ASSUME NEW q \in Procs, state[q] = Alive, Op(q).do = "store", Op(p).do = "assign"
                 PROVE  FALSE
      OBVIOUS
    <3>1. /\ pc[q] \in Nat /\ pc[q] \in Places(test, q) /\ Do(test, q, pc[q]) = "store"
      BY <1>0, Present
    <3>2. /\ \A j \in 1..pc[p] : Do(test, p, j) # "barrier"
          /\ \E j \in 1..pc[q] : Do(test, q, j) = "barrier" /\ p \in ScriptOf(test, q)[j].parties
      BY <1>1, <1>8, <3>1 DEF Disciplined, SetUpFirst
    <3>3. PICK j \in 1..pc[q] : Do(test, q, j) = "barrier" /\ p \in ScriptOf(test, q)[j].parties
      BY <3>2
    <3>4. j \in 1..(pc[q] - 1) BY <3>1, <3>3
    <3>5. entered[p] > 0 BY <2>0, <3>3, <3>4 DEF BarrierInv
    <3> QED BY <2>0, <3>2, <3>5 DEF BarrierInv
  <2>8. LockInv'
    <3> SUFFICES ASSUME NEW q \in Procs, state[q] = Alive
                 PROVE  /\ Op(q)'.do \in {"load", "store", "unlock"} => lock' = q
                        /\ Op(q)'.do = "store" => reg'[q] = count'
      BY <2>0 DEF LockInv
    <3>1. CASE q = p
      <4>1. CASE DoLock(p) BY <2>4, <3>1, <4>1 DEF DoLock, At
      <4>2. CASE DoUnlock(p) BY <2>4, <3>1, <4>2 DEF DoUnlock, At
      <4>3. CASE DoLoad(p)
        <5>1. lock' = p BY <1>0, <2>0, <4>3 DEF DoLoad, At, LockInv
        <5>2. reg'[p] = count' BY <1>5, <4>3 DEF DoLoad
        <5> QED BY <3>1, <5>1, <5>2
      <4>4. CASE DoStore(p)
        <5>1. lock' = p BY <1>0, <2>0, <4>4 DEF DoStore, At, LockInv
        <5> QED BY <2>4, <3>1, <4>4, <5>1 DEF DoStore, At
      <4>5. CASE DoAtomic(p) \/ DoAssign(p)
        BY <2>4, <3>1, <4>5 DEF DoAtomic, DoAssign, At
      <4> QED BY <4>1, <4>2, <4>3, <4>4, <4>5
    <3>2. CASE q # p
      <4>0. /\ Op(q)' = Op(q) /\ q # ANY
            /\ Op(q).do \in {"load", "store", "unlock"} => lock = q
            /\ Op(q).do = "store" => reg[q] = count
            /\ Op(p).do \in {"load", "store", "unlock"} => lock = p
        BY <1>0, <2>0, <2>5, <3>2, Ids DEF LockInv
      <4>1. CASE DoLock(p) BY <4>0, <4>1 DEF DoLock
      <4>2. CASE DoUnlock(p) BY <3>2, <4>0, <4>2 DEF DoUnlock, At
      <4>3. CASE DoLoad(p) BY <1>5, <3>2, <4>0, <4>3 DEF DoLoad, At
      <4>4. CASE DoStore(p) BY <3>2, <4>0, <4>4 DEF DoStore, At
      <4>5. CASE DoAtomic(p) BY <2>6, <4>5 DEF DoAtomic, At
      <4>6. CASE DoAssign(p) BY <2>7, <4>0, <4>6 DEF DoAssign, At
      <4> QED BY <4>1, <4>2, <4>3, <4>4, <4>5, <4>6
    <3> QED BY <3>1, <3>2
  <2> QED BY <2>1, <2>8
<1> QED BY <1>0, <1>3, <1>4, <1>6, <1>7, <1>8 DEF Inv, TypeInv, UpdateInv

-----------------------------------------------------------------------------
LEMMA InitInv == Init => Inv
<1> SUFFICES ASSUME Init PROVE Inv OBVIOUS
<1>0. WellFormed(test) BY ScriptsAssumption DEF Init
<1>1. /\ test \in ToSet(Scripts) /\ pc = [p \in Procs |-> 1] /\ failed = {}
      /\ state = [p \in Procs |-> IF p = Outer THEN Alive ELSE NotBorn]
  BY DEF Init
<1>2. ProcType BY <1>1 DEF ProcType, Life
<1>3. LibType BY DEF Init, LibType
<1>4. BarrierType BY DEF Init, BarrierType
<1>5. MemType BY DEF Init, MemType
<1>6. CommType BY DEF Init, CommType
<1>7. \A p \in Procs : 1 \in Places(test, p) \/ Places(test, p) = {}
  BY <1>0 DEF WellFormed, Places
<1>8. Places(test, Outer) # {}
  BY <1>0, Ids DEF WellFormed, Outer, Script
<1>9. PlaceInv BY <1>1, <1>7, <1>8, Lives DEF PlaceInv
<1>10. count = ledger BY DEF Init
<1>11. ASSUME Disciplined(test) PROVE LockInv /\ BarrierInv /\ SpawnInv
  <2>1. LockInv
    <3> SUFFICES ASSUME NEW p \in Procs, state[p] = Alive
                 PROVE  Op(p).do \notin {"load", "store", "unlock"}
      BY DEF LockInv
    <3>1. 1 \in Places(test, p) BY <1>1, <1>7, <1>8, Lives
    <3>2. Op(p).do = Do(test, p, 1) BY <1>1 DEF Op, Script, Do
    <3> QED BY <1>11, <3>1, <3>2 DEF Disciplined, Locked
  <2>2. BarrierInv
    <3>1. inside = [p \in Procs |-> FALSE] /\ entered = [p \in Procs |-> 0] BY DEF Init
    <3> QED BY <1>1, <3>1 DEF BarrierInv
  <2>3. SpawnInv
    <3>1. \A k \in Places(test, Root) : Do(test, Root, k) = "spawn" =>
            ScriptOf(test, Root)[k].who \in Tasks
      BY <1>0, Ids DEF WellFormed, Operands, Do
    <3>2. \A t \in Tasks : state[t] = NotBorn BY <1>1, Ids DEF Outer, Everybody
    <3> QED BY <3>1, <3>2 DEF SpawnInv
  <2> QED BY <2>1, <2>2, <2>3
<1> QED BY <1>2, <1>3, <1>4, <1>5, <1>6, <1>9, <1>10, <1>11 DEF Inv, TypeInv, UpdateInv

LEMMA StepInv == ASSUME Inv, NEW p \in Procs, Step(p) PROVE Inv'
<1>1. CASE DoArgs(p) \/ DoQueue(p) \/ DoReturnErr(p) \/ DoRaise(p) \/ DoHooks(p) \/ DoCount(p)
             \/ DoImport(p) \/ DoSenderIs(p) \/ DoTouch(p)
  BY <1>1, PlainInv
<1>2. CASE DoCall(p) BY <1>2, CallInv
<1>3. CASE DoSpawn(p) \/ DoFork(p) BY <1>3, SpawnStepInv, ForkInv
<1>4. CASE \E t \in Procs : Reap(p, t) BY <1>4, ReapInv
<1>5. CASE DoExit(p) \/ DoAbort(p) BY <1>5, ExitInv, AbortInv
<1>6. CASE Enter(p) \/ Leave(p) BY <1>6, EnterInv, LeaveInv
<1>7. CASE DoLock(p) \/ DoUnlock(p) \/ DoLoad(p) \/ DoStore(p) \/ DoAtomic(p) \/ DoAssign(p)
  BY <1>7, MemInv
<1>8. CASE DoExport(p) \/ DoUnmap(p) \/ DoForkChild(p) \/ DoRecord(p) \/ DoMask(p) \/ DoSender(p)
             \/ DoKill(p) \/ DoSigWait(p) \/ DoPipe(p) \/ DoCoe(p) \/ DoClose(p)
  BY <1>8, CommInv
<1>9. CASE DoWaitChild(p) BY <1>9, WaitChildInv
<1>10. CASE DoWrite(p) \/ DoRead(p) BY <1>10, PipeInv
<1>11. CASE DoRelay(p) \/ DoPassOn(p) \/ SpawnRefused(p) BY <1>11, JumpInv
<1> QED BY <1>1, <1>2, <1>3, <1>4, <1>5, <1>6, <1>7, <1>8, <1>9, <1>10, <1>11 DEF Step

LEMMA NextInv == Inv /\ [Next]_vars => Inv'
<1> SUFFICES ASSUME Inv, [Next]_vars PROVE Inv' OBVIOUS
<1>1. CASE \E p \in Procs : Step(p) BY <1>1, StepInv
<1>2. CASE \E p \in Procs : CallFaults(p) \/ SpawnFails(p) \/ ForkFails(p) BY <1>2, CallInv
<1>3. CASE AbortArrives \/ WatchdogKills \/ RootKilled(SIGKILL) BY <1>3, KilledInv
<1>4. CASE UNCHANGED vars
  <2>1. Die BY <1>4 DEF vars, proc, Inv, TypeInv, ProcType, Die
  <2>2. Quiet BY <1>4, <2>1 DEF vars, barr, mem, Quiet
  <2>3. LibType' /\ CommType' BY <1>4, Untouched DEF vars
  <2> QED BY <2>2, <2>3, QuietStep
<1> QED BY <1>1, <1>2, <1>3, <1>4 DEF Next, Progress, Faults

(* The inductive invariant holds in every behaviour of every program.      *)
THEOREM Invariance == Spec => []Inv
<1> QED BY InitInv, NextInv, PTL DEF Spec

(* Every process of every program stays within its script, ends with a     *)
(* wait status, and what the library keeps of it has its type.             *)
THEOREM TypeCorrect == Spec => []TypeOK
<1>1. Inv => TypeOK
  <2> SUFFICES ASSUME Inv PROVE TypeOK OBVIOUS
  <2>1. ProcType /\ LibType /\ BarrierType /\ MemType /\ CommType /\ PlaceInv BY DEF Inv, TypeInv
  <2>2. \A p \in Procs : pc[p] \in 1..(Len(Script(p)) + 1)
    <3>1. TypeInv BY DEF Inv
    <3> QED BY <2>1, <3>1, NotEmpty DEF PlaceInv, Places, Script
  <2>3. \A p \in Procs : state[p] \in {NotBorn, Alive} \cup AnyStatus \cup ({"queued"} \X Nat)
    BY <2>1 DEF ProcType, Life, Queues
  <2>4. {inited, fault} \subseteq BOOLEAN /\ aborting \in {"no", "called", "root"}
    BY <2>1 DEF LibType
  <2>5. {lock, sender} \subseteq Procs \cup {ANY} BY <2>1 DEF MemType, CommType
  <2> QED BY <2>1, <2>2, <2>3, <2>4, <2>5, Zenon
          DEF TypeOK, ProcType, LibType, BarrierType, MemType, CommType
<1> QED BY <1>1, Invariance, PTL

(* Under a lock, or with atomic updates only, no update of the counter is  *)
(* lost: in every test program but the three that keep their updates apart *)
(* in another way, with any number of tasks, of iterations and of faults.  *)
THEOREM LockedUpdates == Spec => [](Name \notin NotLocked => NoLostUpdate)
<1>1. Inv => (Name \notin NotLocked => NoLostUpdate)
  <2> SUFFICES ASSUME Inv, Name \notin NotLocked PROVE NoLostUpdate OBVIOUS
  <2>1. Protected(test) BY UpdatesAssumption DEF Inv, TypeInv, ProcType, Name
  <2> QED BY <2>1 DEF Inv, UpdateInv, NoLostUpdate
<1> QED BY <1>1, Invariance, PTL

-----------------------------------------------------------------------------
(* The ring of pip_kill.c. How often its members have sent the signal and  *)
(* have received it so far.                                                *)
Sends == [p \in Everybody |-> Sent(test, p, pc[p])]
Gets  == [p \in Everybody |-> Got(test, p, pc[p])]

(* Nobody has sent more often than who is before it, the last task at most *)
(* once less than the root, and nobody receives what has not been sent, or *)
(* sends what it does not have.                                            *)
Hand(p, s, g) == g[p] - s[p] + IF p = Root THEN 1 ELSE 0
Ordered(s, g) ==
  /\ \A t, u \in Tasks : t < u => s[t] >= s[u]
  /\ \A t \in Tasks : s[t] \in {s[Root] - 1, s[Root]}
  /\ \A p \in Everybody : g[p] <= s[Prev(p)] /\ Hand(p, s, g) \in {0, 1}

(* A signal that waits for its receiver is the one sent last, and who is   *)
(* about to send has left its name.                                        *)
SignalInv ==
  /\ pending = [p \in Procs |-> pending[p]]
  /\ \A p \in Everybody : pending[p] # {} =>
       /\ Sends[Prev(p)] = Gets[p] + 1 /\ sender = Prev(p)
       /\ \E sig \in pending[p] : pending[p] = {sig}
  /\ \A p \in Everybody : state[p] = Alive /\ Op(p).do = "kill" => sender = p

(* Who has passed the place has blocked the signals, and so none is lost.  *)
MaskInv ==
  /\ lost = {}
  /\ \A p \in Everybody : \A j \in 1..(pc[p] - 1) : Do(test, p, j) = "mask" => p \in masked

RingInv == Ordered(Sends, Gets) /\ SignalInv /\ MaskInv
Token == Ring(test) => RingInv

-----------------------------------------------------------------------------
(* Counting operations.                                                   *)
LEMMA MadeFacts ==
  ASSUME NEW s, NEW p, NEW do, NEW k \in Nat \ {0}
  PROVE  /\ Made(s, p, 1, do) = 0
         /\ Made(s, p, k, do) \in Nat
         /\ Made(s, p, k + 1, do) = Made(s, p, k, do) + IF Do(s, p, k) = do THEN 1 ELSE 0
<1> DEFINE B(n) == {j \in 1..(n - 1) : Do(s, p, j) = do}
<1>1. \A n \in Nat : IsFiniteSet(B(n))
  <2> SUFFICES ASSUME NEW n \in Nat PROVE IsFiniteSet(B(n)) OBVIOUS
  <2>1. IsFiniteSet(1..(n - 1)) BY FS_Interval
  <2> QED BY <2>1, FS_Subset
<1>2. Cardinality(B(k)) \in Nat BY <1>1, FS_CardinalityType
<1>3. B(1) = {} OBVIOUS
<1>4. CASE Do(s, p, k) = do
  <2>1. B(k + 1) = B(k) \cup {k} /\ k \notin B(k) BY <1>4
  <2>2. Cardinality(B(k + 1)) = Cardinality(B(k)) + 1
    <3>1. IsFiniteSet(B(k)) BY <1>1
    <3> HIDE DEF B
    <3> QED BY <2>1, <3>1, FS_AddElement
  <2> QED BY <1>2, <1>3, <1>4, <2>2, FS_EmptySet DEF Made
<1>5. CASE Do(s, p, k) # do
  <2>1. B(k + 1) = B(k) BY <1>5
  <2> QED BY <1>2, <1>3, <1>5, <2>1, FS_EmptySet DEF Made
<1> QED BY <1>4, <1>5

(* Who comes before whom in the ring.                                      *)
LEMMA PrevFacts ==
  /\ Prev(Root) = ntasks - 1 /\ ntasks - 1 \in Tasks /\ Prev(0) = Root /\ 0 \in Tasks
  /\ \A t \in Tasks : t \in Int /\ 0 <= t /\ t <= ntasks - 1
  /\ \A t \in Tasks : t # 0 => Prev(t) = t - 1 /\ t - 1 \in Tasks
  /\ \A p \in Everybody : Prev(p) \in Everybody
  /\ \A p, q \in Everybody : Prev(p) = Prev(q) => p = q
  BY TestOpsAssumption DEF Prev, Root, Tasks, Everybody

(* While somebody has the token no signal is on its way, and nobody else   *)
(* has it.                                                                 *)
LEMMA OneHolder ==
  ASSUME NEW s \in [Everybody -> Nat], NEW g \in [Everybody -> Nat], Ordered(s, g),
         NEW p \in Everybody, Hand(p, s, g) = 1
  PROVE  /\ \A q \in Everybody : g[q] = s[Prev(q)]
         /\ \A q \in Everybody : q # p => Hand(q, s, g) = 0
<1> DEFINE last == ntasks - 1
<1>0. last \in Tasks /\ \A t \in Tasks : t \in Int /\ t <= last /\ t \in Everybody /\ t # Root
  BY PrevFacts, Ids
<1>1. /\ \A q \in Everybody : s[q] \in Nat /\ g[q] \in Nat /\ Hand(q, s, g) \in {0, 1}
                              /\ g[q] <= s[Prev(q)]
      /\ \A t \in Tasks : s[last] <= s[t] /\ s[t] <= s[Root] /\ s[t] >= s[Root] - 1
  <2>1. \A q \in Everybody : s[q] \in Nat /\ g[q] \in Nat OBVIOUS
  <2>2. ASSUME NEW t \in Tasks PROVE s[last] <= s[t] /\ s[t] <= s[Root] /\ s[t] >= s[Root] - 1
    <3>1. s[t] \in {s[Root] - 1, s[Root]} BY DEF Ordered
    <3>2. s[t] >= s[last] BY <1>0, <2>1 DEF Ordered
    <3> QED BY <1>0, <2>1, <3>1, <3>2, Ids
  <2> QED BY <2>1, <2>2 DEF Ordered
<1>2. /\ Hand(Root, s, g) = g[Root] - s[Root] + 1
      /\ \A t \in Tasks : Hand(t, s, g) = g[t] - s[t]
  BY <1>0, <1>1 DEF Hand
<1>3. Everybody = Tasks \cup {Root} BY DEF Everybody
<1>4. CASE p = Root
  <2>1. g[Root] = s[Root] BY <1>1, <1>2, <1>4, Ids
  <2>2. s[Root] <= s[last] BY <1>1, <2>1, PrevFacts, Ids
  <2>3. \A t \in Tasks : s[t] = s[Root] BY <1>0, <1>1, <2>2, Ids
  <2>4. \A q \in Everybody : s[Prev(q)] = s[Root] BY <1>3, <2>3, PrevFacts
  <2>5. \A t \in Tasks : g[t] = s[Root] /\ Hand(t, s, g) = 0 BY <1>0, <1>1, <1>2, <2>3, <2>4, Ids
  <2> QED BY <1>3, <1>4, <2>1, <2>4, <2>5
<1>5. ASSUME NEW t \in Tasks, p = t
      PROVE  /\ \A q \in Everybody : g[q] = s[Prev(q)]
             /\ \A q \in Everybody : q # p => Hand(q, s, g) = 0
  <2>1. g[t] = s[t] + 1 BY <1>0, <1>1, <1>2, <1>5
  <2>2. \A q \in Everybody : s[Prev(q)] <= s[Root] BY <1>0, <1>1, <1>3, PrevFacts, Ids
  <2>3. s[t] = s[Root] - 1 /\ g[t] = s[Root] /\ s[Prev(t)] = s[Root]
    <3>1. g[t] <= s[Prev(t)] /\ s[Prev(t)] <= s[Root] /\ s[t] >= s[Root] - 1
      BY <1>0, <1>1, <2>2
    <3>2. s[Prev(t)] \in Nat /\ s[Root] \in Nat /\ s[t] \in Nat BY <1>0, PrevFacts, Ids
    <3> QED BY <2>1, <3>1, <3>2
  <2>4. ASSUME NEW u \in Tasks, u < t PROVE g[u] = s[Prev(u)] /\ Hand(u, s, g) = 0
    <3>1. t # 0 /\ Prev(t) = t - 1 /\ t - 1 \in Tasks BY <1>0, <2>4, PrevFacts
    <3>2. s[u] >= s[t - 1]
      <4>1. CASE u = t - 1 BY <1>0, <1>1, <4>1
      <4>2. CASE u < t - 1 BY <3>1, <4>2 DEF Ordered
      <4> QED BY <1>0, <2>4, <4>1, <4>2
    <3>3. s[u] = s[Root] BY <1>0, <1>1, <2>3, <3>1, <3>2, Ids
    <3>4. g[u] <= s[Prev(u)] /\ s[Prev(u)] <= s[Root] /\ g[u] >= s[u] BY <1>0, <1>1, <1>2, <2>2
    <3>5. s[Prev(u)] \in Nat /\ s[Root] \in Nat /\ g[u] \in Nat BY <1>0, PrevFacts, Ids
    <3> QED BY <1>2, <3>3, <3>4, <3>5
  <2>5. ASSUME NEW u \in Tasks, t < u PROVE g[u] = s[Prev(u)] /\ Hand(u, s, g) = 0
    <3>1. u # 0 /\ Prev(u) = u - 1 /\ u - 1 \in Tasks BY <1>0, <2>5, PrevFacts
    <3>2. s[t] >= s[u - 1]
      <4>1. CASE t = u - 1 BY <1>0, <1>1, <4>1
      <4>2. CASE t < u - 1 BY <3>1, <4>2 DEF Ordered
      <4> QED BY <1>0, <2>5, <4>1, <4>2
    <3>3. s[u] >= s[Root] - 1 /\ g[u] >= s[u] /\ g[u] <= s[u - 1] BY <1>0, <1>1, <1>2, <3>1
    <3>4. s[u] \in Nat /\ s[u - 1] \in Nat /\ g[u] \in Nat /\ s[Root] \in Nat
      BY <1>0, <3>1, Ids
    <3> QED BY <1>2, <2>3, <3>1, <3>2, <3>3, <3>4
  <2>6. g[Root] = s[Prev(Root)] /\ Hand(Root, s, g) = 0
    <3>1. g[Root] <= s[last] /\ s[last] <= s[t] BY <1>1, PrevFacts, Ids
    <3>2. s[last] \in Nat /\ g[Root] \in Nat /\ s[Root] \in Nat BY <1>0, Ids
    <3>3. g[Root] >= s[Root] - 1 BY <1>1, <1>2, <3>2, Ids
    <3> QED BY <1>2, <2>3, <3>1, <3>2, <3>3, PrevFacts
  <2> QED
    <3>1. \A u \in Tasks : u = t \/ u < t \/ t < u BY <1>0
    <3> QED BY <1>3, <1>5, <2>3, <2>4, <2>5, <2>6, <3>1
<1> QED BY <1>3, <1>4, <1>5

(* Sending keeps the order.                                                *)
LEMMA SendNumbers ==
  ASSUME NEW s \in [Everybody -> Nat], NEW g \in [Everybody -> Nat], Ordered(s, g),
         NEW p \in Everybody, Hand(p, s, g) = 1
  PROVE  Ordered([s EXCEPT ![p] = @ + 1], g)
<1> DEFINE S == [s EXCEPT ![p] = @ + 1]
<1>1. /\ S[p] = s[p] + 1 /\ \A q \in Everybody : q # p => S[q] = s[q]
      /\ \A q \in Everybody : s[q] \in Nat /\ g[q] \in Nat /\ S[q] \in Nat
  OBVIOUS
<1>2. \A q \in Everybody : g[q] = s[Prev(q)] /\ (q # p => Hand(q, s, g) = 0) BY OneHolder
<1>3. \A t \in Tasks : t \in Int /\ t \in Everybody /\ t # Root BY PrevFacts, Ids
<1> HIDE DEF S
<1>4. \A q \in Everybody : Hand(q, S, g) = IF q = p THEN 0 ELSE Hand(q, s, g)
  BY <1>1 DEF Hand
<1>5. \A q \in Everybody : g[q] <= S[Prev(q)] BY <1>1, <1>2, PrevFacts
<1>6. CASE p = Root
  <2>1. \A t \in Tasks : s[t] = s[Root]
    <3>1. g[Root] = s[Root] /\ s[Root] = s[ntasks - 1] BY <1>1, <1>2, <1>6, PrevFacts, Ids DEF Hand
    <3>2. \A t \in Tasks : s[t] >= s[ntasks - 1] BY <1>1, <1>3, PrevFacts DEF Ordered
    <3> QED BY <1>1, <1>3, <3>1, <3>2, Ids DEF Ordered
  <2>2. \A t \in Tasks : S[t] = s[Root] /\ S[Root] = s[Root] + 1 BY <1>1, <1>3, <1>6, <2>1
  <2>3. s[Root] \in Nat /\ \A t \in Tasks : S[t] \in Nat BY <1>1, <1>3, Ids
  <2>4. \A t \in Tasks : S[t] \in {S[Root] - 1, S[Root]} BY <2>2, <2>3
  <2>5. \A t, u \in Tasks : S[t] >= S[u] BY <2>2, <2>3
  <2>6. \A q \in Everybody : Hand(q, S, g) \in {0, 1} BY <1>4 DEF Ordered
  <2> QED BY <1>5, <2>4, <2>5, <2>6 DEF Ordered, S
<1>7. CASE p \in Tasks
  <2>1. g[p] = s[p] + 1 /\ g[p] = s[Prev(p)] /\ S[Root] = s[Root]
    BY <1>1, <1>2, <1>3, <1>7, Ids DEF Hand
  <2>2. s[Prev(p)] <= s[Root]
    <3>1. CASE p = 0 BY <3>1, <1>1, PrevFacts, Ids
    <3>2. CASE p # 0 BY <1>1, <1>3, <1>7, <3>2, PrevFacts, Ids DEF Ordered
    <3> QED BY <3>1, <3>2
  <2>3. s[p] = s[Root] - 1 BY <1>1, <1>3, <1>7, <2>1, <2>2, Ids DEF Ordered
  <2>4. \A u \in Tasks : u < p => s[u] >= s[p] + 1
    <3> SUFFICES ASSUME NEW u \in Tasks, u < p PROVE s[u] >= s[p] + 1 OBVIOUS
    <3>1. p # 0 /\ Prev(p) = p - 1 /\ p - 1 \in Tasks BY <1>3, <1>7, PrevFacts
    <3>2. u = p - 1 \/ u < p - 1 BY <1>3, <1>7
    <3>3. s[u] >= s[p - 1] BY <1>1, <1>3, <3>1, <3>2 DEF Ordered
    <3> QED BY <2>1, <3>1, <3>3
  <2>5. \A t, u \in Tasks : t < u => S[t] >= S[u]
    <3> SUFFICES ASSUME NEW t \in Tasks, NEW u \in Tasks, t < u PROVE S[t] >= S[u] OBVIOUS
    <3>1. s[t] >= s[u] /\ s[t] \in Nat /\ s[u] \in Nat BY <1>1, <1>3 DEF Ordered
    <3>2. CASE u = p
      <4>1. t # p BY <1>3, <3>2
      <4> QED BY <1>1, <1>3, <2>4, <3>2, <4>1
    <3>3. CASE u # p BY <1>1, <1>3, <3>1, <3>3
    <3> QED BY <3>2, <3>3
  <2>6. \A t \in Tasks : S[t] \in {S[Root] - 1, S[Root]}
    BY <1>1, <1>3, <2>1, <2>3, Ids DEF Ordered
  <2>7. \A q \in Everybody : Hand(q, S, g) \in {0, 1} BY <1>4 DEF Ordered
  <2> QED BY <1>5, <2>5, <2>6, <2>7 DEF Ordered, S
<1> QED BY <1>6, <1>7 DEF Everybody

(* Receiving what is on its way keeps it too.                              *)
LEMMA GetNumbers ==
  ASSUME NEW s \in [Everybody -> Nat], NEW g \in [Everybody -> Nat], Ordered(s, g),
         NEW p \in Everybody, g[p] < s[Prev(p)]
  PROVE  /\ Ordered(s, [g EXCEPT ![p] = @ + 1])
         /\ Hand(p, s, [g EXCEPT ![p] = @ + 1]) = 1
<1> DEFINE G == [g EXCEPT ![p] = @ + 1]
<1>1. /\ G[p] = g[p] + 1 /\ \A q \in Everybody : q # p => G[q] = g[q]
      /\ \A q \in Everybody : s[q] \in Nat /\ g[q] \in Nat /\ G[q] \in Nat
  OBVIOUS
<1>2. Hand(p, s, g) = 0
  <2>1. s[Prev(p)] \in Nat /\ g[p] \in Nat BY PrevFacts
  <2>2. g[p] # s[Prev(p)] BY <2>1
  <2>3. Hand(p, s, g) # 1 BY <2>2, OneHolder
  <2> QED BY <2>3 DEF Ordered
<1> HIDE DEF G
<1>3. \A q \in Everybody : Hand(q, s, G) = IF q = p THEN Hand(p, s, g) + 1 ELSE Hand(q, s, g)
  BY <1>1 DEF Hand
<1>4. \A q \in Everybody : Hand(q, s, G) \in {0, 1} BY <1>2, <1>3 DEF Ordered
<1>5. \A q \in Everybody : G[q] <= s[Prev(q)]
  <2> SUFFICES ASSUME NEW q \in Everybody PROVE G[q] <= s[Prev(q)] OBVIOUS
  <2>1. s[Prev(q)] \in Nat /\ g[q] <= s[Prev(q)] BY PrevFacts DEF Ordered
  <2> QED BY <1>1, <2>1
<1>6. Ordered(s, G) BY <1>4, <1>5, Zenon DEF Ordered
<1>7. Hand(p, s, G) = 1 BY <1>2, <1>3
<1> QED BY <1>6, <1>7 DEF G

-----------------------------------------------------------------------------
(* What is known of the members of a ring.                                 *)
LEMMA Members ==
  ASSUME Inv, Ring(test)
  PROVE  /\ TypeInv /\ BarrierInv /\ SpawnInv
         /\ Sends \in [Everybody -> Nat] /\ Gets \in [Everybody -> Nat]
         /\ \A p \in Procs : state[p] = Alive => p \in Everybody
         /\ \A p \in Everybody :
              /\ pc[p] \in Nat \ {0} /\ RingPlace(test, p, pc[p])
              /\ Op(p) = ScriptOf(test, p)[pc[p]] /\ Op(p).do = Do(test, p, pc[p])
              /\ Hand(p, Sends, Gets) = Tokens(test, p, pc[p])
<1>1. TypeInv /\ BarrierInv /\ SpawnInv BY DEF Inv, UpdateInv, Ring
<1>2. ASSUME NEW p \in Everybody PROVE pc[p] \in Places(test, p) /\ pc[p] \in Nat \ {0}
  <2>1. 1 \in Places(test, p) /\ Len(ScriptOf(test, p)) \in Nat BY <1>1, NotEmpty, Ids
  <2>2. pc[p] \in Places(test, p) BY <1>1, <2>1, Ids DEF TypeInv, PlaceInv
  <2> QED BY <2>1, <2>2 DEF Places
<1>3. ASSUME NEW p \in Procs, state[p] = Alive PROVE p \in Everybody
  <2>1. Places(test, p) # {} BY <1>1, <1>3, Lives DEF TypeInv, PlaceInv
  <2>2. ScriptOf(test, Parent) = <<>> BY DEF Ring, ScriptOf, Parent, Root
  <2>3. Places(test, Parent) = {} BY <2>2 DEF Places
  <2>4. p # Parent BY <2>1, <2>3
  <2> QED BY <2>4 DEF Procs, Everybody
<1>4. Sends \in [Everybody -> Nat] /\ Gets \in [Everybody -> Nat]
  BY <1>2, MadeFacts DEF Sends, Gets, Sent, Got
<1>5. ASSUME NEW p \in Everybody
      PROVE  /\ RingPlace(test, p, pc[p])
             /\ Op(p) = ScriptOf(test, p)[pc[p]] /\ Op(p).do = Do(test, p, pc[p])
             /\ Hand(p, Sends, Gets) = Tokens(test, p, pc[p])
  <2>1. RingPlace(test, p, pc[p]) BY <1>2 DEF Ring
  <2>2. Op(p) = ScriptOf(test, p)[pc[p]] /\ Op(p).do = Do(test, p, pc[p])
    BY DEF Op, Script, Do
  <2>3. Hand(p, Sends, Gets) = Tokens(test, p, pc[p]) BY DEF Hand, Tokens, Sends, Gets
  <2> QED BY <2>1, <2>2, <2>3
<1> QED BY <1>1, <1>2, <1>3, <1>4, <1>5

(* The steps as far as places are concerned: at most one process goes on,  *)
(* and who comes to life is at its first place.                            *)
Goes(p, n) ==
  /\ n = pc[p] \/ (state[p] = Alive /\ n = pc[p] + 1)
  /\ pc' = [pc EXCEPT ![p] = n]
  /\ \A q \in Procs : state'[q] = Alive => state[q] = Alive \/ pc[q] = 1
Passes(p, n, do) == n # pc[p] /\ Op(p).do = do

LEMMA Counts ==
  ASSUME Inv, Ring(test), test' = test, NEW p \in Everybody, NEW n, Goes(p, n)
  PROVE  /\ Sends' = IF Passes(p, n, "kill") THEN [Sends EXCEPT ![p] = @ + 1] ELSE Sends
         /\ Gets'  = IF Passes(p, n, "sigwait") THEN [Gets EXCEPT ![p] = @ + 1] ELSE Gets
<1>1. pc[p] \in Nat \ {0} /\ Op(p).do = Do(test, p, pc[p]) BY Members
<1>2. pc \in [Procs -> Nat] /\ p \in Procs BY Ids DEF Inv, TypeInv, ProcType
<1>3. pc'[p] = n /\ \A q \in Everybody : q # p => pc'[q] = pc[q] BY <1>2, Ids DEF Goes
<1>4. CASE n = pc[p]
  <2>1. \A q \in Everybody : pc'[q] = pc[q] BY <1>3, <1>4
  <2> QED BY <1>4, <2>1 DEF Sends, Gets, Passes
<1>5. CASE n # pc[p]
  <2>1. n = pc[p] + 1 BY <1>5 DEF Goes
  <2>2. \A do : Made(test, p, n, do) =
                  Made(test, p, pc[p], do) + IF Op(p).do = do THEN 1 ELSE 0
    BY <1>1, <2>1, MadeFacts
  <2>3. \A do : Made(test, p, pc[p], do) \in Nat BY <1>1, MadeFacts
  <2>4. /\ Sent(test, p, n) = Sent(test, p, pc[p]) + IF Op(p).do = "kill" THEN 1 ELSE 0
        /\ Got(test, p, n)  = Got(test, p, pc[p]) + IF Op(p).do = "sigwait" THEN 1 ELSE 0
        /\ Sent(test, p, pc[p]) \in Nat /\ Got(test, p, pc[p]) \in Nat
    BY <2>2, <2>3 DEF Sent, Got
  <2>5. Sends' = IF Passes(p, n, "kill") THEN [Sends EXCEPT ![p] = @ + 1] ELSE Sends
    BY <1>3, <1>5, <2>4 DEF Sends, Passes
  <2>6. Gets' = IF Passes(p, n, "sigwait") THEN [Gets EXCEPT ![p] = @ + 1] ELSE Gets
    BY <1>3, <1>5, <2>4 DEF Gets, Passes
  <2> QED BY <2>5, <2>6
<1> QED BY <1>4, <1>5

LEMMA GoesMask ==
  ASSUME Inv, Ring(test), MaskInv, test' = test, NEW p \in Everybody, NEW n, Goes(p, n),
         masked \subseteq masked', lost' = {}, Passes(p, n, "mask") => p \in masked'
  PROVE  MaskInv'
<1>1. pc[p] \in Nat \ {0} /\ Op(p).do = Do(test, p, pc[p]) BY Members
<1>2. pc \in [Procs -> Nat] /\ p \in Procs BY Ids DEF Inv, TypeInv, ProcType
<1>3. pc'[p] = n /\ \A q \in Everybody : q # p => pc'[q] = pc[q] BY <1>2, Ids DEF Goes
<1> SUFFICES ASSUME NEW q \in Everybody, NEW j \in 1..(pc'[q] - 1), Do(test, q, j) = "mask"
             PROVE  q \in masked'
  BY DEF MaskInv
<1>4. CASE j \in 1..(pc[q] - 1) BY <1>4 DEF MaskInv
<1>5. CASE j \notin 1..(pc[q] - 1)
  <2>1. q = p /\ n = pc[p] + 1 BY <1>3, <1>5 DEF Goes
  <2>2. j = pc[p] BY <1>1, <1>3, <1>5, <2>1
  <2> QED BY <1>1, <2>1, <2>2 DEF Passes
<1> QED BY <1>4, <1>5

(* Nobody comes to a kill but from the sender operation before it.         *)
LEMMA AtKill ==
  ASSUME Inv, Inv', Ring(test), SignalInv, test' = test, NEW p \in Everybody, NEW n, Goes(p, n),
         NEW q \in Everybody, state'[q] = Alive, Op(q)'.do = "kill"
  PROVE  sender = q \/ (q = p /\ Passes(p, n, "sender"))
<1>1. /\ \A r \in Everybody : /\ pc[r] \in Nat \ {0} /\ RingPlace(test, r, pc[r])
                              /\ Op(r).do = Do(test, r, pc[r])
      /\ pc' \in [Procs -> Nat] /\ p \in Procs /\ q \in Procs
  BY Members, Ids DEF Inv, TypeInv, ProcType
<1>2. pc'[p] = n /\ (q # p => pc'[q] = pc[q])
  BY <1>1, Ids DEF Goes, Inv, TypeInv, ProcType
<1>3. RingPlace(test, q, pc'[q]) /\ Do(test, q, pc'[q]) = "kill"
  <2>1. 1 \in Places(test, q) BY NotEmpty DEF Inv
  <2>2. pc'[q] \in Places(test, q) BY <1>1, <2>1 DEF Inv, TypeInv, PlaceInv
  <2>3. RingPlace(test, q, pc'[q]) BY <2>2 DEF Ring
  <2> QED BY <2>3 DEF Op, Script, Do
<1>4. pc'[q] > 1 /\ Do(test, q, pc'[q] - 1) = "sender"
  BY <1>3 DEF RingPlace, Do
<1>5. state[q] = Alive \/ pc[q] = 1 BY <1>1 DEF Goes
<1>6. CASE pc'[q] = pc[q]
  <2>1. state[q] = Alive /\ Op(q).do = "kill" BY <1>1, <1>3, <1>4, <1>5, <1>6
  <2> QED BY <2>1 DEF SignalInv
<1>7. CASE pc'[q] # pc[q]
  <2>1. q = p /\ n = pc[p] + 1 BY <1>2, <1>7 DEF Goes
  <2>2. Do(test, p, pc[p]) = "sender" BY <1>1, <1>2, <1>4, <2>1
  <2> QED BY <1>1, <2>1, <2>2 DEF Passes
<1> QED BY <1>6, <1>7

(* The steps that have nothing to do with the signals.                     *)
SignalOps == {"mask", "sender", "kill", "sigwait"}
LEMMA RestRing ==
  ASSUME Inv, Inv', Ring(test), RingInv, UNCHANGED <<test, masked, pending, sender, lost>>,
         NEW p \in Everybody, NEW n, Goes(p, n), n # pc[p] => Op(p).do \notin SignalOps
  PROVE  RingInv'
<1>1. ~Passes(p, n, "kill") /\ ~Passes(p, n, "sigwait") /\ ~Passes(p, n, "mask")
      /\ ~Passes(p, n, "sender")
  BY DEF Passes, SignalOps
<1>2. Sends' = Sends /\ Gets' = Gets BY <1>1, Counts
<1>3. Ordered(Sends, Gets)' BY <1>2 DEF RingInv, Ordered, Hand
<1>4. SignalInv'
  <2>1. \A q \in Everybody : state'[q] = Alive /\ Op(q)'.do = "kill" => sender' = q
    BY <1>1, AtKill DEF RingInv
  <2> QED BY <1>2, <2>1 DEF RingInv, SignalInv
<1>5. MaskInv' BY <1>1, GoesMask DEF RingInv, MaskInv
<1> QED BY <1>3, <1>4, <1>5 DEF RingInv

-----------------------------------------------------------------------------
(* The operations on the signals.                                          *)
LEMMA MaskRing ==
  ASSUME Inv, Inv', Ring(test), RingInv, NEW p \in Procs, DoMask(p)
  PROVE  RingInv'
<1>1. state[p] = Alive /\ Op(p).do = "mask" /\ UNCHANGED <<test, pending, sender, lost>>
  BY DEF DoMask, At
<1>2. p \in Everybody /\ pc[p] \in Nat BY <1>1, Members
<1>3. masked' = masked \cup {p} BY DEF DoMask
<1>4. Goes(p, pc[p] + 1) BY <1>1 DEF DoMask, Advance, Goes
<1>5. ~Passes(p, pc[p] + 1, "kill") /\ ~Passes(p, pc[p] + 1, "sigwait")
      /\ ~Passes(p, pc[p] + 1, "sender")
  BY <1>1 DEF Passes
<1>6. Sends' = Sends /\ Gets' = Gets BY <1>1, <1>2, <1>4, <1>5, Counts
<1>7. Ordered(Sends, Gets)' BY <1>6 DEF RingInv, Ordered, Hand
<1>8. SignalInv'
  <2>1. \A q \in Everybody : state'[q] = Alive /\ Op(q)'.do = "kill" => sender' = q
    BY <1>1, <1>2, <1>4, <1>5, AtKill DEF RingInv
  <2> QED BY <1>1, <1>6, <2>1 DEF RingInv, SignalInv
<1>9. MaskInv'
  <2>1. lost' = {} /\ MaskInv BY <1>1 DEF RingInv, MaskInv
  <2> QED BY <1>1, <1>2, <1>3, <1>4, <2>1, GoesMask
<1> QED BY <1>7, <1>8, <1>9 DEF RingInv

(* Who has a token finds nothing on its way, and nobody else has one.      *)
LEMMA NothingPending ==
  ASSUME Inv, Ring(test), RingInv, NEW p \in Everybody, Op(p).do \in {"sender", "kill"}
  PROVE  /\ Hand(p, Sends, Gets) = 1
         /\ \A q \in Everybody : pending[q] = {} /\ Gets[q] = Sends[Prev(q)]
         /\ \A q \in Everybody : Op(q).do = "kill" => q = p
<1>1. \A q \in Everybody : Op(q).do \in {"sender", "kill"} => Hand(q, Sends, Gets) = 1
  <2> SUFFICES ASSUME NEW q \in Everybody, Op(q).do \in {"sender", "kill"}
               PROVE  Hand(q, Sends, Gets) = 1
    OBVIOUS
  <2>1. RingPlace(test, q, pc[q]) /\ Op(q) = ScriptOf(test, q)[pc[q]] BY Members
  <2>2. Tokens(test, q, pc[q]) = 1 BY <2>1 DEF RingPlace
  <2> QED BY <2>2, Members
<1>2. Sends \in [Everybody -> Nat] /\ Gets \in [Everybody -> Nat] BY Members
<1>3. Hand(p, Sends, Gets) = 1 BY <1>1
<1>4. /\ \A q \in Everybody : Gets[q] = Sends[Prev(q)]
      /\ \A q \in Everybody : q # p => Hand(q, Sends, Gets) = 0
  BY <1>2, <1>3, OneHolder DEF RingInv
<1>5. \A q \in Everybody : pending[q] = {}
  <2> SUFFICES ASSUME NEW q \in Everybody, pending[q] # {} PROVE FALSE OBVIOUS
  <2>1. Sends[Prev(q)] = Gets[q] + 1 BY DEF RingInv, SignalInv
  <2>2. Gets[q] \in Nat BY <1>2
  <2> QED BY <1>4, <2>1, <2>2
<1>6. \A q \in Everybody : Op(q).do = "kill" => q = p BY <1>1, <1>4
<1> QED BY <1>3, <1>4, <1>5, <1>6

LEMMA SenderRing ==
  ASSUME Inv, Inv', Ring(test), RingInv, NEW p \in Procs, DoSender(p)
  PROVE  RingInv'
<1>1. state[p] = Alive /\ Op(p).do = "sender" /\ UNCHANGED <<test, pending, masked, lost>>
  BY DEF DoSender, At
<1>2. p \in Everybody /\ pc[p] \in Nat BY <1>1, Members
<1>3. sender' = p BY DEF DoSender
<1>4. Goes(p, pc[p] + 1) BY <1>1 DEF DoSender, Advance, Goes
<1>5. ~Passes(p, pc[p] + 1, "kill") /\ ~Passes(p, pc[p] + 1, "sigwait")
      /\ ~Passes(p, pc[p] + 1, "mask")
  BY <1>1 DEF Passes
<1>6. Sends' = Sends /\ Gets' = Gets BY <1>1, <1>2, <1>4, <1>5, Counts
<1>7. Ordered(Sends, Gets)' BY <1>6 DEF RingInv, Ordered, Hand
<1>8. \A q \in Everybody : pending'[q] = {} /\ (Op(q).do = "kill" => q = p)
  BY <1>1, <1>2, NothingPending
<1>9. SignalInv'
  <2>1. ASSUME NEW q \in Everybody, state'[q] = Alive, Op(q)'.do = "kill" PROVE q = p
    <3>1. CASE q # p
      <4>1. pc'[q] = pc[q] BY <1>2, <1>4, <3>1, Ids DEF Goes, Inv, TypeInv, ProcType
      <4>2. Op(q)' = Op(q) BY <1>1, <4>1 DEF Op, Script
      <4> QED BY <1>8, <2>1, <4>2
    <3> QED BY <3>1
  <2> QED BY <1>1, <1>3, <1>8, <2>1 DEF RingInv, SignalInv
<1>10. MaskInv' BY <1>1, <1>2, <1>4, <1>5, GoesMask DEF RingInv, MaskInv
<1> QED BY <1>7, <1>9, <1>10 DEF RingInv

LEMMA KillRing ==
  ASSUME Inv, Inv', Ring(test), RingInv, NEW p \in Procs, DoKill(p)
  PROVE  RingInv'
<1> DEFINE q == Op(p).to
<1>1. state[p] = Alive /\ Op(p).do = "kill" /\ UNCHANGED <<test, masked, sender>>
  BY DEF DoKill, At
<1>2. p \in Everybody /\ pc[p] \in Nat /\ RingPlace(test, p, pc[p])
      /\ Op(p) = ScriptOf(test, p)[pc[p]] /\ TypeInv /\ BarrierInv
  BY <1>1, Members
<1>3. q \in Everybody BY <1>1, <1>2, Present DEF Operands
<1>4. Prev(q) = p BY <1>1, <1>2 DEF RingPlace
<1>5. q \in masked
  <2>1. PICK j \in 1..(pc[p] - 1) :
          Do(test, p, j) = "barrier" /\ q \in ScriptOf(test, p)[j].parties
    BY <1>1, <1>2 DEF RingPlace
  <2>2. entered[q] > 0 BY <1>2, <1>3, <2>1, Ids DEF BarrierInv
  <2>3. PICK m \in 1..pc[q] : Do(test, q, m) = "barrier" BY <1>2, <1>3, <2>2, Ids DEF BarrierInv
  <2>4. pc[q] \in Nat \ {0} /\ pc[q] \in Places(test, q) /\ Len(ScriptOf(test, q)) \in Nat
    <3>1. 1 \in Places(test, q) /\ Len(ScriptOf(test, q)) \in Nat BY <1>2, <1>3, NotEmpty, Ids
    <3> QED BY <1>2, <1>3, <3>1, Members, Ids DEF TypeInv, PlaceInv
  <2>5. m \in Places(test, q) BY <2>4 DEF Places
  <2>6. RingPlace(test, q, m) BY <1>3, <2>5 DEF Ring
  <2>7. PICK i \in 1..(m - 1) : Do(test, q, i) = "mask" BY <2>3, <2>6 DEF RingPlace, Do
  <2>8. i \in 1..(pc[q] - 1) BY <2>4
  <2> QED BY <1>3, <2>7, <2>8 DEF RingInv, MaskInv
<1>6. pending' = [pending EXCEPT ![q] = @ \cup {Op(p).sig}] /\ lost' = lost
  BY <1>5 DEF DoKill
<1>7. Goes(p, pc[p] + 1) BY <1>1 DEF DoKill, Advance, Goes
<1>8. Passes(p, pc[p] + 1, "kill") /\ ~Passes(p, pc[p] + 1, "sigwait")
      /\ ~Passes(p, pc[p] + 1, "sender") /\ ~Passes(p, pc[p] + 1, "mask")
  BY <1>1, <1>2 DEF Passes
<1>9. Sends' = [Sends EXCEPT ![p] = @ + 1] /\ Gets' = Gets
  BY <1>1, <1>2, <1>7, <1>8, Counts
<1>10. Sends \in [Everybody -> Nat] /\ Gets \in [Everybody -> Nat] BY Members
<1>11. /\ Hand(p, Sends, Gets) = 1
       /\ \A r \in Everybody : pending[r] = {} /\ Gets[r] = Sends[Prev(r)]
  BY <1>1, <1>2, NothingPending
<1>12. Ordered(Sends, Gets)'
  <2>1. Ordered(Sends', Gets) BY <1>2, <1>9, <1>10, <1>11, SendNumbers DEF RingInv
  <2> QED BY <1>9, <2>1 DEF Ordered, Hand
<1>13. SignalInv'
  <2>1. \A r \in Everybody : state'[r] = Alive /\ Op(r)'.do = "kill" => sender' = r
    BY <1>1, <1>2, <1>7, <1>8, AtKill DEF RingInv
  <2>2. sender' = Prev(q) BY <1>1, <1>2, <1>4 DEF RingInv, SignalInv
  <2>3. pending = [r \in Procs |-> pending[r]] BY DEF RingInv, SignalInv
  <2>4. pending' = [r \in Procs |-> pending'[r]] BY <1>6, <2>3
  <2>5. pending'[q] = {Op(p).sig} /\ \A r \in Everybody : r # q => pending'[r] = {}
    BY <1>3, <1>6, <1>11, <2>3, Ids
  <2>6. Sends'[Prev(q)] = Gets'[q] + 1 BY <1>2, <1>3, <1>4, <1>9, <1>10, <1>11
  <2> QED BY <2>1, <2>2, <2>4, <2>5, <2>6 DEF SignalInv
<1>14. MaskInv'
  BY <1>1, <1>2, <1>6, <1>7, <1>8, GoesMask DEF RingInv, MaskInv
<1> QED BY <1>12, <1>13, <1>14 DEF RingInv

LEMMA SigWaitRing ==
  ASSUME Inv, Inv', Ring(test), RingInv, NEW p \in Procs, DoSigWait(p)
  PROVE  RingInv'
<1>1. state[p] = Alive /\ Op(p).do = "sigwait" /\ UNCHANGED <<test, masked, sender, lost>>
  BY DEF DoSigWait, At
<1>2. p \in Everybody /\ pc[p] \in Nat BY <1>1, Members
<1>3. PICK sig \in pending[p] :
        /\ pending' = [pending EXCEPT ![p] = @ \ {sig}]
        /\ IF sig = Op(p).sig THEN Advance(p) ELSE CheckFails(p, EXIT_FAIL)
  BY DEF DoSigWait
<1>4. Sends[Prev(p)] = Gets[p] + 1 /\ pending[p] = {sig}
  BY <1>2, <1>3 DEF RingInv, SignalInv
<1>5. pending = [r \in Procs |-> pending[r]] BY DEF RingInv, SignalInv
<1>6. /\ pending' = [r \in Procs |-> pending'[r]] /\ pending'[p] = {}
      /\ \A r \in Everybody : r # p => pending'[r] = pending[r]
  BY <1>3, <1>4, <1>5, Ids
<1>7. PICK n \in {pc[p], pc[p] + 1} : Goes(p, n)
  <2>1. CASE Advance(p)
    <3>1. Goes(p, pc[p] + 1) BY <1>1, <2>1 DEF Advance, Goes
    <3> QED BY <3>1
  <2>2. CASE CheckFails(p, EXIT_FAIL)
    <3>1. pc' = [pc EXCEPT ![p] = pc[p]] BY <1>2, <2>2, Ids DEF CheckFails, Inv, TypeInv, ProcType
    <3>2. \A q \in Procs : state'[q] = Alive => state[q] = Alive
      BY <2>2, Codes, Lives DEF CheckFails, EndWith, Inv, TypeInv, ProcType
    <3>3. Goes(p, pc[p]) BY <3>1, <3>2 DEF Goes
    <3> QED BY <3>3
  <2> QED BY <1>3, <2>1, <2>2
<1>8. ~Passes(p, n, "kill") /\ ~Passes(p, n, "sender") /\ ~Passes(p, n, "mask")
  BY <1>1 DEF Passes
<1>9. Sends' = Sends /\ Gets' = IF n # pc[p] THEN [Gets EXCEPT ![p] = @ + 1] ELSE Gets
  BY <1>1, <1>2, <1>7, <1>8, Counts DEF Passes
<1>10. Sends \in [Everybody -> Nat] /\ Gets \in [Everybody -> Nat] BY Members
<1>11. Ordered(Sends, Gets)'
  <2>1. Gets[p] < Sends[Prev(p)] BY <1>2, <1>4, <1>10
  <2>2. Ordered(Sends, [Gets EXCEPT ![p] = @ + 1])
    BY <1>2, <1>10, <2>1, GetNumbers DEF RingInv
  <2>3. Ordered(Sends, Gets') BY <1>9, <2>2 DEF RingInv
  <2> QED BY <1>9, <2>3 DEF Ordered, Hand
<1>12. SignalInv'
  <2>1. \A r \in Everybody : state'[r] = Alive /\ Op(r)'.do = "kill" => sender' = r
    BY <1>1, <1>2, <1>7, <1>8, AtKill DEF RingInv
  <2>2. \A r \in Everybody : r # p => Gets'[r] = Gets[r] BY <1>9, <1>10
  <2> QED BY <1>1, <1>6, <1>9, <2>1, <2>2 DEF RingInv, SignalInv
<1>13. MaskInv' BY <1>1, <1>2, <1>7, <1>8, GoesMask DEF RingInv, MaskInv
<1> QED BY <1>11, <1>12, <1>13 DEF RingInv

(* All other steps.                                                        *)
LEMMA OtherRing ==
  ASSUME Inv, Inv', Ring(test), RingInv, NEW p \in Procs,
         \/ DoArgs(p) \/ DoCall(p) \/ DoExit(p) \/ Enter(p) \/ Leave(p) \/ DoSenderIs(p)
         \/ (\E t \in Procs : Reap(p, t))
         \/ CallFaults(p) \/ SpawnFails(p)
  PROVE  RingInv'
<1>1. state[p] = Alive /\ UNCHANGED <<test, comm>>
  BY DEF DoArgs, DoCall, DoExit, Enter, Leave, DoSenderIs, Reap, CallFaults, SpawnFails, At
<1>2. UNCHANGED <<masked, pending, sender, lost>> BY <1>1 DEF comm
<1>3. p \in Everybody /\ pc[p] \in Nat BY <1>1, Members
<1>4. pc \in [Procs -> Nat] /\ state \in [Procs -> Life] BY DEF Inv, TypeInv, ProcType
<1>5. \/ Advance(p) /\ Op(p).do \notin SignalOps
      \/ pc' = pc /\ \A q \in Procs : state'[q] = Alive => state[q] = Alive
  <2>1. ASSUME NEW s \in AnyStatus, EndWith(p, s)
        PROVE  \A q \in Procs : state'[q] = Alive => state[q] = Alive
    BY <1>1, <2>1 DEF EndWith
  <2>2. ASSUME NEW c, CheckFails(p, c)
        PROVE  pc' = pc /\ \A q \in Procs : state'[q] = Alive => state[q] = Alive
    BY <1>1, <2>2 DEF CheckFails, EndWith
  <2>3. CASE DoArgs(p)
    <3>1. Op(p).do = "args" BY <2>3 DEF DoArgs, At
    <3>2. Advance(p) \/ (EndWith(p, Exited(EXIT_UNTESTED)) /\ pc' = pc) BY <2>3 DEF DoArgs
    <3> QED BY <2>1, <3>1, <3>2, Codes, Lives DEF SignalOps
  <2>4. CASE DoCall(p)
    <3>1. Advance(p) \/ CheckFails(p, Op(p).fail) BY <2>4 DEF DoCall
    <3>2. Op(p).do = "call" BY <2>4 DEF DoCall, At
    <3> QED BY <2>2, <3>1, <3>2 DEF SignalOps
  <2>5. CASE DoExit(p) BY <1>1, <2>5 DEF DoExit, EndWith
  <2>6. CASE Enter(p) BY <2>6 DEF Enter, proc
  <2>7. CASE Leave(p) \/ DoSenderIs(p)
    BY <2>2, <2>7 DEF Leave, DoSenderIs, At, SignalOps
  <2>8. CASE \E t \in Procs : Reap(p, t) BY <2>2, <2>8 DEF Reap, At, SignalOps
  <2>9. CASE CallFaults(p) \/ SpawnFails(p) BY <2>2, <2>9 DEF CallFaults, SpawnFails
  <2> QED BY <2>3, <2>4, <2>5, <2>6, <2>7, <2>8, <2>9
<1>6. CASE Advance(p) /\ Op(p).do \notin SignalOps
  <2>1. Goes(p, pc[p] + 1) BY <1>1, <1>6 DEF Advance, Goes
  <2> QED BY <1>1, <1>2, <1>3, <1>6, <2>1, RestRing
<1>7. CASE pc' = pc /\ \A q \in Procs : state'[q] = Alive => state[q] = Alive
  <2>1. Goes(p, pc[p]) BY <1>4, <1>7 DEF Goes
  <2> QED BY <1>1, <1>2, <1>3, <2>1, RestRing
<1> QED BY <1>5, <1>6, <1>7

(* A spawn: every task is spawned once, so who comes to life has done      *)
(* nothing yet.                                                            *)
LEMMA SpawnRing ==
  ASSUME Inv, Inv', Ring(test), RingInv, NEW p \in Procs, DoSpawn(p)
  PROVE  RingInv'
<1> DEFINE w == Op(p).who
<1>1. state[p] = Alive /\ Op(p).do = "spawn"
      /\ UNCHANGED <<test, masked, pending, sender, lost>>
  BY DEF DoSpawn, At
<1>2. /\ p \in Everybody /\ TypeInv /\ SpawnInv
      /\ pc[p] \in Places(test, p) /\ pc[p] \in Nat /\ Op(p) = ScriptOf(test, p)[pc[p]]
      /\ Op(p).do = Do(test, p, pc[p])
  BY <1>1, Members, Present
<1>3. p = Root BY <1>1, <1>2, Ids DEF Ring, Disciplined, Straight, RunOnce
<1>4. state[w] = NotBorn BY <1>1, <1>2, <1>3 DEF SpawnInv
<1>5. w \in Procs /\ w # p BY <1>1, <1>2, <1>4, Present, Ids, Lives DEF Operands
<1>6. pc \in [Procs -> Nat] /\ pc[w] = 1 BY <1>2, <1>4, <1>5 DEF TypeInv, ProcType, PlaceInv
<1>7. pc' = [pc EXCEPT ![p] = pc[p] + 1]
  <2>1. pc' = [pc EXCEPT ![p] = pc[p] + 1, ![w] = 1] BY DEF DoSpawn
  <2> HIDE DEF w
  <2> QED BY <1>5, <1>6, <2>1
<1>8. \A q \in Procs : state'[q] = Alive => state[q] = Alive \/ pc[q] = 1
  <2> SUFFICES ASSUME NEW q \in Procs, state'[q] = Alive, state[q] # Alive PROVE pc[q] = 1
    OBVIOUS
  <2>1. q = w \/ state[q] = Queued(Op(p).queue) BY <1>1 DEF DoSpawn
  <2>2. state[q] = Queued(Op(p).queue) => state[q] \in Queues
    BY <1>2 DEF TypeInv, ProcType, Life, Queued, Queues, NotBorn, Alive, AnyStatus
  <2> QED BY <1>2, <1>6, <2>1, <2>2 DEF TypeInv, PlaceInv
<1>9. Goes(p, pc[p] + 1) BY <1>1, <1>7, <1>8 DEF Goes
<1> QED BY <1>1, <1>2, <1>9, RestRing DEF SignalOps

LEMMA KilledRing ==
  ASSUME Inv, Inv', Ring(test), RingInv, AbortArrives \/ RootKilled(SIGKILL) \/ WatchdogKills
  PROVE  RingInv'
<1>1. UNCHANGED <<test, pc, masked, pending, sender, lost>>
  BY AbortFacts DEF RootKilled, WatchdogKills, comm
<1>2. \A q \in Procs : state'[q] = Alive => state[q] = Alive
  BY AbortFalls, Lives, Signals DEF RootKilled, WatchdogKills, EndWith, Inv, TypeInv, ProcType
<1>3. Goes(Root, pc[Root]) BY <1>1, <1>2, Ids DEF Goes, Inv, TypeInv, ProcType
<1> QED BY <1>1, <1>3, RestRing, Ids

LEMMA NextRing ==
  ASSUME Inv, Inv', Ring(test), RingInv, Next
  PROVE  RingInv'
<1>1. ASSUME NEW p \in Procs, Step(p) PROVE RingInv'
  <2>1. CASE \/ DoArgs(p) \/ DoCall(p) \/ DoExit(p) \/ Enter(p) \/ Leave(p) \/ DoSenderIs(p)
             \/ (\E t \in Procs : Reap(p, t))
    BY <2>1, OtherRing
  <2>2. CASE DoSpawn(p) BY <2>2, SpawnRing
  <2>3. CASE DoMask(p) BY <2>3, MaskRing
  <2>4. CASE DoSender(p) BY <2>4, SenderRing
  <2>5. CASE DoKill(p) BY <2>5, KillRing
  <2>6. CASE DoSigWait(p) BY <2>6, SigWaitRing
  <2>7. ASSUME ~ \/ DoArgs(p) \/ DoCall(p) \/ DoExit(p) \/ Enter(p) \/ Leave(p) \/ DoSenderIs(p)
                 \/ (\E t \in Procs : Reap(p, t)) \/ DoSpawn(p) \/ DoMask(p) \/ DoSender(p)
                 \/ DoKill(p) \/ DoSigWait(p)
        PROVE  FALSE
    <3>1. /\ state[p] = Alive
          /\ \/ SpawnRefused(p) /\ Op(p).errs # {} /\ Op(p).do = "spawn"
             \/ Op(p).do \notin RingOps
      BY <1>1, <2>7
      DEF Step, SpawnRefused, DoQueue, DoFork, DoReturnErr, DoRaise, DoHooks, DoAbort, DoLock,
          DoUnlock, DoLoad, DoStore, DoAtomic, DoAssign, DoCount, DoExport, DoImport,
          DoForkChild, DoRecord, DoWaitChild, DoTouch, DoUnmap, DoPipe, DoCoe, DoClose, DoWrite,
          DoRead, DoRelay, DoPassOn, At, RingOps
    <3>2. /\ p \in Everybody /\ RingPlace(test, p, pc[p]) /\ pc[p] \in Places(test, p)
          /\ Op(p) = ScriptOf(test, p)[pc[p]] /\ Op(p).do = Do(test, p, pc[p])
      BY <3>1, Members, Present
    <3>3. Op(p).do \in RingOps BY <3>2 DEF RingPlace
    <3>4. Op(p).do = "spawn" => Op(p).errs = {}
      <4>1. RunOnce(test) /\ p \in Procs BY <3>2, Ids DEF Ring, Disciplined, Straight
      <4> QED BY <3>2, <4>1 DEF RunOnce
    <3> QED BY <3>1, <3>3, <3>4
  <2> QED BY <2>1, <2>2, <2>3, <2>4, <2>5, <2>6, <2>7
<1>2. ASSUME NEW p \in Procs, CallFaults(p) \/ SpawnFails(p) PROVE RingInv'
  BY <1>2, OtherRing
<1>3. ASSUME NEW p \in Procs, ForkFails(p) PROVE FALSE
  <2>1. state[p] = Alive /\ Op(p).do \in {"fork", "fork child"} BY <1>3 DEF ForkFails, At
  <2>2. RingPlace(test, p, pc[p]) /\ Op(p) = ScriptOf(test, p)[pc[p]] BY <2>1, Members
  <2> QED BY <2>1, <2>2 DEF RingPlace, RingOps
<1>4. CASE AbortArrives \/ RootKilled(SIGKILL) \/ WatchdogKills BY <1>4, KilledRing
<1> QED BY <1>1, <1>2, <1>3, <1>4 DEF Next, Progress, Faults

LEMMA InitRing == ASSUME Init, Ring(test) PROVE RingInv
<1>1. Sends = [p \in Everybody |-> 0] /\ Gets = [p \in Everybody |-> 0]
  <2>1. \A p \in Everybody : pc[p] = 1 BY Ids DEF Init
  <2>2. 1 \in Nat \ {0} OBVIOUS
  <2> QED BY <2>1, <2>2, MadeFacts DEF Sends, Gets, Sent, Got
<1>2. Ordered(Sends, Gets)
  <2>1. \A t \in Tasks : t \in Everybody BY Ids
  <2> QED BY <1>1, <2>1, PrevFacts, Ids DEF Ordered, Hand
<1>3. MaskInv BY Ids DEF Init, MaskInv
<1>4. SignalInv
  <2>1. \A p \in Everybody : Op(p).do # "kill"
    <3> SUFFICES ASSUME NEW p \in Everybody, Op(p).do = "kill" PROVE FALSE OBVIOUS
    <3>1. pc[p] = 1 BY Ids DEF Init
    <3>2. Inv BY InitInv
    <3>3. RingPlace(test, p, pc[p]) /\ Op(p) = ScriptOf(test, p)[pc[p]] BY <3>2, Members
    <3> QED BY <3>1, <3>3 DEF RingPlace
  <2>2. pending = [p \in Procs |-> {}] BY DEF Init
  <2> QED BY <2>1, <2>2, Ids DEF SignalInv
<1> QED BY <1>2, <1>3, <1>4 DEF RingInv

(* The program stays the same, and a fault is not undone.                  *)
LEMMA SameTest == [Next]_vars => test' = test /\ fault' \in {fault, TRUE}
<1> SUFFICES ASSUME [Next]_vars PROVE test' = test /\ fault' \in {fault, TRUE} OBVIOUS
<1>1. ASSUME NEW p \in Procs, Step(p) PROVE test' = test /\ fault' \in {fault, TRUE}
  <2>1. CASE DoArgs(p) \/ DoExit(p) \/ DoReturnErr(p) \/ DoRaise(p) \/ DoCall(p) \/ DoSpawn(p)
               \/ SpawnRefused(p) \/ DoQueue(p) \/ DoFork(p) \/ (\E t \in Procs : Reap(p, t))
               \/ DoHooks(p) \/ DoAbort(p)
    BY <2>1 DEF DoArgs, DoExit, DoReturnErr, DoRaise, DoCall, DoSpawn, SpawnRefused, DoQueue,
                DoFork, Reap, DoHooks, DoAbort, lib
  <2>2. CASE Enter(p) \/ Leave(p) \/ DoLock(p) \/ DoUnlock(p) \/ DoLoad(p) \/ DoStore(p)
               \/ DoAtomic(p) \/ DoAssign(p) \/ DoCount(p) \/ DoExport(p) \/ DoImport(p)
               \/ DoForkChild(p) \/ DoRecord(p) \/ DoWaitChild(p)
    BY <2>2 DEF Enter, Leave, DoLock, DoUnlock, DoLoad, DoStore, DoAtomic, DoAssign, DoCount,
                DoExport, DoImport, DoForkChild, DoRecord, DoWaitChild, lib
  <2>3. CASE DoMask(p) \/ DoSender(p) \/ DoKill(p) \/ DoSigWait(p) \/ DoSenderIs(p) \/ DoTouch(p)
               \/ DoUnmap(p) \/ DoPipe(p) \/ DoCoe(p) \/ DoClose(p) \/ DoWrite(p) \/ DoRead(p)
               \/ DoRelay(p) \/ DoPassOn(p)
    BY <2>3 DEF DoMask, DoSender, DoKill, DoSigWait, DoSenderIs, DoTouch, DoUnmap, DoPipe, DoCoe,
                DoClose, DoWrite, DoRead, DoRelay, DoPassOn, lib
  <2> QED BY <1>1, <2>1, <2>2, <2>3 DEF Step
<1>2. ASSUME NEW p \in Procs, CallFaults(p) \/ SpawnFails(p) \/ ForkFails(p)
      PROVE  test' = test /\ fault' \in {fault, TRUE}
  BY <1>2 DEF CallFaults, SpawnFails, ForkFails
<1>3. CASE RootKilled(SIGKILL) \/ AbortArrives \/ WatchdogKills
  BY <1>3, AbortFacts DEF RootKilled, WatchdogKills, lib
<1>4. CASE UNCHANGED vars BY <1>4 DEF vars, lib
<1> QED BY <1>1, <1>2, <1>3, <1>4 DEF Next, Progress, Faults

LEMMA RingHolds == Spec => [](Inv /\ Token)
<1>1. Init => Inv /\ Token BY InitInv, InitRing DEF Token
<1>2. Inv /\ Token /\ [Next]_vars => (Inv /\ Token)'
  <2> SUFFICES ASSUME Inv, Token, [Next]_vars PROVE Inv' /\ Token' OBVIOUS
  <2>1. Inv' BY NextInv
  <2>2. ASSUME Ring(test)' PROVE RingInv'
    <3>1. CASE Next
      <4>1. test' = test BY SameTest
      <4> QED BY <2>1, <2>2, <3>1, <4>1, NextRing DEF Token
    <3>2. CASE UNCHANGED vars
      <4>1. UNCHANGED <<test, pc, state, masked, pending, sender, lost>>
        BY <3>2 DEF vars, proc, comm
      <4>2. RingInv BY <2>2, <4>1 DEF Token
      <4> QED
        BY <4>1, <4>2 DEF RingInv, Ordered, Hand, SignalInv, MaskInv, Sends, Gets, Op, Script
    <3> QED BY <3>1, <3>2
  <2> QED BY <2>1, <2>2 DEF Token
<1> QED BY <1>1, <1>2, PTL DEF Spec

(* In pip_kill.c, with any number of tasks and iterations and with faults, *)
(* one signal at most is on its way, none is lost to the handler, and its  *)
(* receiver will read the name of its sender.                              *)
THEOREM RingKeepsToken == Spec => []OneToken
<1>1. Inv /\ Token => OneToken
  <2> SUFFICES ASSUME Inv, Token, Name = "pip_kill" PROVE OneToken BY DEF OneToken
  <2>1. Ring(test) BY RingAssumption DEF Inv, TypeInv, ProcType, Name
  <2>2. RingInv BY <2>1 DEF Token
  <2>3. Sends \in [Everybody -> Nat] /\ Gets \in [Everybody -> Nat] BY <2>1, Members
  <2>4. ASSUME NEW p \in Everybody, NEW q \in Everybody, pending[p] # {}, pending[q] # {}, p # q
        PROVE  FALSE
    <3> DEFINE G == [Gets EXCEPT ![p] = @ + 1]
    <3>0. Sends[Prev(p)] = Gets[p] + 1 /\ Sends[Prev(q)] = Gets[q] + 1
      BY <2>2, <2>4 DEF RingInv, SignalInv
    <3>1. Gets[p] \in Nat /\ Gets[q] \in Nat /\ Gets[p] < Sends[Prev(p)] BY <2>3, <3>0
    <3>2. Ordered(Sends, G) /\ Hand(p, Sends, G) = 1
      BY <2>2, <2>3, <3>1, GetNumbers DEF RingInv
    <3>3. G \in [Everybody -> Nat] /\ G[q] = Gets[q] BY <2>3, <2>4
    <3> HIDE DEF G
    <3>4. G[q] = Sends[Prev(q)] BY <2>3, <3>2, <3>3, OneHolder
    <3> QED BY <3>0, <3>1, <3>3, <3>4
  <2>5. \A p \in Everybody : pending[p] # {} => sender = Prev(p)
    BY <2>2 DEF RingInv, SignalInv
  <2> QED BY <2>2, <2>4, <2>5 DEF OneToken, RingInv, MaskInv, Prev
<1> QED BY <1>1, RingHolds, PTL

(* What the order of a script rests on. A process has entered as many      *)
(* barriers as its place says; who has left one has left it with all its   *)
(* parties; names are those of the exports made, and who has imported one  *)
(* has waited for the export.                                              *)
EntryInv == \A p \in Procs :
  /\ entered[p] = Made(test, p, pc[p], "barrier") + IF inside[p] THEN 1 ELSE 0
  /\ inside[p] => Do(test, p, pc[p]) = "barrier"
MeetInv == \A p \in Procs : \A j \in 1..(pc[p] - 1) : Do(test, p, j) = "barrier" =>
  \A r \in ScriptOf(test, p)[j].parties \cap Procs :
    entered[r] >= Made(test, p, j + 1, "barrier")
ExportInv == \A p \in Procs : \A n : <<p, n>> \in names =>
  \E i \in 1..(pc[p] - 1) : i \in Exports(test, p, n)
ImportInv == \A p \in Procs : \A j \in 1..(pc[p] - 1) : Do(test, p, j) = "import" =>
  LET o == ScriptOf(test, p)[j] IN
  o.from \in Procs => \E i \in Exports(test, o.from, o.name) : i < pc[o.from]
OrderInv == SpawnInv /\ EntryInv /\ MeetInv /\ ExportInv /\ ImportInv
Order == RunOnce(test) => OrderInv

-----------------------------------------------------------------------------
(* A step of a process, or of what kills processes.                        *)
Act(p)  == Step(p) \/ CallFaults(p) \/ SpawnFails(p) \/ ForkFails(p)
Killing == AbortArrives \/ RootKilled(SIGKILL) \/ WatchdogKills

LEMMA Acts == Next => Killing \/ \E p \in Procs : Act(p)
  BY DEF Next, Progress, Faults, Act, Killing

(* The actions on what a property is about, and what the others leave as   *)
(* it is.                                                                  *)
LifeOps(p) ==
  \/ DoArgs(p) \/ DoCall(p) \/ DoSpawn(p) \/ SpawnRefused(p) \/ DoQueue(p) \/ DoFork(p)
  \/ (\E t \in Procs : Reap(p, t))
  \/ DoExit(p) \/ DoReturnErr(p) \/ DoRaise(p) \/ DoHooks(p) \/ DoAbort(p)
  \/ CallFaults(p) \/ SpawnFails(p) \/ ForkFails(p)
SyncOps(p) ==
  \/ Enter(p) \/ Leave(p) \/ DoLock(p) \/ DoUnlock(p)
  \/ DoLoad(p) \/ DoStore(p) \/ DoAtomic(p) \/ DoAssign(p) \/ DoCount(p)
NameOps(p) ==
  \/ DoExport(p) \/ DoImport(p) \/ DoForkChild(p) \/ DoRecord(p) \/ DoWaitChild(p)
  \/ DoMask(p) \/ DoSender(p) \/ DoKill(p) \/ DoSigWait(p) \/ DoSenderIs(p)
FileOps(p) ==
  \/ DoTouch(p) \/ DoUnmap(p) \/ DoPipe(p) \/ DoCoe(p) \/ DoClose(p)
  \/ DoWrite(p) \/ DoRead(p) \/ DoRelay(p) \/ DoPassOn(p)

LEMMA ActOps ==
  ASSUME NEW p, Act(p)
  PROVE  LifeOps(p) \/ SyncOps(p) \/ NameOps(p) \/ FileOps(p)
  BY Zenon DEF Act, Step, LifeOps, SyncOps, NameOps, FileOps

LEMMA ActAlive == ASSUME NEW p, Act(p) PROVE state[p] = Alive
<1>1. CASE LifeOps(p)
  BY <1>1 DEF LifeOps, DoArgs, DoCall, DoSpawn, SpawnRefused, DoQueue, DoFork, Reap, DoExit,
              DoReturnErr, DoRaise, DoHooks, DoAbort, CallFaults, SpawnFails, ForkFails, At
<1>2. CASE SyncOps(p)
  BY <1>2 DEF SyncOps, Enter, Leave, DoLock, DoUnlock, DoLoad, DoStore, DoAtomic, DoAssign,
              DoCount, At
<1>3. CASE NameOps(p)
  BY <1>3 DEF NameOps, DoExport, DoImport, DoForkChild, DoRecord, DoWaitChild, DoMask,
              DoSender, DoKill, DoSigWait, DoSenderIs, At
<1>4. CASE FileOps(p)
  BY <1>4 DEF FileOps, DoTouch, DoUnmap, DoPipe, DoCoe, DoClose, DoWrite, DoRead, DoRelay,
              DoPassOn, At
<1> QED BY <1>1, <1>2, <1>3, <1>4, ActOps

(* Barriers.                                                               *)
LEMMA BarrierStep ==
  ASSUME NEW p, Act(p)
  PROVE  \/ Enter(p) \/ Leave(p)
         \/ UNCHANGED <<inside, entered>> /\ (Op(p).do = "barrier" => pc' = pc)
<1>1. CASE LifeOps(p)
  <2>1. UNCHANGED <<inside, entered>>
    BY <1>1 DEF LifeOps, DoArgs, DoCall, DoSpawn, SpawnRefused, DoQueue, DoFork, Reap, DoExit,
                DoReturnErr, DoRaise, DoHooks, DoAbort, CallFaults, SpawnFails, ForkFails, barr
  <2>2. Op(p).do = "barrier" => pc' = pc
    BY <1>1 DEF LifeOps, DoArgs, DoCall, DoSpawn, SpawnRefused, DoQueue, DoFork, Reap, DoExit,
                DoReturnErr, DoRaise, DoHooks, DoAbort, CallFaults, SpawnFails, ForkFails, At,
                CheckFails
  <2> QED BY <2>1, <2>2
<1>2. CASE SyncOps(p)
  BY <1>2 DEF SyncOps, DoLock, DoUnlock, DoLoad, DoStore, DoAtomic, DoAssign, DoCount, At, barr
<1>3. CASE NameOps(p)
  BY <1>3 DEF NameOps, DoExport, DoImport, DoForkChild, DoRecord, DoWaitChild, DoMask,
              DoSender, DoKill, DoSigWait, DoSenderIs, At, barr
<1>4. CASE FileOps(p)
  BY <1>4 DEF FileOps, DoTouch, DoUnmap, DoPipe, DoCoe, DoClose, DoWrite, DoRead, DoRelay,
              DoPassOn, At, barr
<1> QED BY <1>1, <1>2, <1>3, <1>4, ActOps

(* Names.                                                                  *)
LEMMA NameStep ==
  ASSUME NEW p, Act(p)
  PROVE  \/ DoExport(p) \/ DoImport(p)
         \/ names' \subseteq names /\ (Op(p).do = "import" => pc' = pc)
<1>1. CASE LifeOps(p)
  <2>1. UNCHANGED names
    BY <1>1 DEF LifeOps, DoArgs, DoCall, DoSpawn, SpawnRefused, DoQueue, DoFork, Reap, DoExit,
                DoReturnErr, DoRaise, DoHooks, DoAbort, CallFaults, SpawnFails, ForkFails, comm
  <2>2. Op(p).do = "import" => pc' = pc
    BY <1>1 DEF LifeOps, DoArgs, DoCall, DoSpawn, SpawnRefused, DoQueue, DoFork, Reap, DoExit,
                DoReturnErr, DoRaise, DoHooks, DoAbort, CallFaults, SpawnFails, ForkFails, At,
                CheckFails
  <2> QED BY <2>1, <2>2
<1>2. CASE SyncOps(p)
  BY <1>2 DEF SyncOps, Enter, Leave, DoLock, DoUnlock, DoLoad, DoStore, DoAtomic, DoAssign,
              DoCount, At, comm
<1>3. CASE NameOps(p)
  BY <1>3 DEF NameOps, DoForkChild, DoRecord, DoWaitChild, DoMask, DoSender, DoKill, DoSigWait,
              DoSenderIs, At, comm
<1>4. CASE FileOps(p)
  BY <1>4 DEF FileOps, DoTouch, DoUnmap, DoPipe, DoCoe, DoClose, DoWrite, DoRead, DoRelay,
              DoPassOn, At, comm, Others
<1> QED BY <1>1, <1>2, <1>3, <1>4, ActOps

(* The counter.                                                            *)
LEMMA MemStep ==
  ASSUME NEW p, Act(p), Op(p).do # "relay"
  PROVE  \/ DoLoad(p) \/ DoStore(p) \/ DoAtomic(p) \/ DoAssign(p)
         \/ /\ UNCHANGED <<count, reg, ledger>>
            /\ Op(p).do \in {"load", "store", "atomic", "assign"} => pc' = pc
<1>1. CASE LifeOps(p)
  <2>1. UNCHANGED <<count, reg, ledger>>
    BY <1>1 DEF LifeOps, DoArgs, DoCall, DoSpawn, SpawnRefused, DoQueue, DoFork, Reap, DoExit,
                DoReturnErr, DoRaise, DoHooks, DoAbort, CallFaults, SpawnFails, ForkFails, mem
  <2>2. Op(p).do \in {"load", "store", "atomic", "assign"} => pc' = pc
    BY <1>1 DEF LifeOps, DoArgs, DoCall, DoSpawn, SpawnRefused, DoQueue, DoFork, Reap, DoExit,
                DoReturnErr, DoRaise, DoHooks, DoAbort, CallFaults, SpawnFails, ForkFails, At,
                CheckFails, Checked
  <2> QED BY <2>1, <2>2
<1>2. CASE SyncOps(p)
  BY <1>2 DEF SyncOps, Enter, Leave, DoLock, DoUnlock, DoCount, At, mem
<1>3. CASE NameOps(p)
  BY <1>3 DEF NameOps, DoExport, DoImport, DoForkChild, DoRecord, DoWaitChild, DoMask, DoSender,
              DoKill, DoSigWait, DoSenderIs, At, mem
<1>4. CASE FileOps(p)
  BY <1>4 DEF FileOps, DoTouch, DoUnmap, DoPipe, DoCoe, DoClose, DoWrite, DoRead, DoRelay,
              DoPassOn, At, mem
<1> QED BY <1>1, <1>2, <1>3, <1>4, ActOps

(* Forked processes.                                                       *)
LEMMA PoolStep ==
  ASSUME NEW p, Act(p)
  PROVE  \/ DoForkChild(p) \/ DoRecord(p) \/ DoWaitChild(p)
         \/ /\ UNCHANGED children
            /\ Op(p).do \in {"fork child", "record", "wait child"} => pc' = pc
<1>1. CASE LifeOps(p)
  <2>1. UNCHANGED children
    BY <1>1 DEF LifeOps, DoArgs, DoCall, DoSpawn, SpawnRefused, DoQueue, DoFork, Reap, DoExit,
                DoReturnErr, DoRaise, DoHooks, DoAbort, CallFaults, SpawnFails, ForkFails, comm
  <2>2. Op(p).do \in {"fork child", "record", "wait child"} => pc' = pc
    BY <1>1 DEF LifeOps, DoArgs, DoCall, DoSpawn, SpawnRefused, DoQueue, DoFork, Reap, DoExit,
                DoReturnErr, DoRaise, DoHooks, DoAbort, CallFaults, SpawnFails, ForkFails, At,
                CheckFails, Checked
  <2> QED BY <2>1, <2>2
<1>2. CASE SyncOps(p)
  BY <1>2 DEF SyncOps, Enter, Leave, DoLock, DoUnlock, DoLoad, DoStore, DoAtomic, DoAssign,
              DoCount, At, comm
<1>3. CASE NameOps(p)
  BY <1>3 DEF NameOps, DoExport, DoImport, DoMask, DoSender, DoKill, DoSigWait, DoSenderIs, At,
              comm
<1>4. CASE FileOps(p)
  BY <1>4 DEF FileOps, DoTouch, DoUnmap, DoPipe, DoCoe, DoClose, DoWrite, DoRead, DoRelay,
              DoPassOn, At, comm, Others
<1> QED BY <1>1, <1>2, <1>3, <1>4, ActOps

-----------------------------------------------------------------------------
(* Places: in a script that is run once a step leads to the next place, or *)
(* nowhere, and only a spawn brings a task to life.                        *)
Ahead1(p) == pc' = pc \/ pc' = [pc EXCEPT ![p] = @ + 1]
Births(p) == \A q \in Tasks : state[q] = NotBorn => state'[q] = NotBorn

LEMMA AheadFacts ==
  ASSUME pc \in [Procs -> Nat], NEW p \in Procs, Ahead1(p)
  PROVE  /\ pc' \in [Procs -> Nat]
         /\ \A q \in Procs : /\ pc[q] \in Nat /\ pc'[q] \in Nat /\ pc'[q] >= pc[q]
                              /\ pc'[q] \in {pc[q], pc[q] + 1} /\ (q # p => pc'[q] = pc[q])
  BY DEF Ahead1

LEMMA HitAhead ==
  ASSUME pc \in [Procs -> Nat], NEW p \in Procs, NEW hit \in {0, 1},
         pc' = [pc EXCEPT ![p] = @ + hit]
  PROVE  Ahead1(p)
<1>1. CASE hit = 1 BY <1>1 DEF Ahead1
<1>2. CASE hit = 0
  <2>1. pc[p] + 0 = pc[p] OBVIOUS
  <2>2. pc' = pc BY <1>2, <2>1
  <2> QED BY <2>2 DEF Ahead1
<1> QED BY <1>1, <1>2

LEMMA PlainPlaces ==
  ASSUME Inv, NEW p \in Procs, Act(p), Op(p).do \notin {"spawn", "fork", "relay", "pass on"}
  PROVE  Ahead1(p) /\ Births(p)
<1>1. CASE LifeOps(p)
  <2>1. Ahead1(p)
    BY <1>1 DEF LifeOps, DoArgs, DoCall, DoSpawn, SpawnRefused, DoQueue, DoFork, Reap, DoExit,
                DoReturnErr, DoRaise, DoHooks, DoAbort, CallFaults, SpawnFails, ForkFails, At,
                Advance, CheckFails, proc, Ahead1
  <2>2. \A q \in Procs : q # p => state'[q] = state[q]
    BY <1>1 DEF LifeOps, DoArgs, DoCall, DoSpawn, SpawnRefused, DoQueue, DoFork, Reap, DoExit,
                DoReturnErr, DoRaise, DoHooks, DoAbort, CallFaults, SpawnFails, ForkFails, At,
                Advance, CheckFails, EndWith, proc, Inv, TypeInv, ProcType
  <2> QED BY <2>1, <2>2, ActAlive, Lives, Ids DEF Births
<1>2. CASE SyncOps(p)
  <2>1. Ahead1(p)
    BY <1>2 DEF SyncOps, Enter, Leave, DoLock, DoUnlock, DoLoad, DoStore, DoAtomic, DoAssign,
                DoCount, Advance, CheckFails, proc, Ahead1
  <2>2. \A q \in Procs : q # p => state'[q] = state[q]
    BY <1>2 DEF SyncOps, Enter, Leave, DoLock, DoUnlock, DoLoad, DoStore, DoAtomic, DoAssign,
                DoCount, Advance, CheckFails, EndWith, proc, Inv, TypeInv, ProcType
  <2> QED BY <2>1, <2>2, ActAlive, Lives, Ids DEF Births
<1>3. CASE NameOps(p)
  <2>1. Ahead1(p)
    <3>1. CASE DoWaitChild(p)
      <4>1. pc \in [Procs -> Nat] BY DEF Inv, TypeInv, ProcType
      <4>2. CASE \E hit \in {0, 1} : pc' = [pc EXCEPT ![p] = @ + hit] BY <4>1, <4>2, HitAhead
      <4>3. CASE UNCHANGED pc BY <4>3 DEF Ahead1
      <4>4. UNCHANGED pc \/ \E hit \in {0, 1} : pc' = [pc EXCEPT ![p] = @ + hit]
        BY <3>1 DEF DoWaitChild, CheckFails
      <4> QED BY <4>2, <4>3, <4>4
    <3> QED
      BY <1>3, <3>1 DEF NameOps, DoExport, DoImport, DoForkChild, DoRecord, DoMask, DoSender,
                        DoKill, DoSigWait, DoSenderIs, Advance, CheckFails, Ahead1
  <2>2. \A q \in Procs : q # p => state'[q] = state[q]
    BY <1>3 DEF NameOps, DoExport, DoImport, DoForkChild, DoRecord, DoWaitChild, DoMask, DoSender,
                DoKill, DoSigWait, DoSenderIs, Advance, CheckFails, EndWith, Inv, TypeInv, ProcType
  <2> QED BY <2>1, <2>2, ActAlive, Lives, Ids DEF Births
<1>4. CASE FileOps(p)
  <2>1. Ahead1(p)
    BY <1>4 DEF FileOps, DoTouch, DoUnmap, DoPipe, DoCoe, DoClose, DoWrite, DoRead, DoRelay,
                DoPassOn, At, Advance, CheckFails, DiesOf, Ahead1
  <2>2. \A q \in Procs : q # p => state'[q] = state[q]
    BY <1>4 DEF FileOps, DoTouch, DoUnmap, DoPipe, DoCoe, DoClose, DoWrite, DoRead, DoRelay,
                DoPassOn, At, Advance, CheckFails, DiesOf, EndWith, Inv, TypeInv, ProcType
  <2> QED BY <2>1, <2>2, ActAlive, Lives, Ids DEF Births
<1> QED BY <1>1, <1>2, <1>3, <1>4, ActOps

(* The process is at a place of its script.                                *)
LEMMA Standing ==
  ASSUME Inv, RunOnce(test), NEW p \in Procs, Act(p)
  PROVE  /\ TypeInv /\ pc \in [Procs -> Nat] /\ state[p] = Alive
         /\ pc[p] \in Places(test, p) /\ pc[p] \in Nat \ {0}
         /\ Op(p) = ScriptOf(test, p)[pc[p]] /\ Op(p).do = Do(test, p, pc[p])
         /\ Op(p).do \notin {"relay", "pass on"}
         /\ Op(p).do = "spawn" => p = Root /\ Op(p).errs = {} /\ Op(p).who \in Tasks
<1>1. TypeInv /\ pc \in [Procs -> Nat] /\ state[p] = Alive
  BY ActAlive DEF Inv, TypeInv, ProcType
<1>2. /\ pc[p] \in Places(test, p) /\ pc[p] \in Nat
      /\ Op(p) = ScriptOf(test, p)[pc[p]] /\ Op(p).do = Do(test, p, pc[p]) /\ Operands(Op(p))
  BY <1>1, Present
<1>3. pc[p] # 0 BY <1>2 DEF Places
<1>4. /\ Op(p).do \notin {"relay", "pass on"}
      /\ Op(p).do = "spawn" => p = Root /\ Op(p).errs = {}
  <2>1. Do(test, p, pc[p]) \notin {"relay", "pass on"} BY <1>2 DEF RunOnce
  <2>2. Do(test, p, pc[p]) = "spawn" => p = Root /\ ScriptOf(test, p)[pc[p]].errs = {}
    BY <1>2 DEF RunOnce
  <2> QED BY <1>2, <2>1, <2>2
<1>5. Op(p).do = "spawn" => Op(p).who \in Tasks BY <1>2 DEF Operands
<1> QED BY <1>1, <1>2, <1>3, <1>4, <1>5

LEMMA SpawnPlaces ==
  ASSUME Inv, RunOnce(test), SpawnInv, NEW p \in Procs, Act(p), Op(p).do = "spawn"
  PROVE  /\ Ahead1(p)
         /\ \A q \in Tasks : state[q] = NotBorn => state'[q] = NotBorn
                               \/ (q = Op(p).who /\ pc' = [pc EXCEPT ![p] = @ + 1])
<1> DEFINE w == Op(p).who
<1>1. /\ TypeInv /\ pc \in [Procs -> Nat] /\ state[p] = Alive /\ pc[p] \in Places(test, p)
      /\ Op(p) = ScriptOf(test, p)[pc[p]] /\ Op(p).do = Do(test, p, pc[p])
      /\ p = Root /\ Op(p).errs = {} /\ w \in Tasks
  BY Standing
<1>2. state[w] = NotBorn BY <1>1 DEF SpawnInv, Places
<1>3. w \in Procs /\ w # p BY <1>1, <1>2, Ids, Lives
<1>4. pc[w] = 1 BY <1>1, <1>2, <1>3 DEF TypeInv, PlaceInv
<1>5. DoSpawn(p) \/ (pc' = pc /\ \A q \in Procs : q # p => state'[q] = state[q])
  <2>1. CASE LifeOps(p)
    BY <1>1, <2>1 DEF LifeOps, DoArgs, DoCall, SpawnRefused, DoQueue, DoFork, Reap, DoExit,
        DoReturnErr, DoRaise, DoHooks, DoAbort, CallFaults, SpawnFails, ForkFails, At, Checked,
        CheckFails, EndWith, TypeInv, ProcType
  <2>2. ~SyncOps(p)
    BY DEF SyncOps, Enter, Leave, DoLock, DoUnlock, DoLoad, DoStore, DoAtomic, DoAssign, DoCount, At
  <2>3. ~NameOps(p)
    BY DEF NameOps, DoExport, DoImport, DoForkChild, DoRecord, DoWaitChild, DoMask, DoSender,
           DoKill, DoSigWait, DoSenderIs, At
  <2>4. ~FileOps(p)
    BY DEF FileOps, DoTouch, DoUnmap, DoPipe, DoCoe, DoClose, DoWrite, DoRead, DoRelay,
           DoPassOn, At
  <2> QED BY <2>1, <2>2, <2>3, <2>4, ActOps
<1>6. CASE DoSpawn(p)
  <2>1. pc' = [pc EXCEPT ![p] = pc[p] + 1, ![w] = 1] BY <1>6 DEF DoSpawn
  <2>2. pc' = [pc EXCEPT ![p] = @ + 1]
    <3> HIDE DEF w
    <3> QED BY <1>1, <1>3, <1>4, <2>1
  <2>3. \A q \in Tasks : q # w /\ state[q] = NotBorn => state'[q] = NotBorn
    BY <1>6, Ids DEF DoSpawn, Queued, NotBorn
  <2> QED BY <2>2, <2>3 DEF Ahead1
<1>7. CASE pc' = pc /\ \A q \in Procs : q # p => state'[q] = state[q]
  BY <1>1, <1>7, Ids DEF Ahead1
<1> QED BY <1>5, <1>6, <1>7

LEMMA ForkPlaces ==
  ASSUME Inv, NEW p \in Procs, Act(p), Op(p).do = "fork"
  PROVE  Ahead1(p) /\ Births(p)
<1>1. DoFork(p) \/ (pc' = pc /\ \A q \in Procs : q # p => state'[q] = state[q])
  <2>1. CASE LifeOps(p)
    BY <2>1 DEF LifeOps, DoArgs, DoCall, DoSpawn, SpawnRefused, DoQueue, Reap, DoExit,
        DoReturnErr, DoRaise, DoHooks, DoAbort, CallFaults, SpawnFails, ForkFails, At, Checked,
        CheckFails, EndWith, Inv, TypeInv, ProcType
  <2>2. ~SyncOps(p)
    BY DEF SyncOps, Enter, Leave, DoLock, DoUnlock, DoLoad, DoStore, DoAtomic, DoAssign, DoCount, At
  <2>3. ~NameOps(p)
    BY DEF NameOps, DoExport, DoImport, DoForkChild, DoRecord, DoWaitChild, DoMask, DoSender,
           DoKill, DoSigWait, DoSenderIs, At
  <2>4. ~FileOps(p)
    BY DEF FileOps, DoTouch, DoUnmap, DoPipe, DoCoe, DoClose, DoWrite, DoRead, DoRelay,
           DoPassOn, At
  <2> QED BY <2>1, <2>2, <2>3, <2>4, ActOps
<1>2. CASE DoFork(p)
  <2>1. \A q \in Tasks : state'[q] = state[q] BY <1>2, Ids DEF DoFork, Inv, TypeInv, ProcType
  <2> QED BY <1>2, <2>1 DEF DoFork, Ahead1, Births
<1>3. CASE pc' = pc /\ \A q \in Procs : q # p => state'[q] = state[q]
  BY <1>3, ActAlive, Lives, Ids DEF Ahead1, Births
<1> QED BY <1>1, <1>2, <1>3

(* So nothing is done twice, and no task spawned twice.                    *)
LEMMA OnceSteps ==
  ASSUME Inv, RunOnce(test), SpawnInv, test' = test, NEW p \in Procs, Act(p)
  PROVE  Ahead1(p) /\ SpawnInv'
<1>0. pc \in [Procs -> Nat] BY DEF Inv, TypeInv, ProcType
<1>1. /\ pc \in [Procs -> Nat] /\ pc[p] \in Places(test, p) /\ pc[p] \in Nat \ {0}
      /\ Op(p) = ScriptOf(test, p)[pc[p]] /\ Op(p).do = Do(test, p, pc[p])
      /\ Op(p).do \notin {"relay", "pass on"}
      /\ Op(p).do = "spawn" => p = Root /\ Op(p).errs = {} /\ Op(p).who \in Tasks
  BY Standing
<1>2. CASE Op(p).do = "spawn"
  <2>1. /\ Ahead1(p)
        /\ \A q \in Tasks : state[q] = NotBorn => state'[q] = NotBorn
                              \/ (q = Op(p).who /\ pc' = [pc EXCEPT ![p] = @ + 1])
    BY <1>2, SpawnPlaces
  <2>2. SpawnInv'
    <3> SUFFICES ASSUME NEW k \in Places(test, Root), k >= pc'[Root], Do(test, Root, k) = "spawn"
                 PROVE  state'[ScriptOf(test, Root)[k].who] = NotBorn
      BY DEF SpawnInv
    <3> DEFINE t == ScriptOf(test, Root)[k].who
    <3>0. Root \in Procs /\ k \in Nat BY Ids, NotEmpty DEF Places, Inv
    <3>1. k \in Nat /\ pc'[Root] >= pc[Root] /\ pc'[Root] \in Nat /\ pc[Root] \in Nat
      BY <1>0, <2>1, <3>0, AheadFacts
    <3>2. k >= pc[Root] BY <3>1
    <3>5. state[t] = NotBorn BY <3>2 DEF SpawnInv
    <3>3. t \in Tasks
      BY Ids, ScriptsAssumption DEF Inv, TypeInv, ProcType, WellFormed, Operands, Do
    <3>4. CASE t = Op(p).who /\ pc' = [pc EXCEPT ![p] = @ + 1]
      <4>1. k = pc[Root] BY <1>1, <1>2, <3>4 DEF RunOnce
      <4>2. pc'[Root] = pc[Root] + 1 BY <1>1, <1>2, <3>4, Ids
      <4> QED BY <3>1, <4>1, <4>2
    <3> QED BY <2>1, <3>3, <3>4, <3>5
  <2> QED BY <2>1, <2>2
<1>3. CASE Op(p).do # "spawn"
  <2>1. Ahead1(p) /\ Births(p) BY <1>1, <1>3, PlainPlaces, ForkPlaces
  <2>2. /\ pc'[Root] >= pc[Root] /\ pc'[Root] \in Nat /\ pc[Root] \in Nat
        /\ Places(test, Root) \subseteq Nat
    <3>1. Root \in Procs /\ Places(test, Root) \subseteq Nat BY Ids, NotEmpty DEF Places, Inv
    <3>2. pc'[Root] >= pc[Root] /\ pc'[Root] \in Nat /\ pc[Root] \in Nat
      BY <1>0, <2>1, <3>1, AheadFacts
    <3> QED BY <3>1, <3>2
  <2>3. \A k \in Places(test, Root) :
          Do(test, Root, k) = "spawn" => ScriptOf(test, Root)[k].who \in Tasks
    BY Ids, ScriptsAssumption DEF Inv, TypeInv, ProcType, WellFormed, Operands, Do
  <2>4. SpawnInv' BY <2>1, <2>2, <2>3 DEF SpawnInv, Births
  <2> QED BY <2>1, <2>4
<1> QED BY <1>2, <1>3

-----------------------------------------------------------------------------
LEMMA Positive == ASSUME TypeInv PROVE \A q \in Procs : pc[q] \in Nat \ {0}
<1> SUFFICES ASSUME NEW q \in Procs PROVE pc[q] \in Nat \ {0} OBVIOUS
<1>1. pc[q] \in Nat BY DEF TypeInv, ProcType
<1>2. pc[q] # 0 BY DEF TypeInv, PlaceInv, Places
<1> QED BY <1>1, <1>2

(* A step of p as far as one kind of operation is concerned: p goes past   *)
(* one or not, and nobody else does.                                       *)
LEMMA MadeStep ==
  ASSUME Inv, test' = test, NEW p \in Procs, Ahead1(p), NEW do
  PROVE  /\ \A q \in Procs : /\ Made(test, q, pc[q], do) \in Nat
                             /\ q # p => Made(test, q, pc'[q], do) = Made(test, q, pc[q], do)
         /\ \/ pc'[p] = pc[p] /\ Made(test, p, pc'[p], do) = Made(test, p, pc[p], do)
            \/ /\ pc'[p] = pc[p] + 1 /\ Do(test, p, pc[p]) = do
               /\ Made(test, p, pc'[p], do) = Made(test, p, pc[p], do) + 1
            \/ /\ pc'[p] = pc[p] + 1 /\ Do(test, p, pc[p]) # do
               /\ Made(test, p, pc'[p], do) = Made(test, p, pc[p], do)
<1>1. pc \in [Procs -> Nat] /\ \A q \in Procs : pc[q] \in Nat \ {0}
  BY Positive DEF Inv, TypeInv, ProcType
<1>2. pc'[p] \in {pc[p], pc[p] + 1} /\ \A q \in Procs : q # p => pc'[q] = pc[q]
  BY <1>1, AheadFacts
<1>3. \A q \in Procs : Made(test, q, pc[q], do) \in Nat BY <1>1, MadeFacts
<1>4. Made(test, p, pc[p] + 1, do) =
        Made(test, p, pc[p], do) + IF Do(test, p, pc[p]) = do THEN 1 ELSE 0
  BY <1>1, MadeFacts
<1>5. \A q \in Procs : q # p => Made(test, q, pc'[q], do) = Made(test, q, pc[q], do) BY <1>2
<1>6. CASE pc'[p] = pc[p]
  <2>1. Made(test, p, pc'[p], do) = Made(test, p, pc[p], do) BY <1>6
  <2> QED BY <1>3, <1>5, <1>6, <2>1
<1>7. CASE pc'[p] = pc[p] + 1
  <2>1. Made(test, p, pc'[p], do) = Made(test, p, pc[p] + 1, do) BY <1>7
  <2> QED BY <1>3, <1>4, <1>5, <1>7, <2>1
<1> QED BY <1>2, <1>6, <1>7

(* The count of barriers of a process, in numbers.                         *)
LEMMA EntryStep ==
  ASSUME Inv, RunOnce(test), EntryInv, test' = test, NEW p \in Procs, Act(p), Ahead1(p)
  PROVE  /\ EntryInv'
         /\ \A q \in Procs : entered'[q] \in Nat /\ entered[q] \in Nat /\ entered'[q] >= entered[q]
         /\ pc'[p] = pc[p] \/ Do(test, p, pc[p]) # "barrier"
              \/ /\ entered[p] = Made(test, p, pc[p] + 1, "barrier")
                 /\ \A r \in ScriptOf(test, p)[pc[p]].parties : entered[r] >= entered[p]
<1> DEFINE made(q) == Made(test, q, pc[q], "barrier")
           made1(q) == Made(test, q, pc'[q], "barrier")
<1>1. /\ \A q \in Procs : made(q) \in Nat /\ (q # p => made1(q) = made(q))
      /\ \/ pc'[p] = pc[p] /\ made1(p) = made(p)
         \/ /\ pc'[p] = pc[p] + 1 /\ Do(test, p, pc[p]) = "barrier"
            /\ made1(p) = made(p) + 1
         \/ pc'[p] = pc[p] + 1 /\ Do(test, p, pc[p]) # "barrier" /\ made1(p) = made(p)
  BY MadeStep, Zenon
<1>2. /\ pc[p] \in Places(test, p) /\ pc[p] \in Nat \ {0}
      /\ Op(p) = ScriptOf(test, p)[pc[p]] /\ Op(p).do = Do(test, p, pc[p])
  BY Standing
<1>3. inside \in [Procs -> BOOLEAN] /\ entered \in [Procs -> Nat] BY DEF Inv, TypeInv, BarrierType
<1>4. /\ \A q \in Procs : entered[q] = made(q) + IF inside[q] THEN 1 ELSE 0
      /\ \A q \in Procs : inside[q] => Do(test, q, pc[q]) = "barrier"
  BY DEF EntryInv
<1>5. pc \in [Procs -> Nat] /\ \A q \in Procs : q # p => pc'[q] = pc[q]
  BY AheadFacts DEF Inv, TypeInv, ProcType
<1>6. SUFFICES
        /\ \A q \in Procs : entered'[q] = made1(q) + IF inside'[q] THEN 1 ELSE 0
        /\ \A q \in Procs : inside'[q] => Do(test, q, pc'[q]) = "barrier"
        /\ \A q \in Procs : entered'[q] \in Nat /\ entered[q] \in Nat /\ entered'[q] >= entered[q]
        /\ pc'[p] = pc[p] \/ Do(test, p, pc[p]) # "barrier"
             \/ /\ entered[p] = Made(test, p, pc[p] + 1, "barrier")
                /\ \A r \in ScriptOf(test, p)[pc[p]].parties : entered[r] >= entered[p]
  BY DEF EntryInv
<1> HIDE DEF made, made1
<1>7. CASE Enter(p)
  <2>1. /\ ~inside[p] /\ inside' = [inside EXCEPT ![p] = TRUE]
        /\ entered' = [entered EXCEPT ![p] = @ + 1] /\ pc' = pc
        /\ Do(test, p, pc[p]) = "barrier"
    BY <1>2, <1>7 DEF Enter, At, proc
  <2>2. made1(p) = made(p) BY <1>1, <1>5, <2>1
  <2>3. \A q \in Procs : entered'[q] = made1(q) + IF inside'[q] THEN 1 ELSE 0
    BY <1>1, <1>3, <1>4, <2>1, <2>2
  <2> QED BY <1>3, <1>4, <2>1, <2>3
<1>8. CASE Leave(p)
  <2>1. /\ inside[p] /\ inside' = [inside EXCEPT ![p] = FALSE] /\ entered' = entered
        /\ pc' = [pc EXCEPT ![p] = @ + 1] /\ Do(test, p, pc[p]) = "barrier"
        /\ \A r \in ScriptOf(test, p)[pc[p]].parties : entered[r] >= entered[p]
    BY <1>2, <1>8 DEF Leave, At, Advance
  <2>2. pc'[p] = pc[p] + 1 BY <1>5, <2>1
  <2>3. made1(p) = made(p) + 1 BY <1>1, <1>2, <2>1, <2>2
  <2>4. entered[p] = made1(p) BY <1>1, <1>4, <2>1, <2>3
  <2>5. entered[p] = Made(test, p, pc[p] + 1, "barrier") BY <2>2, <2>4 DEF made1
  <2>6. \A q \in Procs : entered'[q] = made1(q) + IF inside'[q] THEN 1 ELSE 0
    BY <1>1, <1>3, <1>4, <2>1, <2>4
  <2> QED BY <1>3, <1>4, <1>5, <2>1, <2>5, <2>6
<1>9. CASE UNCHANGED <<inside, entered>> /\ (Op(p).do = "barrier" => pc' = pc)
  <2>1. pc'[p] # pc[p] => Do(test, p, pc[p]) # "barrier" /\ ~inside[p] BY <1>2, <1>4, <1>9
  <2>2. made1(p) = made(p)
    <3>1. CASE pc'[p] = pc[p] BY <3>1 DEF made, made1
    <3>2. CASE pc'[p] # pc[p] BY <1>1, <2>1, <3>2, Zenon
    <3> QED BY <3>1, <3>2
  <2> QED BY <1>1, <1>3, <1>4, <1>5, <1>9, <2>1, <2>2
<1> QED BY <1>7, <1>8, <1>9, BarrierStep

(* The places behind a process: those that were, and the one it was at.    *)
LEMMA Behind ==
  ASSUME Inv, NEW p \in Procs, Ahead1(p)
  PROVE  /\ \A q \in Procs : \A j \in 1..(pc'[q] - 1) :
              j \in 1..(pc[q] - 1) \/ (q = p /\ j = pc[p] /\ pc'[p] = pc[p] + 1)
         /\ \A q \in Procs : \A j \in 1..(pc[q] - 1) : j \in 1..(pc'[q] - 1)
         /\ pc'[p] = pc[p] + 1 => pc[p] \in 1..(pc'[p] - 1)
<1>1. pc \in [Procs -> Nat] BY DEF Inv, TypeInv, ProcType
<1>2. \A q \in Procs : pc[q] \in Nat \ {0} BY Positive DEF Inv
<1>3. pc'[p] \in {pc[p], pc[p] + 1} /\ \A q \in Procs : q # p => pc'[q] = pc[q]
  BY <1>1, AheadFacts
<1> QED BY <1>2, <1>3

LEMMA MeetStep ==
  ASSUME Inv, RunOnce(test), EntryInv, MeetInv, test' = test, NEW p \in Procs, Act(p), Ahead1(p)
  PROVE  MeetInv'
<1>1. /\ \A q \in Procs : entered'[q] \in Nat /\ entered[q] \in Nat /\ entered'[q] >= entered[q]
      /\ pc'[p] = pc[p] \/ Do(test, p, pc[p]) # "barrier"
           \/ /\ entered[p] = Made(test, p, pc[p] + 1, "barrier")
              /\ \A r \in ScriptOf(test, p)[pc[p]].parties : entered[r] >= entered[p]
  BY EntryStep
<1>2. pc[p] \in Nat \ {0} BY Positive DEF Inv
<1> SUFFICES ASSUME NEW q \in Procs, NEW j \in 1..(pc'[q] - 1), Do(test, q, j) = "barrier",
                    NEW r \in ScriptOf(test, q)[j].parties \cap Procs
             PROVE  entered'[r] >= Made(test, q, j + 1, "barrier")
  BY DEF MeetInv
<1>3. entered[r] >= Made(test, q, j + 1, "barrier")
  <2>1. CASE j \in 1..(pc[q] - 1) BY <2>1 DEF MeetInv
  <2>2. CASE q = p /\ j = pc[p] /\ pc'[p] = pc[p] + 1
    <3>1. pc'[p] # pc[p] BY <1>2, <2>2
    <3> QED BY <1>1, <2>2, <3>1
  <2> QED BY <2>1, <2>2, Behind
<1>4. Made(test, q, j + 1, "barrier") \in Nat
  <2>1. j + 1 \in Nat \ {0}
    <3>1. j \in 1..(pc[q] - 1) \/ j = pc[p] BY Behind
    <3>2. pc[q] \in Nat BY DEF Inv, TypeInv, ProcType
    <3> QED BY <1>2, <3>1, <3>2
  <2> QED BY <2>1, MadeFacts
<1> QED BY <1>1, <1>3, <1>4

LEMMA ExportStep ==
  ASSUME Inv, RunOnce(test), ExportInv, test' = test, NEW p \in Procs, Act(p), Ahead1(p)
  PROVE  ExportInv'
<1>1. /\ pc[p] \in Places(test, p)
      /\ Op(p) = ScriptOf(test, p)[pc[p]] /\ Op(p).do = Do(test, p, pc[p])
  BY Standing
<1> SUFFICES ASSUME NEW q \in Procs, NEW n, <<q, n>> \in names'
             PROVE  \E i \in 1..(pc'[q] - 1) : i \in Exports(test, q, n)
  BY DEF ExportInv
<1>2. CASE <<q, n>> \in names
  <2>1. PICK i \in 1..(pc[q] - 1) : i \in Exports(test, q, n) BY <1>2 DEF ExportInv
  <2> QED BY <2>1, Behind
<1>3. CASE <<q, n>> \notin names
  <2>1. DoExport(p) BY <1>3, NameStep DEF DoImport, comm
  <2>2. q = p /\ n = Op(p).name /\ Op(p).do = "export" /\ pc' = [pc EXCEPT ![p] = @ + 1]
    BY <1>3, <2>1 DEF DoExport, At, Advance
  <2>3. pc[p] \in Exports(test, q, n) BY <1>1, <2>2 DEF Exports
  <2>4. pc'[p] = pc[p] + 1 BY <2>2 DEF Inv, TypeInv, ProcType
  <2> QED BY <2>2, <2>3, <2>4, Behind
<1> QED BY <1>2, <1>3

LEMMA ImportStep ==
  ASSUME Inv, RunOnce(test), ExportInv, ImportInv, test' = test,
         NEW p \in Procs, Act(p), Ahead1(p)
  PROVE  ImportInv'
<1>1. Op(p) = ScriptOf(test, p)[pc[p]] /\ Op(p).do = Do(test, p, pc[p]) BY Standing
<1>2. \A q \in Procs : pc'[q] >= pc[q] /\ pc[q] \in Nat \ {0} /\ pc'[q] \in Nat
  BY Positive, AheadFacts DEF Inv, TypeInv, ProcType
<1> SUFFICES ASSUME NEW q \in Procs, NEW j \in 1..(pc'[q] - 1), Do(test, q, j) = "import",
                    ScriptOf(test, q)[j].from \in Procs
             PROVE  \E i \in Exports(test, ScriptOf(test, q)[j].from, ScriptOf(test, q)[j].name) :
                      i < pc'[ScriptOf(test, q)[j].from]
  BY DEF ImportInv
<1> DEFINE r == ScriptOf(test, q)[j].from
           n == ScriptOf(test, q)[j].name
<1>3. \E i \in Exports(test, r, n) : i < pc[r]
  <2>1. CASE j \in 1..(pc[q] - 1) BY <2>1 DEF ImportInv
  <2>2. CASE q = p /\ j = pc[p] /\ pc'[p] = pc[p] + 1
    <3>1. pc' # pc BY <1>2, <2>2
    <3>2. <<r, n>> \in names BY <1>1, <2>2, <3>1, NameStep DEF DoExport, DoImport, At
    <3>3. PICK i \in 1..(pc[r] - 1) : i \in Exports(test, r, n) BY <3>2 DEF ExportInv
    <3>4. i < pc[r] BY <1>2, <3>3
    <3> QED BY <3>3, <3>4
  <2> QED BY <2>1, <2>2, Behind
<1>4. PICK i \in Exports(test, r, n) : i < pc[r] BY <1>3
<1>5. i \in Nat BY NotEmpty DEF Exports, Places, Inv
<1>6. i < pc'[r] BY <1>2, <1>4, <1>5
<1> QED BY <1>6

LEMMA SameOrder ==
  ASSUME Inv, OrderInv, UNCHANGED <<test, pc, names, inside, entered>>, \E p : Births(p)
  PROVE  OrderInv'
<1>1. \A k \in Places(test, Root) :
        Do(test, Root, k) = "spawn" => ScriptOf(test, Root)[k].who \in Tasks
  BY Ids, ScriptsAssumption DEF Inv, TypeInv, ProcType, WellFormed, Operands, Do
<1>2. SpawnInv' BY <1>1 DEF OrderInv, SpawnInv, Births
<1>3. EntryInv' /\ MeetInv' BY DEF OrderInv, EntryInv, MeetInv
<1>4. ExportInv' /\ ImportInv' BY DEF OrderInv, ExportInv, ImportInv
<1> QED BY <1>2, <1>3, <1>4 DEF OrderInv

LEMMA KillingSpares ==
  ASSUME Inv, Killing
  PROVE  /\ UNCHANGED <<test, pc, barr, mem, comm>>
         /\ \A q \in Procs : state'[q] # state[q] => state[q] = Alive /\ state'[q] \in AnyStatus
<1>1. UNCHANGED <<test, pc, barr, mem, comm>>
  BY AbortFacts DEF Killing, RootKilled, WatchdogKills
<1>2. \A q \in Procs : state'[q] # state[q] => state[q] = Alive /\ state'[q] \in AnyStatus
  BY AbortFalls, Lives, Signals DEF Killing, RootKilled, WatchdogKills, EndWith, Inv, TypeInv,
                                    ProcType
<1> QED BY <1>1, <1>2

LEMMA NextOrder ==
  ASSUME Inv, RunOnce(test), OrderInv, Next
  PROVE  OrderInv'
<1>0. test' = test BY SameTest
<1>1. ASSUME NEW p \in Procs, Act(p) PROVE OrderInv'
  <2>1. Ahead1(p) /\ SpawnInv' BY <1>0, <1>1, OnceSteps DEF OrderInv
  <2>2. EntryInv' /\ MeetInv' BY <1>0, <1>1, <2>1, EntryStep, MeetStep DEF OrderInv
  <2>3. ExportInv' /\ ImportInv' BY <1>0, <1>1, <2>1, ExportStep, ImportStep DEF OrderInv
  <2> QED BY <2>1, <2>2, <2>3 DEF OrderInv
<1>2. CASE Killing
  <2>1. UNCHANGED <<test, pc, names, inside, entered>> BY <1>2, KillingSpares DEF barr, comm
  <2>2. Births(Root) BY <1>2, KillingSpares, Lives, Ids DEF Births
  <2> QED BY <2>1, <2>2, SameOrder
<1> QED BY <1>1, <1>2, Acts

LEMMA InitOrder == ASSUME Init PROVE OrderInv
<1>1. \A p \in Procs : pc[p] = 1 /\ entered[p] = 0 /\ ~inside[p] BY DEF Init
<1>2. EntryInv
  <2>1. \A p \in Procs : Made(test, p, 1, "barrier") = 0 BY MadeFacts
  <2> QED BY <1>1, <2>1 DEF EntryInv
<1>3. MeetInv /\ ImportInv BY <1>1 DEF MeetInv, ImportInv
<1>4. ExportInv BY DEF Init, ExportInv
<1>5. SpawnInv
  <2>1. Inv BY InitInv
  <2>2. \A k \in Places(test, Root) :
          Do(test, Root, k) = "spawn" => ScriptOf(test, Root)[k].who \in Tasks
    BY <2>1, Ids, ScriptsAssumption DEF Inv, TypeInv, ProcType, WellFormed, Operands, Do
  <2>3. \A t \in Tasks : state[t] = NotBorn BY Ids DEF Init, Outer
  <2> QED BY <2>2, <2>3 DEF SpawnInv
<1> QED BY <1>2, <1>3, <1>4, <1>5 DEF OrderInv

LEMMA OrderHolds == Spec => [](Inv /\ Order)
<1>1. Init => Inv /\ Order BY InitInv, InitOrder DEF Order
<1>2. Inv /\ Order /\ [Next]_vars => (Inv /\ Order)'
  <2> SUFFICES ASSUME Inv, Order, [Next]_vars PROVE Inv' /\ Order' OBVIOUS
  <2>1. Inv' BY NextInv
  <2>2. ASSUME RunOnce(test)' PROVE OrderInv'
    <3>1. test' = test BY SameTest
    <3>2. RunOnce(test) /\ OrderInv BY <2>2, <3>1 DEF Order
    <3>3. CASE Next BY <3>2, <3>3, NextOrder
    <3>4. CASE UNCHANGED vars
      <4>1. UNCHANGED <<test, pc, state, names, inside, entered>>
        BY <3>4 DEF vars, proc, barr, comm
      <4>2. Births(Root) BY <4>1 DEF Births
      <4> QED BY <3>2, <4>1, <4>2, SameOrder
    <3> QED BY <3>3, <3>4
  <2> QED BY <2>1, <2>2 DEF Order
<1> QED BY <1>1, <1>2, PTL DEF Spec

-----------------------------------------------------------------------------
(* What a process has heard of has happened.                               *)
LEMMA MadeGrows ==
  ASSUME NEW s, NEW p, NEW do, NEW k \in Nat, NEW m \in Nat, k <= m
  PROVE  /\ Made(s, p, k, do) <= Made(s, p, m, do)
         /\ Made(s, p, k, do) \in Nat /\ Made(s, p, m, do) \in Nat
<1> DEFINE B(n) == {j \in 1..(n - 1) : Do(s, p, j) = do}
<1>1. B(k) \subseteq B(m) /\ B(m) \subseteq 1..(m - 1) OBVIOUS
<1>2. IsFiniteSet(1..(m - 1)) BY FS_Interval
<1> HIDE DEF B
<1>3. IsFiniteSet(B(m)) BY <1>1, <1>2, FS_Subset
<1>4. IsFiniteSet(B(k)) /\ Cardinality(B(k)) <= Cardinality(B(m)) BY <1>1, <1>3, FS_Subset
<1>5. Cardinality(B(k)) \in Nat /\ Cardinality(B(m)) \in Nat BY <1>3, <1>4, FS_CardinalityType
<1> QED BY <1>4, <1>5 DEF Made, B

LEMMA MetThat ==
  ASSUME Inv, OrderInv, NEW q \in Procs, NEW r \in Procs, NEW k \in Nat, pc[q] >= k,
         NEW m \in Places(test, r), Met(test, q, k, r, m)
  PROVE  pc[r] > m \/ (pc[r] = m /\ inside[r] /\ Do(test, r, m) = "barrier")
<1>1. /\ \A p \in Procs : pc[p] \in Nat \ {0} /\ entered[p] \in Nat /\ inside[p] \in BOOLEAN
      /\ m \in Nat \ {0}
  BY Positive, NotEmpty DEF Inv, TypeInv, BarrierType, Places
<1>2. PICK j \in 1..(k - 1) :
        /\ Do(test, q, j) = "barrier" /\ r \in ScriptOf(test, q)[j].parties
        /\ Made(test, r, m, "barrier") < Made(test, q, j + 1, "barrier")
  BY DEF Met
<1>3. entered[r] >= Made(test, q, j + 1, "barrier")
  <2>1. j \in 1..(pc[q] - 1) BY <1>1
  <2> QED BY <1>2, <2>1 DEF OrderInv, MeetInv
<1>4. Made(test, q, j + 1, "barrier") \in Nat /\ Made(test, r, m, "barrier") \in Nat
  <2>1. j + 1 \in Nat \ {0} OBVIOUS
  <2> QED BY <1>1, <2>1, MadeFacts
<1>5. /\ entered[r] = Made(test, r, pc[r], "barrier") + IF inside[r] THEN 1 ELSE 0
      /\ inside[r] => Do(test, r, pc[r]) = "barrier"
  BY DEF OrderInv, EntryInv
<1>6. /\ Made(test, r, pc[r], "barrier") \in Nat
      /\ Do(test, r, pc[r]) = "barrier" =>
           Made(test, r, pc[r] + 1, "barrier") = Made(test, r, pc[r], "barrier") + 1
  <2>1. pc[r] \in Nat \ {0} BY <1>1
  <2>2. Made(test, r, pc[r], "barrier") \in Nat BY <2>1, MadeFacts, Zenon
  <2>3. CASE Do(test, r, pc[r]) = "barrier" BY <2>1, <2>3, MadeFacts
  <2> QED BY <2>2, <2>3
<1>7. ~inside[r] => entered[r] = Made(test, r, pc[r], "barrier") BY <1>1, <1>4, <1>5, MadeFacts
<1>8. inside[r] => entered[r] = Made(test, r, pc[r] + 1, "barrier") BY <1>5, <1>6
<1>9. CASE pc[r] < m
  <2>1. Made(test, r, pc[r], "barrier") <= Made(test, r, m, "barrier") BY <1>1, <1>9, MadeGrows
  <2>2. Made(test, r, pc[r] + 1, "barrier") <= Made(test, r, m, "barrier") BY <1>1, <1>9, MadeGrows
  <2> QED BY <1>1, <1>2, <1>3, <1>4, <1>7, <1>8, <2>1, <2>2
<1>10. CASE pc[r] = m /\ ~inside[r] BY <1>1, <1>2, <1>3, <1>4, <1>7, <1>10
<1>11. CASE pc[r] = m /\ inside[r] BY <1>5, <1>11
<1> QED BY <1>1, <1>9, <1>10, <1>11

LEMMA HeardThat ==
  ASSUME Inv, OrderInv, NEW q \in Procs, NEW r \in Procs, NEW k \in Nat, pc[q] >= k,
         NEW m \in Places(test, r), Hears(test, q, k, r, m)
  PROVE  pc[r] > m
<1>1. (\A p \in Procs : pc[p] \in Nat) /\ m \in Nat
  BY NotEmpty DEF Inv, TypeInv, ProcType, Places
<1>2. CASE q = r /\ m < k BY <1>1, <1>2
<1>3. CASE Met(test, q, k, r, m) /\ Do(test, r, m) # "barrier" BY <1>3, MetThat
<1>4. CASE Told(test, q, k, r, m)
  <2>1. PICK j \in 1..(k - 1) :
          /\ Do(test, q, j) = "import" /\ r = ScriptOf(test, q)[j].from
          /\ \A i \in Exports(test, r, ScriptOf(test, q)[j].name) : m < i
    BY <1>4 DEF Told
  <2>2. j \in 1..(pc[q] - 1) BY <1>1
  <2>3. PICK i \in Exports(test, r, ScriptOf(test, q)[j].name) : i < pc[r]
    BY <2>1, <2>2 DEF OrderInv, ImportInv
  <2>4. m < i BY <2>1
  <2>5. i \in Nat BY NotEmpty DEF Exports, Places, Inv
  <2> QED BY <1>1, <2>3, <2>4, <2>5
<1> QED BY <1>2, <1>3, <1>4 DEF Hears

LEMMA FollowedThat ==
  ASSUME Inv, OrderInv, NEW q \in Procs, NEW r \in Procs, NEW k \in Nat, pc[q] >= k,
         NEW m \in Places(test, r), Follows(test, q, k, r, m)
  PROVE  pc[r] > m
<1>1. 0 \in Procs BY PrevFacts, Ids
<1>2. CASE Hears(test, q, k, r, m) BY <1>2, HeardThat
<1>3. CASE \E i \in Places(test, 0) : Hears(test, q, k, 0, i) /\ Hears(test, 0, i + 1, r, m)
  <2>1. PICK i \in Places(test, 0) : Hears(test, q, k, 0, i) /\ Hears(test, 0, i + 1, r, m)
    BY <1>3
  <2>2. pc[0] > i BY <1>1, <2>1, HeardThat
  <2>3. i \in Nat /\ pc[0] \in Nat BY <1>1, NotEmpty DEF Places, Inv, TypeInv, ProcType
  <2>4. i + 1 \in Nat /\ pc[0] >= i + 1 BY <2>2, <2>3
  <2> QED BY <1>1, <2>1, <2>4, HeardThat
<1> QED BY <1>2, <1>3 DEF Follows

-----------------------------------------------------------------------------
LEMMA ImageFinite ==
  ASSUME NEW S, IsFiniteSet(S), NEW f PROVE IsFiniteSet({f[x] : x \in S})
<1> DEFINE T == {f[x] : x \in S}
           g == [x \in S |-> f[x]]
<1>1. g \in Surjection(S, T) BY DEF Surjection
<1> QED BY <1>1, FS_Surjection

(* The operations of all processes are finitely many; and a step of a      *)
(* process over one of some set of them, or over none.                     *)
LEMMA StepsFacts ==
  ASSUME Inv
  PROVE  /\ IsFiniteSet(Steps(test))
         /\ \A w \in Steps(test) :
              w[1] \in Procs /\ w[2] \in Places(test, w[1]) /\ w[2] \in Nat \ {0}
                                    /\ w = <<w[1], w[2]>>
         /\ \A p \in Procs : \A k \in Places(test, p) : <<p, k>> \in Steps(test)
<1> DEFINE S(p) == {<<p, k>> : k \in Places(test, p)}
<1>1. IsFiniteSet(Procs)
  <2>1. IsFiniteSet(Tasks) BY TestOpsAssumption, FS_Interval DEF Tasks
  <2>2. IsFiniteSet(Tasks \cup {Root}) BY <2>1, FS_AddElement
  <2>3. Procs = (Tasks \cup {Root}) \cup {Parent} BY DEF Procs
  <2> QED BY <2>2, <2>3, FS_AddElement
<1>2. ASSUME NEW p \in Procs PROVE IsFiniteSet(S(p))
  <2>1. IsFiniteSet(Places(test, p)) BY NotEmpty, FS_Interval DEF Places, Inv
  <2> DEFINE f == [k \in Places(test, p) |-> <<p, k>>]
  <2>2. S(p) = {f[k] : k \in Places(test, p)} OBVIOUS
  <2> HIDE DEF S, f
  <2> QED BY <2>1, <2>2, ImageFinite
<1>3. Steps(test) = UNION {S(p) : p \in Procs} BY DEF Steps
<1>4. IsFiniteSet(Steps(test))
  <2> HIDE DEF S
  <2> DEFINE f == [p \in Procs |-> S(p)]
  <2>0. {S(p) : p \in Procs} = {f[p] : p \in Procs} OBVIOUS
  <2>1. IsFiniteSet({S(p) : p \in Procs})
    <3> HIDE DEF f
    <3> QED BY <1>1, <2>0, ImageFinite
  <2>2. \A x \in {S(p) : p \in Procs} : IsFiniteSet(x) BY <1>2
  <2> QED BY <1>3, <2>1, <2>2, FS_UNION
<1>5. \A p \in Procs : Places(test, p) \subseteq Nat \ {0} BY NotEmpty DEF Places, Inv
<1>6. ASSUME NEW w \in Steps(test)
      PROVE  w[1] \in Procs /\ w[2] \in Places(test, w[1]) /\ w = <<w[1], w[2]>>
  <2>1. PICK p \in Procs : w \in S(p) BY <1>3
  <2>2. PICK k \in Places(test, p) : w = <<p, k>> BY <2>1
  <2> QED BY <2>2
<1>7. \A p \in Procs : \A k \in Places(test, p) : <<p, k>> \in Steps(test) BY <1>3
<1> QED BY <1>4, <1>5, <1>6, <1>7

LEMMA PassStep ==
  ASSUME Inv, NEW p \in Procs, Ahead1(p), pc[p] \in Places(test, p), NEW S, S \subseteq Steps(test)
  PROVE  /\ Cardinality({w \in S : pc[w[1]] > w[2]}) \in Nat
         /\ pc'[p] = pc[p] \/ <<p, pc[p]>> \notin S =>
              {w \in S : pc'[w[1]] > w[2]} = {w \in S : pc[w[1]] > w[2]}
         /\ pc'[p] = pc[p] + 1 /\ <<p, pc[p]>> \in S =>
              Cardinality({w \in S : pc'[w[1]] > w[2]}) =
                Cardinality({w \in S : pc[w[1]] > w[2]}) + 1
<1> DEFINE now == {w \in S : pc[w[1]] > w[2]}
           next == {w \in S : pc'[w[1]] > w[2]}
<1>1. \A q \in Procs : pc[q] \in Nat /\ pc'[q] \in {pc[q], pc[q] + 1} /\ (q # p => pc'[q] = pc[q])
  BY AheadFacts DEF Inv, TypeInv, ProcType
<1>2. ASSUME NEW w \in S
      PROVE  /\ pc'[w[1]] > w[2] <=>
                   pc[w[1]] > w[2] \/ (w = <<p, pc[p]>> /\ pc'[p] = pc[p] + 1)
             /\ w = <<p, pc[p]>> => ~(pc[w[1]] > w[2])
  <2>1. w[1] \in Procs /\ w[2] \in Nat /\ w = <<w[1], w[2]>> BY StepsFacts
  <2>2. w = <<p, pc[p]>> <=> w[1] = p /\ w[2] = pc[p] BY <2>1
  <2>3. CASE w[1] = p
    <3>1. pc[p] \in Nat /\ pc'[p] \in {pc[p], pc[p] + 1} /\ w[2] \in Nat BY <1>1, <2>1
    <3> QED BY <2>2, <2>3, <3>1
  <2>4. CASE w[1] # p BY <1>1, <2>1, <2>2, <2>4
  <2> QED BY <2>3, <2>4
<1>3. IsFiniteSet(now) /\ Cardinality(now) \in Nat
  <2>1. now \subseteq Steps(test) OBVIOUS
  <2> QED BY <2>1, StepsFacts, FS_Subset, FS_CardinalityType
<1>4. pc'[p] = pc[p] => pc'[p] # pc[p] + 1 BY <1>1
<1>5. pc'[p] = pc[p] \/ <<p, pc[p]>> \notin S => next = now BY <1>2, <1>4
<1>6. ASSUME pc'[p] = pc[p] + 1, <<p, pc[p]>> \in S
      PROVE  Cardinality(next) = Cardinality(now) + 1
  <2>1. next = now \cup {<<p, pc[p]>>} /\ <<p, pc[p]>> \notin now BY <1>2, <1>6
  <2> HIDE DEF now, next
  <2> QED BY <1>3, <2>1, FS_AddElement
<1> QED BY <1>3, <1>5, <1>6

-----------------------------------------------------------------------------
(* Turns: the first n updates have been made, the others have not, and the *)
(* counter is what it should be then. Who has loaded it has what is there. *)
Passed(w) == pc[w[1]] > w[2]
UpTo(O, n) == n \in 0..Len(O) /\ \A i \in 1..Len(O) : Passed(O[i]) <=> i <= n
Fresh == \A p \in Procs :
  pc[p] \in Places(test, p) /\ Do(test, p, pc[p]) = "store" => reg[p] = count
TurnInv(O, v) == (\E n : UpTo(O, n) /\ count = v[n]) /\ Fresh /\ count = ledger
Turns == RunOnce(test) => \A O, v : TakesTurns(test, O, v) => TurnInv(O, v)

LEMMA WriteFacts ==
  ASSUME Inv, NEW O, NEW v, TakesTurns(test, O, v)
  PROVE  /\ \A i \in 1..Len(O) :
              /\ O[i] = <<O[i][1], O[i][2]>>
              /\ O[i][1] \in Procs /\ O[i][2] \in Places(test, O[i][1]) /\ O[i][2] \in Nat \ {0}
              /\ Do(test, O[i][1], O[i][2]) \in {"assign", "store"}
         /\ \A p \in Procs : \A k \in Places(test, p) :
              Do(test, p, k) \in {"assign", "store"} => \E i \in 1..Len(O) : O[i] = <<p, k>>
         /\ \A p \in Procs : \A k \in Places(test, p) :
              Do(test, p, k) = "store" => k > 1 /\ Do(test, p, k - 1) = "load"
<1>1. {O[i] : i \in 1..Len(O)} = Writes(test) BY DEF TakesTurns
<1>2. \A i \in 1..Len(O) : O[i] \in Writes(test) BY <1>1
<1>3. \A p \in Procs : Places(test, p) \subseteq Nat \ {0} BY NotEmpty DEF Places, Inv
<1>4. ASSUME NEW i \in 1..Len(O)
      PROVE  /\ O[i] = <<O[i][1], O[i][2]>>
             /\ O[i][1] \in Procs /\ O[i][2] \in Places(test, O[i][1]) /\ O[i][2] \in Nat \ {0}
             /\ Do(test, O[i][1], O[i][2]) \in {"assign", "store"}
  <2>1. O[i] \in Steps(test) /\ OpAt(test, O[i]).do \in {"assign", "store"} BY <1>2, <1>4 DEF Writes
  <2>2. PICK p \in Procs, k \in Places(test, O[i][1]) : O[i] = <<p, k>> /\ p = O[i][1]
    BY <2>1, StepsFacts
  <2>3. Do(test, p, k) \in {"assign", "store"} BY <2>1, <2>2 DEF OpAt, Do
  <2> QED BY <1>3, <2>2, <2>3
<1>5. ASSUME NEW p \in Procs, NEW k \in Places(test, p), Do(test, p, k) \in {"assign", "store"}
      PROVE  \E i \in 1..Len(O) : O[i] = <<p, k>>
  <2>1. <<p, k>> \in Writes(test) BY <1>5, StepsFacts DEF Writes, OpAt, Do
  <2> QED BY <1>1, <2>1
<1>6. ASSUME NEW p \in Procs, NEW k \in Places(test, p), Do(test, p, k) = "store"
      PROVE  k > 1 /\ Do(test, p, k - 1) = "load"
  <2>1. PICK i \in 1..Len(O) : O[i] = <<p, k>> BY <1>5, <1>6
  <2>2. ScriptOf(test, O[i][1])[O[i][2]].do = "store" BY <1>6, <2>1 DEF Do
  <2>3. O[i][2] > 1 /\ Do(test, O[i][1], O[i][2] - 1) = "load" BY <2>2 DEF TakesTurns
  <2> QED BY <2>1, <2>3
<1> QED BY <1>4, <1>5, <1>6

(* Only the update whose turn it is has begun and is not made.             *)
LEMMA HisTurn ==
  ASSUME Inv, OrderInv, NEW O, NEW v, TakesTurns(test, O, v), NEW n, UpTo(O, n),
         NEW j \in 1..Len(O), ~Passed(O[j]), pc[O[j][1]] >= Begin(test, O[j])
  PROVE  j = n + 1 /\ n + 1 \in 1..Len(O)
<1>1. Len(O) \in Nat /\ n \in 0..Len(O) /\ j > n BY DEF UpTo, TakesTurns
<1>2. CASE j = 1 BY <1>1, <1>2
<1>3. CASE j # 1
  <2>1. j \in 2..Len(O) /\ j - 1 \in 1..Len(O) BY <1>1, <1>3
  <2>2. Hears(test, O[j][1], Begin(test, O[j]), O[j - 1][1], O[j - 1][2])
    BY <2>1 DEF TakesTurns, After
  <2>3. /\ O[j][1] \in Procs /\ O[j][2] \in Nat \ {0} /\ O[j - 1][1] \in Procs
        /\ O[j - 1][2] \in Places(test, O[j - 1][1])
    BY <2>1, WriteFacts
  <2>4. Begin(test, O[j]) \in Nat BY <2>3 DEF Begin
  <2>5. pc[O[j - 1][1]] > O[j - 1][2] BY <2>2, <2>3, <2>4, HeardThat
  <2>6. j - 1 <= n BY <2>1, <2>5 DEF UpTo, Passed
  <2> QED BY <1>1, <2>6
<1> QED BY <1>2, <1>3

(* The step of a process over the place of an update, or over none.        *)
LEMMA NoTurn ==
  ASSUME Inv, NEW O, NEW v, TakesTurns(test, O, v), NEW n, UpTo(O, n), test' = test,
         NEW p \in Procs, Ahead1(p), pc[p] \in Places(test, p),
         pc'[p] = pc[p] \/ Do(test, p, pc[p]) \notin {"assign", "store"}
  PROVE  UpTo(O, n)'
<1>1. \A q \in Procs : pc[q] \in Nat /\ pc'[q] \in {pc[q], pc[q] + 1} /\ (q # p => pc'[q] = pc[q])
  BY AheadFacts DEF Inv, TypeInv, ProcType
<1>2. ASSUME NEW i \in 1..Len(O) PROVE Passed(O[i])' <=> Passed(O[i])
  <2>1. /\ O[i][1] \in Procs /\ O[i][2] \in Nat
        /\ Do(test, O[i][1], O[i][2]) \in {"assign", "store"}
    BY WriteFacts
  <2>2. pc'[p] = pc[p] \/ O[i][1] # p \/ O[i][2] # pc[p] BY <2>1
  <2>3. pc'[O[i][1]] > O[i][2] <=> pc[O[i][1]] > O[i][2]
    <3>1. CASE O[i][1] # p BY <1>1, <2>1, <3>1
    <3>2. CASE O[i][1] = p /\ (pc'[p] = pc[p] \/ O[i][2] # pc[p])
      <4>1. pc[p] \in Nat /\ O[i][2] \in Nat /\ pc'[p] \in {pc[p], pc[p] + 1} BY <1>1, <2>1
      <4> QED BY <3>2, <4>1
    <3> QED BY <2>2, <3>1, <3>2
  <2> QED BY <2>3 DEF Passed
<1> QED BY <1>2 DEF UpTo

LEMMA NextTurn ==
  ASSUME Inv, OrderInv, NEW O, NEW v, TakesTurns(test, O, v), NEW n, UpTo(O, n), test' = test,
         NEW p \in Procs, Ahead1(p), pc[p] \in Places(test, p), pc'[p] = pc[p] + 1,
         Do(test, p, pc[p]) \in {"assign", "store"}
  PROVE  n + 1 \in 1..Len(O) /\ O[n + 1] = <<p, pc[p]>> /\ UpTo(O, n + 1)'
<1>1. \A q \in Procs : pc[q] \in Nat /\ pc'[q] \in {pc[q], pc[q] + 1} /\ (q # p => pc'[q] = pc[q])
  BY AheadFacts DEF Inv, TypeInv, ProcType
<1>2. PICK j \in 1..Len(O) : O[j] = <<p, pc[p]>> BY WriteFacts
<1>3. ~Passed(O[j]) /\ pc[O[j][1]] >= Begin(test, O[j])
  <2>1. O[j][1] = p /\ O[j][2] = pc[p] /\ pc[p] \in Nat BY <1>1, <1>2
  <2>2. Begin(test, O[j]) \in {pc[p], pc[p] - 1} BY <2>1 DEF Begin
  <2> QED BY <2>1, <2>2 DEF Passed
<1>4. j = n + 1 /\ n + 1 \in 1..Len(O) BY <1>3, HisTurn
<1>5. n \in Nat /\ Len(O) \in Nat /\ n + 1 \in 0..Len(O) BY <1>4 DEF UpTo, TakesTurns
<1>6. ASSUME NEW i \in 1..Len(O) PROVE Passed(O[i])' <=> i <= n + 1
  <2>1. O[i] = <<O[i][1], O[i][2]>> /\ O[i][1] \in Procs /\ O[i][2] \in Nat BY WriteFacts
  <2>2. CASE i = j
    <3>1. O[i][1] = p /\ O[i][2] = pc[p] BY <1>2, <2>2
    <3>2. pc'[O[i][1]] > O[i][2] BY <1>1, <3>1
    <3> QED BY <1>4, <1>5, <2>2, <3>2 DEF Passed
  <2>3. CASE i # j
    <3>1. O[i] # O[j] BY <2>3 DEF TakesTurns
    <3>2. O[i][1] # p \/ O[i][2] # pc[p] BY <1>2, <2>1, <3>1
    <3>3. pc'[O[i][1]] > O[i][2] <=> pc[O[i][1]] > O[i][2]
      <4>1. CASE O[i][1] # p BY <1>1, <2>1, <4>1
      <4>2. CASE O[i][1] = p /\ O[i][2] # pc[p]
        <5>1. pc[p] \in Nat /\ O[i][2] \in Nat /\ pc'[p] \in {pc[p], pc[p] + 1} BY <1>1, <2>1
        <5> QED BY <4>2, <5>1
      <4> QED BY <3>2, <4>1, <4>2
    <3>4. Passed(O[i]) <=> i <= n BY DEF UpTo
    <3> QED BY <1>4, <1>5, <2>3, <3>3, <3>4 DEF Passed
  <2> QED BY <2>2, <2>3
<1> QED BY <1>2, <1>4, <1>5, <1>6 DEF UpTo

(* Two processes are never both about to update.                           *)
LEMMA OneTurn ==
  ASSUME Inv, OrderInv, NEW O, NEW v, TakesTurns(test, O, v), NEW n, UpTo(O, n),
         NEW p \in Procs, pc[p] \in Places(test, p), Do(test, p, pc[p]) \in {"assign", "store"},
         NEW q \in Procs, pc[q] \in Places(test, q), Do(test, q, pc[q]) = "store"
  PROVE  q = p
<1>1. pc[p] \in Nat /\ pc[q] \in Nat BY DEF Inv, TypeInv, ProcType
<1>2. PICK i \in 1..Len(O) : O[i] = <<p, pc[p]>> BY WriteFacts
<1>3. PICK j \in 1..Len(O) : O[j] = <<q, pc[q]>> BY WriteFacts
<1>4. ~Passed(O[i]) /\ pc[O[i][1]] >= Begin(test, O[i]) BY <1>1, <1>2 DEF Passed, Begin
<1>5. ~Passed(O[j]) /\ pc[O[j][1]] >= Begin(test, O[j]) BY <1>1, <1>3 DEF Passed, Begin
<1>6. i = n + 1 /\ j = n + 1 BY <1>4, <1>5, HisTurn
<1> QED BY <1>2, <1>3, <1>6

(* The value after the update whose turn it is.                            *)
LEMMA NextValue ==
  ASSUME NEW O, NEW v, TakesTurns(test, O, v), NEW n \in 0..Len(O), n + 1 \in 1..Len(O),
         NEW p, NEW k, O[n + 1] = <<p, k>>
  PROVE  LET o == ScriptOf(test, p)[k] IN
         /\ o.do = "assign" => v[n + 1] = o.val
         /\ o.do = "store"  => v[n + 1] = v[n] + o.inc
<1>1. Len(O) \in Nat BY DEF TakesTurns
<1>2. (n + 1) - 1 = n BY <1>1
<1> DEFINE o == ScriptOf(test, O[n + 1][1])[O[n + 1][2]]
<1>3. v[n + 1] = IF o.do = "assign" THEN o.val ELSE v[(n + 1) - 1] + o.inc BY DEF TakesTurns
<1>4. o = ScriptOf(test, p)[k] OBVIOUS
<1> QED BY <1>2, <1>3, <1>4

LEMMA TurnStep ==
  ASSUME Inv, RunOnce(test), OrderInv, NEW O, NEW v, TakesTurns(test, O, v), TurnInv(O, v),
         test' = test, NEW p \in Procs, Act(p)
  PROVE  TurnInv(O, v)'
<1>1. /\ pc \in [Procs -> Nat] /\ pc[p] \in Places(test, p) /\ pc[p] \in Nat \ {0}
      /\ Op(p) = ScriptOf(test, p)[pc[p]] /\ Op(p).do = Do(test, p, pc[p])
      /\ Op(p).do # "relay"
  BY Standing
<1>2. Ahead1(p) BY OnceSteps DEF OrderInv
<1>3. \A q \in Procs : q # p => pc'[q] = pc[q] BY <1>1, <1>2, AheadFacts
<1>4. PICK n : UpTo(O, n) /\ count = v[n] BY DEF TurnInv
<1>5. count \in Int /\ ledger \in Int /\ reg \in [Procs -> Int] /\ count = ledger /\ Fresh
  BY DEF Inv, TypeInv, MemType, TurnInv
<1>6. n \in 0..Len(O) BY <1>4 DEF UpTo
<1>7. ~DoAtomic(p)
  <2>1. Op(p).do # "atomic" BY <1>1 DEF TakesTurns
  <2> QED BY <2>1 DEF DoAtomic, At
<1>8. CASE DoLoad(p)
  <2>1. /\ reg' = [reg EXCEPT ![p] = count] /\ UNCHANGED <<count, ledger>>
        /\ Do(test, p, pc[p]) = "load"
    BY <1>1, <1>8 DEF DoLoad, At
  <2>2. UpTo(O, n)' BY <1>1, <1>2, <1>4, <2>1, NoTurn
  <2>3. Fresh' BY <1>3, <1>5, <2>1 DEF Fresh
  <2> QED BY <1>4, <1>5, <2>1, <2>2, <2>3 DEF TurnInv
<1>9. CASE DoStore(p) \/ DoAssign(p)
  <2>1. /\ Do(test, p, pc[p]) \in {"assign", "store"} /\ pc'[p] = pc[p] + 1
        /\ DoStore(p) => count' = reg[p] + Op(p).inc /\ ledger' = ledger + Op(p).inc
                           /\ Op(p).do = "store"
        /\ DoAssign(p) => count' = Op(p).val /\ ledger' = Op(p).val /\ Op(p).do = "assign"
    BY <1>1, <1>9 DEF DoStore, DoAssign, At, Advance
  <2>2. n + 1 \in 1..Len(O) /\ O[n + 1] = <<p, pc[p]>> /\ UpTo(O, n + 1)'
    BY <1>1, <1>2, <1>4, <2>1, NextTurn
  <2>3. /\ Op(p).do = "assign" => v[n + 1] = Op(p).val
        /\ Op(p).do = "store"  => v[n + 1] = v[n] + Op(p).inc
    BY <1>1, <1>6, <2>2, NextValue
  <2>4. DoStore(p) => reg[p] = count BY <1>1, <1>5, <2>1 DEF Fresh
  <2>5. count' = v[n + 1] /\ count' = ledger' BY <1>4, <1>5, <1>9, <2>1, <2>3, <2>4
  <2>6. Fresh'
    <3> SUFFICES ASSUME NEW q \in Procs, pc'[q] \in Places(test, q), Do(test, q, pc'[q]) = "store"
                 PROVE  FALSE
      BY DEF Fresh
    <3>1. CASE q = p
      <4>1. Do(test, p, pc'[p] - 1) = "load" BY <3>1, WriteFacts
      <4>2. pc'[p] - 1 = pc[p] BY <1>1, <2>1
      <4> QED BY <2>1, <4>1, <4>2
    <3>2. CASE q # p
      <4>1. pc[q] \in Places(test, q) /\ Do(test, q, pc[q]) = "store" BY <1>3, <3>2
      <4> QED BY <1>1, <1>4, <2>1, <3>2, <4>1, OneTurn
    <3> QED BY <3>1, <3>2
  <2> QED BY <2>2, <2>5, <2>6 DEF TurnInv
<1>10. CASE /\ UNCHANGED <<count, reg, ledger>>
            /\ Op(p).do \in {"load", "store", "atomic", "assign"} => pc' = pc
  <2>1. UpTo(O, n)' BY <1>1, <1>2, <1>4, <1>10, NoTurn
  <2>2. Fresh'
    <3> SUFFICES ASSUME NEW q \in Procs, pc'[q] \in Places(test, q), Do(test, q, pc'[q]) = "store"
                 PROVE  reg'[q] = count'
      BY DEF Fresh
    <3>1. CASE pc'[q] = pc[q] BY <1>5, <1>10, <3>1 DEF Fresh
    <3>2. CASE pc'[q] # pc[q]
      <4>1. q = p /\ pc'[p] = pc[p] + 1 BY <1>1, <1>2, <1>3, <3>2, AheadFacts
      <4>2. Do(test, p, pc'[p] - 1) = "load" BY <4>1, WriteFacts
      <4>3. pc'[p] - 1 = pc[p] BY <1>1, <4>1
      <4> QED BY <1>1, <1>10, <3>2, <4>2, <4>3
    <3> QED BY <3>1, <3>2
  <2> QED BY <1>4, <1>5, <1>10, <2>1, <2>2 DEF TurnInv
<1> QED BY <1>1, <1>7, <1>8, <1>9, <1>10, MemStep

LEMMA InitTurns == ASSUME Init, NEW O, NEW v, TakesTurns(test, O, v) PROVE TurnInv(O, v)
<1>1. Inv BY InitInv
<1>2. (\A p \in Procs : pc[p] = 1) /\ count = 0 /\ ledger = 0 BY DEF Init
<1>3. UpTo(O, 0)
  <2>1. ASSUME NEW i \in 1..Len(O) PROVE ~Passed(O[i])
    <3>1. O[i][1] \in Procs /\ O[i][2] \in Nat \ {0} BY <1>1, WriteFacts
    <3> QED BY <1>2, <3>1 DEF Passed
  <2>2. Len(O) \in Nat BY DEF TakesTurns
  <2> QED BY <2>1, <2>2 DEF UpTo
<1>4. v[0] = 0 BY DEF TakesTurns
<1>5. Fresh
  <2>1. \A p \in Procs : 1 \in Places(test, p) => Do(test, p, 1) # "store"
    BY <1>1, WriteFacts
  <2> QED BY <1>2, <2>1 DEF Fresh
<1> QED BY <1>2, <1>3, <1>4, <1>5 DEF TurnInv

LEMMA SameTurns ==
  ASSUME NEW O, NEW v, TurnInv(O, v), UNCHANGED <<test, pc, mem>>
  PROVE  TurnInv(O, v)'
<1>1. PICK n : UpTo(O, n) /\ count = v[n] BY DEF TurnInv
<1>2. UpTo(O, n)' BY <1>1 DEF UpTo, Passed
<1>3. Fresh' BY DEF TurnInv, Fresh, mem
<1> QED BY <1>1, <1>2, <1>3 DEF TurnInv, mem

LEMMA TurnsHold == Spec => [](Inv /\ Order /\ Turns)
<1>1. Init => Turns BY InitTurns DEF Turns
<1>2. Inv /\ Order /\ Turns /\ [Next]_vars => Turns'
  <2> SUFFICES ASSUME Inv, Order, Turns, [Next]_vars, RunOnce(test)',
                      NEW O, NEW v, TakesTurns(test, O, v)'
               PROVE  TurnInv(O, v)'
    BY DEF Turns
  <2>1. test' = test BY SameTest
  <2>2. RunOnce(test) /\ OrderInv /\ TakesTurns(test, O, v) /\ TurnInv(O, v)
    BY <2>1 DEF Order, Turns
  <2>3. ASSUME NEW p \in Procs, Act(p) PROVE TurnInv(O, v)' BY <2>1, <2>2, <2>3, TurnStep
  <2>4. CASE Killing BY <2>2, <2>4, KillingSpares, SameTurns
  <2>5. CASE UNCHANGED vars
    <3>1. UNCHANGED <<test, pc, mem>> BY <2>5 DEF vars, proc
    <3> QED BY <2>2, <3>1, SameTurns
  <2> QED BY <2>3, <2>4, <2>5, Acts
<1> QED BY <1>1, <1>2, OrderHolds, PTL DEF Spec

(* A CHECK of the counter comes when its value is what it should be.       *)
LEMMA CountHolds ==
  ASSUME Inv, OrderInv, NEW O, NEW v, TakesTurns(test, O, v), TurnInv(O, v),
         NEW p \in Procs, pc[p] \in Places(test, p), Do(test, p, pc[p]) = "count"
  PROVE  LET o == ScriptOf(test, p)[pc[p]] IN (count = o.val) # o.not
<1> DEFINE o == ScriptOf(test, p)[pc[p]]
<1>1. PICK n : UpTo(O, n) /\ count = v[n] BY DEF TurnInv
<1>2. pc[p] \in Nat /\ Len(O) \in Nat /\ n \in 0..Len(O)
  BY <1>1 DEF Inv, TypeInv, ProcType, TakesTurns, UpTo
<1>3. PICK i \in 0..Len(O) :
        /\ i > 0 => Hears(test, p, pc[p], O[i][1], O[i][2])
        /\ i < Len(O) => Hears(test, O[i + 1][1], Begin(test, O[i + 1]), p, pc[p])
        /\ (v[i] = o.val) # o.not
  BY DEF TakesTurns, Do
<1>4. i <= n
  <2>1. CASE i > 0
    <3>1. i \in 1..Len(O) BY <2>1
    <3>2. O[i][1] \in Procs /\ O[i][2] \in Places(test, O[i][1]) BY <3>1, WriteFacts
    <3>3. pc[O[i][1]] > O[i][2] BY <1>2, <1>3, <2>1, <3>2, HeardThat
    <3> QED BY <1>1, <3>1, <3>3 DEF UpTo, Passed
  <2> QED BY <1>2, <2>1
<1>5. i >= n
  <2> SUFFICES ASSUME i < n PROVE FALSE BY <1>2
  <2>1. i < Len(O) /\ i + 1 \in 1..Len(O) /\ i + 1 <= n BY <1>2
  <2>2. /\ O[i + 1][1] \in Procs /\ O[i + 1][2] \in Nat
        /\ pc[O[i + 1][1]] \in Nat /\ pc[O[i + 1][1]] > O[i + 1][2]
    BY <1>1, <2>1, WriteFacts DEF UpTo, Passed, Inv, TypeInv, ProcType
  <2>3. /\ Begin(test, O[i + 1]) \in Nat
        /\ pc[O[i + 1][1]] >= Begin(test, O[i + 1])
    <3>1. O[i + 1][2] \in Nat \ {0} BY <2>1, WriteFacts
    <3> QED BY <2>2, <3>1 DEF Begin
  <2>4. pc[p] > pc[p] BY <1>3, <2>1, <2>2, <2>3, HeardThat
  <2> QED BY <1>2, <2>4
<1>6. i = n BY <1>2, <1>4, <1>5
<1> QED BY <1>1, <1>3, <1>6

-----------------------------------------------------------------------------
(* Pools of forked processes: how many there are, and how many of them are *)
(* in the table, is what the processes have come past.                     *)
Past(c, do) == {w \in OfPool(test, c, do) : Passed(w)}
Held(c) == [all   |-> Cardinality(Past(c, "fork child")) - Cardinality(Past(c, "wait child")),
            known |-> Cardinality(Past(c, "record")) - Cardinality(Past(c, "wait child"))]
PoolInv == children = [c \in Procs |-> Held(c)]
Pool == Pooled(test) => PoolInv

LEMMA PoolFacts ==
  ASSUME Inv, NEW c, NEW do
  PROVE  /\ OfPool(test, c, do) \subseteq Steps(test) /\ Past(c, do) \subseteq OfPool(test, c, do)
         /\ IsFiniteSet(OfPool(test, c, do)) /\ Cardinality(OfPool(test, c, do)) \in Nat
         /\ IsFiniteSet(Past(c, do)) /\ Cardinality(Past(c, do)) \in Nat
         /\ \A p \in Procs : \A k \in Places(test, p) : <<p, k>> \in OfPool(test, c, do) <=>
              Do(test, p, k) = do /\ ScriptOf(test, p)[k].pool = c
<1>1. OfPool(test, c, do) \subseteq Steps(test) /\ Past(c, do) \subseteq OfPool(test, c, do)
  BY DEF OfPool, Past
<1>2. IsFiniteSet(OfPool(test, c, do)) BY <1>1, StepsFacts, FS_Subset
<1>3. IsFiniteSet(Past(c, do)) BY <1>1, <1>2, FS_Subset
<1>4. \A p \in Procs : \A k \in Places(test, p) : <<p, k>> \in OfPool(test, c, do) <=>
        Do(test, p, k) = do /\ ScriptOf(test, p)[k].pool = c
  BY StepsFacts DEF OfPool, OpAt, Do
<1> QED BY <1>1, <1>2, <1>3, <1>4, FS_CardinalityType

(* The step of a process over a place of some pool, or over none.          *)
LEMMA PastStep ==
  ASSUME Inv, test' = test, NEW p \in Procs, Ahead1(p), pc[p] \in Places(test, p), NEW c, NEW do
  PROVE  /\ pc'[p] = pc[p] \/ Do(test, p, pc[p]) # do \/ ScriptOf(test, p)[pc[p]].pool # c =>
              Past(c, do)' = Past(c, do)
         /\ pc'[p] = pc[p] + 1 /\ Do(test, p, pc[p]) = do /\ ScriptOf(test, p)[pc[p]].pool = c =>
              Cardinality(Past(c, do)') = Cardinality(Past(c, do)) + 1
<1> DEFINE S == OfPool(test, c, do)
<1>1. S \subseteq Steps(test) BY PoolFacts
<1>2. <<p, pc[p]>> \in S <=> Do(test, p, pc[p]) = do /\ ScriptOf(test, p)[pc[p]].pool = c
  BY PoolFacts
<1>3. /\ Past(c, do) = {w \in S : pc[w[1]] > w[2]}
      /\ Past(c, do)' = {w \in S : pc'[w[1]] > w[2]}
  BY DEF Past, Passed
<1> HIDE DEF S
<1>4. /\ pc'[p] = pc[p] \/ <<p, pc[p]>> \notin S => Past(c, do)' = Past(c, do)
      /\ pc'[p] = pc[p] + 1 /\ <<p, pc[p]>> \in S =>
           Cardinality(Past(c, do)') = Cardinality(Past(c, do)) + 1
  BY <1>1, <1>3, PassStep
<1> QED BY <1>2, <1>4

(* Who waits in a pool finds a child there, and in the table.              *)
LEMMA PoolFull ==
  ASSUME Inv, OrderInv, NEW c, NEW do, NEW p \in Procs, pc[p] \in Places(test, p),
         \A f \in OfPool(test, c, do) : Follows(test, p, pc[p], f[1], f[2])
  PROVE  Past(c, do) = OfPool(test, c, do)
<1> SUFFICES ASSUME NEW f \in OfPool(test, c, do) PROVE Passed(f) BY DEF Past
<1>1. f \in Steps(test) BY PoolFacts
<1>2. f[1] \in Procs /\ f[2] \in Places(test, f[1]) BY <1>1, StepsFacts
<1>3. Follows(test, p, pc[p], f[1], f[2]) OBVIOUS
<1>4. pc[p] \in Nat BY DEF Inv, TypeInv, ProcType
<1>5. pc[f[1]] > f[2] BY <1>2, <1>3, <1>4, FollowedThat
<1> QED BY <1>5 DEF Passed

LEMMA PoolLess ==
  ASSUME Inv, NEW c, NEW do, NEW p \in Procs, pc[p] \in Places(test, p),
         Do(test, p, pc[p]) = do, ScriptOf(test, p)[pc[p]].pool = c
  PROVE  /\ <<p, pc[p]>> \in OfPool(test, c, do)
         /\ Cardinality(Past(c, do)) < Cardinality(OfPool(test, c, do))
<1>1. <<p, pc[p]>> \in OfPool(test, c, do) BY PoolFacts
<1>2. ~Passed(<<p, pc[p]>>)
  <2>1. pc[p] \in Nat BY DEF Inv, TypeInv, ProcType
  <2> QED BY <2>1 DEF Passed
<1>3. Past(c, do) \subseteq OfPool(test, c, do) /\ Past(c, do) # OfPool(test, c, do)
  BY <1>1, <1>2 DEF Past
<1>4. /\ IsFiniteSet(OfPool(test, c, do)) /\ Cardinality(OfPool(test, c, do)) \in Nat
      /\ Cardinality(Past(c, do)) \in Nat
  BY PoolFacts
<1>5. /\ Cardinality(Past(c, do)) <= Cardinality(OfPool(test, c, do))
      /\ Cardinality(Past(c, do)) # Cardinality(OfPool(test, c, do))
  BY <1>3, <1>4, FS_Subset
<1> QED BY <1>1, <1>4, <1>5

LEMMA WaitNumbers ==
  ASSUME NEW n \in Nat, NEW m \in Nat, m < n, NEW c, c = [all |-> n - m, known |-> n - m]
  PROVE  c.all \in Nat \ {0} /\ c.known = c.all
  OBVIOUS

LEMMA WaitHolds ==
  ASSUME Inv, OrderInv, PoolInv, Pooled(test),
         NEW p \in Procs, pc[p] \in Places(test, p), Do(test, p, pc[p]) = "wait child"
  PROVE  LET c == ScriptOf(test, p)[pc[p]].pool IN
         c \in Procs /\ children[c].all \in Nat \ {0} /\ children[c].known = children[c].all
<1> DEFINE c == ScriptOf(test, p)[pc[p]].pool
           w == <<p, pc[p]>>
           P(do) == OfPool(test, c, do)
<1>1. c \in Procs BY ScriptsAssumption DEF Inv, TypeInv, ProcType, WellFormed, Operands, Do
<1>2. w \in P("wait child") /\ Cardinality(Past(c, "wait child")) < Cardinality(P("wait child"))
  BY PoolLess
<1>3. /\ Cardinality(P("fork child")) = Cardinality(P("wait child"))
      /\ Cardinality(P("record")) = Cardinality(P("wait child"))
      /\ \A f \in P("fork child") \cup P("record") : Follows(test, w[1], w[2], f[1], f[2])
  BY <1>1, <1>2, Zenon DEF Pooled
<1>4. w[1] = p /\ w[2] = pc[p] OBVIOUS
<1>5. Past(c, "fork child") = P("fork child") BY <1>3, <1>4, PoolFull
<1>6. Past(c, "record") = P("record") BY <1>3, <1>4, PoolFull
<1> DEFINE n == Cardinality(P("wait child"))
           m == Cardinality(Past(c, "wait child"))
<1>7. n \in Nat /\ m \in Nat /\ m < n BY <1>2, PoolFacts, Zenon
<1>8. children[c] = [all |-> n - m, known |-> n - m] BY <1>1, <1>3, <1>5, <1>6 DEF PoolInv, Held
<1>9. children[c].all \in Nat \ {0} /\ children[c].known = children[c].all
  <2> HIDE DEF n, m
  <2> QED BY <1>7, <1>8, WaitNumbers, Zenon
<1> QED BY <1>1, <1>9

LEMMA WaitAdvances ==
  ASSUME Inv, RunOnce(test), OrderInv, PoolInv, Pooled(test),
         NEW p \in Procs, DoWaitChild(p), Act(p)
  PROVE  LET c == Op(p).pool IN
         /\ children' = [children EXCEPT ![c] =
                          [all |-> children[c].all - 1, known |-> children[c].known - 1]]
         /\ pc' = [pc EXCEPT ![p] = @ + 1] /\ UNCHANGED <<state, failed>>
<1> DEFINE c == children[Op(p).pool]
<1>1. c.all \in Nat \ {0} /\ c.known = c.all
  <2>1. /\ pc[p] \in Places(test, p) /\ Op(p) = ScriptOf(test, p)[pc[p]]
        /\ Do(test, p, pc[p]) = "wait child"
    BY Standing DEF DoWaitChild, At
  <2> QED BY <2>1, WaitHolds
<1>2. c.all # 0 /\ c.known > 0 /\ ~(c.all > c.known) BY <1>1
<1>3. \E hit \in (IF c.known > 0 THEN {1} ELSE {}) \cup (IF c.all > c.known THEN {0} ELSE {}) :
        /\ children' = [children EXCEPT
             ![Op(p).pool] = [all |-> c.all - 1, known |-> c.known - hit]]
        /\ pc' = [pc EXCEPT ![p] = @ + hit]
        /\ UNCHANGED <<state, failed>>
  BY <1>2, Zenon DEF DoWaitChild
<1>4. (IF c.known > 0 THEN {1} ELSE {}) \cup (IF c.all > c.known THEN {0} ELSE {}) = {1} BY <1>2
<1> HIDE DEF c
<1>5. \E hit \in {1} :
        /\ children' = [children EXCEPT
             ![Op(p).pool] = [all |-> c.all - 1, known |-> c.known - hit]]
        /\ pc' = [pc EXCEPT ![p] = @ + hit]
        /\ UNCHANGED <<state, failed>>
  BY <1>3, <1>4, Zenon
<1> QED BY <1>5, Zenon DEF c

LEMMA PoolNumbers ==
  ASSUME NEW f \in Nat, NEW r \in Nat, NEW w \in Nat, NEW c, c = [all |-> f - w, known |-> r - w]
  PROVE  /\ [c EXCEPT !.all = @ + 1] = [all |-> (f + 1) - w, known |-> r - w]
         /\ [c EXCEPT !.known = @ + 1] = [all |-> f - w, known |-> (r + 1) - w]
         /\ [all |-> c.all - 1, known |-> c.known - 1] =
              [all |-> f - (w + 1), known |-> r - (w + 1)]
<1>1. c.all = f - w /\ c.known = r - w OBVIOUS
<1>2. /\ (f - w) + 1 = (f + 1) - w /\ (r - w) + 1 = (r + 1) - w
      /\ (f - w) - 1 = f - (w + 1) /\ (r - w) - 1 = r - (w + 1)
  OBVIOUS
<1> QED BY <1>1, <1>2

(* The step of a process in its pool, and in all others.                   *)
LEMMA HeldStep ==
  ASSUME Inv, test' = test, NEW p \in Procs, Ahead1(p), pc[p] \in Places(test, p), NEW c
  PROVE  LET here == pc'[p] = pc[p] + 1 /\ ScriptOf(test, p)[pc[p]].pool = c
             do   == Do(test, p, pc[p])
         IN /\ \/ pc'[p] = pc[p] \/ ScriptOf(test, p)[pc[p]].pool # c
               \/ do \notin {"fork child", "record", "wait child"}
               => Held(c)' = Held(c)
            /\ here /\ do = "fork child" => Held(c)' = [Held(c) EXCEPT !.all = @ + 1]
            /\ here /\ do = "record" => Held(c)' = [Held(c) EXCEPT !.known = @ + 1]
            /\ here /\ do = "wait child" =>
                 Held(c)' = [all |-> Held(c).all - 1, known |-> Held(c).known - 1]
<1> DEFINE do == Do(test, p, pc[p])
           here == pc'[p] = pc[p] + 1 /\ ScriptOf(test, p)[pc[p]].pool = c
           F == Cardinality(Past(c, "fork child"))
           R == Cardinality(Past(c, "record"))
           W == Cardinality(Past(c, "wait child"))
<1>1. F \in Nat /\ R \in Nat /\ W \in Nat BY PoolFacts
<1>2. \A x : /\ pc'[p] = pc[p] \/ do # x \/ ScriptOf(test, p)[pc[p]].pool # c =>
                  Past(c, x)' = Past(c, x)
             /\ here /\ do = x => Cardinality(Past(c, x)') = Cardinality(Past(c, x)) + 1
  BY PastStep
<1>3. Held(c) = [all |-> F - W, known |-> R - W] BY DEF Held
<1>4. /\ [Held(c) EXCEPT !.all = @ + 1] = [all |-> (F + 1) - W, known |-> R - W]
      /\ [Held(c) EXCEPT !.known = @ + 1] = [all |-> F - W, known |-> (R + 1) - W]
      /\ [all |-> Held(c).all - 1, known |-> Held(c).known - 1] =
           [all |-> F - (W + 1), known |-> R - (W + 1)]
  <2> HIDE DEF F, R, W
  <2> QED BY <1>1, <1>3, PoolNumbers
<1>5. Held(c)' = [all |-> F' - W', known |-> R' - W'] BY DEF Held
<1>6. ASSUME \/ pc'[p] = pc[p] \/ ScriptOf(test, p)[pc[p]].pool # c
             \/ do \notin {"fork child", "record", "wait child"}
      PROVE  Held(c)' = Held(c)
  <2>1. F' = F /\ R' = R /\ W' = W BY <1>2, <1>6
  <2> QED BY <1>3, <1>5, <2>1
<1>7. ASSUME here /\ do = "fork child"
      PROVE  Held(c)' = [Held(c) EXCEPT !.all = @ + 1]
  <2>1. F' = F + 1 /\ R' = R /\ W' = W BY <1>2, <1>7
  <2>2. Held(c)' = [all |-> (F + 1) - W, known |-> R - W] BY <1>5, <2>1, Zenon
  <2> QED BY <1>4, <2>2, Zenon
<1>8. ASSUME here /\ do = "record"
      PROVE  Held(c)' = [Held(c) EXCEPT !.known = @ + 1]
  <2>1. F' = F /\ R' = R + 1 /\ W' = W BY <1>2, <1>8
  <2>2. Held(c)' = [all |-> F - W, known |-> (R + 1) - W] BY <1>5, <2>1, Zenon
  <2> QED BY <1>4, <2>2, Zenon
<1>9. ASSUME here /\ do = "wait child"
      PROVE  Held(c)' = [all |-> Held(c).all - 1, known |-> Held(c).known - 1]
  <2>1. F' = F /\ R' = R /\ W' = W + 1 BY <1>2, <1>9
  <2>2. Held(c)' = [all |-> F - (W + 1), known |-> R - (W + 1)] BY <1>5, <2>1, Zenon
  <2> QED BY <1>4, <2>2, Zenon
<1> QED BY <1>6, <1>7, <1>8, <1>9

LEMMA PoolAct ==
  ASSUME Inv, RunOnce(test), OrderInv, Pooled(test), PoolInv, test' = test,
         NEW p \in Procs, Act(p)
  PROVE  PoolInv'
<1>1. /\ pc \in [Procs -> Nat] /\ pc[p] \in Places(test, p)
      /\ Op(p) = ScriptOf(test, p)[pc[p]] /\ Op(p).do = Do(test, p, pc[p])
  BY Standing
<1>2. Ahead1(p) BY OnceSteps DEF OrderInv
<1> DEFINE d == Op(p).pool
<1>3. \A c \in Procs : children[c] = Held(c) BY DEF PoolInv
<1>4. SUFFICES children' = [c \in Procs |-> Held(c)'] BY DEF PoolInv
<1>5. CASE /\ UNCHANGED children
           /\ Op(p).do \in {"fork child", "record", "wait child"} => pc' = pc
  <2>1. \A c : Held(c)' = Held(c) BY <1>1, <1>2, <1>5, HeldStep
  <2> QED BY <1>5, <2>1 DEF PoolInv
<1>6. CASE DoForkChild(p)
  <2>1. /\ children' = [children EXCEPT ![d] = [children[d] EXCEPT !.all = @ + 1]]
        /\ pc' = [pc EXCEPT ![p] = @ + 1] /\ Do(test, p, pc[p]) = "fork child"
    BY <1>1, <1>6 DEF DoForkChild, At, Advance
  <2>2. pc'[p] = pc[p] + 1 BY <1>1, <2>1
  <2>3. \A c : Held(c)' = IF c = d THEN [Held(c) EXCEPT !.all = @ + 1] ELSE Held(c)
    BY <1>1, <1>2, <2>1, <2>2, HeldStep
  <2> QED BY <1>3, <2>1, <2>3 DEF PoolInv
<1>7. CASE DoRecord(p)
  <2>1. /\ children' = [children EXCEPT ![d] = [children[d] EXCEPT !.known = @ + 1]]
        /\ pc' = [pc EXCEPT ![p] = @ + 1] /\ Do(test, p, pc[p]) = "record"
    BY <1>1, <1>7 DEF DoRecord, At, Advance
  <2>2. pc'[p] = pc[p] + 1 BY <1>1, <2>1
  <2>3. \A c : Held(c)' = IF c = d THEN [Held(c) EXCEPT !.known = @ + 1] ELSE Held(c)
    BY <1>1, <1>2, <2>1, <2>2, HeldStep
  <2> QED BY <1>3, <2>1, <2>3 DEF PoolInv
<1>8. CASE DoWaitChild(p)
  <2>1. /\ children' = [children EXCEPT ![d] =
                         [all |-> children[d].all - 1, known |-> children[d].known - 1]]
        /\ pc' = [pc EXCEPT ![p] = @ + 1]
    BY <1>8, WaitAdvances
  <2>2. pc'[p] = pc[p] + 1 /\ Do(test, p, pc[p]) = "wait child"
    BY <1>1, <1>8, <2>1 DEF DoWaitChild, At
  <2>3. \A c : Held(c)' = IF c = d THEN [all |-> Held(c).all - 1, known |-> Held(c).known - 1]
                          ELSE Held(c)
    BY <1>1, <1>2, <2>1, <2>2, HeldStep
  <2> QED BY <1>3, <2>1, <2>3 DEF PoolInv
<1> QED BY <1>5, <1>6, <1>7, <1>8, PoolStep

LEMMA PoolHolds == Spec => [](Inv /\ Order /\ Pool)
<1>1. Init => Pool
  <2> SUFFICES ASSUME Init PROVE PoolInv BY DEF Pool
  <2>1. Inv /\ \A p \in Procs : pc[p] = 1 BY InitInv DEF Init
  <2>2. ASSUME NEW c \in Procs, NEW do PROVE Cardinality(Past(c, do)) = 0
    <3>1. ASSUME NEW w \in Past(c, do) PROVE FALSE
      <4>1. w \in Steps(test) BY <2>1, PoolFacts
      <4>2. w[1] \in Procs /\ w[2] \in Nat \ {0} BY <2>1, <4>1, StepsFacts
      <4> QED BY <2>1, <4>2 DEF Past, Passed
    <3>2. Past(c, do) = {} BY <3>1
    <3> QED BY <3>2, FS_EmptySet
  <2>3. ASSUME NEW c \in Procs PROVE Held(c) = [all |-> 0, known |-> 0]
    <3>1. /\ Cardinality(Past(c, "fork child")) = 0 /\ Cardinality(Past(c, "record")) = 0
          /\ Cardinality(Past(c, "wait child")) = 0
      BY <2>2, Zenon
    <3>2. 0 - 0 = 0 OBVIOUS
    <3> QED BY <3>1, <3>2, Zenon DEF Held
  <2> QED BY <2>3 DEF Init, PoolInv
<1>2. Inv /\ Order /\ Pool /\ [Next]_vars => Pool'
  <2> SUFFICES ASSUME Inv, Order, Pool, [Next]_vars, Pooled(test)' PROVE PoolInv' BY DEF Pool
  <2>1. test' = test BY SameTest
  <2>2. Pooled(test) /\ RunOnce(test) /\ OrderInv /\ PoolInv BY <2>1 DEF Order, Pool, Pooled
  <2>3. ASSUME NEW p \in Procs, Act(p) PROVE PoolInv' BY <2>1, <2>2, <2>3, PoolAct
  <2>4. ASSUME UNCHANGED <<test, pc, children>> PROVE PoolInv'
    BY <2>2, <2>4 DEF PoolInv, Held, Past, Passed
  <2>5. CASE Killing
    <3>1. UNCHANGED <<test, pc, children>> BY <2>5, KillingSpares DEF comm
    <3> QED BY <2>4, <3>1
  <2>6. CASE UNCHANGED vars
    <3>1. UNCHANGED <<test, pc, children>> BY <2>6 DEF vars, proc, comm
    <3> QED BY <2>4, <3>1
  <2> QED BY <2>3, <2>5, <2>6, Acts
<1> QED BY <1>1, <1>2, OrderHolds, PTL DEF Spec

=============================================================================

----------------------------- MODULE SlotsProofs -----------------------------
(***************************************************************************)
(* Proofs about Slots, for any number of tasks, rounds and blocks.         *)
(***************************************************************************)
EXTENDS Slots, FiniteSetTheorems, TLAPS

(* TypeOK but for the range of count, which needs CountInv.                *)
Types ==
  /\ kind \in Kinds
  /\ exported \in BOOLEAN /\ broken \in BOOLEAN
  /\ pc \in [Tasks -> PCs] /\ i \in [Tasks -> Nat]
  /\ niters \in [Tasks -> 1..MaxIters] /\ n \in [Tasks -> Tasks]
  /\ region \in [Tasks -> Blocks \cup {NULL}]
  /\ who \in [Tasks -> Tasks \cup {Nobody}] /\ lock \in [Tasks -> Tasks \cup {Nobody}]
  /\ count \in Int /\ live \in SUBSET Blocks

(* count is the number of tasks that have not ended, less one.             *)
Active == {t \in Tasks : pc[t] # "end"}
CountInv ==
  /\ ~exported => count = 0 /\ \A t \in Tasks : pc[t] = "start"
  /\ exported => count = Cardinality(Active) - 1

(* The barrier: while a slot is not filled nobody is beyond it.            *)
Early == {"start", "fill"}
BarrierInv ==
  \A t, u \in Tasks : pc[t] \in Early => pc[u] \in Early \cup {"barrier"}
FillInv ==
  \A t \in Tasks : /\ pc[t] \in Early => region[t] = NULL
                   /\ pc[t] \notin Early => who[t] # Nobody

(* Whoever is between trylock and unlock holds the lock of its slot.       *)
LockInv == \A t \in Tasks : pc[t] \in Holding => lock[n[t]] = t

(* The slot a task wants to lock or has locked is not its own, and only    *)
(* realloc() leaves a slot without a block.                                *)
OtherInv ==
  \A t \in Tasks : pc[t] \in {"trylock", "probe", "free", "alloc"} => who[n[t]] \notin {t, Nobody}
FreeInv == kind # "realloc" => \A t \in Tasks : pc[t] \notin Early => region[t] # NULL

IInv == /\ Types /\ CountInv /\ BarrierInv /\ FillInv
        /\ LockInv /\ OtherInv /\ FreeInv /\ BlocksSound

-----------------------------------------------------------------------------
USE DEF Goto, Mine, slots

(* The invariant holds when the tasks start.                               *)
LEMMA InitInv == Init => IInv
<1> SUFFICES ASSUME Init PROVE IInv
  OBVIOUS
<1>1. Types
  <2>1. 0 \in Int /\ {} \in SUBSET Blocks
    OBVIOUS
  <2>2. QED BY <2>1, SlotsAssumption DEF Init, Types, PCs, Tasks, Nobody
<1>2. CountInv /\ BarrierInv /\ FillInv /\ LockInv /\ OtherInv /\ FreeInv
  BY DEF Init, CountInv, BarrierInv, FillInv, LockInv, OtherInv, FreeInv, Early,
         Holding, Abandoning
<1>3. BlocksSound
  BY DEF Init, BlocksSound, Filled
<1>4. QED BY <1>1, <1>2, <1>3 DEF IInv

(* Every variable but count keeps its type whatever a task does.           *)
LEMMA StepTypes == ASSUME IInv, [Next]_vars PROVE Types'
<1> USE SlotsAssumption DEF IInv, Types, PCs
<1>1. CASE UNCHANGED vars
  BY <1>1 DEF vars
<1>2. ASSUME NEW t \in Tasks, Export \/ Import(t) \/ Barrier(t)
      PROVE Types'
  <2>1. CASE Export
    <3>1. nt - 1 \in Int /\ 0 \in Tasks
      BY DEF Tasks
    <3>2. QED BY <2>1, <3>1 DEF Export
  <2>2. CASE Import(t) \/ Barrier(t)
    BY <2>2 DEF Import, Barrier
  <2>3. QED BY <1>2, <2>1, <2>2
<1>3. ASSUME NEW t \in Tasks, Stop(t) \/ ReadWho(t) \/ Done(t) \/ (\E s \in Tasks : Pick(t, s))
      PROVE Types'
  BY <1>3 DEF Stop, ReadWho, Done, Pick
<1>4. ASSUME NEW t \in Tasks, Probe(t) \/ ProbeFails(t) \/ Free(t) \/ AllocFails(t)
      PROVE Types'
  BY <1>4 DEF Probe, ProbeFails, Free, AllocFails
<1>5. ASSUME NEW t \in Tasks, TryLock(t) \/ Unlock(t)
      PROVE Types'
  BY <1>5 DEF TryLock, Unlock
<1>6. ASSUME NEW t \in Tasks, Own(t)
      PROVE Types'
  BY <1>6 DEF Own
<1>7. ASSUME NEW t \in Tasks, \E b \in Blocks : Fill(t, b)
      PROVE Types'
  BY <1>7 DEF Fill
<1>8. ASSUME NEW t \in Tasks, \E b \in Blocks : Alloc(t, b)
      PROVE Types'
  BY <1>8 DEF Alloc
<1>9. ASSUME NEW t \in Tasks, \E b \in Blocks \cup {NULL} : Realloc(t, b)
      PROVE Types'
  BY <1>9 DEF Realloc
<1>10. QED BY <1>1, <1>2, <1>3, <1>4, <1>5, <1>6, <1>7, <1>8, <1>9 DEF Next, Step

(* No task passes the barrier while another is in front of it.             *)
LEMMA StepBarrier == ASSUME IInv, [Next]_vars PROVE BarrierInv'
<1> USE DEF IInv, Types, BarrierInv, Early
<1>1. CASE UNCHANGED vars
  BY <1>1 DEF vars
<1>2. ASSUME NEW t \in Tasks, Export \/ Import(t) \/ Barrier(t)
      PROVE BarrierInv'
  BY <1>2 DEF Export, Import, Barrier
<1>3. ASSUME NEW t \in Tasks, Stop(t) \/ ReadWho(t) \/ Done(t) \/ (\E s \in Tasks : Pick(t, s))
      PROVE BarrierInv'
  BY <1>3 DEF Stop, ReadWho, Done, Pick
<1>4. ASSUME NEW t \in Tasks, Probe(t) \/ ProbeFails(t) \/ Free(t) \/ AllocFails(t)
      PROVE BarrierInv'
  BY <1>4 DEF Probe, ProbeFails, Free, AllocFails
<1>5. ASSUME NEW t \in Tasks, TryLock(t) \/ Unlock(t)
      PROVE BarrierInv'
  BY <1>5 DEF TryLock, Unlock
<1>6. ASSUME NEW t \in Tasks, Own(t)
      PROVE BarrierInv'
  BY <1>6 DEF Own
<1>7. ASSUME NEW t \in Tasks, \E b \in Blocks : Fill(t, b)
      PROVE BarrierInv'
  BY <1>7 DEF Fill
<1>8. ASSUME NEW t \in Tasks, \E b \in Blocks : Alloc(t, b)
      PROVE BarrierInv'
  BY <1>8 DEF Alloc
<1>9. ASSUME NEW t \in Tasks, \E b \in Blocks \cup {NULL} : Realloc(t, b)
      PROVE BarrierInv'
  BY <1>9 DEF Realloc
<1>10. QED BY <1>1, <1>2, <1>3, <1>4, <1>5, <1>6, <1>7, <1>8, <1>9 DEF Next, Step

(* A slot is filled by its task, before the barrier.                       *)
LEMMA StepFill == ASSUME IInv, [Next]_vars PROVE FillInv'
<1> USE DEF IInv, Types, BarrierInv, FillInv, Early, Nobody, Tasks
<1>1. CASE UNCHANGED vars
  BY <1>1 DEF vars
<1>2. ASSUME NEW t \in Tasks, Export \/ Import(t) \/ Barrier(t)
      PROVE FillInv'
  BY <1>2 DEF Export, Import, Barrier
<1>3. ASSUME NEW t \in Tasks, Stop(t) \/ ReadWho(t) \/ Done(t) \/ (\E s \in Tasks : Pick(t, s))
      PROVE FillInv'
  BY <1>3 DEF Stop, ReadWho, Done, Pick
<1>4. ASSUME NEW t \in Tasks, Probe(t) \/ ProbeFails(t) \/ Free(t) \/ AllocFails(t)
      PROVE FillInv'
  BY <1>4 DEF Probe, ProbeFails, Free, AllocFails
<1>5. ASSUME NEW t \in Tasks, TryLock(t) \/ Unlock(t)
      PROVE FillInv'
  BY <1>5 DEF TryLock, Unlock
<1>6. ASSUME NEW t \in Tasks, Own(t)
      PROVE FillInv'
  BY <1>6 DEF Own
<1>7. ASSUME NEW t \in Tasks, \E b \in Blocks : Fill(t, b)
      PROVE FillInv'
  BY <1>7 DEF Fill
<1>8. ASSUME NEW t \in Tasks, \E b \in Blocks : Alloc(t, b)
      PROVE FillInv'
  BY <1>8 DEF Alloc
<1>9. ASSUME NEW t \in Tasks, \E b \in Blocks \cup {NULL} : Realloc(t, b)
      PROVE FillInv'
  BY <1>9 DEF Realloc
<1>10. QED BY <1>1, <1>2, <1>3, <1>4, <1>5, <1>6, <1>7, <1>8, <1>9 DEF Next, Step

(* trylock keeps all other tasks away from a slot until unlock.            *)
LEMMA StepLock == ASSUME IInv, [Next]_vars PROVE LockInv'
<1> USE DEF IInv, Types, LockInv, Holding, Abandoning, Nobody, Tasks
<1>1. CASE UNCHANGED vars
  BY <1>1 DEF vars
<1>2. ASSUME NEW t \in Tasks, Export \/ Import(t) \/ Barrier(t)
      PROVE LockInv'
  BY <1>2 DEF Export, Import, Barrier
<1>3. ASSUME NEW t \in Tasks, Stop(t) \/ ReadWho(t) \/ Done(t) \/ (\E s \in Tasks : Pick(t, s))
      PROVE LockInv'
  BY <1>3 DEF Stop, ReadWho, Done, Pick
<1>4. ASSUME NEW t \in Tasks, Probe(t) \/ ProbeFails(t) \/ Free(t) \/ AllocFails(t)
      PROVE LockInv'
  BY <1>4 DEF Probe, ProbeFails, Free, AllocFails
<1>5. ASSUME NEW t \in Tasks, TryLock(t) \/ Unlock(t)
      PROVE LockInv'
  <2>1. CASE TryLock(t)
    <3> SUFFICES ASSUME NEW u \in Tasks, pc'[u] \in Holding PROVE lock'[n'[u]] = u
      OBVIOUS
    <3>1. CASE lock[n[t]] # Nobody
      BY <2>1, <3>1 DEF TryLock
    <3>2. CASE lock[n[t]] = Nobody /\ u = t
      BY <2>1, <3>2 DEF TryLock
    <3>3. CASE lock[n[t]] = Nobody /\ u # t
      <4>1. pc[u] \in Holding /\ lock[n[u]] = u
        BY <2>1, <3>3 DEF TryLock
      <4>2. n[u] # n[t]
        BY <3>3, <4>1
      <4>3. lock' = [lock EXCEPT ![n[t]] = t] /\ n' = n
        BY <2>1, <3>3 DEF TryLock
      <4>4. n[u] \in Tasks /\ n[t] \in Tasks
        OBVIOUS
      <4>5. QED BY <4>1, <4>2, <4>3, <4>4
    <3>4. QED BY <3>1, <3>2, <3>3
  <2>2. CASE Unlock(t)
    <3> SUFFICES ASSUME NEW u \in Tasks, pc'[u] \in Holding PROVE lock'[n'[u]] = u
      OBVIOUS
    <3>1. u # t /\ lock[n[u]] = u
      BY <2>2 DEF Unlock
    <3>2. lock[n[t]] = t
      BY <2>2 DEF Unlock
    <3>3. QED BY <2>2, <3>1, <3>2 DEF Unlock
  <2>3. QED BY <1>5, <2>1, <2>2
<1>6. ASSUME NEW t \in Tasks, Own(t)
      PROVE LockInv'
  BY <1>6 DEF Own
<1>7. ASSUME NEW t \in Tasks, \E b \in Blocks : Fill(t, b)
      PROVE LockInv'
  BY <1>7 DEF Fill
<1>8. ASSUME NEW t \in Tasks, \E b \in Blocks : Alloc(t, b)
      PROVE LockInv'
  BY <1>8 DEF Alloc
<1>9. ASSUME NEW t \in Tasks, \E b \in Blocks \cup {NULL} : Realloc(t, b)
      PROVE LockInv'
  BY <1>9 DEF Realloc
<1>10. QED BY <1>1, <1>2, <1>3, <1>4, <1>5, <1>6, <1>7, <1>8, <1>9 DEF Next, Step

(* Only a task itself makes a slot its own: who may change after it was    *)
(* read, but never to the reader.                                          *)
LEMMA StepOther == ASSUME IInv, [Next]_vars PROVE OtherInv'
<1> USE DEF IInv, Types, BarrierInv, LockInv, Holding, Abandoning, OtherInv, FillInv,
           Early, Nobody, Tasks
<1>1. CASE UNCHANGED vars
  BY <1>1 DEF vars
<1>2. ASSUME NEW t \in Tasks, Export \/ Import(t) \/ Barrier(t)
      PROVE OtherInv'
  <2>1. CASE Export
    BY <2>1 DEF Export
  <2>2. CASE Import(t)
    BY <2>2 DEF Import
  <2>3. CASE Barrier(t)
    BY <2>3 DEF Barrier
  <2>4. QED BY <1>2, <2>1, <2>2, <2>3
<1>3. ASSUME NEW t \in Tasks, Stop(t) \/ ReadWho(t) \/ Done(t) \/ (\E s \in Tasks : Pick(t, s))
      PROVE OtherInv'
  <2>1. CASE Stop(t) \/ Done(t)
    BY <2>1 DEF Stop, Done
  <2>2. CASE ReadWho(t)
    <3>1. \A u \in Tasks : pc[u] \notin Early
      BY <2>2 DEF ReadWho
    <3>2. who[n[t]] # Nobody
      BY <3>1
    <3>3. QED BY <2>2, <3>2 DEF ReadWho
  <2>3. CASE \E s \in Tasks : Pick(t, s)
    BY <2>3 DEF Pick
  <2>4. QED BY <1>3, <2>1, <2>2, <2>3
<1>4. ASSUME NEW t \in Tasks, Probe(t) \/ ProbeFails(t) \/ Free(t) \/ AllocFails(t)
      PROVE OtherInv'
  BY <1>4 DEF Probe, ProbeFails, Free, AllocFails
<1>5. ASSUME NEW t \in Tasks, TryLock(t) \/ Unlock(t)
      PROVE OtherInv'
  BY <1>5 DEF TryLock, Unlock
<1>6. ASSUME NEW t \in Tasks, Own(t)
      PROVE OtherInv'
  BY <1>6 DEF Own
<1>7. ASSUME NEW t \in Tasks, \E b \in Blocks : Fill(t, b)
      PROVE OtherInv'
  BY <1>7 DEF Fill
<1>8. ASSUME NEW t \in Tasks, \E b \in Blocks : Alloc(t, b)
      PROVE OtherInv'
  BY <1>8 DEF Alloc
<1>9. ASSUME NEW t \in Tasks, \E b \in Blocks \cup {NULL} : Realloc(t, b)
      PROVE OtherInv'
  BY <1>9 DEF Realloc
<1>10. QED BY <1>1, <1>2, <1>3, <1>4, <1>5, <1>6, <1>7, <1>8, <1>9 DEF Next, Step

(* A slot that is filled keeps a block but for realloc() to size 0.        *)
LEMMA StepFree == ASSUME IInv, [Next]_vars PROVE FreeInv'
<1> USE SlotsAssumption DEF IInv, Types, BarrierInv, LockInv, Holding, Abandoning, FreeInv, Early
<1>1. CASE UNCHANGED vars
  BY <1>1 DEF vars
<1>2. ASSUME NEW t \in Tasks, Export \/ Import(t) \/ Barrier(t)
      PROVE FreeInv'
  BY <1>2 DEF Export, Import, Barrier
<1>3. ASSUME NEW t \in Tasks, Stop(t) \/ ReadWho(t) \/ Done(t) \/ (\E s \in Tasks : Pick(t, s))
      PROVE FreeInv'
  BY <1>3 DEF Stop, ReadWho, Done, Pick
<1>4. ASSUME NEW t \in Tasks, Probe(t) \/ ProbeFails(t) \/ Free(t) \/ AllocFails(t)
      PROVE FreeInv'
  BY <1>4 DEF Probe, ProbeFails, Free, AllocFails
<1>5. ASSUME NEW t \in Tasks, TryLock(t) \/ Unlock(t)
      PROVE FreeInv'
  BY <1>5 DEF TryLock, Unlock
<1>6. ASSUME NEW t \in Tasks, Own(t)
      PROVE FreeInv'
  BY <1>6 DEF Own
<1>7. ASSUME NEW t \in Tasks, \E b \in Blocks : Fill(t, b)
      PROVE FreeInv'
  BY <1>7 DEF Fill
<1>8. ASSUME NEW t \in Tasks, \E b \in Blocks : Alloc(t, b)
      PROVE FreeInv'
  BY <1>8 DEF Alloc
<1>9. ASSUME NEW t \in Tasks, \E b \in Blocks \cup {NULL} : Realloc(t, b)
      PROVE FreeInv'
  BY <1>9 DEF Realloc
<1>10. QED BY <1>1, <1>2, <1>3, <1>4, <1>5, <1>6, <1>7, <1>8, <1>9 DEF Next, Step

(* Task 0 is a task, and there are nt of them.                             *)
LEMMA TasksFinite == 0 \in Tasks /\ IsFiniteSet(Tasks) /\ Cardinality(Tasks) = nt
<1>1. nt - 1 \in Int /\ 0 \in Int /\ ~(0 > nt - 1) /\ (nt - 1) - 0 + 1 = nt
  BY SlotsAssumption
<1>2. 0 \in Tasks
  BY SlotsAssumption DEF Tasks
<1>3. IsFiniteSet(0..(nt - 1)) /\ Cardinality(0..(nt - 1)) = nt
  BY <1>1, FS_Interval
<1>4. QED BY <1>2, <1>3 DEF Tasks

(* count: the tasks that decrement it are those that end, each once.       *)
LEMMA StepCount == ASSUME IInv, [Next]_vars PROVE CountInv'
<1> USE DEF IInv, Types, CountInv
<1>1. CASE UNCHANGED vars
  BY <1>1 DEF vars, Active
<1>2. ASSUME NEW t \in Tasks, Export PROVE CountInv'
  <2>1. \A u \in Tasks : pc[u] # "end" /\ pc'[u] # "end"
    BY <1>2, TasksFinite DEF Export, BarrierInv, Early
  <2>2. Active' = Tasks
    BY <2>1 DEF Active
  <2>3. QED BY <1>2, <2>2, TasksFinite, SlotsAssumption DEF Export
<1>3. ASSUME NEW t \in Tasks, Done(t) PROVE CountInv'
  <2>1. exported /\ exported' /\ count' = count - 1
    BY <1>3 DEF Done
  <2>2. Active' = Active \ {t} /\ t \in Active
    BY <1>3 DEF Done, Active
  <2>3. IsFiniteSet(Active)
    BY TasksFinite, FS_Subset DEF Active
  <2>4. Cardinality(Active') = Cardinality(Active) - 1
    BY <2>2, <2>3, FS_RemoveElement
  <2>5. Cardinality(Active) \in Nat
    BY <2>3, FS_CardinalityType
  <2>6. QED BY <2>1, <2>4, <2>5
<1>4. ASSUME NEW t \in Tasks, exported, exported' = exported, count' = count,
             pc[t] # "end", NEW c, c # "end", pc' = [pc EXCEPT ![t] = c]
      PROVE CountInv'
  <2>1. Active' = Active
    BY <1>4 DEF Active
  <2>2. QED BY <1>4, <2>1
<1>5. ASSUME NEW t \in Tasks, Import(t) \/ Barrier(t) \/ Stop(t) \/ ReadWho(t) \/ TryLock(t)
      PROVE CountInv'
  BY <1>4, <1>5 DEF Import, Barrier, Stop, ReadWho, TryLock
<1>6. ASSUME NEW t \in Tasks, Probe(t) \/ ProbeFails(t) \/ Free(t) \/ AllocFails(t) \/ Own(t) \/ Unlock(t)
      PROVE CountInv'
  BY <1>4, <1>6 DEF Probe, ProbeFails, Free, AllocFails, Own, Unlock
<1>7. ASSUME NEW t \in Tasks, \E s \in Tasks : Pick(t, s) PROVE CountInv'
  BY <1>4, <1>7 DEF Pick
<1>8. ASSUME NEW t \in Tasks, NEW b \in Blocks \cup {NULL}, Fill(t, b) \/ Alloc(t, b) \/ Realloc(t, b)
      PROVE CountInv'
  BY <1>4, <1>8 DEF Fill, Alloc, Realloc
<1>9. QED BY <1>1, <1>2, <1>3, <1>5, <1>6, <1>7, <1>8 DEF Next, Step

(* The heap: which slots are filled changes in four actions only, and in   *)
(* three of them the lock keeps other tasks away from the slot.            *)
LEMMA StepHeap == ASSUME IInv, [Next]_vars PROVE BlocksSound'
<1> USE DEF IInv, Types
<1>1. CASE UNCHANGED vars
  BY <1>1 DEF vars, BlocksSound, Filled, Dangling
<1>2. ASSUME region' = region, live' = live, \A s \in Tasks : Filled(s)' <=> Filled(s)
      PROVE BlocksSound'
  BY <1>2 DEF BlocksSound
<1>3. ASSUME NEW t \in Tasks, region' = region, live' = live,
             \A u \in Tasks : pc'[u] \in {"alloc", "lost"} <=> pc[u] \in {"alloc", "lost"},
             \A u \in Tasks : pc[u] \in {"alloc", "lost"} => n'[u] = n[u]
      PROVE BlocksSound'
  <2>1. \A s \in Tasks : Filled(s)' <=> Filled(s)
    BY <1>3 DEF Filled, Dangling
  <2>2. QED BY <1>2, <1>3, <2>1
<1>4. ASSUME NEW t \in Tasks,
             Export \/ Import(t) \/ Barrier(t) \/ Stop(t) \/ ReadWho(t) \/ Done(t)
      PROVE BlocksSound'
  BY <1>3, <1>4 DEF Export, Import, Barrier, Stop, ReadWho, Done
<1>5. ASSUME NEW t \in Tasks,
             TryLock(t) \/ Probe(t) \/ ProbeFails(t) \/ AllocFails(t) \/ Own(t) \/ Unlock(t)
      PROVE BlocksSound'
  BY <1>3, <1>5 DEF TryLock, Probe, ProbeFails, AllocFails, Own, Unlock
<1>6. ASSUME NEW t \in Tasks, \E s \in Tasks : Pick(t, s) PROVE BlocksSound'
  BY <1>3, <1>6 DEF Pick
<1>7. ASSUME NEW t \in Tasks, NEW b \in Blocks, Fill(t, b) PROVE BlocksSound'
  <2>1. \A s \in Tasks : ~Dangling(s) /\ ~Dangling(s)'
    BY <1>7 DEF Fill, Dangling, BarrierInv, Early
  <2>2. region[t] = NULL /\ b # NULL
    BY <1>7, SlotsAssumption DEF Fill, FillInv, Early
  <2>3. \A s \in Tasks : Filled(s)' <=> (s = t \/ Filled(s))
    BY <1>7, <2>1, <2>2 DEF Fill, Filled
  <2>4. QED BY <1>7, <2>2, <2>3 DEF Fill, BlocksSound, Filled
<1>8. ASSUME NEW t \in Tasks, pc[t] \in Holding
      PROVE \A u \in Tasks : pc[u] \in Holding /\ n[u] = n[t] => u = t
  BY <1>8 DEF LockInv
<1>9. ASSUME NEW t \in Tasks, Free(t) PROVE BlocksSound'
  <2>1. Filled(n[t])
    <3>1. pc[n[t]] \notin Early
      BY <1>9 DEF Free, BarrierInv, Early
    <3>2. region[n[t]] # NULL
      BY <1>9, <3>1 DEF Free, FreeInv
    <3>3. QED BY <1>8, <1>9, <3>2 DEF Free, Filled, Dangling, Holding, Abandoning
  <2>2. \A s \in Tasks : Dangling(s)' <=> (s = n[t] \/ Dangling(s))
    BY <1>9 DEF Free, Dangling
  <2>3. \A s \in Tasks : Filled(s)' <=> (s # n[t] /\ Filled(s))
    BY <1>9, <2>2 DEF Free, Filled
  <2>4. QED BY <1>9, <2>1, <2>3 DEF Free, BlocksSound
<1>10. ASSUME NEW t \in Tasks, NEW b \in Blocks, Alloc(t, b) PROVE BlocksSound'
  <2>1. ~Filled(n[t]) /\ b # NULL
    BY <1>10, SlotsAssumption DEF Alloc, Filled, Dangling
  <2>2. \A s \in Tasks : Dangling(s)' <=> (s # n[t] /\ Dangling(s))
    BY <1>8, <1>10 DEF Alloc, Dangling, Holding, Abandoning
  <2>3. \A s \in Tasks : Filled(s)' <=> (s = n[t] \/ Filled(s))
    BY <1>10, <2>1, <2>2 DEF Alloc, Filled
  <2>4. QED BY <1>10, <2>1, <2>3 DEF Alloc, BlocksSound
<1>11. ASSUME NEW t \in Tasks, NEW b \in Blocks \cup {NULL}, Realloc(t, b) PROVE BlocksSound'
  <2>1. ~Dangling(n[t]) /\ (Filled(n[t]) <=> region[n[t]] # NULL)
    BY <1>8, <1>11 DEF Realloc, Filled, Dangling, Holding, Abandoning
  <2>2. \A s \in Tasks : Dangling(s)' <=> Dangling(s)
    BY <1>11 DEF Realloc, Dangling
  <2>3. \A s \in Tasks : Filled(s)' <=> IF s = n[t] THEN b # NULL ELSE Filled(s)
    BY <1>11, <2>1, <2>2 DEF Realloc, Filled
  <2>4. QED BY <1>11, <2>1, <2>3, SlotsAssumption DEF Realloc, BlocksSound
<1>12. QED BY <1>1, <1>4, <1>5, <1>6, <1>7, <1>9, <1>10, <1>11 DEF Next, Step

(* The inductive invariant.                                                *)
THEOREM Invariance == Spec => []IInv
<1>1. Init => IInv
  BY InitInv
<1>2. IInv /\ [Next]_vars => IInv'
  BY StepTypes, StepCount, StepBarrier, StepFill, StepLock, StepOther, StepFree, StepHeap DEF IInv
<1>3. QED BY <1>1, <1>2, PTL DEF Spec

(* Types, and count never leaves its range: every task is counted once.    *)
THEOREM TypeCorrect == Spec => []TypeOK
<1>1. ASSUME IInv PROVE TypeOK
  <2>1. Cardinality(Active) \in Nat /\ Cardinality(Active) <= nt
    BY TasksFinite, FS_Subset, FS_CardinalityType DEF Active
  <2>2. count \in -1..(nt - 1)
    BY <1>1, <2>1, SlotsAssumption DEF IInv, CountInv
  <2>3. QED BY <1>1, <2>2 DEF IInv, Types, TypeOK
<1>2. QED BY <1>1, Invariance, PTL

(* No block is freed twice, lost or shared, whatever the order in which    *)
(* tasks lock slots, and a slot that a task left locked is left alone.     *)
THEOREM HeapIsSound == Spec => []HeapSound
<1>1. IInv => HeapSound
  BY DEF IInv, HeapSound, LeftAlone, LockInv, Holding
<1>2. QED BY <1>1, Invariance, PTL

(* A task frees only blocks of other tasks, though who is read before the  *)
(* slot is locked.                                                         *)
THEOREM FreesOthersOnly == Spec => []OthersOnly
<1>1. IInv => OthersOnly
  BY DEF IInv, OtherInv, OthersOnly
<1>2. QED BY <1>1, Invariance, PTL

=============================================================================

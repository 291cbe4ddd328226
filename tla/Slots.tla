-------------------------------- MODULE Slots --------------------------------
(***************************************************************************)
(* compat/malloc-x.c, realloc-x.c and memalign-x.c: every task frees and   *)
(* replaces blocks of memory that other tasks allocated. There is one slot *)
(* per task for a block; a task picks a slot at random until it finds one  *)
(* that is not locked and whose block it has not allocated itself. The     *)
(* heap of the C library is external: a set of allocated blocks.           *)
(***************************************************************************)
EXTENDS Integers, FiniteSets

CONSTANTS nt,             (* pip_get_ntasks()                              *)
          MaxIters,       (* bound of the rounds of a task                 *)
          Blocks, NULL,   (* addresses the heap may return                 *)
          Kinds           (* the programs: malloc, realloc or memalign     *)

ASSUME SlotsAssumption ==
  /\ nt \in Nat \ {0} /\ MaxIters \in Nat \ {0}
  /\ IsFiniteSet(Blocks) /\ Cardinality(Blocks) >= nt /\ NULL \notin Blocks

Tasks == 0..(nt - 1)
Nobody == -1

VARIABLES kind,           (* which of the three programs                   *)
          exported,       (* task 0 has set up slots, count and barrier    *)
          pc, i, niters, n,          (* of each task                       *)
          region, who, lock,         (* of each slot                       *)
          count,
          live,           (* blocks that are allocated                     *)
          broken          (* a task has returned early or crashed          *)

slots == <<region, who, lock>>
vars == <<kind, exported, pc, i, niters, n, slots, count, live, broken>>

(* niters is read before it is set when there is no argument, as in the    *)
(* test lists: each task may find another value in it.                     *)
Init ==
  /\ kind \in Kinds
  /\ exported = FALSE
  /\ pc = [t \in Tasks |-> "start"] /\ i = [t \in Tasks |-> 0]
  /\ niters \in [Tasks -> 1..MaxIters] /\ n = [t \in Tasks |-> t]
  /\ region = [s \in Tasks |-> NULL] /\ who = [s \in Tasks |-> Nobody]
  /\ lock = [s \in Tasks |-> Nobody]
  /\ count = 0 /\ live = {} /\ broken = FALSE

Goto(t, to) == pc' = [pc EXCEPT ![t] = to]
Mine(t) == n[t]

(* Task 0 makes the slots and exports them; the others wait for that.      *)
Export ==
  /\ pc[0] = "start"
  /\ exported' = TRUE /\ count' = nt - 1
  /\ Goto(0, "fill")
  /\ UNCHANGED <<kind, i, niters, n, slots, live, broken>>
Import(t) ==
  /\ t # 0 /\ pc[t] = "start" /\ exported
  /\ Goto(t, "fill")
  /\ UNCHANGED <<kind, exported, i, niters, n, slots, count, live, broken>>

(* The first block of a slot, then the barrier.                            *)
Fill(t, b) ==
  /\ pc[t] = "fill" /\ b \notin live
  /\ region' = [region EXCEPT ![t] = b] /\ who' = [who EXCEPT ![t] = t]
  /\ live' = live \cup {b}
  /\ Goto(t, "barrier")
  /\ UNCHANGED <<kind, exported, i, niters, n, lock, count, broken>>
Barrier(t) ==
  /\ pc[t] = "barrier"
  /\ \A u \in Tasks : pc[u] \notin {"start", "fill"}
  /\ Goto(t, "loop")
  /\ UNCHANGED <<kind, exported, i, niters, n, slots, count, live, broken>>

-----------------------------------------------------------------------------
(* The rounds are over, or all other tasks are done: there might be no     *)
(* block left that is not one's own.                                       *)
MaxRounds(t) == i[t] >= niters[t]                               (* mutant *)
MayStop(t) == i[t] >= niters[t] \/ count = 0
Stop(t) ==
  /\ pc[t] = "loop" /\ MayStop(t)
  /\ Goto(t, "done")
  /\ UNCHANGED <<kind, exported, i, niters, n, slots, count, live, broken>>
Pick(t, s) ==
  /\ pc[t] = "loop" /\ ~MayStop(t)
  /\ n' = [n EXCEPT ![t] = s]
  /\ Goto(t, "who")
  /\ UNCHANGED <<kind, exported, i, niters, slots, count, live, broken>>

(* slots[n].who == pipid || !pip_spin_trylock(): who is read without the   *)
(* lock.                                                                   *)
Anyones(t) ==                                                   (* mutant *)
  /\ pc[t] = "who"
  /\ Goto(t, "trylock")
  /\ UNCHANGED <<kind, exported, i, niters, n, slots, count, live, broken>>
ReadWho(t) ==
  /\ pc[t] = "who"
  /\ Goto(t, IF who[Mine(t)] = t THEN "loop" ELSE "trylock")
  /\ UNCHANGED <<kind, exported, i, niters, n, slots, count, live, broken>>
LockTaken(t) ==                                                 (* mutant *)
  /\ pc[t] = "trylock"
  /\ lock' = [lock EXCEPT ![Mine(t)] = t] /\ Goto(t, "probe")
  /\ UNCHANGED <<kind, exported, i, niters, n, region, who, count, live, broken>>
TryLock(t) ==
  /\ pc[t] = "trylock"
  /\ IF lock[Mine(t)] = Nobody
     THEN lock' = [lock EXCEPT ![Mine(t)] = t] /\ Goto(t, "probe")
     ELSE UNCHANGED lock /\ Goto(t, "loop")
  /\ UNCHANGED <<kind, exported, i, niters, n, region, who, count, live, broken>>

(* mprobe(): a damaged block ends the task, which keeps the lock and is    *)
(* never counted. The NULL that a realloc() to size 0 leaves may be        *)
(* reported as damaged or, with mcheck disabled, go on to realloc().       *)
Probe(t) ==
  /\ pc[t] = "probe"
  /\ Goto(t, "free")
  /\ UNCHANGED <<kind, exported, i, niters, n, slots, count, live, broken>>
ProbeFails(t) ==
  /\ pc[t] = "probe"
  /\ Goto(t, "failed") /\ broken' = TRUE
  /\ UNCHANGED <<kind, exported, i, niters, n, slots, count, live>>

(* free() and malloc() or posix_memalign(), which may fail; or realloc(),  *)
(* where size 0 is free() and the block NULL is malloc().                  *)
Free(t) ==
  /\ pc[t] = "free" /\ kind # "realloc"
  /\ live' = live \ {region[Mine(t)]}
  /\ Goto(t, "alloc")
  /\ UNCHANGED <<kind, exported, i, niters, n, slots, count, broken>>
Alloc(t, b) ==
  /\ pc[t] = "alloc" /\ b \notin live
  /\ region' = [region EXCEPT ![Mine(t)] = b]
  /\ live' = live \cup {b}
  /\ Goto(t, "own")
  /\ UNCHANGED <<kind, exported, i, niters, n, who, lock, count, broken>>
AllocFails(t) ==
  /\ pc[t] = "alloc" /\ kind = "memalign"
  /\ Goto(t, "lost") /\ broken' = TRUE
  /\ UNCHANGED <<kind, exported, i, niters, n, slots, count, live>>
Realloc(t, b) ==
  /\ pc[t] = "free" /\ kind = "realloc"
  /\ b \notin live \ {region[Mine(t)]}
  /\ live' = (live \ {region[Mine(t)]}) \cup ({b} \ {NULL})
  /\ region' = [region EXCEPT ![Mine(t)] = b]
  /\ Goto(t, "own")
  /\ UNCHANGED <<kind, exported, i, niters, n, who, lock, count, broken>>

Own(t) ==
  /\ pc[t] = "own"
  /\ who' = [who EXCEPT ![Mine(t)] = t]
  /\ Goto(t, "unlock")
  /\ UNCHANGED <<kind, exported, i, niters, n, region, lock, count, live, broken>>
Unlock(t) ==
  /\ pc[t] = "unlock"
  /\ lock' = [lock EXCEPT ![Mine(t)] = Nobody]
  /\ i' = [i EXCEPT ![t] = @ + 1]
  /\ Goto(t, "loop")
  /\ UNCHANGED <<kind, exported, niters, n, region, who, count, live, broken>>

CountedTwice(t) ==                                              (* mutant *)
  /\ pc[t] = "done"
  /\ count' = count - 2
  /\ Goto(t, "end")
  /\ UNCHANGED <<kind, exported, i, niters, n, slots, live, broken>>
Done(t) ==
  /\ pc[t] = "done"
  /\ count' = count - 1
  /\ Goto(t, "end")
  /\ UNCHANGED <<kind, exported, i, niters, n, slots, live, broken>>

-----------------------------------------------------------------------------
Step(t) ==
  \/ (t = 0 /\ Export) \/ Import(t) \/ Barrier(t) \/ Stop(t) \/ ReadWho(t) \/ TryLock(t)
  \/ Probe(t) \/ Free(t) \/ Own(t) \/ Unlock(t) \/ Done(t)
  \/ \E b \in Blocks : Fill(t, b) \/ Alloc(t, b)
  \/ \E b \in Blocks \cup {NULL} : Realloc(t, b)

Next == \E t \in Tasks :
  Step(t) \/ ProbeFails(t) \/ AllocFails(t) \/ (\E s \in Tasks : Pick(t, s))

(* Every task goes on, and random() returns every slot again and again.    *)
Spec ==
  /\ Init /\ [][Next]_vars
  /\ \A t \in Tasks : WF_vars(Step(t))
  /\ \A t, s \in Tasks : SF_vars(Pick(t, s))

-----------------------------------------------------------------------------
PCs == {"start", "fill", "barrier", "loop", "who", "trylock", "probe", "free", "alloc", "own",
        "unlock", "done", "end", "failed", "lost"}
TypeOK ==
  /\ kind \in Kinds
  /\ exported \in BOOLEAN /\ broken \in BOOLEAN
  /\ pc \in [Tasks -> PCs] /\ i \in [Tasks -> Nat]
  /\ niters \in [Tasks -> 1..MaxIters] /\ n \in [Tasks -> Tasks]
  /\ region \in [Tasks -> Blocks \cup {NULL}]
  /\ who \in [Tasks -> Tasks \cup {Nobody}] /\ lock \in [Tasks -> Tasks \cup {Nobody}]
  /\ count \in -1..(nt - 1) /\ live \in SUBSET Blocks

(* Between free() and malloc() a slot's pointer is dangling.               *)
Dangling(s) == \E t \in Tasks : pc[t] \in {"alloc", "lost"} /\ n[t] = s
Filled(s) == region[s] # NULL /\ ~Dangling(s)

(* From trylock to unlock a task has its slot to itself, and one that      *)
(* returns early never gives it back.                                      *)
Abandoning == {"failed", "lost"}
Holding == {"probe", "free", "alloc", "own", "unlock"} \cup Abandoning

(* Every allocated block is in exactly one slot and every slot's block is  *)
(* allocated.                                                              *)
BlocksSound ==
  /\ \A s \in Tasks : Filled(s) => region[s] \in live
  /\ \A s, u \in Tasks : Filled(s) /\ Filled(u) /\ region[s] = region[u] => s = u
  /\ \A b \in live : \E s \in Tasks : Filled(s) /\ region[s] = b

(* A slot whose task has returned early, with a block that is damaged or   *)
(* gone, is touched by no other task.                                      *)
LeftAlone ==
  \A t, u \in Tasks : pc[t] \in Abandoning /\ pc[u] \in Holding /\ n[u] = n[t] => u = t

(* No free() of a block that another task has freed or of a damaged one,   *)
(* no block lost or shared by two slots.                                   *)
HeapSound == BlocksSound /\ LeftAlone

(* A task frees only blocks that other tasks allocated, which is what the  *)
(* test is about: that who was read before the lock was taken makes no     *)
(* difference.                                                             *)
OthersOnly ==
  \A t \in Tasks : pc[t] \in {"probe", "free", "alloc"} => who[n[t]] \notin {t, Nobody}

(* Every task comes to its end, though each may be left with slots that it *)
(* must not touch, unless a test returns early and leaves a slot locked.   *)
AllEnd == <>(broken \/ \A t \in Tasks : pc[t] = "end")

=============================================================================

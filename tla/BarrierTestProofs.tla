-------------------------- MODULE BarrierTestProofs --------------------------
(***************************************************************************)
(* Proofs about the barrier tests, for every number of tasks and of        *)
(* iterations, whether the root takes part or not: the counter that is     *)
(* incremented without a lock is always what every party expects, so the   *)
(* only way such a test can fail is a barrier that does not hold.          *)
(***************************************************************************)
EXTENDS BarrierTest, TLAPS

(* Waits a party has returned from.                                        *)
Waiting   == {"wait1", "wait2", "last"}
Passed(p) == IF pc[p] \in Waiting THEN entered[p] - 1 ELSE entered[p]

(* The barrier: nobody is past a wait somebody has not entered.            *)
Sync == \A p, q \in Parties : Passed(p) <= entered[q]

(* Where a party is in its loop says how many waits it has entered.        *)
Shape ==
  \A p \in Parties :
    /\ pc[p] = "unborn" => i[p] = 0 /\ entered[p] = 0
    /\ pc[p] = "check"  => entered[p] = 2 * i[p]
    /\ pc[p] \in {"wait1", "load", "store", "body"} =>
         entered[p] = 2 * i[p] + 1 /\ i[p] < niters
    /\ pc[p] = "wait2"  => entered[p] = 2 * i[p] + 2 /\ i[p] < niters
    /\ pc[p] = "last"   => entered[p] = 2 * i[p] + 1 /\ i[p] = niters /\ ~joins
    /\ pc[p] = "done"   => i[p] = niters
    /\ pc[p] = "done"   => entered[p] = IF joins THEN 2 * i[p] ELSE 2 * i[p] + 1
    /\ pc[p] # "failed"

(* Who is in count++ is the one whose turn it is, and nobody interferes.   *)
Lane ==
  \A p \in Parties : /\ pc[p] \in {"load", "store"} => p = Turn(i[p])
                     /\ pc[p] = "store" => reg[p] = count

(* Party t has made its increment of iteration k.                          *)
Stored(t, k) == i[t] > k \/ (i[t] = k /\ pc[t] \in {"body", "wait2"})

(* The counter, seen from any party: its loop variable, plus one if this   *)
(* iteration's increment has been made.                                    *)
CountInv ==
  \A p \in Parties :
    count = IF Stored(Turn(i[p]), i[p]) THEN i[p] + 1 ELSE i[p]

(* Tasks that are not spawned yet have not started.                        *)
Born ==
  /\ \A p \in Tasks : p >= spawned => pc[p] = "unborn"
  /\ spawned < ntasks \/ ~joins => pc[Root] = "unborn"

(* What the root has seen of its tasks.                                    *)
RootInv ==
  /\ \A p \in reaped : pc[p] = "done"
  /\ reaped # {} => RootLoopOver
  /\ exit = EXIT_PASS => reaped = Tasks

Inv == TypeOK /\ Born /\ Shape /\ Sync /\ Lane /\ CountInv /\ RootInv

-----------------------------------------------------------------------------
LEMMA PartiesType == TypeOK => Tasks \subseteq Parties /\ Parties \subseteq All /\ Root \in All /\ Root \notin Tasks
  BY BarrierAssumption DEF Tasks, Parties, All, Root, TypeOK

(* The turn is always some task's.                                         *)
LEMMA TurnIsTask == \A k \in Nat : Turn(k) \in Tasks
  BY BarrierAssumption DEF Turn, Tasks

LEMMA InitInv == Init => Inv
  <1> SUFFICES ASSUME Init PROVE Inv
    OBVIOUS
  <1> USE BarrierAssumption
  <1>1. TypeOK
    BY DEF Init, TypeOK, PC, Running, All, Tasks
  <1>2. \A p \in Parties : p \in All /\ pc[p] = "unborn" /\ i[p] = 0 /\ entered[p] = 0
    BY <1>1, PartiesType DEF Init
  <1>3. Born
    BY DEF Init, Born, Tasks, All, Root
  <1>4. Shape
    BY <1>2 DEF Shape
  <1>5. Sync
    BY <1>2 DEF Sync, Passed, Waiting
  <1>6. Lane
    BY <1>2 DEF Lane
  <1>7. CountInv
    <2> SUFFICES ASSUME NEW p \in Parties
                 PROVE  count = IF Stored(Turn(i[p]), i[p]) THEN i[p] + 1 ELSE i[p]
      BY DEF CountInv
    <2>1. i[p] = 0 /\ Turn(0) \in Tasks
      BY <1>2, TurnIsTask
    <2>2. Turn(0) \in Parties
      BY <2>1, <1>1, PartiesType
    <2>3. ~Stored(Turn(0), 0)
      BY <2>2, <1>2 DEF Stored
    <2> QED BY <2>1, <2>3 DEF Init
  <1>8. RootInv
    BY DEF Init, RootInv, Running, EXIT_PASS
  <1> QED BY <1>1, <1>3, <1>4, <1>5, <1>6, <1>7, <1>8 DEF Inv

-----------------------------------------------------------------------------
(* Two parties are never further apart than the barrier allows: while p is *)
(* between the waits of iteration i[p], everybody is in that iteration.    *)
LEMMA SameIteration ==
  ASSUME TypeOK, Shape, Sync, NEW p \in Parties, NEW q \in Parties,
         pc[p] \in {"load", "store", "body"}
  PROVE  /\ i[q] = i[p]
         /\ pc[q] \in {"wait1", "load", "store", "body", "wait2"}
  <1>1. p \in All /\ q \in All /\ i[p] \in Nat /\ i[q] \in Nat /\ entered[q] \in Nat
        /\ entered[p] \in Nat /\ i[q] <= niters /\ niters \in Nat /\ pc[q] \in PC
    BY PartiesType, BarrierAssumption DEF TypeOK
  <1>2. entered[p] = 2 * i[p] + 1 /\ i[p] < niters /\ pc[p] \notin Waiting
    BY DEF Shape, Waiting
  <1>3. entered[q] >= 2 * i[p] + 1 /\ Passed(q) <= 2 * i[p] + 1
    BY <1>1, <1>2 DEF Sync, Passed
  <1>4. CASE pc[q] \in {"wait1", "load", "store", "body", "wait2"}
    BY <1>1, <1>3, <1>4 DEF Shape, Passed, Waiting
  <1>5. pc[q] \notin {"unborn", "check", "last", "done", "failed"}
    BY <1>1, <1>2, <1>3 DEF Shape, Passed, Waiting
  <1> QED BY <1>1, <1>4, <1>5 DEF PC

(* When p compares the counter its increment has not been made.            *)
LEMMA NotYetStored ==
  ASSUME TypeOK, Shape, Sync, NEW p \in Parties, pc[p] = "check"
  PROVE  ~Stored(Turn(i[p]), i[p])
  <1> DEFINE t == Turn(i[p])
  <1>1. p \in All /\ i[p] \in Nat /\ entered[p] = 2 * i[p]
    BY PartiesType DEF TypeOK, Shape
  <1>2. t \in Parties /\ t \in All
    BY <1>1, TurnIsTask, PartiesType
  <1>3. i[t] \in Nat /\ entered[t] \in Nat /\ pc[t] \in PC /\ Passed(t) <= 2 * i[p]
    BY <1>1, <1>2, BarrierAssumption DEF TypeOK, Sync
  <1>4. CASE i[t] > i[p]
    BY <1>1, <1>2, <1>3, <1>4 DEF Shape, Passed, Waiting, PC
  <1>5. CASE i[t] = i[p] /\ pc[t] \in {"body", "wait2"}
    BY <1>1, <1>2, <1>3, <1>5 DEF Shape, Passed, Waiting
  <1> QED BY <1>4, <1>5 DEF Stored

(* When p may leave the second wait, its iteration's increment was made.   *)
LEMMA AlreadyStored ==
  ASSUME TypeOK, Shape, Sync, NEW p \in Parties, pc[p] = "wait2", Released(p)
  PROVE  Stored(Turn(i[p]), i[p])
  <1> DEFINE t == Turn(i[p])
  <1>1. p \in All /\ i[p] \in Nat /\ entered[p] = 2 * i[p] + 2 /\ i[p] < niters
    BY PartiesType DEF TypeOK, Shape
  <1>2. t \in Parties /\ t \in All
    BY <1>1, TurnIsTask, PartiesType
  <1>3. i[t] \in Nat /\ entered[t] >= 2 * i[p] + 2 /\ entered[t] \in Nat /\ pc[t] \in PC
    BY <1>1, <1>2, BarrierAssumption DEF TypeOK, Released
  <1> QED BY <1>1, <1>2, <1>3, BarrierAssumption DEF Stored, Shape, PC

-----------------------------------------------------------------------------
(* What a step of party p leaves alone, and the parts of the invariant     *)
(* that only need to know that.                                            *)
LEMMA PartyFrame ==
  ASSUME Inv, NEW p \in Parties, Party(p)
  PROVE  /\ TypeOK' /\ Born' /\ RootInv' /\ Parties' = Parties
         /\ joins' = joins /\ pc[p] \notin {"unborn", "done", "failed"}
         /\ \A q \in Parties : q # p => /\ pc'[q] = pc[q] /\ i'[q] = i[q]
                                       /\ entered'[q] = entered[q] /\ reg'[q] = reg[q]
  <1> USE DEF Goto, Enter
  <1>0. TypeOK /\ p \in All /\ Parties \subseteq All /\ Tasks \subseteq All /\ Root \in All
        /\ Root \notin Tasks
    BY PartiesType DEF Inv, All, Tasks, Root
  <1>1. CASE Check(p) \/ Return1(p) \/ Enter2(p) \/ LastWait(p) \/ TaskEnds(p) \/ Load(p)
    <2>1. /\ pc[p] \in {"check", "wait1", "body", "last", "load"}
          /\ \E l \in PC \ {"unborn"} : pc' = [pc EXCEPT ![p] = l]
          /\ entered' \in {entered, [entered EXCEPT ![p] = @ + 1]}
          /\ reg' \in {reg, [reg EXCEPT ![p] = count]}
          /\ UNCHANGED <<joins, i, count, spawned, reaped, exit>>
      BY <1>1 DEF Check, Return1, Enter2, LastWait, TaskEnds, Load, PC
    <2>2. TypeOK'
      BY <1>0, <2>1 DEF TypeOK
    <2>3. Born'
      BY <1>0, <2>1 DEF Born, Inv, TypeOK
    <2>4. RootInv'
      BY <1>0, <2>1 DEF RootInv, Inv, TypeOK, RootLoopOver
    <2> QED BY <1>0, <2>1, <2>2, <2>3, <2>4 DEF TypeOK, Parties
  <1>2. CASE Store(p)
    <2>1. /\ pc[p] = "store" /\ pc' = [pc EXCEPT ![p] = "body"]
          /\ count' = reg[p] + 1
          /\ UNCHANGED <<joins, i, entered, reg, spawned, reaped, exit>>
      BY <1>2 DEF Store
    <2>2. TypeOK'
      BY <1>0, <2>1 DEF TypeOK, PC
    <2>3. Born'
      BY <1>0, <2>1 DEF Born, Inv, TypeOK
    <2>4. RootInv'
      BY <1>0, <2>1 DEF RootInv, Inv, TypeOK, RootLoopOver
    <2> QED BY <1>0, <2>1, <2>2, <2>3, <2>4 DEF TypeOK, Parties
  <1>3. CASE Return2(p)
    <2>1. /\ pc[p] = "wait2" /\ pc' = [pc EXCEPT ![p] = "check"]
          /\ i' = [i EXCEPT ![p] = @ + 1]
          /\ UNCHANGED <<joins, count, entered, reg, spawned, reaped, exit>>
      BY <1>3 DEF Return2
    <2>2. TypeOK'
      BY <1>0, <2>1, BarrierAssumption DEF TypeOK, PC, Inv, Shape
    <2>3. Born'
      BY <1>0, <2>1 DEF Born, Inv, TypeOK
    <2>4. RootInv'
      BY <1>0, <2>1 DEF RootInv, Inv, TypeOK, RootLoopOver
    <2> QED BY <1>0, <2>1, <2>2, <2>3, <2>4 DEF TypeOK, Parties
  <1> QED BY <1>1, <1>2, <1>3 DEF Party

(* The loop keeps its shape: in particular no comparison fails.            *)
LEMMA PartyShape ==
  ASSUME Inv, NEW p \in Parties, Party(p)
  PROVE  Shape'
  <1> USE DEF Goto, Enter
  <1>0. /\ TypeOK /\ Shape /\ Parties' = Parties /\ joins' = joins /\ p \in All
        /\ \A q \in Parties : q # p => /\ pc'[q] = pc[q] /\ i'[q] = i[q]
                                      /\ entered'[q] = entered[q]
    BY PartyFrame, PartiesType DEF Inv
  <1>1. i[p] \in Nat /\ entered[p] \in Nat /\ niters \in Nat /\ i[p] <= niters
    BY <1>0, BarrierAssumption DEF TypeOK
  <1>2. pc[p] = "check" => count = i[p]
    BY NotYetStored DEF Inv, CountInv
  <1>3. /\ pc'[p] \in {"wait1", "load", "store", "body"} =>
              entered'[p] = 2 * i'[p] + 1 /\ i'[p] < niters
        /\ pc'[p] = "check"  => entered'[p] = 2 * i'[p]
        /\ pc'[p] = "wait2"  => entered'[p] = 2 * i'[p] + 2 /\ i'[p] < niters
        /\ pc'[p] = "last"   => entered'[p] = 2 * i'[p] + 1 /\ i'[p] = niters /\ ~joins
        /\ pc'[p] = "done"   => i'[p] = niters
        /\ pc'[p] = "done"   => entered'[p] = IF joins THEN 2 * i'[p] ELSE 2 * i'[p] + 1
        /\ pc'[p] \notin {"failed", "unborn"}
    <2>1. CASE Check(p)
      BY <1>0, <1>1, <1>2, <2>1 DEF Check, Shape, TypeOK
    <2>2. CASE Return1(p)
      BY <1>0, <1>1, <2>2 DEF Return1, Shape, TypeOK
    <2>3. CASE Load(p) \/ Store(p)
      BY <1>0, <1>1, <2>3 DEF Load, Store, Shape, TypeOK
    <2>4. CASE Enter2(p)
      BY <1>0, <1>1, <2>4 DEF Enter2, Shape, TypeOK
    <2>5. CASE Return2(p)
      BY <1>0, <1>1, <2>5 DEF Return2, Shape, TypeOK
    <2>6. CASE LastWait(p)
      BY <1>0, <1>1, <2>6 DEF LastWait, Shape, TypeOK
    <2>7. CASE TaskEnds(p)
      BY <1>0, <1>1, <2>7 DEF TaskEnds, Shape, TypeOK
    <2> QED BY <2>1, <2>2, <2>3, <2>4, <2>5, <2>6, <2>7 DEF Party
  <1> QED BY <1>0, <1>3 DEF Shape

(* The barrier: a party enters a wait, which no other one may have passed  *)
(* yet, or leaves it after everybody entered.                              *)
LEMMA PartySync ==
  ASSUME Inv, NEW p \in Parties, Party(p)
  PROVE  Sync'
  <1> USE DEF Goto, Enter
  <1>0. /\ TypeOK /\ Sync /\ Parties' = Parties /\ p \in All /\ Parties \subseteq All
        /\ \A q \in Parties : q # p => pc'[q] = pc[q] /\ entered'[q] = entered[q]
    BY PartyFrame, PartiesType DEF Inv
  <1>1. \A q \in Parties : entered[q] \in Nat
    BY <1>0 DEF TypeOK
  <1>2. /\ entered'[p] >= entered[p]
        /\ entered'[p] \in Nat
        /\ Passed(p)' = Passed(p) \/ (Passed(p)' = entered[p] /\ Released(p))
        /\ Passed(p)' <= entered'[p]
    <2>1. CASE Check(p)
      BY <1>0, <1>1, <2>1, NotYetStored DEF Check, Passed, Waiting, TypeOK, Inv, CountInv
    <2>2. CASE Return1(p) \/ TaskEnds(p) \/ Return2(p)
      BY <1>0, <1>1, <2>2 DEF Return1, TaskEnds, Return2, Passed, Waiting, TypeOK
    <2>3. CASE Load(p) \/ Store(p)
      BY <1>0, <1>1, <2>3 DEF Load, Store, Passed, Waiting, TypeOK
    <2>4. CASE Enter2(p) \/ LastWait(p)
      BY <1>0, <1>1, <2>4 DEF Enter2, LastWait, Passed, Waiting, TypeOK
    <2> QED BY <2>1, <2>2, <2>3, <2>4 DEF Party
  <1>3. \A q \in Parties : q # p => Passed(q)' = Passed(q)
    BY <1>0 DEF Passed
  <1>4. \A q, r \in Parties : Passed(q)' <= entered'[r]
    <2> SUFFICES ASSUME NEW q \in Parties, NEW r \in Parties
                 PROVE  Passed(q)' <= entered'[r]
      OBVIOUS
    <2>1. Passed(q) <= entered[r] /\ Passed(p) <= entered[r] /\ Passed(q) <= entered[p]
      BY <1>0 DEF Sync
    <2>2. Passed(q) \in Int /\ Passed(p) \in Int
      BY <1>1 DEF Passed
    <2>3. CASE q # p
      BY <1>0, <1>1, <1>2, <1>3, <2>1, <2>2, <2>3
    <2>4. CASE q = p /\ r # p
      BY <1>0, <1>1, <1>2, <2>1, <2>2, <2>4 DEF Released
    <2>5. CASE q = p /\ r = p
      BY <1>2, <2>5
    <2> QED BY <2>3, <2>4, <2>5
  <1> QED BY <1>0, <1>4 DEF Sync

(* Only the party whose turn it is increments, and alone.                  *)
LEMMA PartyLane ==
  ASSUME Inv, NEW p \in Parties, Party(p)
  PROVE  Lane'
  <1> USE DEF Goto, Enter
  <1>0. /\ TypeOK /\ Lane /\ Parties' = Parties /\ p \in All /\ Parties \subseteq All
        /\ \A q \in Parties : q # p => /\ pc'[q] = pc[q] /\ i'[q] = i[q]
                                      /\ reg'[q] = reg[q]
    BY PartyFrame, PartiesType DEF Inv
  <1>1. /\ pc'[p] \in {"load", "store"} => p = Turn(i'[p])
        /\ pc'[p] = "store" => reg'[p] = count'
    <2>1. CASE Check(p) \/ Enter2(p) \/ LastWait(p) \/ TaskEnds(p) \/ Return2(p) \/ Store(p)
      BY <1>0, <2>1 DEF Check, Enter2, LastWait, TaskEnds, Return2, Store, TypeOK
    <2>2. CASE Return1(p)
      BY <1>0, <2>2 DEF Return1, TypeOK
    <2>3. CASE Load(p)
      BY <1>0, <2>3 DEF Load, TypeOK, Lane
    <2> QED BY <2>1, <2>2, <2>3 DEF Party
  <1>2. ASSUME NEW q \in Parties, q # p
        PROVE  /\ pc'[q] \in {"load", "store"} => q = Turn(i'[q])
               /\ pc'[q] = "store" => reg'[q] = count'
    <2>1. pc'[q] = "store" => ~Store(p)
      <3> SUFFICES ASSUME pc[q] = "store", Store(p) PROVE FALSE
        BY <1>0, <1>2
      <3>1. i[q] = i[p]
        BY SameIteration DEF Store, Inv
      <3> QED BY <3>1, <1>0, <1>2 DEF Store, Lane
    <2>2. ~Store(p) => count' = count
      BY DEF Party, Check, Return1, Load, Enter2, Return2, LastWait, TaskEnds
    <2> QED BY <1>0, <1>2, <2>1, <2>2 DEF Lane
  <1> QED BY <1>0, <1>1, <1>2 DEF Lane

(* The counter: Store makes the increment of the iteration all parties are *)
(* in, Return2 takes a party to the next one, nothing else matters.        *)
LEMMA PartyCount ==
  ASSUME Inv, NEW p \in Parties, Party(p)
  PROVE  CountInv'
  <1> USE DEF Goto, Enter
  <1>0. /\ TypeOK /\ Shape /\ Sync /\ Lane /\ CountInv
        /\ Parties' = Parties /\ p \in All /\ Parties \subseteq All /\ Tasks \subseteq Parties
        /\ \A q \in Parties : q # p => pc'[q] = pc[q] /\ i'[q] = i[q]
    BY PartyFrame, PartiesType DEF Inv
  <1>1. \A q \in Parties : i[q] \in Nat /\ Turn(i[q]) \in Parties
    BY <1>0, TurnIsTask DEF TypeOK
  <1> DEFINE Value(q) == IF Stored(Turn(i[q]), i[q]) THEN i[q] + 1 ELSE i[q]
  <1>2. SUFFICES ASSUME NEW q \in Parties PROVE (count = Value(q))'
    BY <1>0 DEF CountInv
  <1> DEFINE t == Turn(i[q])
  <1>3. t \in Parties /\ t \in All /\ i[q] \in Nat /\ i[t] \in Nat
        /\ count = IF Stored(t, i[q]) THEN i[q] + 1 ELSE i[q]
    BY <1>0, <1>1 DEF CountInv
  <1>4. CASE Store(p)
    <2>1. i[q] = i[p] /\ t = p /\ i' = i
      BY <1>0, <1>4, SameIteration DEF Store, Lane
    <2>2. ~Stored(p, i[p]) /\ Stored(p, i[p])'
      BY <1>0, <1>1, <1>4, <2>1 DEF Store, Stored, TypeOK
    <2>3. count' = count + 1
      BY <1>0, <1>4 DEF Store, Lane
    <2> QED BY <1>3, <2>1, <2>2, <2>3
  <1>5. CASE Return2(p)
    <2>1. /\ i'[p] = i[p] + 1 /\ pc[p] = "wait2" /\ pc'[p] = "check" /\ count' = count
      BY <1>0, <1>5 DEF Return2, TypeOK
    <2>2. CASE q = p
      <3>1. Stored(Turn(i[p]), i[p])
        BY <1>0, <1>5, AlreadyStored DEF Return2
      <3>2. count' = i[p] + 1
        BY <1>3, <2>1, <2>2, <3>1
      <3>3. PICK u \in Parties : u = Turn(i[p] + 1)
        BY <1>0, <1>1, TurnIsTask
      <3>4. entered[p] = 2 * i[p] + 2 /\ Passed(u) <= entered[p]
        BY <1>0, <2>1 DEF Shape, Sync
      <3>5. /\ ~(i'[u] > i[p] + 1)
            /\ ~(i'[u] = i[p] + 1 /\ pc'[u] \in {"body", "wait2"})
        <4>1. CASE u = p
          BY <1>1, <2>1, <4>1
        <4>2. CASE u # p
          <5>1. i[u] \in Nat /\ entered[u] \in Nat /\ pc[u] \in PC
            BY <1>0, <1>1 DEF TypeOK
          <5>2. ~(i[u] > i[p] + 1)
            BY <1>0, <1>1, <3>4, <5>1 DEF Shape, Passed, Waiting, PC
          <5>3. ~(i[u] = i[p] + 1 /\ pc[u] \in {"body", "wait2"})
            BY <1>0, <1>1, <3>4, <5>1 DEF Shape, Passed, Waiting
          <5> QED BY <1>0, <4>2, <5>2, <5>3
        <4> QED BY <4>1, <4>2
      <3>6. ~Stored(Turn(i[p]), i[p])'
        BY <2>1, <3>3, <3>5 DEF Stored
      <3> QED BY <2>1, <2>2, <3>2, <3>6
    <2>3. CASE q # p
      <3>1. Stored(t, i[q])' <=> Stored(t, i[q])
        BY <1>0, <1>1, <1>3, <2>1, <2>3 DEF Stored
      <3> QED BY <1>0, <1>3, <2>1, <2>3, <3>1
    <2> QED BY <2>2, <2>3
  <1>6. CASE Check(p) \/ Load(p) \/ Enter2(p) \/ LastWait(p) \/ TaskEnds(p)
    <2>1. i' = i /\ count' = count
      BY <1>6 DEF Check, Load, Enter2, LastWait, TaskEnds
    <2>2. pc'[p] \in {"body", "wait2"} <=> pc[p] \in {"body", "wait2"}
      BY <1>0, <1>6 DEF Check, Load, Enter2, LastWait, TaskEnds, TypeOK
    <2>3. Stored(t, i[q])' <=> Stored(t, i[q])
      BY <1>0, <1>3, <2>1, <2>2 DEF Stored
    <2> QED BY <1>3, <2>1, <2>3
  <1>7. CASE Return1(p)
    <2>1. i' = i /\ count' = count /\ pc[p] = "wait1"
      BY <1>7 DEF Return1
    <2>2. t = p /\ i[p] = i[q] => pc'[p] \notin {"body", "wait2"}
      BY <1>0, <1>7 DEF Return1, TypeOK
    <2>3. Stored(t, i[q])' <=> Stored(t, i[q])
      BY <1>0, <1>3, <2>1, <2>2 DEF Stored
    <2> QED BY <1>3, <2>1, <2>3
  <1> QED BY <1>4, <1>5, <1>6, <1>7 DEF Party

-----------------------------------------------------------------------------
(* The steps of the root outside its loop.                                 *)
LEMMA SpawnInv == Inv /\ Spawn => Inv'
  <1> SUFFICES ASSUME Inv, Spawn PROVE Inv'
    OBVIOUS
  <1> DEFINE New(p) == p = spawned \/ (joins /\ p = Root /\ spawned + 1 = ntasks)
  <1>0. /\ TypeOK /\ Shape /\ Sync /\ Parties \subseteq All /\ Tasks \subseteq Parties
        /\ ntasks \in Nat /\ spawned \in Nat /\ spawned < ntasks /\ spawned \in Tasks
        /\ Parties' = Parties /\ Root = ntasks
    BY PartiesType, BarrierAssumption DEF Inv, TypeOK, Spawn, Parties, Tasks, Root
  <1>1. \A p \in All : /\ New(p) => pc[p] = "unborn" /\ pc'[p] = "check"
                       /\ ~New(p) => pc'[p] = pc[p]
    BY <1>0 DEF Inv, Born, Spawn, TypeOK
  <1>2. UNCHANGED <<joins, i, entered, reg, count, reaped, exit>> /\ spawned' = spawned + 1
    BY DEF Spawn
  <1>3. TypeOK'
    <2>1. pc' \in [All -> PC]
      BY <1>0 DEF Spawn, TypeOK, PC
    <2> QED BY <1>0, <1>2, <2>1 DEF TypeOK
  <1>4. Born'
    BY <1>0, <1>1, <1>2 DEF Inv, Born, Tasks, All
  <1>5. Shape'
    BY <1>0, <1>1, <1>2 DEF Shape
  <1>6. Sync'
    BY <1>0, <1>1, <1>2 DEF Sync, Passed, Waiting
  <1>7. Lane'
    BY <1>0, <1>1, <1>2 DEF Inv, Lane
  <1>8. CountInv'
    <2> SUFFICES ASSUME NEW q \in Parties
                 PROVE  count = IF Stored(Turn(i[q]), i[q])' THEN i[q] + 1 ELSE i[q]
      BY <1>0, <1>2 DEF CountInv
    <2>0. q \in All /\ i[q] \in Nat
      BY <1>0, BarrierAssumption DEF TypeOK
    <2>1. Turn(i[q]) \in All
      BY <1>0, <2>0, TurnIsTask
    <2>2. Stored(Turn(i[q]), i[q])' <=> Stored(Turn(i[q]), i[q])
      BY <1>1, <1>2, <2>1 DEF Stored
    <2> QED BY <1>0, <2>2 DEF Inv, CountInv
  <1>9. RootInv'
    <2>1. reaped \subseteq Tasks /\ Tasks \subseteq All /\ Root \in All
      BY <1>0, PartiesType DEF TypeOK
    <2> QED BY <1>0, <1>1, <1>2, <2>1 DEF Inv, RootInv, RootLoopOver
  <1> QED BY <1>3, <1>4, <1>5, <1>6, <1>7, <1>8, <1>9 DEF Inv

LEMMA RootStepInv ==
  ASSUME Inv, SpawnFails \/ RootEnds \/ (\E p \in Tasks : Reap(p)) \/ UNCHANGED vars
  PROVE  Inv'
  <1>0. TypeOK /\ RootInv
    BY DEF Inv
  <1>1. UNCHANGED <<joins, pc, i, entered, reg, count, spawned>>
    BY DEF SpawnFails, RootEnds, Reap, vars
  <1>2. TypeOK'
    BY <1>0, <1>1 DEF TypeOK, SpawnFails, RootEnds, Reap, vars, EXIT_FAIL, EXIT_PASS
  <1>3. Born' /\ Shape' /\ Sync' /\ Lane' /\ CountInv'
    BY <1>1 DEF Inv, Born, Shape, Sync, Lane, CountInv, Passed, Stored, Parties
  <1>4. RootInv'
    <2>1. CASE SpawnFails \/ UNCHANGED vars
      BY <1>0, <1>1, <2>1 DEF RootInv, SpawnFails, vars, EXIT_FAIL, EXIT_PASS, RootLoopOver
    <2>2. CASE RootEnds
      <3>1. ~RootFailed
        BY PartiesType, <1>0 DEF Inv, Shape, RootFailed, Parties
      <3> QED BY <1>0, <1>1, <2>2, <3>1 DEF RootInv, RootEnds, RootLoopOver
    <2>3. ASSUME NEW p \in Tasks, Reap(p) PROVE RootInv'
      <3>1. pc[p] = "done"
        BY PartiesType, <1>0, <2>3 DEF Inv, Shape, Reap
      <3>2. reaped' = reaped \cup {p} /\ exit' = exit /\ exit = Running /\ RootLoopOver
        BY <2>3, <3>1 DEF Reap
      <3> QED BY <1>0, <1>1, <3>1, <3>2 DEF RootInv, RootLoopOver, Running, EXIT_PASS
    <2> QED BY <2>1, <2>2, <2>3
  <1> QED BY <1>2, <1>3, <1>4 DEF Inv

LEMMA NextInv == Inv /\ [Next]_vars => Inv'
  <1> SUFFICES ASSUME Inv, [Next]_vars PROVE Inv'
    OBVIOUS
  <1>1. CASE Spawn
    BY <1>1, SpawnInv
  <1>2. CASE SpawnFails \/ RootEnds \/ (\E p \in Tasks : Reap(p)) \/ UNCHANGED vars
    BY <1>2, RootStepInv
  <1>3. ASSUME NEW p \in Parties, Party(p) PROVE Inv'
    BY <1>3, PartyFrame, PartyShape, PartySync, PartyLane, PartyCount DEF Inv
  <1> QED BY <1>1, <1>2, <1>3 DEF Next, RootStep, Terminated

(* Every behaviour of the barrier tests satisfies the invariant.           *)
THEOREM Invariance == Spec => []Inv
  BY InitInv, NextInv, PTL DEF Spec

-----------------------------------------------------------------------------
(* Every variable keeps its type for any ntasks and niters; in particular  *)
(* no loop variable of pip_barrier.c passes niters.                        *)
THEOREM TypeCorrect == Spec => []TypeOK
  <1>1. Inv => TypeOK
    BY DEF Inv
  <1> QED
    BY <1>1, Invariance, PTL

(* No comparison of the counter with a loop variable can fail.             *)
THEOREM CountCorrect == Spec => []CountInStep
  <1>1. Inv => CountInStep
    <2> SUFFICES ASSUME Inv, NEW p \in Parties
                 PROVE  (pc[p] = "check" => count = i[p]) /\ pc[p] # "failed"
      BY DEF CountInStep
    <2>1. pc[p] # "failed"
      BY DEF Inv, Shape
    <2>2. ASSUME pc[p] = "check" PROVE count = i[p]
      BY <2>2, NotYetStored DEF Inv, CountInv
    <2> QED BY <2>1, <2>2
  <1> QED BY <1>1, Invariance, PTL

(* The plain increment count++ needs no lock.                              *)
THEOREM NoLostIncrement == Spec => []OneIncrements
  <1>1. Inv => OneIncrements
    <2> SUFFICES ASSUME Inv, NEW p \in Parties, NEW q \in Parties,
                        pc[p] \in {"load", "store"}, pc[q] \in {"load", "store"}
                 PROVE  p = q
      BY DEF OneIncrements
    <2>1. i[q] = i[p]
      BY SameIteration DEF Inv
    <2> QED BY <2>1 DEF Inv, Lane
  <1> QED BY <1>1, Invariance, PTL

(* PASS is reported only after every party has done every iteration and    *)
(* every increment has reached the counter.                                *)
THEOREM PassCorrect == Spec => []PassMeansAll
  <1>1. Inv => PassMeansAll
    <2> SUFFICES ASSUME Inv, exit = EXIT_PASS PROVE
                        count = niters /\ \A p \in Parties : pc[p] = "done" /\ i[p] = niters
      BY DEF PassMeansAll
    <2>0. TypeOK /\ Tasks # {} /\ reaped = Tasks /\ RootLoopOver
      BY BarrierAssumption DEF Inv, RootInv, Tasks
    <2>1. \A p \in Parties : pc[p] = "done"
      BY <2>0, BarrierAssumption DEF Inv, RootInv, RootLoopOver, Parties, All, Tasks, Root
    <2>2. \A p \in Parties : i[p] = niters
      BY <2>1 DEF Inv, Shape
    <2>3. PICK p \in Parties : TRUE
      BY <2>0, PartiesType
    <2>4. Turn(niters) \in Parties
      BY <2>0, TurnIsTask, PartiesType, BarrierAssumption
    <2>5. ~Stored(Turn(niters), niters)
      BY <2>1, <2>2, <2>4, BarrierAssumption DEF Stored
    <2>6. count = niters
      BY <2>2, <2>3, <2>5 DEF Inv, CountInv
    <2> QED BY <2>1, <2>2, <2>6
  <1> QED BY <1>1, Invariance, PTL

=============================================================================

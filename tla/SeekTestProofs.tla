---------------------------- MODULE SeekTestProofs ---------------------------
(***************************************************************************)
(* The shared file offset of seek.c for every number of tasks and of       *)
(* iterations: the turns that the barriers make keep the file in order.    *)
(***************************************************************************)
EXTENDS SeekTest, TLAPS

-----------------------------------------------------------------------------
(* The barriers each party has passed. A place is where they lead to: the  *)
(* writing or reading loop, the iteration and the turn.                    *)
returned == [p \in Parties |-> entered[p] - (IF pc[p] = "wait" THEN 1 ELSE 0)]
SamePlace(p, q) == phase[p] = phase[q] /\ i[p] = i[q] /\ ii[p] = ii[q]

(* q is at the place one barrier after that of p.                          *)
NextPlace(p, q) ==
  IF ii[p] # ntasks THEN phase[q] = phase[p] /\ i[q] = i[p] /\ ii[q] = ii[p] + 1
  ELSE IF i[p] + 1 = niters /\ phase[p] = "write" /\ mode = "file"
       THEN phase[q] = "read" /\ i[q] = 0 /\ ii[q] = 0
       ELSE phase[q] = phase[p] /\ i[q] = i[p] + 1 /\ ii[q] = 0

(* The parties that have passed the most barriers.                         *)
Leaders == {p \in Parties : \A q \in Parties : returned[q] <= returned[p]}

TypeInv ==
  /\ mode \in {"file", "stdout", "stdin"}
  /\ pc \in [Parties -> {"open", "spawn", "unborn", "loop", "half", "used", "wait",
                         "lseek", "done"}]
  /\ phase \in [Parties -> {"write", "read"}]
  /\ i \in [Parties -> 0..niters] /\ ii \in [Parties -> 0..ntasks]
  /\ entered \in [Parties -> Nat]
  /\ file \in Seq(Parties \X {0, 1}) /\ offset \in Nat
  /\ spawned \in 0..ntasks /\ reaped \subseteq Tasks

(* The program of one party.                                               *)
PartyInv == \A p \in Parties :
  /\ i[p] = niters <=> pc[p] = "done"
  /\ i[p] = niters => ii[p] = 0
  /\ pc[p] \in {"half", "used"} => HasTurn(p)
  /\ mode = "stdout" => phase[p] = "write"
  /\ mode = "stdin" => phase[p] = "read"
  /\ pc[p] = "done" /\ mode = "file" => phase[p] = "read"
  /\ pc[p] = "lseek" => p = Root /\ mode = "file" /\ phase[p] = "read" /\ i[p] = 0 /\ ii[p] = 0
  /\ p \in reaped => pc[p] = "done"

(* Before all the tasks are there.                                         *)
SpawnInv ==
  /\ pc[Root] = "open" =>
       /\ spawned = 0 /\ offset = 0
       /\ \A p \in Parties : /\ i[p] = 0 /\ ii[p] = 0
                              /\ phase[p] = IF mode = "stdin" THEN "read" ELSE "write"
  /\ pc[Root] = "spawn" => spawned < ntasks
  /\ \A p \in Tasks : pc[p] = "unborn" <=> p >= spawned
  /\ \A p \in Tasks : pc[p] \notin {"open", "spawn"}
  /\ \A p \in Parties : pc[p] \in {"open", "spawn", "unborn"} => entered[p] = 0
  /\ pc[Root] # "unborn"

(* The barrier: nobody is past a barrier that somebody has not entered,    *)
(* and the number of barriers passed determines the place.                 *)
SyncInv == \A p, q \in Parties :
  /\ returned[q] <= entered[p]
  /\ returned[p] = returned[q] => SamePlace(p, q)
  /\ returned[q] = returned[p] + 1 => NextPlace(p, q)

(* The record that is due in turn b of iteration a: in the "stdout" and    *)
(* "stdin" programs the root has used the file before, and has no turn.    *)
RecordsPerIter(md) == IF md = "file" THEN ntasks + 1 ELSE ntasks
RecordAt(md, a, b) == a * RecordsPerIter(md) + (IF md = "file" \/ b > 0 THEN b ELSE 1)
TotalOf(md) == Pieces * RecordAt(md, niters, 0)

(* Whose turn it is at the place of p, and what he has made of it.         *)
Turn(p) == IF ii[p] = 0 THEN Root ELSE ii[p] - 1
Used(p) ==
  IF ~HasTurn(Turn(p)) \/ returned[Turn(p)] # returned[p] THEN 0
  ELSE IF pc[Turn(p)] = "half" THEN 1
  ELSE IF pc[Turn(p)] \in {"used", "wait"} THEN 2 ELSE 0

AwaitsLseek(p) ==
  /\ mode = "file" /\ phase[p] = "read" /\ i[p] = 0 /\ ii[p] = 0
  /\ returned[Root] # returned[p] \/ pc[Root] = "lseek"

(* The offset follows from the place of those who are ahead.               *)
OffsetInv == \A p \in Leaders : pc[Root] # "open" =>
  offset = IF AwaitsLseek(p) THEN TotalOf(mode)
           ELSE Pieces * RecordAt(mode, i[p], ii[p]) + Used(p)

LengthInv == \A p \in Leaders :
  Len(file) = IF phase[p] = "write" THEN offset ELSE TotalOf(mode)

Inv ==
  /\ TypeInv /\ PartyInv /\ SpawnInv /\ SyncInv /\ OffsetInv /\ LengthInv
  /\ FileInOrder /\ PassMeansAll

-----------------------------------------------------------------------------
(* Arithmetic of records and pieces.                                       *)
LEMMA RemainderIs ==
  ASSUME NEW m \in Nat \ {0}, NEW a \in Nat, NEW b \in 0..(m - 1)
  PROVE  (a * m + b) % m = b
<1> DEFINE x == a * m + b
           q == x \div m
           r == x % m
<1>1. x \in Int /\ q \in Int /\ r \in 0..(m - 1) /\ x = m * q + r OBVIOUS
<1>2. (a - q) * m = r - b BY <1>1
<1>3. CASE a - q >= 1
  <2>1. (a - q) * m >= m BY <1>1, <1>3
  <2> QED BY <1>1, <1>2, <2>1
<1>4. CASE a - q <= -1
  <2>1. (a - q) * m <= -m BY <1>1, <1>4
  <2> QED BY <1>1, <1>2, <2>1
<1>5. CASE a = q
  BY <1>1, <1>2, <1>5
<1> QED BY <1>1, <1>3, <1>4, <1>5

LEMMA HalvesAre ==
  ASSUME NEW r \in Nat, NEW h \in {0, 1}
  PROVE  (Pieces * r + h) \div Pieces = r /\ (Pieces * r + h) % Pieces = h
  BY DEF Pieces

LEMMA RecordFacts ==
  ASSUME NEW md, NEW a \in 0..niters, NEW b \in 0..ntasks
  PROVE  /\ RecordAt(md, a, b) \in Nat
         /\ a < niters => RecordAt(md, a, b) <= RecordAt(md, niters, 0)
         /\ a < niters /\ (md = "file" \/ b > 0) =>
              RecordAt(md, a, b) + 1 <= RecordAt(md, niters, 0)
         /\ b < ntasks => RecordAt(md, a, b + 1) =
              RecordAt(md, a, b) + IF md = "file" \/ b > 0 THEN 1 ELSE 0
         /\ RecordAt(md, a + 1, 0) = RecordAt(md, a, ntasks) + 1
         /\ RecordAt("file", 0, 0) = 0
<1> DEFINE m == RecordsPerIter(md)
<1>1. m \in Nat \ {0} /\ a \in Nat /\ b \in Nat /\ niters \in Nat /\ ntasks \in Nat
  BY SeekAssumption DEF RecordsPerIter
<1>2. a * m \in Nat /\ (a + 1) * m = a * m + m /\ niters * m \in Nat
  BY <1>1
<1>3. a < niters => (a + 1) * m <= niters * m
  <2>1. a < niters => (niters - (a + 1)) * m >= 0 BY <1>1
  <2> QED BY <1>1, <2>1
<1>4. md = "file" => m = ntasks + 1 BY DEF RecordsPerIter
<1>5. md # "file" => m = ntasks BY DEF RecordsPerIter
<1> HIDE DEF m
<1>6. 0 * RecordsPerIter("file") = 0 BY SeekAssumption DEF RecordsPerIter
<1> QED BY <1>1, <1>2, <1>3, <1>4, <1>5, <1>6, SeekAssumption DEF RecordAt, m

LEMMA TotalType == ASSUME NEW md PROVE RecordAt(md, niters, 0) \in Nat
<1>1. niters \in 0..niters /\ 0 \in 0..ntasks BY SeekAssumption
<1> QED BY <1>1, RecordFacts

LEMMA TotalIs == mode \in {"file", "stdout", "stdin"} => Total = TotalOf(mode)
  BY SeekAssumption DEF Total, TotalOf, RecordAt, RecordsPerIter, Pieces

(* The piece that is due at a turn is one of the party that has it.        *)
LEMMA ExpectedAt ==
  ASSUME TypeInv, NEW p \in Parties, HasTurn(p), i[p] < niters, NEW h \in {0, 1},
         NEW n \in Nat, n = Pieces * RecordAt(mode, i[p], ii[p]) + h
  PROVE  Expected(n + 1) = Piece(p, h) /\ n < TotalOf(mode)
<1> DEFINE m == RecordsPerIter(mode)
           r == RecordAt(mode, i[p], ii[p])
<1>1. i[p] \in 0..niters /\ ii[p] \in 0..ntasks /\ i[p] \in Nat /\ ii[p] \in Nat
  BY SeekAssumption DEF TypeInv
<1>2. m \in Nat \ {0} BY SeekAssumption DEF RecordsPerIter
<1>3. mode = "file" \/ ii[p] > 0
  BY SeekAssumption DEF HasTurn, Slot, Parties, Root
<1>4. r \in Nat /\ r + 1 <= RecordAt(mode, niters, 0) /\ RecordAt(mode, niters, 0) \in Nat
  BY <1>1, <1>3, TotalType, RecordFacts
<1>5. n < TotalOf(mode) BY <1>4 DEF TotalOf, Pieces
<1>6. RecordOf(n + 1) = r /\ ((n + 1) - 1) % Pieces = h
  <2>1. (n + 1) - 1 = n OBVIOUS
  <2>2. n \div Pieces = r /\ n % Pieces = h BY <1>4, HalvesAre
  <2> QED BY <2>1, <2>2 DEF RecordOf
<1>7. Owner(r) = p
  <2>1. CASE mode = "file"
    <3>1. m = ntasks + 1 /\ ii[p] \in 0..(m - 1) BY <1>1, <2>1, SeekAssumption DEF RecordsPerIter
    <3>2. r = i[p] * m + ii[p] BY <2>1 DEF RecordAt
    <3>3. r % (ntasks + 1) = ii[p] BY <1>1, <1>2, <3>1, <3>2, RemainderIs
    <3> QED BY <1>1, <2>1, <3>3, SeekAssumption DEF Owner, HasTurn, Slot, Root, Parties
  <2>2. CASE mode # "file"
    <3>1. m = ntasks /\ ii[p] - 1 \in 0..(m - 1)
      BY <1>1, <1>3, <2>2, SeekAssumption DEF RecordsPerIter
    <3>2. r = i[p] * m + ii[p] BY <1>3, <2>2 DEF RecordAt
    <3>3. r - 1 = i[p] * m + (ii[p] - 1) BY <1>1, <1>2, <3>2
    <3>4. (r - 1) % ntasks = ii[p] - 1 BY <1>1, <1>2, <3>1, <3>3, RemainderIs
    <3>5. i[p] * m \in Nat BY <1>1, <1>2
    <3>6. r # 0 BY <1>1, <1>3, <2>2, <3>2, <3>5
    <3> QED BY <1>1, <2>2, <3>4, <3>6, SeekAssumption DEF Owner, HasTurn, Slot, Root, Parties
  <2> QED BY <2>1, <2>2
<1> QED BY <1>5, <1>6, <1>7 DEF Expected

-----------------------------------------------------------------------------
(* Who leads, and what it tells.                                           *)
LEMMA ReturnedType == TypeInv => returned \in [Parties -> Int]
  BY DEF TypeInv, returned

(* A party that is not waiting leads.                                      *)
LEMMA NotWaitingLeads ==
  ASSUME TypeInv, SyncInv, NEW p \in Parties, pc[p] # "wait"
  PROVE  p \in Leaders
<1>1. returned[p] = entered[p] BY DEF TypeInv, returned
<1> QED BY <1>1 DEF SyncInv, Leaders

LEMMA LeadersTogether ==
  ASSUME TypeInv, SyncInv, NEW p \in Leaders, NEW q \in Leaders
  PROVE  returned[p] = returned[q] /\ SamePlace(p, q)
<1>1. returned[p] \in Int /\ returned[q] \in Int BY ReturnedType DEF Leaders
<1>2. returned[p] = returned[q] BY <1>1 DEF Leaders
<1> QED BY <1>2 DEF SyncInv, Leaders

LEMMA TurnType ==
  ASSUME TypeInv, NEW p \in Parties
  PROVE  Turn(p) \in Parties
<1>1. ii[p] \in 0..ntasks BY DEF TypeInv
<1> QED BY <1>1, SeekAssumption DEF Turn, Parties, Root

LEMMA TurnIsMine ==
  ASSUME TypeInv, NEW p \in Parties, HasTurn(p)
  PROVE  Turn(p) = p
<1>1. p \in 0..ntasks BY DEF Parties
<1> QED BY <1>1, SeekAssumption DEF Turn, HasTurn, Slot, Root

(* Steps that pass no barrier.                                             *)
LEMMA StayInv ==
  ASSUME TypeInv, SyncInv, TypeInv', UNCHANGED <<mode, phase, i, ii>>,
         \A p \in Parties : entered[p] <= entered'[p], returned' = returned
  PROVE  SyncInv' /\ Leaders' = Leaders
<1>1. Leaders' = Leaders BY DEF Leaders
<1>2. ASSUME NEW p \in Parties, NEW q \in Parties PROVE returned[q] <= entered'[p]
  <2>1. returned[q] \in Int /\ entered[p] \in Int /\ entered'[p] \in Int
    BY ReturnedType DEF TypeInv
  <2> QED BY <2>1 DEF SyncInv
<1>3. SyncInv'
  BY <1>2 DEF SyncInv, SamePlace, NextPlace
<1> QED BY <1>1, <1>3

(* At a turn the offset is at the record of the party that has it.         *)
LEMMA AtTurn ==
  ASSUME Inv, NEW p \in Parties, HasTurn(p), pc[p] \in {"loop", "half"}
  PROVE  /\ p \in Leaders /\ i[p] < niters /\ pc[Root] # "open"
         /\ offset = Pieces * RecordAt(mode, i[p], ii[p]) + (IF pc[p] = "half" THEN 1 ELSE 0)
<1>1. p \in Leaders BY NotWaitingLeads DEF Inv
<1>2. i[p] < niters BY SeekAssumption DEF Inv, TypeInv, PartyInv
<1>3. pc[Root] # "open"
  BY SeekAssumption DEF Inv, SpawnInv, Parties, Tasks, Root
<1>4. Turn(p) = p BY TurnIsMine DEF Inv
<1>5. ~AwaitsLseek(p)
  BY SeekAssumption DEF AwaitsLseek, HasTurn, Slot, Parties, Root
<1>6. Used(p) = IF pc[p] = "half" THEN 1 ELSE 0 BY <1>4 DEF Used
<1> QED BY <1>1, <1>2, <1>3, <1>5, <1>6 DEF Inv, OffsetInv

-----------------------------------------------------------------------------
(* Half a record written or read by the party that has the turn.           *)
LEMMA AccessInv ==
  ASSUME Inv, NEW p \in Parties, FirstPiece(p) \/ SecondPiece(p)
  PROVE  Inv'
<1> DEFINE h == IF pc[p] = "half" THEN 1 ELSE 0
           there == IF pc[p] = "half" THEN "used" ELSE "half"
<1>1. pc[p] \in {"loop", "half"} /\ HasTurn(p) /\ h \in {0, 1} /\ Access(p, pc[p], h, there)
  BY DEF FirstPiece, SecondPiece, Access, Inv, PartyInv
<1>2. /\ p \in Leaders /\ i[p] < niters /\ pc[Root] # "open"
      /\ offset = Pieces * RecordAt(mode, i[p], ii[p]) + h
  BY <1>1, AtTurn
<1>3. there \in {"half", "used"} BY DEF there
<1> HIDE DEF h, there
<1>4. Expected(offset + 1) = Piece(p, h) /\ offset < TotalOf(mode) /\ offset \in Nat
  BY <1>1, <1>2, ExpectedAt DEF Inv, TypeInv
<1>5. \A n : Expected(n)' = Expected(n) /\ Total' = Total
  BY <1>1 DEF Access, Expected, Owner, Total
<1>6. /\ file' \in Seq(Parties \X {0, 1}) /\ offset' = offset + 1
      /\ pc' = [pc EXCEPT ![p] = there]
      /\ phase[p] = "write" => Len(file') = Len(file) + 1
      /\ phase[p] # "write" => file' = file
      /\ \A n \in DOMAIN file' : file'[n] = Expected(n)
  <2>1. file \in Seq(Parties \X {0, 1}) /\ Piece(p, h) \in Parties \X {0, 1}
    BY <1>1 DEF Inv, TypeInv, Piece
  <2>2. CASE phase[p] = "write"
    <3>1. Len(file) = offset BY <1>2, <2>2 DEF Inv, LengthInv
    <3>2. file' = Append(file, Piece(p, h)) /\ offset' = offset + 1
          /\ pc' = [pc EXCEPT ![p] = there]
      BY <1>1, <2>2, <3>1 DEF Access, Put, Goto
    <3> QED BY <1>4, <2>1, <2>2, <3>1, <3>2 DEF Inv, FileInOrder
  <2>3. CASE phase[p] # "write"
    <3>1. Len(file) = TotalOf(mode) BY <1>2, <2>3 DEF Inv, LengthInv
    <3>2. offset + 1 \in DOMAIN file BY <1>4, <2>1, <3>1
    <3>3. Got(Piece(p, h)) BY <1>4, <3>1, <3>2 DEF Got, Inv, FileInOrder
    <3> QED BY <1>1, <2>1, <2>3, <3>3 DEF Access, Goto, Inv, FileInOrder
  <2> QED BY <2>2, <2>3
<1>7. UNCHANGED <<mode, phase, i, ii, entered, spawned, reaped, exit>> BY <1>1 DEF Access
<1>8. TypeInv' BY <1>3, <1>6, <1>7 DEF Inv, TypeInv
<1>9. returned' = returned
  BY <1>1, <1>3, <1>6, <1>7 DEF Inv, TypeInv, returned
<1>10. SyncInv' /\ Leaders' = Leaders
  BY <1>7, <1>8, <1>9, StayInv DEF Inv, TypeInv
<1>11. PartyInv'
  BY <1>1, <1>2, <1>3, <1>6, <1>7 DEF Inv, TypeInv, PartyInv, HasTurn
<1>12. SpawnInv'
  <2>1. \A q \in Parties : pc'[q] # pc[q] =>
          pc[q] \in {"loop", "half"} /\ pc'[q] \in {"half", "used"}
    BY <1>1, <1>3, <1>6 DEF Inv, TypeInv
  <2>2. Root \in Parties /\ \A q \in Tasks : q \in Parties
    BY SeekAssumption DEF Root, Parties, Tasks
  <2> QED BY <1>2, <1>7, <2>1, <2>2 DEF Inv, SpawnInv
<1>13. OffsetInv'
  <2> SUFFICES ASSUME NEW q \in Leaders
               PROVE  ~AwaitsLseek(q)' /\ offset' = Pieces * RecordAt(mode, i[q], ii[q]) + Used(q)'
    BY <1>7, <1>10 DEF OffsetInv
  <2>1. q \in Parties /\ SamePlace(p, q) /\ returned[p] = returned[q]
    BY <1>2, LeadersTogether DEF Inv, Leaders
  <2>2. Turn(q)' = p
    BY <1>1, <1>7, <2>1, TurnIsMine DEF Inv, Turn, SamePlace
  <2>3. Used(q)' = h + 1
    BY <1>1, <1>3, <1>6, <1>7, <1>9, <2>1, <2>2 DEF Used, HasTurn, h, there, Inv, TypeInv
  <2>4. ~AwaitsLseek(q)'
    <3>1. ii[p] = 0 => p = Root BY <1>1, SeekAssumption DEF HasTurn, Slot, Parties
    <3>2. pc'[p] # "lseek" BY <1>3, <1>6 DEF Inv, TypeInv
    <3> QED BY <1>7, <1>9, <2>1, <3>1, <3>2 DEF AwaitsLseek, SamePlace
  <2>5. RecordAt(mode, i[q], ii[q]) \in Nat /\ h \in {0, 1}
    BY <1>1, <2>1, RecordFacts DEF Inv, TypeInv
  <2> QED BY <1>2, <1>6, <2>1, <2>3, <2>4, <2>5 DEF SamePlace, Pieces
<1>14. LengthInv'
  <2> SUFFICES ASSUME NEW q \in Leaders
               PROVE  Len(file') = IF phase[q] = "write" THEN offset' ELSE TotalOf(mode)
    BY <1>7, <1>10 DEF LengthInv
  <2>1. phase[q] = phase[p] BY <1>2, LeadersTogether DEF Inv, SamePlace
  <2>2. Len(file) = IF phase[q] = "write" THEN offset ELSE TotalOf(mode) BY DEF Inv, LengthInv
  <2> QED BY <1>6, <2>1, <2>2
<1>15. FileInOrder' BY <1>5, <1>6 DEF FileInOrder
<1>16. PassMeansAll'
  BY <1>1, <1>7 DEF Inv, PassMeansAll
<1> QED BY <1>8, <1>10, <1>11, <1>12, <1>13, <1>14, <1>15, <1>16 DEF Inv

(* Entering the barrier: only the owner of the turn can change what is     *)
(* used of it, and it has used all.                                        *)
LEMMA EnterInv == ASSUME Inv, NEW p \in Parties, Enter(p) PROVE Inv'
<1>1. /\ pc[p] = "used" \/ (pc[p] = "loop" /\ ~HasTurn(p))
      /\ entered' = [entered EXCEPT ![p] = @ + 1] /\ pc' = [pc EXCEPT ![p] = "wait"]
      /\ UNCHANGED <<mode, phase, i, ii, file, offset, spawned, reaped, exit>>
  BY DEF Enter, Goto
<1>2. TypeInv' BY <1>1 DEF Inv, TypeInv
<1>3. returned' = returned
  BY <1>1 DEF Inv, TypeInv, returned
<1>4. SyncInv' /\ Leaders' = Leaders
  BY <1>1, <1>2, <1>3, StayInv DEF Inv, TypeInv
<1>5. \A q \in Parties : pc'[q] # pc[q] => pc[q] \in {"loop", "used"} /\ pc'[q] = "wait"
  BY <1>1 DEF Inv, TypeInv
<1>6. Root \in Parties /\ \A q \in Tasks : q \in Parties
  BY SeekAssumption DEF Root, Parties, Tasks
<1>7. PartyInv' BY <1>1, <1>5 DEF Inv, PartyInv, HasTurn
<1>8. SpawnInv'
  <2>1. \A q \in Parties : pc'[q] \in {"open", "spawn", "unborn"} => entered'[q] = entered[q]
    BY <1>1, <1>5 DEF Inv, TypeInv
  <2> QED BY <1>1, <1>5, <1>6, <2>1 DEF Inv, SpawnInv
<1>9. OffsetInv'
  <2> SUFFICES ASSUME NEW q \in Leaders, pc'[Root] # "open"
               PROVE  offset = IF AwaitsLseek(q)' THEN TotalOf(mode)
                               ELSE Pieces * RecordAt(mode, i[q], ii[q]) + Used(q)'
    BY <1>1, <1>4 DEF OffsetInv
  <2>1. q \in Parties /\ Turn(q) \in Parties BY TurnType DEF Inv, Leaders
  <2>2. Turn(q)' = Turn(q) /\ (HasTurn(Turn(q))' <=> HasTurn(Turn(q)))
    BY <1>1 DEF Turn, HasTurn
  <2>3. Used(q)' = Used(q) BY <1>1, <1>3, <1>5, <2>1, <2>2 DEF Used
  <2>4. AwaitsLseek(q)' = AwaitsLseek(q) BY <1>1, <1>3, <1>5, <1>6 DEF AwaitsLseek
  <2>5. pc[Root] # "open" BY <1>5, <1>6
  <2> QED BY <2>3, <2>4, <2>5 DEF Inv, OffsetInv
<1>10. LengthInv' BY <1>1, <1>4 DEF Inv, LengthInv
<1>11. FileInOrder' BY <1>1 DEF Inv, FileInOrder, Expected, Owner
<1>12. PassMeansAll' BY <1>1 DEF Inv, PassMeansAll
<1> QED BY <1>2, <1>4, <1>7, <1>8, <1>9, <1>10, <1>11, <1>12 DEF Inv

(* lseek() makes the offset that of the first record.                      *)
LEMMA LseekInv == ASSUME Inv, Lseek PROVE Inv'
<1>1. /\ pc[Root] = "lseek" /\ offset' = 0 /\ pc' = [pc EXCEPT ![Root] = "loop"]
      /\ UNCHANGED <<mode, phase, i, ii, entered, file, spawned, reaped, exit>>
  BY DEF Lseek, Goto
<1>2. Root \in Parties /\ \A q \in Tasks : q \in Parties
  BY SeekAssumption DEF Root, Parties, Tasks
<1>3. TypeInv' BY <1>1 DEF Inv, TypeInv
<1>4. returned' = returned BY <1>1 DEF Inv, TypeInv, returned
<1>5. SyncInv' /\ Leaders' = Leaders BY <1>1, <1>3, <1>4, StayInv DEF Inv, TypeInv
<1>6. \A q \in Parties : pc'[q] # pc[q] => q = Root /\ pc[q] = "lseek" /\ pc'[q] = "loop"
  BY <1>1 DEF Inv, TypeInv
<1>7. mode = "file" /\ phase[Root] = "read" /\ i[Root] = 0 /\ ii[Root] = 0
  BY <1>1, <1>2 DEF Inv, PartyInv
<1>8. Root \in Leaders BY <1>1, <1>2, NotWaitingLeads DEF Inv
<1>9. PartyInv' BY <1>1, <1>6 DEF Inv, PartyInv, HasTurn
<1>10. SpawnInv' BY <1>1, <1>2, <1>6 DEF Inv, TypeInv, SpawnInv
<1>11. OffsetInv' /\ LengthInv'
  <2> SUFFICES ASSUME NEW q \in Leaders
               PROVE  /\ ~AwaitsLseek(q)'
                      /\ offset' = Pieces * RecordAt(mode, i[q], ii[q]) + Used(q)'
                      /\ Len(file) = IF phase[q] = "write" THEN offset' ELSE TotalOf(mode)
    BY <1>1, <1>5 DEF OffsetInv, LengthInv
  <2>1. q \in Parties /\ SamePlace(Root, q) /\ returned[Root] = returned[q]
    BY <1>8, LeadersTogether DEF Inv, Leaders
  <2>2. pc'[Root] = "loop" BY <1>1, <1>2 DEF Inv, TypeInv
  <2>3. ~AwaitsLseek(q)' BY <1>4, <2>1, <2>2 DEF AwaitsLseek
  <2>4. Turn(q)' = Root BY <1>1, <1>7, <2>1 DEF Turn, SamePlace
  <2>5. Used(q)' = 0 BY <2>2, <2>4 DEF Used
  <2>6. RecordAt(mode, i[q], ii[q]) = 0
    BY <1>7, <2>1, SeekAssumption, RecordFacts DEF SamePlace
  <2>7. Len(file) = TotalOf(mode) BY <1>7, <1>8 DEF Inv, LengthInv
  <2> QED BY <1>1, <1>7, <2>1, <2>3, <2>5, <2>6, <2>7 DEF SamePlace, Pieces
<1>12. FileInOrder' BY <1>1 DEF Inv, FileInOrder, Expected, Owner
<1>13. PassMeansAll' BY <1>1, <1>2 DEF Inv, PassMeansAll
<1> QED BY <1>3, <1>5, <1>9, <1>10, <1>11, <1>12, <1>13 DEF Inv

(* Passing the barrier. The first to do so finds that everybody has        *)
(* entered it, so the turn before it is over; the others catch up.         *)
LEMMA ReturnInv == ASSUME Inv, NEW p \in Parties, Return(p) PROVE Inv'
<1>1. /\ pc[p] = "wait" /\ \A q \in Parties : entered[q] >= entered[p]
      /\ UNCHANGED <<mode, entered, file, offset, spawned, reaped, exit>>
  BY DEF Return, Released
<1>2. /\ phase[p] \in {"write", "read"} /\ i[p] \in 0..niters /\ ii[p] \in 0..ntasks
      /\ i[p] < niters /\ Root \in Parties /\ \A q \in Tasks : q \in Parties
  <2>1. phase[p] \in {"write", "read"} /\ i[p] \in 0..niters /\ ii[p] \in 0..ntasks
    BY DEF Inv, TypeInv
  <2>2. i[p] # niters BY <1>1 DEF Inv, PartyInv
  <2> QED BY <2>1, <2>2, SeekAssumption DEF Root, Parties, Tasks
<1>3. /\ \A q \in Parties \ {p} : /\ pc'[q] = pc[q] /\ phase'[q] = phase[q]
                                  /\ i'[q] = i[q] /\ ii'[q] = ii[q]
      /\ DOMAIN pc' = Parties /\ DOMAIN phase' = Parties /\ DOMAIN i' = Parties
      /\ DOMAIN ii' = Parties
  BY DEF Return, Goto, Inv, TypeInv
<1>4. LastBarrier(p) <=> ii[p] = ntasks
  BY <1>2, SeekAssumption DEF LastBarrier, BarriersOf
<1>5. /\ ii'[p] = IF ii[p] = ntasks THEN 0 ELSE ii[p] + 1
      /\ i'[p] = IF NextLoop(p) THEN 0 ELSE IF ii[p] = ntasks THEN i[p] + 1 ELSE i[p]
      /\ phase'[p] = IF NextLoop(p) THEN "read" ELSE phase[p]
      /\ pc'[p] = IF NextLoop(p) /\ p = Root THEN "lseek"
                  ELSE IF LoopOver(p) /\ ~NextLoop(p) THEN "done" ELSE "loop"
  BY <1>4 DEF Return, Goto, Inv, TypeInv
<1>6. /\ NextLoop(p) <=> LoopOver(p) /\ phase[p] = "write" /\ mode = "file"
      /\ LoopOver(p) <=> ii[p] = ntasks /\ i[p] + 1 = niters
  BY <1>4 DEF NextLoop, LoopOver
<1>7. TypeInv'
  <2>1. pc' \in [Parties -> {"open", "spawn", "unborn", "loop", "half", "used", "wait",
                             "lseek", "done"}]
    BY DEF Return, Goto, Inv, TypeInv
  <2>2. phase' \in [Parties -> {"write", "read"}] BY DEF Return, Inv, TypeInv
  <2>3. i'[p] \in 0..niters /\ ii'[p] \in 0..ntasks BY <1>2, <1>5, SeekAssumption
  <2>4. PICK x, y : i' = [i EXCEPT ![p] = x] /\ ii' = [ii EXCEPT ![p] = y] BY DEF Return
  <2>5. i' \in [Parties -> 0..niters] /\ ii' \in [Parties -> 0..ntasks]
    BY <2>3, <2>4 DEF Inv, TypeInv
  <2> QED BY <1>1, <2>1, <2>2, <2>5 DEF Inv, TypeInv
<1>8. PartyInv'
  BY <1>1, <1>2, <1>3, <1>5, <1>6, SeekAssumption DEF Inv, PartyInv, HasTurn
<1>9. SpawnInv'
  <2>1. pc[Root] # "open"
    <3>1. p \in Tasks \/ p = Root BY SeekAssumption DEF Parties, Tasks, Root
    <3> QED BY <1>1, <3>1, SeekAssumption DEF Inv, SpawnInv, Tasks
  <2> QED BY <1>1, <1>2, <1>3, <1>5, <2>1 DEF Inv, SpawnInv
<1>10. /\ returned \in [Parties -> Int] /\ returned' \in [Parties -> Int]
       /\ returned'[p] = returned[p] + 1 /\ returned'[p] = entered[p]
       /\ \A q \in Parties \ {p} : returned'[q] = returned[q]
  BY <1>1, <1>3, <1>5, <1>7 DEF Inv, TypeInv, returned
<1>11. \A q \in Parties : /\ returned[q] = returned[p] => pc[q] = "wait"
                          /\ returned[q] = returned[p] \/ returned[q] = returned[p] + 1
  <2> SUFFICES ASSUME NEW q \in Parties
               PROVE  /\ returned[q] = returned[p] => pc[q] = "wait"
                      /\ returned[q] = returned[p] \/ returned[q] = returned[p] + 1
    OBVIOUS
  <2>1. returned[q] <= entered[p] /\ entered[q] >= entered[p] BY <1>1 DEF Inv, SyncInv
  <2>2. entered[p] = returned[p] + 1 /\ entered[p] \in Nat /\ entered[q] \in Nat
    BY <1>10 DEF Inv, TypeInv
  <2>3. returned[q] = entered[q] - (IF pc[q] = "wait" THEN 1 ELSE 0) BY DEF returned
  <2> QED BY <1>10, <2>1, <2>2, <2>3
<1>12. ASSUME NEW q \in Parties \ {p}
       PROVE  /\ NextPlace(p, q) <=> SamePlace(p, q)'
              /\ SamePlace(q, p) => NextPlace(q, p)'
  BY <1>1, <1>2, <1>3, <1>5, <1>6 DEF NextPlace, SamePlace
<1>13. SyncInv'
  <2> SUFFICES ASSUME NEW a \in Parties, NEW b \in Parties
               PROVE  /\ returned'[b] <= entered'[a]
                      /\ returned'[a] = returned'[b] => SamePlace(a, b)'
                      /\ returned'[b] = returned'[a] + 1 => NextPlace(a, b)'
    BY DEF SyncInv
  <2>1. returned'[b] <= entered'[a]
    BY <1>1, <1>10 DEF Inv, SyncInv, TypeInv
  <2>2. CASE a = p /\ b = p BY <1>10, <2>1, <2>2 DEF SamePlace
  <2>3. CASE a = p /\ b # p
    BY <1>10, <1>11, <1>12, <2>1, <2>3 DEF Inv, SyncInv
  <2>4. CASE a # p /\ b = p
    BY <1>10, <1>11, <1>12, <2>1, <2>4 DEF Inv, SyncInv, SamePlace
  <2>5. CASE a # p /\ b # p
    BY <1>1, <1>3, <1>10, <2>1, <2>5 DEF Inv, SyncInv, SamePlace, NextPlace
  <2> QED BY <2>2, <2>3, <2>4, <2>5
<1>14. pc'[p] \in {"loop", "lseek", "done"} /\ pc[Root] # "open"
  <2>1. p \in Tasks \/ p = Root BY SeekAssumption DEF Parties, Tasks, Root
  <2> QED BY <1>1, <1>5, <2>1, SeekAssumption DEF Inv, SpawnInv, Tasks
<1>15. pc'[p] = "lseek" <=> /\ p = Root /\ mode = "file"
                            /\ phase'[p] = "read" /\ i'[p] = 0 /\ ii'[p] = 0
  BY <1>2, <1>5, <1>6, SeekAssumption
<1>16. NextLoop(p) <=> mode = "file" /\ phase'[p] = "read" /\ i'[p] = 0 /\ ii'[p] = 0
  BY <1>2, <1>5, <1>6, SeekAssumption
<1>17. Turn(p)' \in Parties /\ Turn(p) \in Parties
  <2>1. ii'[p] \in 0..ntasks BY <1>7 DEF TypeInv
  <2>2. Turn(p)' \in Parties BY <2>1, SeekAssumption DEF Turn, Parties, Root
  <2> QED BY <2>2, TurnType DEF Inv
(* The offset and the length of the file as p finds them.                  *)
<1>18. /\ offset = IF AwaitsLseek(p)' THEN TotalOf(mode)
                   ELSE Pieces * RecordAt(mode, i'[p], ii'[p]) + Used(p)'
       /\ Len(file) = IF phase'[p] = "write" THEN offset ELSE TotalOf(mode)
  <2>1. CASE \A q \in Parties : returned[q] = returned[p]
    <3>1. p \in Leaders BY <1>10, <2>1 DEF Leaders
    <3>2. ~AwaitsLseek(p) BY <1>2, <1>11, <2>1 DEF AwaitsLseek
    <3>3. HasTurn(Turn(p)) <=> mode = "file" \/ ii[p] > 0
      <4>1. ii[Turn(p)] = ii[p] BY <1>17, <2>1 DEF Inv, SyncInv, SamePlace
      <4> QED BY <1>2, <4>1, SeekAssumption DEF HasTurn, Turn, Slot, Root
    <3>4. Used(p) = IF mode = "file" \/ ii[p] > 0 THEN 2 ELSE 0
      BY <1>11, <1>17, <2>1, <3>3 DEF Used
    <3>5. /\ offset = Pieces * RecordAt(mode, i[p], ii[p]) + Used(p)
          /\ Len(file) = IF phase[p] = "write" THEN offset ELSE TotalOf(mode)
      BY <1>14, <3>1, <3>2 DEF Inv, OffsetInv, LengthInv
    <3>6. Used(p)' = 0
      BY <1>10, <1>14, <1>17, <2>1 DEF Used
    <3>7. RecordAt(mode, i[p], ii[p]) \in Nat BY <1>2, RecordFacts
    <3>8. CASE NextLoop(p)
      <4>1. AwaitsLseek(p)' BY <1>1, <1>2, <1>10, <1>15, <1>16, <2>1, <3>8 DEF AwaitsLseek
      <4>2. RecordAt(mode, niters, 0) = RecordAt(mode, i[p], ii[p]) + 1
        BY <1>2, <1>6, <3>8, RecordFacts
      <4>3. ii[p] > 0 BY <1>6, <3>8, SeekAssumption
      <4>4. offset = TotalOf(mode) BY <3>4, <3>5, <3>7, <4>2, <4>3 DEF TotalOf, Pieces
      <4> QED BY <1>5, <1>16, <3>8, <4>1, <4>4, <3>5, <1>6
    <3>9. CASE ~NextLoop(p)
      <4>1. ~AwaitsLseek(p)' BY <1>1, <1>16, <3>9 DEF AwaitsLseek
      <4>2. RecordAt(mode, i'[p], ii'[p]) =
              RecordAt(mode, i[p], ii[p]) + IF mode = "file" \/ ii[p] > 0 THEN 1 ELSE 0
        <5>1. CASE ii[p] = ntasks
          BY <1>2, <1>5, <3>9, <5>1, RecordFacts, SeekAssumption
        <5>2. CASE ii[p] # ntasks
          <6>1. ii[p] < ntasks /\ i'[p] = i[p] /\ ii'[p] = ii[p] + 1
            BY <1>2, <1>5, <3>9, <5>2, SeekAssumption
          <6> QED BY <1>2, <6>1, RecordFacts
        <5> QED BY <5>1, <5>2
      <4>3. offset = Pieces * RecordAt(mode, i'[p], ii'[p]) + Used(p)'
        BY <3>4, <3>5, <3>6, <3>7, <4>2 DEF Pieces
      <4> QED BY <1>5, <3>5, <3>9, <4>1, <4>3
    <3> QED BY <3>8, <3>9
  <2>2. CASE \E q \in Parties : returned[q] # returned[p]
    <3>1. PICK q \in Parties : returned[q] = returned[p] + 1 BY <1>11, <2>2
    <3>2. q # p /\ q \in Leaders BY <1>10, <1>11, <3>1 DEF Leaders
    <3>3. SamePlace(p, q)' /\ returned'[p] = returned[q] /\ returned[p] # returned[q]
      BY <1>10, <1>12, <3>1, <3>2 DEF Inv, SyncInv
    <3>4. phase'[p] = phase[q] /\ i'[p] = i[q] /\ ii'[p] = ii[q]
      BY <1>3, <3>2, <3>3 DEF SamePlace
    <3>5. AwaitsLseek(p)' <=> AwaitsLseek(q)
      <4>1. CASE p = Root BY <1>1, <1>15, <3>3, <3>4, <4>1 DEF AwaitsLseek
      <4>2. CASE p # Root BY <1>1, <1>2, <1>3, <1>10, <3>3, <3>4, <4>2 DEF AwaitsLseek
      <4> QED BY <4>1, <4>2
    <3>6. Turn(p)' = Turn(q) BY <3>4 DEF Turn
    <3>7. Used(p)' = Used(q)
      <4>1. CASE Turn(q) = p BY <1>14, <3>3, <3>6, <4>1 DEF Used
      <4>2. CASE Turn(q) # p
        <5>1. HasTurn(Turn(p))' <=> HasTurn(Turn(q))
          BY <1>1, <1>3, <1>17, <3>6, <4>2 DEF HasTurn
        <5> QED BY <1>3, <1>10, <1>17, <3>3, <3>6, <4>2, <5>1 DEF Used
      <4> QED BY <4>1, <4>2
    <3> QED BY <1>14, <3>2, <3>4, <3>5, <3>7 DEF Inv, OffsetInv, LengthInv
  <2> QED BY <2>1, <2>2
<1>19. OffsetInv' /\ LengthInv'
  <2> SUFFICES ASSUME NEW q \in Leaders'
               PROVE  /\ offset = IF AwaitsLseek(q)' THEN TotalOf(mode)
                                  ELSE Pieces * RecordAt(mode, i'[q], ii'[q]) + Used(q)'
                      /\ Len(file) = IF phase'[q] = "write" THEN offset ELSE TotalOf(mode)
    BY <1>1 DEF OffsetInv, LengthInv
  <2>1. q \in Parties /\ returned'[q] = returned'[p]
    BY <1>10, <1>11 DEF Leaders
  <2>2. phase'[q] = phase'[p] /\ i'[q] = i'[p] /\ ii'[q] = ii'[p]
    BY <1>13, <2>1 DEF SyncInv, SamePlace
  <2>3. AwaitsLseek(q)' = AwaitsLseek(p)' BY <2>1, <2>2 DEF AwaitsLseek
  <2>4. Turn(q)' = Turn(p)' BY <2>2 DEF Turn
  <2>5. Used(q)' = Used(p)' BY <2>1, <2>4 DEF Used
  <2> QED BY <1>18, <2>2, <2>3, <2>5
<1>20. FileInOrder' BY <1>1 DEF Inv, FileInOrder, Expected, Owner
<1>21. PassMeansAll' BY <1>1 DEF Inv, PassMeansAll
<1> QED BY <1>7, <1>8, <1>9, <1>13, <1>19, <1>20, <1>21 DEF Inv

-----------------------------------------------------------------------------
(* The root alone: opening the file, spawning, collecting, ending.         *)
LEMMA RootIsParty == Root \in Parties /\ (\A q \in Tasks : q \in Parties /\ q # Root)
                     /\ \A q \in Parties : q = Root \/ q \in Tasks
  BY SeekAssumption DEF Root, Parties, Tasks

LEMMA EndInv ==
  ASSUME Inv, UNCHANGED <<mode, pc, phase, i, ii, entered, file, offset, spawned>>,
         reaped' \subseteq {q \in Tasks : pc[q] = "done"}, PassMeansAll'
  PROVE  Inv'
<1>1. TypeInv' BY DEF Inv, TypeInv
<1>2. returned' = returned BY DEF returned
<1>3. Leaders' = Leaders BY <1>2 DEF Leaders
<1>4. PartyInv' /\ SpawnInv' BY DEF Inv, PartyInv, SpawnInv, HasTurn
<1>5. SyncInv' BY <1>2 DEF Inv, SyncInv, SamePlace, NextPlace
<1>6. OffsetInv' BY <1>2, <1>3 DEF Inv, OffsetInv, AwaitsLseek, Used, Turn, HasTurn
<1>7. LengthInv' BY <1>3 DEF Inv, LengthInv
<1>8. FileInOrder' BY DEF Inv, FileInOrder, Expected, Owner
<1> QED BY <1>1, <1>4, <1>5, <1>6, <1>7, <1>8 DEF Inv

(* Opening the file, or failing to.                                        *)
LEMMA OpenInv == ASSUME Inv, Open PROVE Inv'
<1>1. /\ pc[Root] = "open" /\ exit = Running
      /\ UNCHANGED <<mode, phase, i, ii, entered, spawned, reaped>>
  BY DEF Open
<1>2. /\ offset = 0 /\ mode \in {"file", "stdout", "stdin"} /\ file \in Seq(Parties \X {0, 1})
      /\ \A q \in Parties : /\ i[q] = 0 /\ ii[q] = 0
                            /\ phase[q] = IF mode = "stdin" THEN "read" ELSE "write"
  BY <1>1 DEF Inv, TypeInv, SpawnInv
<1>3. CASE exit' = EXIT_FAIL /\ UNCHANGED <<pc, file, offset>>
  <2>1. PassMeansAll' BY <1>3 DEF PassMeansAll, EXIT_FAIL, EXIT_PASS
  <2>2. reaped' \subseteq {q \in Tasks : pc[q] = "done"}
    BY <1>1, RootIsParty DEF Inv, TypeInv, PartyInv
  <2> QED BY <1>1, <1>3, <2>1, <2>2, EndInv
<1>4. CASE /\ pc' = [pc EXCEPT ![Root] = "spawn"] /\ exit' = exit
           /\ CASE mode = "file"   -> UNCHANGED <<file, offset>>
                [] mode = "stdout" -> /\ file' = <<Piece(Root, 0), Piece(Root, 1)>>
                                      /\ offset' = Pieces
                [] mode = "stdin"  -> offset' = Pieces /\ UNCHANGED file
  <2>1. TypeInv'
    <3>1. offset' \in Nat /\ file' \in Seq(Parties \X {0, 1})
      <4>1. CASE mode = "stdout"
        <5>1. file' = <<Piece(Root, 0), Piece(Root, 1)>> /\ offset' = Pieces BY <1>4, <4>1
        <5>2. Piece(Root, 0) \in Parties \X {0, 1} /\ Piece(Root, 1) \in Parties \X {0, 1}
          BY RootIsParty DEF Piece
        <5> QED BY <5>1, <5>2 DEF Pieces
      <4>2. CASE mode # "stdout"
        <5>1. file' = file /\ offset' \in {0, Pieces} BY <1>2, <1>4, <4>2
        <5> QED BY <1>2, <5>1 DEF Pieces
      <4> QED BY <4>1, <4>2
    <3> QED BY <1>1, <1>4, <3>1 DEF Inv, TypeInv
  <2>2. \A q \in Parties : pc'[q] # pc[q] => q = Root /\ pc[q] = "open" /\ pc'[q] = "spawn"
    BY <1>1, <1>4 DEF Inv, TypeInv
  <2>3. returned' = returned BY <1>1, <2>2 DEF returned
  <2>4. SyncInv' /\ Leaders' = Leaders BY <1>1, <2>1, <2>3, StayInv DEF Inv, TypeInv
  <2>5. PartyInv' BY <1>1, <2>2 DEF Inv, PartyInv, HasTurn
  <2>6. pc'[Root] = "spawn" BY <1>4, RootIsParty DEF Inv, TypeInv
  <2>7. SpawnInv'
    BY <1>1, <1>2, <2>2, <2>6, RootIsParty, SeekAssumption DEF Inv, SpawnInv
  <2>8. Root \in Leaders BY <1>1, RootIsParty, NotWaitingLeads DEF Inv
  <2>9. Len(file) = IF mode = "stdin" THEN TotalOf(mode) ELSE 0
    BY <1>2, <2>8, RootIsParty DEF Inv, LengthInv
  <2>10. /\ offset' = IF mode = "file" THEN 0 ELSE Pieces
         /\ Len(file') = IF mode = "stdin" THEN TotalOf(mode) ELSE offset'
    BY <1>2, <1>4, <2>9 DEF Pieces
  <2>11. OffsetInv' /\ LengthInv'
    <3> SUFFICES ASSUME NEW q \in Leaders
                 PROVE  /\ ~AwaitsLseek(q)'
                        /\ offset' = Pieces * RecordAt(mode, i[q], ii[q]) + Used(q)'
                        /\ Len(file') = IF phase[q] = "write" THEN offset' ELSE TotalOf(mode)
      BY <1>1, <2>4 DEF OffsetInv, LengthInv
    <3>1. i[q] = 0 /\ ii[q] = 0 /\ phase[q] = IF mode = "stdin" THEN "read" ELSE "write"
      BY <1>2 DEF Leaders
    <3>2. ~AwaitsLseek(q)' BY <1>1, <3>1 DEF AwaitsLseek
    <3>3. Turn(q)' = Root BY <1>1, <3>1 DEF Turn
    <3>4. Used(q)' = 0 BY <2>6, <3>3 DEF Used
    <3>5. RecordAt(mode, 0, 0) = IF mode = "file" THEN 0 ELSE 1
      BY SeekAssumption DEF RecordAt, RecordsPerIter
    <3> QED BY <2>10, <3>1, <3>2, <3>4, <3>5 DEF Pieces
  <2>12. FileInOrder'
    <3>1. CASE mode = "stdout"
      <4>1. Expected(1)' = Piece(Root, 0) /\ Expected(2)' = Piece(Root, 1)
        BY <1>1, <3>1 DEF Expected, Owner, RecordOf, Pieces
      <4>2. file' = <<Piece(Root, 0), Piece(Root, 1)>> BY <1>4, <3>1
      <4>3. DOMAIN file' = {1, 2} /\ file'[1] = Piece(Root, 0) /\ file'[2] = Piece(Root, 1)
        BY <4>2
      <4> QED BY <4>1, <4>3 DEF FileInOrder
    <3>2. CASE mode # "stdout"
      <4>1. file' = file BY <1>2, <1>4, <3>2
      <4> QED BY <1>1, <4>1 DEF Inv, FileInOrder, Expected, Owner
    <3> QED BY <3>1, <3>2
  <2>13. PassMeansAll' BY <1>1, <1>4 DEF PassMeansAll, Running, EXIT_PASS
  <2> QED BY <2>1, <2>4, <2>5, <2>7, <2>11, <2>12, <2>13 DEF Inv
<1> QED BY <1>3, <1>4 DEF Open, Goto

(* pip_spawn() gives one more task, and after the last the root goes on.   *)
LEMMA SpawnedInv == ASSUME Inv, Spawn PROVE Inv'
<1>1. /\ pc[Root] = "spawn" /\ exit = Running /\ spawned' = spawned + 1
      /\ pc' = [p \in Parties |-> IF p = spawned \/ (p = Root /\ spawned + 1 = ntasks)
                                  THEN "loop" ELSE pc[p]]
      /\ UNCHANGED <<mode, phase, i, ii, entered, file, offset, reaped, exit>>
  BY DEF Spawn
<1>2. spawned \in Nat /\ spawned < ntasks /\ spawned \in Tasks /\ pc[spawned] = "unborn"
  BY <1>1, SeekAssumption DEF Inv, TypeInv, SpawnInv, Tasks
<1>3. TypeInv' BY <1>1, <1>2, SeekAssumption DEF Inv, TypeInv
<1>4. \A q \in Parties : pc'[q] # pc[q] => pc[q] \in {"unborn", "spawn"} /\ pc'[q] = "loop"
  BY <1>1, <1>2
<1>5. returned' = returned BY <1>1, <1>4 DEF returned
<1>6. SyncInv' /\ Leaders' = Leaders BY <1>1, <1>3, <1>5, StayInv DEF Inv, TypeInv
<1>7. PartyInv' BY <1>1, <1>4 DEF Inv, PartyInv, HasTurn
<1>8. SpawnInv'
  <2>1. pc'[Root] = IF spawned + 1 = ntasks THEN "loop" ELSE "spawn"
    BY <1>1, <1>2, RootIsParty
  <2>2. \A q \in Tasks : pc'[q] = IF q = spawned THEN "loop" ELSE pc[q]
    BY <1>1, RootIsParty
  <2>3. \A q \in Tasks : q >= spawned + 1 <=> q >= spawned /\ q # spawned
    BY <1>2 DEF Tasks
  <2>4. \A q \in Tasks : pc'[q] = "unborn" <=> q >= spawned + 1
    BY <2>2, <2>3 DEF Inv, SpawnInv
  <2> QED BY <1>1, <1>2, <1>4, <2>1, <2>2, <2>4, RootIsParty, SeekAssumption DEF Inv, SpawnInv
<1>9. OffsetInv'
  <2> SUFFICES ASSUME NEW q \in Leaders
               PROVE  offset = IF AwaitsLseek(q)' THEN TotalOf(mode)
                               ELSE Pieces * RecordAt(mode, i[q], ii[q]) + Used(q)'
    BY <1>1, <1>6 DEF OffsetInv
  <2>1. q \in Parties /\ Turn(q) \in Parties BY TurnType DEF Inv, Leaders
  <2>2. Turn(q)' = Turn(q) /\ (HasTurn(Turn(q))' <=> HasTurn(Turn(q)))
    BY <1>1 DEF Turn, HasTurn
  <2>3. Used(q)' = Used(q) BY <1>4, <1>5, <2>1, <2>2 DEF Used
  <2>4. AwaitsLseek(q)' = AwaitsLseek(q) BY <1>1, <1>4, <1>5, RootIsParty DEF AwaitsLseek
  <2> QED BY <1>1, <2>3, <2>4 DEF Inv, OffsetInv
<1>10. LengthInv' BY <1>1, <1>6 DEF Inv, LengthInv
<1>11. FileInOrder' BY <1>1 DEF Inv, FileInOrder, Expected, Owner
<1>12. PassMeansAll' BY <1>1 DEF PassMeansAll, Running, EXIT_PASS
<1> QED BY <1>3, <1>6, <1>7, <1>8, <1>9, <1>10, <1>11, <1>12 DEF Inv

(* A failed spawn, a collected task, the end of the root.                  *)
LEMMA RootLastInv ==
  ASSUME Inv, SpawnFails \/ RootEnds \/ \E p \in Tasks : Reap(p)
  PROVE  Inv'
<1>1. reaped \subseteq {q \in Tasks : pc[q] = "done"}
  BY RootIsParty DEF Inv, TypeInv, PartyInv
<1>2. \A q \in Parties : pc[q] # "failed" BY DEF Inv, TypeInv
<1>3. CASE SpawnFails
  <2>1. PassMeansAll' BY <1>3 DEF SpawnFails, PassMeansAll, EXIT_FAIL, EXIT_PASS
  <2> QED BY <1>1, <1>3, <2>1, EndInv DEF SpawnFails
<1>4. CASE \E p \in Tasks : Reap(p)
  <2>1. PICK p \in Tasks : Reap(p) BY <1>4
  <2>2. pc[p] = "done" /\ reaped' = reaped \cup {p} /\ exit' = exit /\ exit = Running
        /\ UNCHANGED <<mode, pc, phase, i, ii, entered, file, offset, spawned>>
    BY <1>2, <2>1, RootIsParty DEF Reap
  <2>3. PassMeansAll' BY <2>2 DEF PassMeansAll, Running, EXIT_PASS
  <2> QED BY <1>1, <2>2, <2>3, EndInv
<1>5. CASE RootEnds
  <2>1. /\ pc[Root] = "done" /\ reaped = Tasks
        /\ UNCHANGED <<mode, pc, phase, i, ii, entered, file, offset, spawned, reaped>>
    BY <1>2, <1>5, RootIsParty DEF RootEnds
  <2>2. \A q \in Parties : pc[q] = "done" BY <1>1, <2>1, RootIsParty
  <2>3. Root \in Leaders /\ i[Root] = niters /\ ii[Root] = 0
    BY <2>1, RootIsParty, NotWaitingLeads DEF Inv, PartyInv
  <2>4. ~AwaitsLseek(Root) BY <2>3, SeekAssumption DEF AwaitsLseek
  <2>5. Used(Root) = 0 BY <2>1, <2>3 DEF Used, Turn
  <2>6. RecordAt(mode, niters, 0) \in Nat BY TotalType
  <2>7. offset = TotalOf(mode)
    BY <2>1, <2>3, <2>4, <2>5, <2>6 DEF Inv, OffsetInv, TotalOf, Pieces
  <2>8. Len(file) = TotalOf(mode) BY <2>3, <2>7 DEF Inv, LengthInv
  <2>9. Total' = TotalOf(mode) BY <2>1, TotalIs DEF Inv, TypeInv, Total
  <2>10. PassMeansAll' BY <2>1, <2>2, <2>7, <2>8, <2>9 DEF PassMeansAll
  <2> QED BY <1>1, <2>1, <2>10, EndInv
<1> QED BY <1>3, <1>4, <1>5

-----------------------------------------------------------------------------
LEMMA InitInv == Init => Inv
<1> SUFFICES ASSUME Init PROVE Inv OBVIOUS
<1>0. /\ mode \in {"file", "stdout", "stdin"}
      /\ pc = [p \in Parties |-> IF p = Root THEN "open" ELSE "unborn"]
      /\ phase = [p \in Parties |-> IF mode = "stdin" THEN "read" ELSE "write"]
      /\ i = [p \in Parties |-> 0] /\ ii = [p \in Parties |-> 0]
      /\ entered = [p \in Parties |-> 0]
      /\ offset = 0 /\ spawned = 0 /\ reaped = {} /\ exit = Running
      /\ file = IF mode = "stdin" THEN [n \in 1..Total |-> Expected(n)] ELSE <<>>
  BY DEF Init
<1>1. Total = TotalOf(mode) /\ Total \in Nat
  <2>1. RecordAt(mode, niters, 0) \in Nat BY TotalType
  <2> QED BY <1>0, <2>1, TotalIs DEF TotalOf, Pieces
<1>2. /\ file \in Seq(Parties \X {0, 1}) /\ FileInOrder
      /\ Len(file) = IF mode = "stdin" THEN TotalOf(mode) ELSE 0
  <2>1. CASE mode # "stdin"
    <3>1. file = <<>> BY <1>0, <2>1
    <3> QED BY <2>1, <3>1 DEF FileInOrder
  <2>2. CASE mode = "stdin"
    <3>1. ASSUME NEW n \in 1..Total PROVE Expected(n) \in Parties \X {0, 1}
      <4>1. n \in Nat /\ n >= 1 BY <1>1
      <4>2. RecordOf(n) \in Nat /\ (n - 1) % Pieces \in {0, 1} BY <4>1 DEF RecordOf, Pieces
      <4>3. RecordOf(n) # 0 => (RecordOf(n) - 1) % ntasks \in 0..(ntasks - 1)
        BY <4>2, SeekAssumption
      <4>4. Owner(RecordOf(n)) \in Parties
        BY <2>2, <4>3, SeekAssumption DEF Owner, Root, Parties
      <4> QED BY <4>2, <4>4 DEF Expected, Piece
    <3>2. file = [n \in 1..Total |-> Expected(n)] BY <1>0, <2>2
    <3>3. file \in Seq(Parties \X {0, 1}) /\ Len(file) = Total /\ DOMAIN file = 1..Total
      BY <1>1, <3>1, <3>2
    <3> QED BY <1>1, <2>2, <3>2, <3>3 DEF FileInOrder
  <2> QED BY <2>1, <2>2
<1>3. TypeInv BY <1>0, <1>2, SeekAssumption DEF TypeInv
<1>4. PartyInv BY <1>0, SeekAssumption DEF PartyInv
<1>5. SpawnInv BY <1>0, RootIsParty, SeekAssumption DEF SpawnInv, Tasks
<1>6. returned = [p \in Parties |-> 0] BY <1>0 DEF returned
<1>7. SyncInv BY <1>0, <1>6 DEF SyncInv, SamePlace
<1>8. OffsetInv BY <1>0, RootIsParty DEF OffsetInv
<1>9. LengthInv BY <1>0, <1>2 DEF LengthInv, Leaders
<1>10. PassMeansAll BY <1>0 DEF PassMeansAll, Running, EXIT_PASS
<1> QED BY <1>2, <1>3, <1>4, <1>5, <1>7, <1>8, <1>9, <1>10 DEF Inv

LEMMA NextInv == Inv /\ [Next]_vars => Inv'
<1> SUFFICES ASSUME Inv, [Next]_vars PROVE Inv' OBVIOUS
<1>1. CASE UNCHANGED vars
  <2>1. reaped \subseteq {q \in Tasks : pc[q] = "done"}
    BY RootIsParty DEF Inv, TypeInv, PartyInv
  <2>2. PassMeansAll' BY <1>1 DEF Inv, PassMeansAll, Total, vars
  <2> QED BY <1>1, <2>1, <2>2, EndInv DEF vars
<1>2. CASE RootStep
  BY <1>2, OpenInv, SpawnedInv, LseekInv, RootLastInv DEF RootStep
<1>3. CASE SpawnFails BY <1>3, RootLastInv
<1>4. CASE \E p \in Parties : Party(p)
  BY <1>4, AccessInv, EnterInv, ReturnInv DEF Party
<1> QED BY <1>1, <1>2, <1>3, <1>4 DEF Next, Terminated

(* The inductive invariant holds in every behaviour of seek.c.             *)
THEOREM Invariance == Spec => []Inv
<1> QED BY InitInv, NextInv, PTL DEF Spec

(* The file is in the order of the turns at every moment, for every number *)
(* of tasks and iterations.                                                *)
THEOREM FileCorrect == Spec => []FileInOrder
<1>1. Inv => FileInOrder BY DEF Inv
<1> QED BY <1>1, Invariance, PTL

(* What a party reads is always its own record.                            *)
THEOREM ReadsOwn == Spec => []OwnRecord
<1>1. Inv => OwnRecord BY DEF Inv, TypeInv, OwnRecord
<1> QED BY <1>1, Invariance, PTL

(* The root passes only when the whole file was written and read by all.   *)
THEOREM PassCorrect == Spec => []PassMeansAll
<1>1. Inv => PassMeansAll BY DEF Inv
<1> QED BY <1>1, Invariance, PTL

=============================================================================

-------------------------- MODULE TestResultsProofs --------------------------
(***************************************************************************)
(* What becomes of the exit statuses, for any number of tasks and          *)
(* iterations: no fault is lost on its way from a task to the root and     *)
(* from the root to its parent, the launchers return the status of the     *)
(* first task that failed, and where the library does what it should no    *)
(* CHECK fails.                                                            *)
(***************************************************************************)
EXTENDS TestProgramsProofs

(* Traces a fault leaves: a root or a parent that ended with something     *)
(* other than 0, a failed task nobody has waited for, and a status kept by *)
(* a process that will return it.                                          *)
Bad(p) == Gone(p) /\ state[p] # Exited(0)
Alarm(t) ==
  Exposed(test, t) /\ t \notin reaped /\ Gone(t) /\ state[t][1] = "exited" /\ state[t][2] # 0
Reporting(p) == state[p] = Alive /\ err[p] # 0 /\ ReportsErr(test, p)
Evidence ==
  \/ Bad(Outer)
  \/ Bad(Root) /\ Root \notin reaped
  \/ \E t \in Tasks : Alarm(t)
  \/ Reporting(Root) \/ Reporting(Parent)

(* Only what has ended is waited for, and the root is forked once.         *)
LifeInv ==
  /\ state[Outer] \in {Alive} \cup AnyStatus
  /\ \A p \in reaped : Gone(p)
  /\ \A k \in Places(test, Parent) :
       k >= pc[Parent] /\ Do(test, Parent, k) = "fork" => state[Root] = NotBorn

(* The place of the root tells how many tasks it has to wait for.          *)
CountInv ==
  /\ state[Root] = NotBorn => Unwaited = {}
  /\ state[Root] = Alive => Cardinality(Unwaited) =
       Before(test, pc[Root], "spawn") - Before(test, pc[Root], "wait")
  /\ state[Root] = Exited(0) => Unwaited = {}

(* The parent ends with 0 only after a root that did.                      *)
HandInv ==
  /\ \A j \in 1..(pc[Parent] - 1) : Do(test, Parent, j) = "wait" => Root \in reaped
  /\ Root \in reaped /\ state[Parent] = Alive /\ Bad(Root) => err[Parent] # 0
  /\ state[Parent] = Exited(0) => Root \in reaped /\ state[Root] = Exited(0)

WatchInv == LifeInv /\ CountInv /\ HandInv /\ (fault => Evidence)
Watch == Vigilant(test) => WatchInv

-----------------------------------------------------------------------------
(* Counting places and tasks.                                              *)
LEMMA BeforeFacts ==
  ASSUME NEW s, NEW do, NEW k \in Nat \ {0}
  PROVE  /\ Before(s, 1, do) = 0
         /\ Before(s, k, do) \in Nat
         /\ Before(s, k + 1, do) = Before(s, k, do) + IF Do(s, Root, k) = do THEN 1 ELSE 0
  BY MadeFacts DEF Before

LEMMA UnwaitedFinite == IsFiniteSet(Unwaited) /\ Cardinality(Unwaited) \in Nat
<1>1. IsFiniteSet(Tasks) BY TestOpsAssumption, FS_Interval DEF Tasks
<1>2. Unwaited \subseteq Tasks BY DEF Unwaited
<1> QED BY <1>1, <1>2, FS_Subset, FS_CardinalityType

(* The statuses that tell of a failure.                                    *)
LEMMA Statuses ==
  /\ \A c \in Nat : Exited(c)[1] = "exited" /\ Exited(c)[2] = c
  /\ \A c, d \in Nat : Exited(c) = Exited(d) => c = d
  /\ \A c \in Nat : Signaled(c) # Exited(0)
  /\ \A s \in AnyStatus : s # Exited(0) /\ s[1] = "exited" => s[2] # 0
  /\ \A s \in AnyStatus : s[1] = "exited" /\ s[2] # 0 => s # Exited(0)
  /\ EXIT_FAIL # 0 /\ EXIT_UNTESTED # 0 /\ EXIT_UNRESOLVED # 0 /\ EXIT_PASS = 0
  BY DEF Exited, Signaled, AnyStatus, EXIT_FAIL, EXIT_UNTESTED, EXIT_UNRESOLVED, EXIT_PASS

(* Who is alive: a parent is the outermost process, and nobody has waited  *)
(* for a process that is alive.                                            *)
LEMMA AliveFacts ==
  ASSUME Inv, LifeInv, NEW p \in Procs, state[p] = Alive
  PROVE  p \notin reaped /\ ~Gone(p) /\ (p = Parent => Outer = Parent)
<1>1. p \notin reaped /\ ~Gone(p) BY Lives DEF LifeInv, Gone
<1>2. ASSUME p = Parent PROVE Script(Parent) # <<>>
  <2>1. 1..Len(Script(Parent)) # {}
    BY <1>2, Lives DEF Inv, TypeInv, PlaceInv, Places, Script
  <2> QED BY <2>1
<1> QED BY <1>1, <1>2 DEF Outer

-----------------------------------------------------------------------------
(* The steps as far as statuses are concerned. A process goes on.          *)
Moves(p, n) ==
  /\ state[p] = Alive /\ n \in Nat /\ pc' = [pc EXCEPT ![p] = n]
  /\ UNCHANGED <<test, state, reaped, err, fault>>
  /\ \/ p \in Tasks \/ n = pc[p]
     \/ n = pc[p] + 1 /\ Op(p).do \notin {"spawn", "wait", "fork"}
     \/ n = pc[p] + 2 /\ Op(p).do = "spawn" /\ Op(p).errs # {}

(* A process ends; a root or a parent with 0 only at an end of its script, *)
(* and a fault is the end of its process.                                  *)
Falls(p, s) ==
  /\ state[p] = Alive /\ s \in AnyStatus /\ EndWith(p, s)
  /\ UNCHANGED <<test, pc, reaped, err>>
  /\ \/ s # Exited(0) \/ p \in Tasks
     \/ Op(p).do = "exit" /\ s \in Op(p).statuses
     \/ Op(p).do = "return err" /\ err[p] = 0
  /\ fault' # fault =>
       s # Exited(0) /\ (p \in Tasks => s[1] = "exited" /\ s[2] # 0 /\ Exposed(test, p))

LEMMA MovesWatch ==
  ASSUME Inv, WatchInv, Vigilant(test), NEW p \in Procs, NEW n, Moves(p, n)
  PROVE  WatchInv'
<1>0. /\ TypeInv /\ state[p] = Alive /\ n \in Nat /\ pc' = [pc EXCEPT ![p] = n]
      /\ UNCHANGED <<test, state, reaped, err, fault>> /\ pc \in [Procs -> Nat]
      /\ LifeInv /\ CountInv /\ HandInv /\ (fault => Evidence)
  BY DEF Moves, Inv, TypeInv, ProcType, WatchInv
<1>1. /\ pc[p] \in Places(test, p) /\ pc[p] \in Nat /\ Op(p) = ScriptOf(test, p)[pc[p]]
      /\ Op(p).do = Do(test, p, pc[p]) /\ pc[p] # 0
  BY <1>0, Present DEF Places
<1>2. Op(p).do = "spawn" => p = Root /\ (Op(p).errs # {} => Do(test, p, pc[p] + 1) = "wait")
  BY <1>1 DEF Vigilant, Orderly
<1>3. \A q \in Procs : pc'[q] = IF q = p THEN n ELSE pc[q] BY <1>0
<1>4. p \notin Tasks => n >= pc[p] BY <1>0, <1>1 DEF Moves
<1>5. LifeInv'
  <2>1. pc'[Parent] >= pc[Parent] /\ pc[Parent] \in Nat /\ pc'[Parent] \in Nat
    BY <1>0, <1>3, <1>4, Ids DEF Everybody
  <2>2. Places(test, Parent) \subseteq Nat BY <1>0, NotEmpty, Ids DEF Places
  <2>3. \A k \in Places(test, Parent) : k >= pc'[Parent] => k >= pc[Parent] BY <2>1, <2>2
  <2>4. Outer' = Outer /\ Places(test, Parent)' = Places(test, Parent)
    BY <1>0 DEF Outer, Script, Places
  <2> QED BY <1>0, <2>3, <2>4 DEF LifeInv, Gone
<1>6. CountInv'
  <2>1. Unwaited' = Unwaited BY <1>0 DEF Unwaited
  <2>2. CASE p # Root BY <1>0, <1>3, <2>1, <2>2, Ids DEF CountInv
  <2>3. CASE p = Root
    <3>1. n = pc[p] \/ (n = pc[p] + 1 /\ Op(p).do \notin {"spawn", "wait"})
            \/ (n = pc[p] + 2 /\ Op(p).do = "spawn" /\ Op(p).errs # {})
      BY <2>3, Ids DEF Moves
    <3>2. Before(test, n, "spawn") - Before(test, n, "wait")
            = Before(test, pc[p], "spawn") - Before(test, pc[p], "wait")
      <4>1. CASE n = pc[p] BY <4>1
      <4>2. CASE n = pc[p] + 1 /\ Op(p).do \notin {"spawn", "wait"}
        BY <1>1, <2>3, <4>2, BeforeFacts
      <4>3. CASE n = pc[p] + 2 /\ Op(p).do = "spawn" /\ Op(p).errs # {}
        <5>1. Do(test, Root, pc[p]) = "spawn" /\ Do(test, Root, pc[p] + 1) = "wait"
          BY <1>1, <1>2, <2>3, <4>3
        <5>2. /\ Before(test, pc[p] + 1, "spawn") = Before(test, pc[p], "spawn") + 1
              /\ Before(test, pc[p] + 1, "wait") = Before(test, pc[p], "wait")
              /\ Before(test, pc[p], "spawn") \in Nat /\ Before(test, pc[p], "wait") \in Nat
          BY <1>1, <5>1, BeforeFacts
        <5>3. /\ Before(test, (pc[p] + 1) + 1, "spawn") = Before(test, pc[p] + 1, "spawn")
              /\ Before(test, (pc[p] + 1) + 1, "wait") = Before(test, pc[p] + 1, "wait") + 1
              /\ Before(test, pc[p] + 1, "spawn") \in Nat /\ Before(test, pc[p] + 1, "wait") \in Nat
          <6>1. pc[p] + 1 \in Nat \ {0} BY <1>1
          <6> QED BY <5>1, <6>1, BeforeFacts
        <5>4. n = (pc[p] + 1) + 1 BY <1>1, <4>3
        <5> QED BY <5>2, <5>3, <5>4
      <4> QED BY <3>1, <4>1, <4>2, <4>3
    <3>3. pc'[Root] = n BY <1>3, <2>3
    <3> QED BY <1>0, <2>1, <2>3, <3>2, <3>3 DEF CountInv
  <2> QED BY <2>2, <2>3
<1>7. HandInv'
  <2>1. CASE p # Parent BY <1>0, <1>3, <2>1, Ids DEF HandInv, Bad, Gone
  <2>2. CASE p = Parent
    <3>1. n = pc[p] \/ (n = pc[p] + 1 /\ Do(test, p, pc[p]) # "wait")
      BY <1>1, <1>2, <2>2, Ids DEF Moves, Everybody
    <3>2. \A j \in 1..(n - 1) : j \in 1..(pc[p] - 1) \/ (j = pc[p] /\ Do(test, p, pc[p]) # "wait")
      BY <1>1, <3>1
    <3>3. pc'[Parent] = n BY <1>3, <2>2
    <3> QED BY <1>0, <2>2, <3>2, <3>3 DEF HandInv, Bad, Gone
  <2> QED BY <2>1, <2>2
<1>8. (fault => Evidence)'
  <2>1. Evidence' = Evidence
    BY <1>0 DEF Evidence, Bad, Gone, Alarm, Reporting, Outer, Script, Exposed, ReportsErr, Places
  <2> QED BY <1>0, <2>1
<1> QED BY <1>5, <1>6, <1>7, <1>8 DEF WatchInv

LEMMA FallsWatch ==
  ASSUME Inv, WatchInv, Vigilant(test), NEW p \in Procs, NEW s, Falls(p, s)
  PROVE  WatchInv'
<1>0. /\ TypeInv /\ state[p] = Alive /\ s \in AnyStatus /\ state' = [state EXCEPT ![p] = s]
      /\ UNCHANGED <<test, pc, reaped, err>> /\ state \in [Procs -> Life]
      /\ LifeInv /\ CountInv /\ HandInv /\ (fault => Evidence)
  BY DEF Falls, EndWith, Inv, TypeInv, ProcType, WatchInv
<1>1. /\ pc[p] \in Places(test, p) /\ pc[p] \in Nat /\ Op(p) = ScriptOf(test, p)[pc[p]]
      /\ Op(p).do = Do(test, p, pc[p]) /\ pc[p] # 0
  BY <1>0, Present DEF Places
<1>2. p \notin reaped /\ ~Gone(p) /\ (p = Parent => Outer = Parent) BY <1>0, AliveFacts
<1>3. \A q \in Procs : state'[q] = IF q = p THEN s ELSE state[q] BY <1>0
<1>4. Outer' = Outer /\ Outer \in Procs /\ Outer \in {Root, Parent}
  BY <1>0, Ids DEF Outer, Script
<1>5. s # Alive /\ s # NotBorn /\ Gone(p)' BY <1>0, <1>3, Lives DEF Gone
(* The last words of a root or a parent that says 0.                       *)
<1>6. ASSUME s = Exited(0), p \notin Tasks
      PROVE  \/ Op(p).do = "exit" /\ Exited(0) \in Op(p).statuses
             \/ Op(p).do = "return err" /\ err[p] = 0
  BY <1>6 DEF Falls
<1>7. ASSUME s = Exited(0), p = Root PROVE Unwaited = {}
  <2>1. Before(test, pc[p], "spawn") = Before(test, pc[p], "wait")
    BY <1>1, <1>6, <1>7, Ids DEF Vigilant, Balanced
  <2>2. Cardinality(Unwaited) = 0 BY <1>0, <1>1, <1>7, <2>1, BeforeFacts DEF CountInv
  <2> QED BY <2>2, UnwaitedFinite, FS_EmptySet
<1>8. ASSUME s = Exited(0), p = Parent PROVE Root \in reaped /\ state[Root] = Exited(0)
  <2>1. Op(p).do = "return err" /\ err[p] = 0
    BY <1>1, <1>6, <1>8, Ids DEF Vigilant, Relays, ReportsErr, Everybody
  <2>2. \E j \in 1..(pc[p] - 1) : Do(test, Parent, j) = "wait"
    BY <1>1, <1>8, <2>1 DEF Vigilant, Relays
  <2>3. Root \in reaped BY <1>0, <1>8, <2>2 DEF HandInv
  <2> QED BY <1>0, <1>8, <2>1, <2>3 DEF HandInv, LifeInv, Bad
<1>9. LifeInv'
  <2>1. Places(test, Parent)' = Places(test, Parent) BY <1>0 DEF Places
  <2>2. state'[Outer] \in {Alive} \cup AnyStatus BY <1>0, <1>3, <1>4 DEF LifeInv
  <2>3. \A q \in reaped : Gone(q)'
    BY <1>0, <1>2, <1>3 DEF LifeInv, Gone, TypeInv, LibType
  <2>4. state[Root] = NotBorn => state'[Root] = NotBorn BY <1>0, <1>3, Ids, Lives
  <2> QED BY <1>0, <1>4, <2>1, <2>2, <2>3, <2>4 DEF LifeInv
<1>10. CountInv'
  <2>1. Unwaited' = Unwaited BY <1>0, <1>3, <1>5, Ids, Lives DEF Unwaited
  <2>2. CASE p # Root BY <1>0, <1>3, <2>1, <2>2, Ids DEF CountInv
  <2>3. CASE p = Root
    <3>1. state'[Root] = s BY <1>3, <2>3
    <3> QED BY <1>5, <1>7, <2>1, <2>3, <3>1 DEF CountInv
  <2> QED BY <2>2, <2>3
<1>11. HandInv'
  <2>1. Root \in reaped => p # Root /\ state'[Root] = state[Root] BY <1>2, <1>3, Ids
  <2>2. CASE p # Parent
    BY <1>0, <1>3, <2>1, <2>2, Ids DEF HandInv, Bad, Gone
  <2>3. CASE p = Parent
    <3>1. state'[Parent] = s BY <1>3, <2>3
    <3> QED BY <1>0, <1>5, <1>8, <2>1, <2>3, <3>1 DEF HandInv
  <2> QED BY <2>2, <2>3
<1>12. ASSUME fault' PROVE Evidence'
  <2>1. CASE p \notin Tasks /\ s # Exited(0)
    <3>1. p \in {Root, Parent} BY <2>1 DEF Procs
    <3>2. Bad(p)' /\ p \notin reaped' BY <1>0, <1>2, <1>3, <1>5, <2>1 DEF Bad
    <3> QED BY <1>2, <1>4, <3>1, <3>2 DEF Evidence
  <2>2. CASE p \in Tasks /\ fault' # fault
    <3>1. s[1] = "exited" /\ s[2] # 0 /\ Exposed(test, p) BY <2>2 DEF Falls
    <3>2. Alarm(p)'
      BY <1>0, <1>2, <1>3, <1>5, <3>1 DEF Alarm, Exposed, Places
    <3> QED BY <2>2, <3>2 DEF Evidence
  <2>3. CASE (p \in Tasks \/ s = Exited(0)) /\ fault' = fault
    <3>1. Evidence BY <1>0, <1>12, <2>3
    <3>2. CASE Bad(Outer)
      <4>1. Bad(Outer)' BY <1>2, <1>3, <1>4, <3>2, Lives DEF Bad, Gone
      <4> QED BY <4>1 DEF Evidence
    <3>3. CASE Bad(Root) /\ Root \notin reaped
      <4>1. Bad(Root)' BY <1>2, <1>3, <3>3, Ids DEF Bad, Gone
      <4> QED BY <1>0, <3>3, <4>1 DEF Evidence
    <3>4. ASSUME NEW t \in Tasks, Alarm(t) PROVE Evidence'
      <4>1. state'[t] = state[t] BY <1>2, <1>3, <3>4, Ids DEF Alarm
      <4>2. Alarm(t)' BY <1>0, <3>4, <4>1 DEF Alarm, Gone, Exposed, Places
      <4> QED BY <4>2 DEF Evidence
    <3>5. ASSUME NEW q \in {Root, Parent}, Reporting(q) PROVE Evidence'
      <4>1. CASE q # p
        <5>1. Reporting(q)'
          BY <1>0, <1>3, <3>5, <4>1, Ids DEF Reporting, ReportsErr, Places
        <5> QED BY <5>1 DEF Evidence
      <4>2. CASE q = p
        <5>1. s = Exited(0) /\ p \notin Tasks BY <2>3, <4>2, Ids DEF Everybody
        <5>2. Op(p).do = "exit" /\ Exited(0) \in Op(p).statuses
          BY <1>6, <3>5, <4>2, <5>1 DEF Reporting
        <5> QED BY <1>1, <3>5, <4>2, <5>2 DEF Reporting, ReportsErr
      <4> QED BY <4>1, <4>2
    <3> QED BY <3>1, <3>2, <3>3, <3>4, <3>5 DEF Evidence
  <2>4. fault' # fault => p \in Tasks \/ s # Exited(0) BY DEF Falls
  <2> QED BY <2>1, <2>2, <2>3, <2>4
<1> QED BY <1>9, <1>10, <1>11, <1>12 DEF WatchInv

-----------------------------------------------------------------------------
(* A wait takes what it finds into the status its process keeps, or ends   *)
(* its process.                                                            *)
LEMMA Kept ==
  ASSUME Inv, NEW p \in Procs, NEW t, Reap(p, t), Op(p).sigval # 0
  PROVE  /\ err'[p] \in Nat /\ (err[p] # 0 => err'[p] # 0)
         /\ Bad(t) => err'[p] # 0
         /\ \A q \in Procs : q # p => err'[q] = err[q]
<1>0. state[p] = Alive /\ Op(p).do = "wait" /\ Gone(t) /\ TypeInv BY DEF Reap, At, Inv
<1>1. Op(p).sigval \in Nat BY <1>0, Present DEF Operands
<1>2. state[t][2] \in Nat BY <1>0, Lives DEF Gone
<1>3. err \in [Procs -> Nat] BY <1>0 DEF TypeInv, LibType
<1>4. err'[p] = FirstNonZero(p, t) /\ \A q \in Procs : q # p => err'[q] = err[q]
  BY <1>3 DEF Reap
<1>5. Bad(t) => ValueOf(p, state[t]) # 0 BY <1>0, Statuses DEF Bad, ValueOf, Gone
<1> QED BY <1>1, <1>2, <1>3, <1>4, <1>5 DEF FirstNonZero, ValueOf

LEMMA ReapWatch ==
  ASSUME Inv, WatchInv, Vigilant(test), NEW p \in Procs, NEW t, Reap(p, t)
  PROVE  WatchInv'
<1>0. /\ TypeInv /\ state[p] = Alive /\ Op(p).do = "wait" /\ Gone(t) /\ t \notin reaped
      /\ UNCHANGED <<test, fault>> /\ reaped' = reaped \cup {t}
      /\ t \in (IF p = Parent THEN {Root} ELSE Tasks)
      /\ pc \in [Procs -> Nat] /\ state \in [Procs -> Life] /\ reaped \subseteq Procs
      /\ LifeInv /\ CountInv /\ HandInv /\ (fault => Evidence)
  BY DEF Reap, At, Inv, TypeInv, ProcType, LibType, WatchInv
<1>1. /\ pc[p] \in Places(test, p) /\ pc[p] \in Nat /\ Op(p) = ScriptOf(test, p)[pc[p]]
      /\ Op(p).do = Do(test, p, pc[p]) /\ pc[p] # 0 /\ pc[p] + 1 \in Places(test, p)
      /\ Op(p).sigfail \in Nat
  <2>1. Operands(Op(p)) /\ Op(p).do \notin LastOps BY <1>0, Present DEF LastOps
  <2>2. Op(p).sigfail \in Nat BY <1>0, <2>1 DEF Operands
  <2>3. pc[p] # 0 /\ pc[p] + 1 \in Places(test, p) BY <1>0, <2>1, Present DEF Places
  <2> QED BY <1>0, <2>2, <2>3, Present
<1>2. p \in {Root, Parent} /\ Op(p).sigfail # 0 /\ Op(p).sigval # 0
  BY <1>0, <1>1 DEF Vigilant, Orderly
<1>3. /\ p \notin reaped /\ ~Gone(p) /\ (p = Parent => Outer = Parent) /\ t # p /\ t \in Procs
      /\ p = Root => t \in Tasks
  BY <1>0, <1>2, AliveFacts, Ids DEF Root, Parent
<1>4. Outer' = Outer /\ Outer \in Procs /\ Outer \in {Root, Parent}
  BY <1>0, Ids DEF Outer, Script
<1>5. /\ Bad(t) => err'[p] # 0
      /\ err[p] # 0 => err'[p] # 0
      /\ \A q \in Procs : q # p => err'[q] = err[q]
  BY <1>2, Kept
<1>6. \/ Advance(p) /\ (Op(p).ok[t] = Unchecked \/ state[t] \in Op(p).ok[t])
      \/ \E c \in Nat \ {0} : CheckFails(p, c)
  BY <1>1, <1>2, Statuses, Codes DEF Reap
<1>7. Places(test, Parent)' = Places(test, Parent) BY <1>0 DEF Places
<1>8. CASE Advance(p) /\ (Op(p).ok[t] = Unchecked \/ state[t] \in Op(p).ok[t])
  <2>0. state' = state /\ \A q \in Procs : pc'[q] = IF q = p THEN pc[p] + 1 ELSE pc[q]
    BY <1>0, <1>8 DEF Advance
  <2>1. LifeInv'
    <3>1. \A k \in Places(test, Parent) : k >= pc'[Parent] => k >= pc[Parent]
      BY <1>0, <1>1, <2>0, NotEmpty, Ids DEF Places
    <3> QED BY <1>0, <1>4, <1>7, <2>0, <3>1 DEF LifeInv, Gone
  <2>2. CountInv'
    <3>1. CASE p = Root
      <4>1. Unwaited' = Unwaited \ {t} /\ t \in Unwaited
        BY <1>0, <1>3, <2>0, <3>1, Lives DEF Unwaited, Gone
      <4>2. Cardinality(Unwaited') = Cardinality(Unwaited) - 1
        BY <4>1, UnwaitedFinite, FS_RemoveElement
      <4>3. /\ Before(test, pc[p] + 1, "spawn") = Before(test, pc[p], "spawn")
            /\ Before(test, pc[p] + 1, "wait") = Before(test, pc[p], "wait") + 1
            /\ Before(test, pc[p], "spawn") \in Nat /\ Before(test, pc[p], "wait") \in Nat
        BY <1>0, <1>1, <3>1, BeforeFacts
      <4>4. Cardinality(Unwaited) = Before(test, pc[p], "spawn") - Before(test, pc[p], "wait")
        BY <1>0, <3>1 DEF CountInv
      <4>5. pc'[Root] = pc[p] + 1 /\ state'[Root] = Alive BY <1>0, <2>0, <3>1
      <4> QED BY <1>0, <4>2, <4>3, <4>4, <4>5, UnwaitedFinite, Lives, Codes, Statuses DEF CountInv
    <3>2. CASE p = Parent
      <4>1. Unwaited' = Unwaited BY <1>0, <2>0, <3>2, Ids DEF Unwaited
      <4>2. pc'[Root] = pc[Root] BY <2>0, <3>2, Ids
      <4> QED BY <1>0, <2>0, <4>1, <4>2 DEF CountInv
    <3> QED BY <1>2, <3>1, <3>2
  <2>3. HandInv'
    <3>1. CASE p = Root
      <4>1. Root \in reaped' <=> Root \in reaped BY <1>0, <1>3, <3>1, Ids
      <4>2. pc'[Parent] = pc[Parent] /\ err'[Parent] = err[Parent]
        BY <1>5, <2>0, <3>1, Ids
      <4> QED BY <1>0, <2>0, <4>1, <4>2 DEF HandInv, Bad, Gone
    <3>2. CASE p = Parent
      <4>1. Root \in reaped' /\ t = Root BY <1>0, <3>2
      <4>2. Bad(Root)' => err'[Parent] # 0 BY <1>5, <2>0, <3>2, <4>1 DEF Bad, Gone
      <4>3. state'[Parent] # Exited(0)
        BY <1>0, <2>0, <3>2, Lives, Codes, Statuses
      <4> QED BY <4>1, <4>2, <4>3 DEF HandInv
    <3> QED BY <1>2, <3>1, <3>2
  <2>4. ASSUME fault' PROVE Evidence'
    <3>1. Evidence BY <1>0, <2>4
    <3>2. CASE Bad(Outer) BY <1>4, <2>0, <3>2 DEF Evidence, Bad, Gone
    <3>3. ASSUME p = Parent, Bad(Root) PROVE Evidence'
      <4>1. ReportsErr(test, Parent) BY DEF Vigilant, Relays
      <4>2. t = Root BY <1>0, <3>3
      <4>3. Reporting(Parent)'
        BY <1>0, <1>5, <1>7, <2>0, <3>3, <4>1, <4>2 DEF Reporting, ReportsErr
      <4> QED BY <4>3 DEF Evidence
    <3>4. CASE Bad(Root) /\ Root \notin reaped
      <4>1. CASE p = Parent BY <3>3, <3>4, <4>1
      <4>2. CASE p = Root BY <1>3, <3>4, <4>2 DEF Bad
      <4> QED BY <1>2, <4>1, <4>2
    <3>5. ASSUME NEW u \in Tasks, Alarm(u) PROVE Evidence'
      <4>1. CASE p = Parent
        <5>1. u \in Unwaited BY <3>5, Lives DEF Alarm, Unwaited, Gone
        <5>2. Gone(Root) /\ state[Root] # Exited(0) BY <1>0, <4>1, <5>1 DEF CountInv
        <5> QED BY <3>3, <4>1, <5>2 DEF Bad
      <4>2. CASE p = Root /\ u # t
        <5>1. Alarm(u)' BY <1>0, <2>0, <3>5, <4>2 DEF Alarm, Gone, Exposed, Places
        <5> QED BY <5>1 DEF Evidence
      <4>3. CASE p = Root /\ u = t
        <5>1. state[t][1] = "exited" /\ state[t][2] # 0 /\ Exposed(test, t)
          BY <3>5, <4>3 DEF Alarm
        <5>2. IF Op(p).ok[t] = Unchecked THEN ReportsErr(test, Root)
              ELSE \A st \in Op(p).ok[t] : st[1] = "exited" => st[2] = 0
          BY <1>0, <1>1, <1>3, <4>3, <5>1 DEF Vigilant, Looks
        <5>3. ReportsErr(test, Root) BY <1>8, <5>1, <5>2
        <5>4. Bad(t) BY <1>0, <5>1, Statuses DEF Bad, Gone
        <5>5. Reporting(Root)'
          BY <1>0, <1>5, <2>0, <4>3, <5>3, <5>4 DEF Reporting, ReportsErr, Places
        <5> QED BY <5>5 DEF Evidence
      <4> QED BY <1>2, <4>1, <4>2, <4>3
    <3>6. ASSUME NEW q \in {Root, Parent}, Reporting(q) PROVE Evidence'
      <4>1. err'[q] # 0 BY <1>5, <3>6, Ids DEF Reporting
      <4>2. Reporting(q)' BY <1>0, <2>0, <3>6, <4>1 DEF Reporting, ReportsErr, Places
      <4> QED BY <4>2 DEF Evidence
    <3> QED BY <3>1, <3>2, <3>4, <3>5, <3>6 DEF Evidence
  <2> QED BY <2>1, <2>2, <2>3, <2>4 DEF WatchInv
<1>9. ASSUME NEW c \in Nat \ {0}, CheckFails(p, c) PROVE WatchInv'
  <2>0. /\ pc' = pc /\ \A q \in Procs : state'[q] = IF q = p THEN Exited(c) ELSE state[q]
    BY <1>0, <1>9 DEF CheckFails, EndWith
  <2>1. Exited(c) \in AnyStatus /\ Exited(c) # Exited(0) /\ Exited(c) # Alive /\ Exited(c) # NotBorn
    BY Lives, Statuses
  <2>2. state'[t] = state[t] /\ state'[p] = Exited(c) BY <1>3, <2>0
  <2>3. Bad(p)' BY <2>1, <2>2 DEF Bad, Gone
  <2>4. LifeInv'
    <3>1. state'[Outer] \in {Alive} \cup AnyStatus BY <1>0, <1>4, <2>0, <2>1 DEF LifeInv
    <3>2. \A q \in reaped' : Gone(q)'
      BY <1>0, <1>3, <2>0, <2>2 DEF LifeInv, Gone
    <3>3. state[Root] = NotBorn => state'[Root] = NotBorn BY <1>0, <2>0, Ids, Lives
    <3> QED BY <1>0, <1>4, <1>7, <2>0, <3>1, <3>2, <3>3 DEF LifeInv
  <2>5. CountInv'
    <3>1. CASE p = Root BY <2>1, <2>2, <3>1 DEF CountInv
    <3>2. CASE p = Parent
      <4>1. Unwaited' = Unwaited BY <1>0, <2>0, <3>2, Ids DEF Unwaited, Parent, Tasks
      <4> QED BY <1>0, <2>0, <3>2, <4>1, Ids DEF CountInv
    <3> QED BY <1>2, <3>1, <3>2
  <2>6. HandInv'
    <3>1. CASE p = Root
      <4>1. Root \notin reaped' BY <1>0, <1>3, <3>1
      <4> QED BY <1>0, <1>3, <2>0, <3>1, <4>1, Ids DEF HandInv
    <3>2. CASE p = Parent
      BY <1>0, <2>0, <2>1, <2>2, <3>2 DEF HandInv
    <3> QED BY <1>2, <3>1, <3>2
  <2>7. Evidence'
    <3>1. p \notin reaped' BY <1>0, <1>3
    <3> QED BY <1>2, <1>3, <1>4, <2>3, <3>1 DEF Evidence
  <2> QED BY <2>4, <2>5, <2>6, <2>7 DEF WatchInv
<1> QED BY <1>6, <1>8, <1>9

(* A spawn makes one more task to wait for.                                *)
LEMMA SpawnWatch ==
  ASSUME Inv, WatchInv, Vigilant(test), NEW p \in Procs, DoSpawn(p)
  PROVE  WatchInv'
<1> DEFINE o == Op(p)
<1>0. /\ TypeInv /\ state[p] = Alive /\ o.do = "spawn" /\ UNCHANGED <<test, err, fault>>
      /\ state[o.who] = NotBorn \/ o.who \in reaped
      /\ state' = [q \in Procs |->
           IF q = o.who THEN IF o.active THEN Alive ELSE Queued(o.queue)
           ELSE IF o.active /\ state[q] = Queued(o.queue) THEN Alive ELSE state[q]]
      /\ pc' = [pc EXCEPT ![p] = @ + 1, ![o.who] = 1] /\ reaped' = reaped \ {o.who}
      /\ pc \in [Procs -> Nat] /\ state \in [Procs -> Life] /\ reaped \subseteq Procs
      /\ LifeInv /\ CountInv /\ HandInv /\ (fault => Evidence)
  BY DEF DoSpawn, At, Inv, TypeInv, ProcType, LibType, WatchInv
<1>1. /\ pc[p] \in Places(test, p) /\ pc[p] \in Nat /\ Op(p) = ScriptOf(test, p)[pc[p]]
      /\ Op(p).do = Do(test, p, pc[p]) /\ pc[p] # 0 /\ Operands(Op(p))
  BY <1>0, Present DEF Places
<1>2. o.who \in Tasks /\ o.who \in Procs BY <1>0, <1>1, Ids DEF Operands
<1>3. p = Root BY <1>0, <1>1 DEF Vigilant, Orderly
<1> HIDE DEF o
<1>4. Outer' = Outer /\ Outer \in Procs /\ Outer \in {Root, Parent}
  BY <1>0, Ids DEF Outer, Script
(* Nobody but the task and what is queued is touched.                      *)
<1>5. /\ \A q \in Procs : q # o.who /\ state[q] \notin Queues => state'[q] = state[q]
      /\ \A q \in Procs : q # o.who /\ state'[q] # state[q] =>
           state[q] = Queued(o.queue) /\ state'[q] = Alive
      /\ state'[o.who] # NotBorn
  <2>1. \A q \in Procs : q # o.who =>
          state'[q] = IF o.active /\ state[q] = Queued(o.queue) THEN Alive ELSE state[q]
    BY <1>0
  <2>3. state'[o.who] = IF o.active THEN Alive ELSE Queued(o.queue) BY <1>0, <1>2
  <2>4. Queued(o.queue) # NotBorn BY DEF Queued, NotBorn
  <2>5. \A s \in Life : s[1] = "queued" => s \in Queues
    BY DEF Life, Queues, NotBorn, Alive, AnyStatus
  <2>6. \A q \in Procs : state[q] = Queued(o.queue) => state[q] \in Queues
    BY <1>0, <2>5 DEF Queued
  <2> QED BY <2>1, <2>3, <2>4, <2>6, Lives
<1>6. /\ state'[Root] = Alive
      /\ pc'[Root] = pc[Root] + 1 /\ pc'[Parent] = pc[Parent]
  BY <1>0, <1>1, <1>2, <1>3, <1>5, Ids, Lives DEF Root, Parent, Tasks
<1>7. \A q \in Procs : Gone(q) /\ q # o.who => Gone(q)' /\ state'[q] = state[q]
  BY <1>5, Lives DEF Gone
<1>8. LifeInv'
  <2>1. Places(test, Parent)' = Places(test, Parent) BY <1>0 DEF Places
  <2>2. Outer # o.who BY <1>2, <1>4, Ids DEF Everybody
  <2>3. state'[Outer] \in {Alive} \cup AnyStatus
    BY <1>0, <1>4, <1>5, <2>2, Lives DEF LifeInv
  <2>4. \A q \in reaped' : Gone(q)' BY <1>0, <1>7 DEF LifeInv
  <2>5. \A k \in Places(test, Parent) :
          ~(k >= pc[Parent] /\ Do(test, Parent, k) = "fork")
    BY <1>0, <1>3, Lives DEF LifeInv
  <2> QED BY <1>0, <1>4, <1>6, <2>1, <2>3, <2>4, <2>5 DEF LifeInv
<1>9. CountInv'
  <2>1. Unwaited' = Unwaited \cup {o.who} /\ o.who \notin Unwaited
    <3>1. \A q \in Tasks : q # o.who => (state'[q] # NotBorn <=> state[q] # NotBorn)
      BY <1>5, Ids, Lives DEF Queued, NotBorn, Alive
    <3> QED BY <1>0, <1>2, <1>5, <3>1 DEF Unwaited
  <2>2. Cardinality(Unwaited') = Cardinality(Unwaited) + 1
    BY <2>1, UnwaitedFinite, FS_AddElement
  <2>3. /\ Before(test, pc[p] + 1, "spawn") = Before(test, pc[p], "spawn") + 1
        /\ Before(test, pc[p] + 1, "wait") = Before(test, pc[p], "wait")
        /\ Before(test, pc[p], "spawn") \in Nat /\ Before(test, pc[p], "wait") \in Nat
    BY <1>0, <1>1, <1>3, BeforeFacts DEF o
  <2>4. Cardinality(Unwaited) = Before(test, pc[p], "spawn") - Before(test, pc[p], "wait")
    BY <1>0, <1>3 DEF CountInv
  <2> QED BY <1>0, <1>3, <1>6, <2>2, <2>3, <2>4, UnwaitedFinite, Lives, Codes, Statuses
          DEF CountInv
<1>10. HandInv'
  <2>1. Root \notin reaped BY <1>0, <1>3, AliveFacts
  <2>2. Root \notin reaped' BY <1>0, <2>1
  <2>3. state'[Parent] # Exited(0)
    <3>1. state[Parent] # Exited(0) BY <1>0, <2>1 DEF HandInv
    <3>2. Parent # o.who BY <1>2, Ids
    <3> QED BY <1>5, <3>1, <3>2, Ids, Lives, Codes, Statuses DEF Exited, Alive
  <2> QED BY <1>0, <1>6, <2>1, <2>2, <2>3 DEF HandInv
<1>11. ASSUME fault' PROVE Evidence'
  <2>1. Evidence BY <1>0, <1>11
  <2>2. CASE Bad(Outer)
    <3>1. Outer # o.who BY <1>2, <1>4, Ids DEF Everybody
    <3>2. Bad(Outer)' BY <1>4, <1>7, <2>2, <3>1 DEF Bad
    <3> QED BY <3>2 DEF Evidence
  <2>3. ~Bad(Root) BY <1>0, <1>3, AliveFacts DEF Bad
  <2>4. ASSUME NEW t \in Tasks, Alarm(t) PROVE Evidence'
    <3>1. t # o.who BY <1>0, <2>4, Lives DEF Alarm, Gone
    <3>2. Alarm(t)' BY <1>0, <1>7, <2>4, <3>1, Ids DEF Alarm, Exposed, Places
    <3> QED BY <3>2 DEF Evidence
  <2>5. ASSUME NEW q \in {Root, Parent}, Reporting(q) PROVE Evidence'
    <3>1. state'[q] = Alive
      BY <1>2, <1>5, <2>5, Ids, Lives DEF Reporting, Everybody
    <3>2. Reporting(q)' BY <1>0, <2>5, <3>1 DEF Reporting, ReportsErr, Places
    <3> QED BY <3>2 DEF Evidence
  <2> QED BY <2>1, <2>2, <2>3, <2>4, <2>5 DEF Evidence
<1> QED BY <1>8, <1>9, <1>10, <1>11 DEF WatchInv

LEMMA ForkWatch ==
  ASSUME Inv, Inv', WatchInv, Vigilant(test), NEW p \in Procs, DoFork(p)
  PROVE  WatchInv'
<1>0. /\ TypeInv /\ state[p] = Alive /\ Op(p).do = "fork"
      /\ UNCHANGED <<test, err, fault, reaped>>
      /\ state' = [state EXCEPT ![Root] = Alive] /\ pc' = [pc EXCEPT ![p] = @ + 1]
      /\ pc \in [Procs -> Nat] /\ state \in [Procs -> Life] /\ reaped \subseteq Procs
      /\ LifeInv /\ CountInv /\ HandInv /\ (fault => Evidence)
  BY DEF DoFork, At, Inv, TypeInv, ProcType, LibType, WatchInv, lib
<1>1. /\ pc[p] \in Places(test, p) /\ pc[p] \in Nat /\ Op(p) = ScriptOf(test, p)[pc[p]]
      /\ Op(p).do = Do(test, p, pc[p]) /\ pc[p] # 0
  BY <1>0, Present DEF Places
<1>2. /\ p = Parent
      /\ \A j \in Places(test, p) : Do(test, p, j) = "fork" => j = pc[p]
  BY <1>0, <1>1, Zenon DEF Vigilant, Orderly
<1>3. Outer = Parent BY <1>0, <1>2, AliveFacts
<1>4. state[Root] = NotBorn /\ pc[Root] = 1
  <2>1. state[Root] = NotBorn BY <1>0, <1>1, <1>2 DEF LifeInv
  <2> QED BY <1>0, <2>1, Ids DEF TypeInv, PlaceInv
<1>5. /\ \A q \in Procs : q # Root => state'[q] = state[q]
      /\ state'[Root] = Alive /\ pc'[Root] = 1 /\ pc'[Parent] = pc[Parent] + 1
  BY <1>0, <1>2, <1>4, Ids DEF Everybody
<1>6. Root \notin reaped BY <1>0, <1>4, Lives DEF LifeInv, Gone
<1>7. Outer' = Outer BY <1>0 DEF Outer, Script
<1>8. LifeInv'
  <2>1. Places(test, Parent)' = Places(test, Parent) BY <1>0 DEF Places
  <2>2. state'[Outer] \in {Alive} \cup AnyStatus
    BY <1>0, <1>2, <1>3, <1>5, Ids DEF LifeInv, Everybody
  <2>3. \A q \in reaped' : Gone(q)' BY <1>0, <1>5, <1>6 DEF LifeInv, Gone
  <2>4. \A k \in Places(test, Parent) : ~(k >= pc'[Parent] /\ Do(test, Parent, k) = "fork")
    BY <1>1, <1>2, <1>5
  <2> QED BY <1>0, <1>7, <2>1, <2>2, <2>3, <2>4 DEF LifeInv
<1>9. CountInv'
  <2>1. Unwaited' = Unwaited
    <3>1. \A t \in Tasks : state'[t] = state[t] BY <1>5, Ids
    <3> QED BY <1>0, <3>1 DEF Unwaited
  <2>2. Cardinality(Unwaited) = 0 BY <1>0, <1>4, FS_EmptySet DEF CountInv
  <2>3. Before(test, 1, "spawn") = 0 /\ Before(test, 1, "wait") = 0 BY BeforeFacts
  <2>4. state'[Root] = Alive /\ Alive # NotBorn /\ Alive # Exited(0)
    BY <1>5, Lives, Statuses DEF Alive, Exited
  <2> QED BY <1>0, <1>5, <2>1, <2>2, <2>3, <2>4 DEF CountInv
<1>10. HandInv'
  <2>1. state'[Parent] # Exited(0)
    BY <1>0, <1>2, <1>5, Ids DEF Alive, Exited, Everybody
  <2>2. \A j \in 1..(pc[Parent] + 1 - 1) : j \in 1..(pc[Parent] - 1) \/ j = pc[Parent]
    BY <1>1, <1>2
  <2> QED BY <1>0, <1>1, <1>2, <1>5, <1>6, <2>1, <2>2 DEF HandInv
<1>11. ASSUME fault' PROVE Evidence'
  <2>1. Evidence BY <1>0, <1>11
  <2>2. ~Bad(Outer) /\ ~Bad(Root) /\ ~Reporting(Root)
    BY <1>0, <1>2, <1>3, <1>4, Lives DEF Bad, Gone, Reporting
  <2>3. ASSUME NEW t \in Tasks, Alarm(t) PROVE Evidence'
    <3>1. Alarm(t)' BY <1>0, <1>5, <2>3, Ids DEF Alarm, Gone, Exposed, Places
    <3> QED BY <3>1 DEF Evidence
  <2>4. ASSUME Reporting(Parent) PROVE Evidence'
    <3>1. Reporting(Parent)'
      BY <1>0, <1>5, <2>4, Ids DEF Reporting, ReportsErr, Places, Everybody
    <3> QED BY <3>1 DEF Evidence
  <2> QED BY <2>1, <2>2, <2>3, <2>4 DEF Evidence
<1> QED BY <1>8, <1>9, <1>10, <1>11 DEF WatchInv

(* The watchdog ends whatever is alive.                                    *)
LEMMA KillWatch ==
  ASSUME Inv, WatchInv, WatchdogKills
  PROVE  WatchInv'
<1>0. /\ TypeInv /\ UNCHANGED <<test, pc, err, fault, reaped>>
      /\ state \in [Procs -> Life] /\ reaped \subseteq Procs
      /\ LifeInv /\ CountInv /\ HandInv /\ (fault => Evidence)
  BY DEF WatchdogKills, Inv, TypeInv, ProcType, LibType, WatchInv, lib
<1> DEFINE s == Signaled(SIGKILL)
<1>1. SIGKILL \in Nat /\ s \in AnyStatus /\ s # Exited(0)
  BY Signals, Lives, Statuses
<1>2. \A q \in Procs : state'[q] = state[q] \/ (state[q] = Alive /\ state'[q] = s)
  <2>1. \A q \in Procs : state'[q] = IF state[q] = Alive THEN Signaled(SIGKILL) ELSE state[q]
    BY DEF WatchdogKills
  <2> QED BY <2>1
<1>3. s \in AnyStatus /\ s # Exited(0) /\ s # Alive /\ s # NotBorn BY <1>1, Lives
<1> HIDE DEF s
<1>4. Outer' = Outer /\ Outer \in Procs BY <1>0, Ids DEF Outer, Script
<1>5. \A q \in Procs : Gone(q) => Gone(q)' /\ state'[q] = state[q]
  BY <1>2, Lives DEF Gone
<1>6. LifeInv'
  <2>1. Places(test, Parent)' = Places(test, Parent) BY <1>0 DEF Places
  <2>2. state'[Outer] \in {Alive} \cup AnyStatus BY <1>0, <1>2, <1>3, <1>4 DEF LifeInv
  <2>3. \A q \in reaped' : Gone(q)' BY <1>0, <1>5 DEF LifeInv
  <2>4. state[Root] = NotBorn => state'[Root] = NotBorn BY <1>2, Ids, Lives
  <2> QED BY <1>0, <1>4, <2>1, <2>2, <2>3, <2>4 DEF LifeInv
<1>7. CountInv'
  <2>1. Unwaited' = Unwaited BY <1>0, <1>2, <1>3, Ids, Lives DEF Unwaited
  <2> QED BY <1>0, <1>2, <1>3, <2>1, Ids DEF CountInv
<1>8. HandInv'
  <2>1. Root \in reaped => Gone(Root) BY <1>0 DEF LifeInv
  <2> QED BY <1>0, <1>2, <1>3, <1>5, <2>1, Ids DEF HandInv, Bad
<1>9. ASSUME fault' PROVE Evidence'
  <2>1. state[Outer] = Alive BY <1>0 DEF WatchdogKills, LifeInv, Over, Gone
  <2>2. state'[Outer] = Signaled(SIGKILL) BY <1>4, <2>1 DEF WatchdogKills
  <2> QED BY <1>1, <1>4, <2>2 DEF Evidence, Bad, Gone, s
<1> QED BY <1>6, <1>7, <1>8, <1>9 DEF WatchInv

-----------------------------------------------------------------------------
(* Every other step lets one process go on or end.                         *)
OwnSteps(p) == (\E n : Moves(p, n)) \/ (\E s : Falls(p, s))

LEMMA PlainSteps ==
  ASSUME Inv, NEW p \in Procs, state[p] = Alive, UNCHANGED <<test, reaped, err, fault>>,
         \/ Advance(p) /\ Op(p).do \notin {"spawn", "wait", "fork"}
         \/ \E c \in Nat : DiesOf(p, c)
         \/ \E c \in Nat \ {0} : CheckFails(p, c)
         \/ UNCHANGED proc
  PROVE  OwnSteps(p)
<1>0. pc[p] \in Nat /\ pc \in [Procs -> Nat] BY DEF Inv, TypeInv, ProcType
<1>1. CASE Advance(p) /\ Op(p).do \notin {"spawn", "wait", "fork"}
  <2>1. Moves(p, pc[p] + 1) BY <1>0, <1>1 DEF Advance, Moves
  <2> QED BY <2>1 DEF OwnSteps
<1>2. ASSUME NEW c \in Nat, DiesOf(p, c) PROVE OwnSteps(p)
  <2>1. Falls(p, Signaled(c)) BY <1>2, Lives, Statuses DEF DiesOf, Falls
  <2> QED BY <2>1 DEF OwnSteps
<1>3. ASSUME NEW c \in Nat \ {0}, CheckFails(p, c) PROVE OwnSteps(p)
  <2>1. Falls(p, Exited(c)) BY <1>3, Lives, Statuses DEF CheckFails, Falls
  <2> QED BY <2>1 DEF OwnSteps
<1>4. CASE UNCHANGED proc
  <2>1. pc' = [pc EXCEPT ![p] = pc[p]] BY <1>0, <1>4 DEF proc
  <2>2. Moves(p, pc[p]) BY <1>0, <1>4, <2>1 DEF proc, Moves
  <2> QED BY <2>2 DEF OwnSteps
<1> QED BY <1>1, <1>2, <1>3, <1>4

(* A fault is met at an operation that a fault may end.                    *)
LEMMA FaultSteps ==
  ASSUME Inv, Vigilant(test), NEW p \in Procs, CallFaults(p) \/ SpawnFails(p) \/ ForkFails(p)
  PROVE  OwnSteps(p)
<1>0. state[p] = Alive /\ UNCHANGED <<test, reaped, err>> /\ TypeInv
  BY DEF CallFaults, SpawnFails, ForkFails, At, Inv
<1>1. /\ pc[p] \in Places(test, p) /\ Op(p) = ScriptOf(test, p)[pc[p]]
      /\ Op(p).do = Do(test, p, pc[p]) /\ Operands(Op(p))
  BY <1>0, Present
<1>2. Op(p).do \in FaultOps
  BY DEF CallFaults, SpawnFails, ForkFails, At, Checked, FaultOps
<1>3. Exposed(test, p) BY <1>1, <1>2 DEF Exposed
<1>4. PICK c \in Nat \ {0} : CheckFails(p, c)
  <2>1. Op(p).do = "call" => Op(p).fail \in Nat \ {0}
    BY <1>1 DEF Operands, Vigilant, Orderly
  <2> QED BY <2>1, Codes, Statuses DEF CallFaults, SpawnFails, ForkFails
<1>5. Falls(p, Exited(c))
  BY <1>0, <1>3, <1>4, Lives, Statuses DEF CheckFails, Falls
<1> QED BY <1>5 DEF OwnSteps

LEMMA CallSteps ==
  ASSUME Inv, Vigilant(test), NEW p \in Procs, DoCall(p)
  PROVE  OwnSteps(p)
<1>0. /\ state[p] = Alive /\ UNCHANGED <<test, reaped, err, fault>> /\ TypeInv
      /\ Op(p).do = "call"
  BY DEF DoCall, At, Inv
<1>1. Op(p).fail \in Nat \ {0}
  <2>1. Op(p).fail \in Nat BY <1>0, Present DEF Operands
  <2>2. pc[p] \in Places(test, p) /\ Op(p) = ScriptOf(test, p)[pc[p]] BY <1>0, Present
  <2> QED BY <1>0, <2>1, <2>2 DEF Vigilant, Orderly
<1>2. Advance(p) \/ CheckFails(p, Op(p).fail) BY DEF DoCall
<1> QED BY <1>0, <1>1, <1>2, PlainSteps

LEMMA EndSteps ==
  ASSUME Inv, NEW p \in Procs, DoArgs(p) \/ DoExit(p) \/ DoReturnErr(p) \/ DoRaise(p)
  PROVE  OwnSteps(p)
<1>0. state[p] = Alive /\ UNCHANGED <<test, reaped, err, fault>> /\ TypeInv
  BY DEF DoArgs, DoExit, DoReturnErr, DoRaise, At, Inv, lib
<1>1. Operands(Op(p)) BY <1>0, Present
<1>2. CASE DoArgs(p)
  <2>1. CASE Advance(p) BY <1>0, <1>2, <2>1, PlainSteps DEF DoArgs, At
  <2>2. CASE ~Advance(p)
    <3>1. Falls(p, Exited(EXIT_UNTESTED))
      BY <1>0, <1>2, <2>2, Codes, Lives, Statuses DEF DoArgs, Falls
    <3> QED BY <3>1 DEF OwnSteps
  <2> QED BY <2>1, <2>2
<1>3. CASE DoExit(p)
  <2>1. PICK s \in Op(p).statuses : EndWith(p, s) BY <1>3 DEF DoExit
  <2>2. s \in AnyStatus BY <1>1, <1>3, <2>1 DEF DoExit, At, Operands
  <2>3. Falls(p, s) BY <1>0, <1>3, <2>1, <2>2 DEF DoExit, At, Falls
  <2> QED BY <2>3 DEF OwnSteps
<1>4. CASE DoReturnErr(p)
  <2> DEFINE c == IF err[p] <= Op(p).largest THEN err[p] ELSE EXIT_FAIL
  <2>1. err[p] \in Nat BY <1>0 DEF TypeInv, LibType
  <2>2. c \in Nat /\ (err[p] # 0 => c # 0) BY <2>1, Codes, Statuses
  <2>3. EndWith(p, Exited(c)) BY <1>4 DEF DoReturnErr
  <2> HIDE DEF c
  <2>4. Exited(c) = Exited(0) => err[p] = 0 BY <2>2, Statuses
  <2>5. Falls(p, Exited(c)) BY <1>0, <1>4, <2>2, <2>3, <2>4, Lives DEF DoReturnErr, At, Falls
  <2> QED BY <2>5 DEF OwnSteps
<1>5. CASE DoRaise(p)
  <2>1. Op(p).sig \in Nat BY <1>1, <1>5 DEF DoRaise, At, Operands
  <2>2. CASE Op(p).sig = 0 BY <1>0, <1>5, <2>2, PlainSteps DEF DoRaise, At
  <2>3. CASE Op(p).sig # 0
    <3>1. Falls(p, Signaled(Op(p).sig))
      BY <1>0, <1>5, <2>1, <2>3, Lives, Statuses DEF DoRaise, Falls
    <3> QED BY <3>1 DEF OwnSteps
  <2> QED BY <2>2, <2>3
<1> QED BY <1>2, <1>3, <1>4, <1>5

LEMMA TestSteps ==
  ASSUME Inv, NEW p \in Procs,
         DoQueue(p) \/ DoHooks(p) \/ DoAbort(p) \/ Enter(p) \/ Leave(p) \/ DoLock(p)
           \/ DoUnlock(p) \/ DoLoad(p) \/ DoStore(p) \/ DoAtomic(p) \/ DoAssign(p) \/ DoCount(p)
  PROVE  OwnSteps(p)
<1>0. state[p] = Alive /\ UNCHANGED <<test, reaped, err, fault>>
  BY DEF DoQueue, DoHooks, DoAbort, Enter, Leave, DoLock, DoUnlock, DoLoad, DoStore, DoAtomic,
         DoAssign, DoCount, At, lib
<1>1. Op(p).do \notin {"spawn", "wait", "fork"}
  BY DEF DoQueue, DoHooks, DoAbort, Enter, Leave, DoLock, DoUnlock, DoLoad, DoStore, DoAtomic,
         DoAssign, DoCount, At
<1>2. Advance(p) \/ CheckFails(p, EXIT_FAIL) \/ UNCHANGED proc
  BY DEF DoQueue, DoHooks, DoAbort, Enter, Leave, DoLock, DoUnlock, DoLoad, DoStore, DoAtomic,
         DoAssign, DoCount
<1> QED BY <1>0, <1>1, <1>2, PlainSteps, Codes, Statuses

LEMMA CommSteps ==
  ASSUME Inv, NEW p \in Procs,
         DoExport(p) \/ DoImport(p) \/ DoForkChild(p) \/ DoRecord(p) \/ DoMask(p) \/ DoSender(p)
           \/ DoKill(p) \/ DoSigWait(p) \/ DoSenderIs(p) \/ DoTouch(p) \/ DoUnmap(p) \/ DoPipe(p)
           \/ DoCoe(p) \/ DoClose(p) \/ DoWrite(p) \/ DoRead(p)
  PROVE  OwnSteps(p)
<1>0. state[p] = Alive /\ UNCHANGED <<test, reaped, err, fault>>
  BY DEF DoExport, DoImport, DoForkChild, DoRecord, DoMask, DoSender, DoKill, DoSigWait,
         DoSenderIs, DoTouch, DoUnmap, DoPipe, DoCoe, DoClose, DoWrite, DoRead, At, lib
<1>1. Op(p).do \notin {"spawn", "wait", "fork"}
  BY DEF DoExport, DoImport, DoForkChild, DoRecord, DoMask, DoSender, DoKill, DoSigWait,
         DoSenderIs, DoTouch, DoUnmap, DoPipe, DoCoe, DoClose, DoWrite, DoRead, At
<1>2. Advance(p) \/ CheckFails(p, EXIT_FAIL) \/ DiesOf(p, SIGSEGV) \/ DiesOf(p, SIGPIPE)
  BY DEF DoExport, DoImport, DoForkChild, DoRecord, DoMask, DoSender, DoKill, DoSigWait,
         DoSenderIs, DoTouch, DoUnmap, DoPipe, DoCoe, DoClose, DoWrite, DoRead
<1> QED BY <1>0, <1>1, <1>2, PlainSteps, Codes, Signals, Statuses

LEMMA JumpSteps ==
  ASSUME Inv, Vigilant(test), NEW p \in Procs,
         DoRelay(p) \/ DoPassOn(p) \/ DoWaitChild(p) \/ SpawnRefused(p)
  PROVE  OwnSteps(p)
<1>0. state[p] = Alive /\ UNCHANGED <<test, reaped, err, fault>> /\ TypeInv
  BY DEF DoRelay, DoPassOn, DoWaitChild, SpawnRefused, At, lib, Inv
<1>1. /\ pc[p] \in Places(test, p) /\ pc[p] \in Nat /\ Op(p) = ScriptOf(test, p)[pc[p]]
      /\ pc[p] >= 1 /\ GoesOn(test, p, pc[p])
  BY <1>0, Present DEF Places
<1>2. CASE DoRelay(p) \/ DoPassOn(p)
  <2>1. p \in Tasks
    BY <1>1, <1>2 DEF DoRelay, DoPassOn, At, Vigilant, Orderly
  <2>2. CASE DoRelay(p)
    <3>1. PICK n \in {pc[p] + 1, pc[p] + 2} : pc' = [pc EXCEPT ![p] = n] /\ state' = state
      BY <2>2 DEF DoRelay
    <3>2. Moves(p, n) BY <1>0, <1>1, <2>1, <3>1 DEF Moves
    <3> QED BY <3>2 DEF OwnSteps
  <2>3. CASE DoPassOn(p) /\ DiesOf(p, SIGPIPE) BY <1>0, <2>3, PlainSteps, Signals
  <2>4. CASE pc' = [pc EXCEPT ![p] = @ - 1] /\ state' = state
    <3>1. pc[p] - 1 \in Nat BY <1>1
    <3>2. Moves(p, pc[p] - 1) BY <1>0, <2>1, <2>4, <3>1 DEF Moves
    <3> QED BY <3>2 DEF OwnSteps
  <2> QED BY <1>2, <2>2, <2>3, <2>4 DEF DoPassOn
<1>3. CASE DoWaitChild(p)
  <2>1. CASE CheckFails(p, EXIT_FAIL)
    BY <1>0, <2>1, PlainSteps, Codes, Statuses
  <2>2. ASSUME NEW hit \in {0, 1}, pc' = [pc EXCEPT ![p] = @ + hit], UNCHANGED <<state, failed>>
        PROVE  OwnSteps(p)
    <3>1. pc[p] + hit \in Nat /\ pc[p] + hit \in {pc[p], pc[p] + 1} BY <1>1, <2>2
    <3>2. Op(p).do \notin {"spawn", "wait", "fork"} BY <1>3 DEF DoWaitChild, At
    <3>3. Moves(p, pc[p] + hit) BY <1>0, <2>2, <3>1, <3>2 DEF Moves
    <3> QED BY <3>3 DEF OwnSteps
  <2> QED BY <1>3, <2>1, <2>2 DEF DoWaitChild
<1>4. CASE SpawnRefused(p)
  <2>1. Moves(p, pc[p] + 2) BY <1>0, <1>1, <1>4 DEF SpawnRefused, At, Moves
  <2> QED BY <2>1 DEF OwnSteps
<1> QED BY <1>2, <1>3, <1>4

(* A forked root that is killed from outside.                              *)
LEMMA RootKilledSteps == ASSUME Inv, RootKilled(SIGKILL) PROVE OwnSteps(Root)
<1>1. Falls(Root, Signaled(SIGKILL))
  BY Signals, Lives, Statuses, Ids DEF RootKilled, Falls
<1> QED BY <1>1 DEF OwnSteps

(* The abort ends one process at a time.                                   *)
LEMMA AbortWatch == ASSUME Inv, WatchInv, Vigilant(test), AbortArrives PROVE WatchInv'
<1>1. CASE CallBack
  <2>1. state[Root] = Alive /\ UNCHANGED <<test, reaped, err, fault, proc>>
    BY <1>1 DEF CallBack
  <2>2. OwnSteps(Root) BY <2>1, PlainSteps, Ids
  <2> QED BY <2>2, Ids, MovesWatch, FallsWatch DEF OwnSteps
<1>2. ASSUME NEW p \in Everybody, AbortEnds(p) PROVE WatchInv'
  <2>1. p \in Procs BY Ids DEF Everybody
  <2>2. Falls(p, Signaled(SIGABRT))
    BY <1>2, Signals, Lives, Statuses DEF AbortEnds, Falls, lib
  <2> QED BY <2>1, <2>2, FallsWatch
<1> QED BY <1>1, <1>2 DEF AbortArrives

LEMMA StepsWatch ==
  ASSUME Inv, WatchInv, Vigilant(test), NEW p \in Procs, OwnSteps(p)
  PROVE  WatchInv'
  BY MovesWatch, FallsWatch DEF OwnSteps

LEMMA NextWatch ==
  ASSUME Inv, Inv', WatchInv, Vigilant(test), Next
  PROVE  WatchInv'
<1>1. ASSUME NEW p \in Procs, Step(p) PROVE WatchInv'
  <2>1. CASE DoArgs(p) \/ DoExit(p) \/ DoReturnErr(p) \/ DoRaise(p)
    BY <2>1, EndSteps, StepsWatch
  <2>2. CASE DoCall(p) BY <2>2, CallSteps, StepsWatch
  <2>3. CASE DoSpawn(p) BY <2>3, SpawnWatch
  <2>4. CASE DoFork(p) BY <2>4, ForkWatch
  <2>5. CASE \E t \in Procs : Reap(p, t) BY <2>5, ReapWatch
  <2>6. CASE DoQueue(p) \/ DoHooks(p) \/ DoAbort(p) \/ Enter(p) \/ Leave(p) \/ DoLock(p)
               \/ DoUnlock(p) \/ DoLoad(p) \/ DoStore(p) \/ DoAtomic(p) \/ DoAssign(p)
               \/ DoCount(p)
    BY <2>6, TestSteps, StepsWatch
  <2>7. CASE DoExport(p) \/ DoImport(p) \/ DoForkChild(p) \/ DoRecord(p) \/ DoMask(p)
               \/ DoSender(p) \/ DoKill(p) \/ DoSigWait(p) \/ DoSenderIs(p) \/ DoTouch(p)
               \/ DoUnmap(p) \/ DoPipe(p) \/ DoCoe(p) \/ DoClose(p) \/ DoWrite(p) \/ DoRead(p)
    BY <2>7, CommSteps, StepsWatch
  <2>8. CASE DoRelay(p) \/ DoPassOn(p) \/ DoWaitChild(p) \/ SpawnRefused(p)
    BY <2>8, JumpSteps, StepsWatch
  <2> QED BY <1>1, <2>1, <2>2, <2>3, <2>4, <2>5, <2>6, <2>7, <2>8 DEF Step
<1>2. CASE \E p \in Procs : CallFaults(p) \/ SpawnFails(p) \/ ForkFails(p)
  BY <1>2, FaultSteps, StepsWatch
<1>3. CASE RootKilled(SIGKILL) BY <1>3, RootKilledSteps, StepsWatch, Ids
<1>4. CASE WatchdogKills BY <1>4, KillWatch
<1>5. CASE AbortArrives BY <1>5, AbortWatch
<1> QED BY <1>1, <1>2, <1>3, <1>4, <1>5 DEF Next, Progress, Faults

LEMMA InitWatch == Init => Watch
<1> SUFFICES ASSUME Init, Vigilant(test) PROVE WatchInv BY DEF Watch
<1>0. /\ pc = [p \in Procs |-> 1] /\ reaped = {} /\ fault = FALSE
      /\ state = [p \in Procs |-> IF p = Outer THEN Alive ELSE NotBorn]
  BY DEF Init
<1>1. Outer \in {Root, Parent} /\ Outer \in Procs BY Ids DEF Outer
<1>2. Unwaited = {} BY <1>0, <1>1, Ids DEF Unwaited, Everybody
<1>3. pc[Root] = 1 /\ pc[Parent] = 1 BY <1>0, Ids
<1>4. Before(test, 1, "spawn") = 0 /\ Before(test, 1, "wait") = 0 BY BeforeFacts
<1>5. state[Outer] = Alive BY <1>0, <1>1
<1>6. LifeInv
  <2>1. ASSUME Outer # Parent PROVE Places(test, Parent) = {}
    BY <2>1 DEF Outer, Script, Places
  <2>2. Outer = Parent => state[Root] = NotBorn BY <1>0, Ids DEF Everybody
  <2> QED BY <1>0, <1>5, <2>1, <2>2 DEF LifeInv
<1>7. CountInv
  <2>1. Cardinality(Unwaited) = 0 BY <1>2, FS_EmptySet
  <2> QED BY <1>2, <1>3, <1>4, <2>1 DEF CountInv
<1>8. HandInv
  <2>1. state[Parent] # Exited(0) BY <1>0, Ids DEF Exited, Alive, NotBorn
  <2> QED BY <1>0, <1>3, <2>1 DEF HandInv
<1> QED BY <1>0, <1>6, <1>7, <1>8 DEF WatchInv

LEMMA StutterWatch == ASSUME WatchInv, UNCHANGED vars PROVE WatchInv'
  BY DEF vars, proc, lib, WatchInv, LifeInv, CountInv, HandInv, Evidence, Bad, Gone, Alarm,
         Reporting, Outer, Script, Unwaited, Exposed, ReportsErr, Places, Before, Do

LEMMA WatchHolds == Spec => [](Inv /\ Watch)
<1>1. Inv /\ Watch /\ [Next]_vars => Inv' /\ Watch'
  <2> SUFFICES ASSUME Inv, Watch, [Next]_vars PROVE Inv' /\ Watch' OBVIOUS
  <2>1. Inv' BY NextInv
  <2>2. Vigilant(test)' => Vigilant(test)
    BY SameTest
  <2>3. ASSUME Vigilant(test) PROVE WatchInv'
    <3>1. WatchInv BY <2>3 DEF Watch
    <3>2. CASE Next BY <2>1, <2>3, <3>1, <3>2, NextWatch
    <3>3. CASE UNCHANGED vars BY <3>1, <3>3, StutterWatch
    <3> QED BY <3>2, <3>3
  <2> QED BY <2>1, <2>2, <2>3 DEF Watch
<1> QED BY <1>1, InitInv, InitWatch, PTL DEF Spec

(* No fault is lost: in every program that looks at the statuses of its    *)
(* tasks, with any number of them, a call, a spawn or a fork that fails in *)
(* any process, and a killed root, ends the program with something other   *)
(* than EXIT_PASS, in whatever order its processes run and end.            *)
THEOREM FaultsDetected == Spec => []FaultDetected
<1>1. Inv /\ Watch => FaultDetected
  <2> SUFFICES ASSUME Inv, Watch, fault, Name \notin StatusIgnored, state[Outer] = Exited(EXIT_PASS)
               PROVE  FALSE
    BY DEF FaultDetected
  <2>1. Vigilant(test) BY StatusAssumption DEF Inv, TypeInv, ProcType, Name
  <2>2. LifeInv /\ CountInv /\ HandInv /\ Evidence BY <2>1 DEF Watch, WatchInv
  <2>3. state[Outer] = Exited(0) /\ Exited(0) # Alive /\ Exited(0) # NotBorn
    BY Statuses DEF Exited, Alive, NotBorn
  <2>4. ~Bad(Outer) BY <2>3 DEF Bad
  <2>5. state[Root] = Exited(0)
    BY <2>2, <2>3 DEF Outer, HandInv
  <2>6. Outer = Parent => Root \in reaped BY <2>2, <2>3 DEF HandInv
  <2>7. \A t \in Tasks : ~Alarm(t)
    <3>1. Unwaited = {} BY <2>2, <2>5 DEF CountInv
    <3> QED BY <3>1, Lives DEF Alarm, Unwaited, Gone
  <2>8. ~Reporting(Root) BY <2>3, <2>5 DEF Reporting
  <2>9. ~Reporting(Parent)
    <3> SUFFICES ASSUME Reporting(Parent) PROVE FALSE OBVIOUS
    <3>1. Outer = Parent BY <2>2, AliveFacts, Ids DEF Reporting
    <3> QED BY <2>3, <3>1 DEF Reporting
  <2> QED BY <2>2, <2>4, <2>5, <2>7, <2>8, <2>9 DEF Evidence, Bad
<1> QED BY <1>1, WatchHolds, PTL

-----------------------------------------------------------------------------
(* The status a launcher has kept of some tasks: that of the first by      *)
(* number that did not exit with 0.                                        *)
First(S, e) ==
  \/ e = 0 /\ \A t \in S : Code(t) = 0
  \/ e # 0 /\ \E t \in S : e = Code(t) /\ \A u \in S : Code(u) # 0 => t <= u
Reported(e) == IF Name = "pip_task" /\ e > EXIT_KILLED THEN EXIT_FAIL ELSE e

(* The place of the root tells which tasks it has waited for, whether the  *)
(* library is initialised, and what the queue it looks at should be.       *)
RootInv == ~Gone(Root) =>
  /\ reaped \cap Tasks = Awaited(test, pc[Root])
  /\ First(reaped \cap Tasks, err[Root])
  /\ inited <=> Before(test, pc[Root], "call") = 1
  /\ Op(Root).do = "queue" =>
       (\A t \in Tasks : state[t] # Queued(Op(Root).queue)) = Op(Root).empty

(* How the tasks, the root and the parent end.                             *)
EndInv ==
  /\ \A t \in Tasks : Gone(t) => Code(t) \in 0..AnyCode
  /\ Gone(Root) =>
       \/ Outer = Root /\ state[Root] = Exited(EXIT_UNTESTED)
       \/ /\ Tasks \subseteq reaped
          /\ \E e \in 0..AnyCode : First(Tasks, e) /\ state[Root] = Exited(Reported(e))
  /\ ~Gone(Parent) => IF Root \in reaped THEN state[Root] = Exited(err[Parent])
                                         ELSE err[Parent] = 0
  /\ Gone(Parent) => \/ state[Parent] = Exited(EXIT_UNTESTED)
                     \/ Root \in reaped /\ state[Parent] = state[Root]

LaunchInv == aborting = "no" /\ failed = {} /\ RootInv /\ EndInv
Launch == Name \in {"pip_task", "pip_blt"} /\ ~fault => LaunchInv

LEMMA AwaitedFacts ==
  ASSUME NEW s, NEW k \in Nat \ {0}
  PROVE  /\ Awaited(s, 1) = {}
         /\ Awaited(s, k + 1) = Awaited(s, k) \cup
              IF Do(s, Root, k) = "wait" THEN {ScriptOf(s, Root)[k].who} ELSE {}
<1>1. Awaited(s, 1) = {} BY DEF Awaited
<1>2. \A j \in 1..((k + 1) - 1) : j \in 1..(k - 1) \/ j = k OBVIOUS
<1>3. \A j \in 1..(k - 1) : j \in 1..((k + 1) - 1) OBVIOUS
<1>4. k \in 1..((k + 1) - 1) OBVIOUS
<1> QED BY <1>1, <1>2, <1>3, <1>4 DEF Awaited

(* One more task, with a higher number than those before.                  *)
LEMMA FirstOfMore ==
  ASSUME NEW S \in SUBSET Int, NEW e, First(S, e), NEW t \in Int, \A u \in S : u < t
  PROVE  First(S \cup {t}, IF e = 0 THEN Code(t) ELSE e)
<1>1. CASE e = 0 BY <1>1 DEF First
<1>2. CASE e # 0
  <2>1. PICK u \in S : e = Code(u) /\ \A v \in S : Code(v) # 0 => u <= v BY <1>2 DEF First
  <2>2. u <= t BY <2>1
  <2> QED BY <1>2, <2>1, <2>2 DEF First
<1> QED BY <1>1, <1>2

LEMMA TaskInts == Tasks \subseteq Int /\ AnyCode \in Nat
  BY TestOpsAssumption DEF Tasks, AnyCode

(* What a process of a launcher does.                                      *)
LEMMA LaunchPlace ==
  ASSUME Inv, Launcher(test), state[Root] = Alive
  PROVE  /\ RootLaunches(test, pc[Root])
         /\ Op(Root).do # "return err" => RootLaunches(test, pc[Root] + 1)
         /\ pc[Root] \in Nat \ {0}
         /\ Op(Root) = ScriptOf(test, Root)[pc[Root]] /\ Op(Root).do = Do(test, Root, pc[Root])
<1>1. TypeInv /\ Root \in Procs BY Ids DEF Inv
<1>2. /\ pc[Root] \in Places(test, Root) /\ pc[Root] \in Nat
      /\ Op(Root) = ScriptOf(test, Root)[pc[Root]] /\ Op(Root).do = Do(test, Root, pc[Root])
      /\ Op(Root).do \notin LastOps => pc[Root] + 1 \in Places(test, Root)
  BY <1>1, Present
<1>3. pc[Root] # 0 BY <1>2 DEF Places
<1>4. RootLaunches(test, pc[Root]) BY <1>2 DEF Launcher
<1>5. Op(Root).do # "return err" => Op(Root).do \notin LastOps
  BY <1>2, <1>4 DEF RootLaunches, LastOps
<1>6. Op(Root).do # "return err" => RootLaunches(test, pc[Root] + 1)
  BY <1>2, <1>5 DEF Launcher
<1> QED BY <1>2, <1>3, <1>4, <1>6

LEMMA Kinds ==
  ASSUME Inv, Launcher(test), NEW p \in Procs, state[p] = Alive
  PROVE  /\ p = Root => Op(p).do \in {"args", "call", "spawn", "queue", "wait", "return err"}
         /\ p = Parent => Op(p).do \in {"args", "fork", "wait", "return err"}
         /\ p \in Tasks => Op(p).do = "exit"
<1>1. pc[p] \in Places(test, p) /\ Op(p) = ScriptOf(test, p)[pc[p]]
      /\ Op(p).do = Do(test, p, pc[p])
  BY Present DEF Inv
<1>2. p = Root => Op(p).do \in {"args", "call", "spawn", "queue", "wait", "return err"}
  BY LaunchPlace DEF RootLaunches
<1>3. p = Parent => Op(p).do \in {"args", "fork", "wait", "return err"}
  BY <1>1 DEF Launcher
<1>4. p \in Tasks => Op(p).do = "exit" BY <1>1 DEF Launcher
<1> QED BY <1>2, <1>3, <1>4

(* So a step is one of these, by these processes.                          *)
LEMMA LaunchSteps ==
  ASSUME Inv, Launcher(test), NEW p \in Procs, Step(p)
  PROVE  \/ p = Root /\ (DoArgs(p) \/ DoCall(p) \/ DoSpawn(p) \/ DoQueue(p) \/ DoReturnErr(p)
                          \/ \E t \in Procs : Reap(p, t))
         \/ p = Parent /\ (DoArgs(p) \/ DoFork(p) \/ DoReturnErr(p) \/ \E t \in Procs : Reap(p, t))
         \/ p \in Tasks /\ DoExit(p)
<1>1. state[p] = Alive
  <2>1. \E do : At(p, do)
    BY DEF Step, DoArgs, DoCall, DoSpawn, SpawnRefused, DoQueue, DoFork, Reap, DoExit, DoReturnErr,
           DoRaise, DoHooks, DoAbort, Enter, Leave, DoLock, DoUnlock, DoLoad, DoStore, DoAtomic,
           DoAssign, DoCount, DoExport, DoImport, DoForkChild, DoRecord, DoWaitChild, DoMask,
           DoSender, DoKill, DoSigWait, DoSenderIs, DoTouch, DoUnmap, DoPipe, DoCoe, DoClose,
           DoWrite, DoRead, DoRelay, DoPassOn
  <2> QED BY <2>1 DEF At
<1>2. Op(p).do \in {"args", "call", "spawn", "queue", "wait", "return err", "fork", "exit"}
  BY <1>1, Kinds DEF Procs
<1>3. ~SpawnRefused(p)
  <2> SUFFICES ASSUME SpawnRefused(p) PROVE FALSE OBVIOUS
  <2>1. Op(p).do = "spawn" /\ Op(p).errs # {} BY DEF SpawnRefused, At
  <2>2. p = Root BY <1>1, <2>1, Kinds DEF Procs
  <2> QED BY <1>1, <2>1, <2>2, LaunchPlace DEF RootLaunches
<1>4. \/ DoArgs(p) \/ DoCall(p) \/ DoSpawn(p) \/ DoQueue(p) \/ DoFork(p)
      \/ (\E t \in Procs : Reap(p, t)) \/ DoExit(p) \/ DoReturnErr(p)
  BY <1>2, <1>3
     DEF Step, At,
         DoRaise, DoHooks, DoAbort, Enter, Leave, DoLock, DoUnlock, DoLoad, DoStore, DoAtomic,
         DoAssign, DoCount, DoExport, DoImport, DoForkChild, DoRecord, DoWaitChild, DoMask,
         DoSender, DoKill, DoSigWait, DoSenderIs, DoTouch, DoUnmap, DoPipe, DoCoe, DoClose,
         DoWrite, DoRead, DoRelay, DoPassOn
<1>5. /\ DoArgs(p) => Op(p).do = "args"
      /\ DoCall(p) => Op(p).do = "call"
      /\ DoSpawn(p) => Op(p).do = "spawn"
      /\ DoQueue(p) => Op(p).do = "queue"
      /\ DoFork(p) => Op(p).do = "fork"
      /\ (\E t \in Procs : Reap(p, t)) => Op(p).do = "wait"
      /\ DoExit(p) => Op(p).do = "exit"
      /\ DoReturnErr(p) => Op(p).do = "return err"
  BY DEF DoArgs, DoCall, DoSpawn, DoQueue, DoFork, Reap, DoExit, DoReturnErr, At
<1>6. p = Root \/ p = Parent \/ p \in Tasks BY DEF Procs
<1> QED BY <1>1, <1>4, <1>5, <1>6, Kinds

(* The root, at place k, goes to the next.                                 *)
LEMMA RootNext ==
  ASSUME UNCHANGED test, NEW k \in Nat \ {0}, k = pc[Root], pc'[Root] = k + 1,
         RootLaunches(test, k + 1)
  PROVE  /\ Awaited(test, k + 1) = Awaited(test, k) \cup
              IF Op(Root).do = "wait" THEN {Op(Root).who} ELSE {}
         /\ Before(test, k + 1, "call")
              = Before(test, k, "call") + IF Op(Root).do = "call" THEN 1 ELSE 0
         /\ Before(test, k, "call") \in Nat
         /\ Op(Root)'.do = "queue" => /\ Op(Root).do = "spawn"
                                      /\ Op(Root)'.queue = Op(Root).queue
                                      /\ Op(Root)'.empty = Op(Root).active
<1>1. Op(Root) = ScriptOf(test, Root)[k] /\ Op(Root).do = Do(test, Root, k)
  BY DEF Op, Script, Do
<1>2. (k + 1) - 1 = k OBVIOUS
<1>3. Op(Root)' = ScriptOf(test, Root)[k + 1] BY DEF Op, Script
<1>4. Op(Root)'.do = "queue" => /\ Op(Root).do = "spawn"
                                /\ Op(Root)'.queue = Op(Root).queue
                                /\ Op(Root)'.empty = Op(Root).active
  BY <1>1, <1>2, <1>3 DEF RootLaunches
<1>5. Awaited(test, k + 1) = Awaited(test, k) \cup
        IF Op(Root).do = "wait" THEN {Op(Root).who} ELSE {}
  BY <1>1, AwaitedFacts
<1>6. /\ Before(test, k + 1, "call")
           = Before(test, k, "call") + IF Op(Root).do = "call" THEN 1 ELSE 0
      /\ Before(test, k, "call") \in Nat
  BY <1>1, BeforeFacts
<1> QED BY <1>4, <1>5, <1>6

(* A step of a task or of the parent that leaves the root where it is.     *)
LEMMA RootRests ==
  ASSUME LifeInv, RootInv, UNCHANGED <<test, inited>>,
         pc'[Root] = pc[Root], err'[Root] = err[Root], reaped' \cap Tasks = reaped \cap Tasks,
         Gone(Root) => Gone(Root)',
         \A t \in Tasks : state'[t] = state[t] \/ (state[t] = Alive /\ state'[t] \in AnyStatus)
  PROVE  RootInv'
<1> SUFFICES ASSUME ~Gone(Root)' PROVE RootInv' BY DEF RootInv
<1>1. ~Gone(Root) OBVIOUS
<1>2. Op(Root)' = Op(Root) BY DEF Op, Script
<1>3. \A t \in reaped \cap Tasks : Code(t)' = Code(t)
  <2>1. \A t \in reaped \cap Tasks : state'[t] = state[t] BY Lives DEF LifeInv, Gone
  <2> QED BY <2>1 DEF Code
<1>4. First(reaped \cap Tasks, err[Root])'
  BY <1>1, <1>3 DEF RootInv, First
<1>5. \A t \in Tasks : state'[t] # Queued(Op(Root).queue) <=> state[t] # Queued(Op(Root).queue)
  <2>1. \A q : Queued(q) # Alive /\ Queued(q) \notin AnyStatus BY DEF Queued, Alive, AnyStatus
  <2> QED BY <2>1
<1> QED BY <1>1, <1>2, <1>4, <1>5 DEF RootInv

(* The root goes on.                                                       *)
LEMMA RootMoves ==
  ASSUME Inv, LaunchInv, Launcher(test), state[Root] = Alive,
         Op(Root).do \in {"args", "call", "queue", "wait"},
         UNCHANGED <<test, state, failed, aborting>>, pc' = [pc EXCEPT ![Root] = @ + 1],
         err'[Parent] = err[Parent], Root \in reaped' <=> Root \in reaped,
         reaped' \cap Tasks = (reaped \cap Tasks) \cup
           IF Op(Root).do = "wait" THEN {Op(Root).who} ELSE {},
         First(reaped' \cap Tasks, err'[Root]),
         inited' <=> IF Op(Root).do = "call" THEN Before(test, pc[Root], "call") = 0 ELSE inited
  PROVE  LaunchInv'
<1>0. RootInv /\ EndInv /\ ~Gone(Root) /\ ~Gone(Root)' BY Lives DEF LaunchInv, Gone
<1>1. PICK k \in Nat \ {0} : k = pc[Root] BY LaunchPlace
<1>2. pc'[Root] = k + 1 BY <1>1, Ids DEF Inv, TypeInv, ProcType
<1>3. RootLaunches(test, k) /\ RootLaunches(test, k + 1)
      /\ Op(Root) = ScriptOf(test, Root)[k]
  BY <1>1, LaunchPlace
<1>4. /\ Awaited(test, k + 1) = Awaited(test, k) \cup
           IF Op(Root).do = "wait" THEN {Op(Root).who} ELSE {}
      /\ Before(test, k + 1, "call")
           = Before(test, k, "call") + IF Op(Root).do = "call" THEN 1 ELSE 0
      /\ Before(test, k, "call") \in Nat
      /\ Op(Root)'.do = "queue" => Op(Root).do = "spawn"
  BY <1>1, <1>2, <1>3, RootNext
<1>5. First(reaped \cap Tasks, err[Root])' BY DEF First, Code
<1>6. inited' <=> Before(test, k + 1, "call") = 1
  <2>1. CASE Op(Root).do = "call" BY <1>1, <1>4, <2>1
  <2>2. CASE Op(Root).do # "call"
    <3>1. Before(test, k + 1, "call") = Before(test, k, "call") BY <1>4, <2>2
    <3> QED BY <1>0, <1>1, <2>2, <3>1 DEF RootInv
  <2> QED BY <2>1, <2>2
<1>7. RootInv'
  <2>1. reaped' \cap Tasks = Awaited(test, pc'[Root])
    BY <1>0, <1>1, <1>2, <1>4 DEF RootInv
  <2> QED BY <1>2, <1>4, <1>5, <1>6, <2>1 DEF RootInv
<1>8. EndInv'
  <2>1. \A t \in Tasks : Code(t)' = Code(t) BY DEF Code
  <2> QED BY <1>0, <2>1 DEF EndInv, Gone
<1> QED BY <1>7, <1>8 DEF LaunchInv

LEMMA RootCalls ==
  ASSUME Inv, LaunchInv, Launcher(test), DoCall(Root)
  PROVE  LaunchInv'
<1>0. /\ state[Root] = Alive /\ Op(Root).do = "call" /\ ~Gone(Root)
      /\ UNCHANGED <<test, aborting, reaped, err>> /\ RootInv /\ TypeInv
  BY Lives DEF DoCall, At, Gone, LaunchInv, Inv
<1>1. /\ RootLaunches(test, pc[Root]) /\ Op(Root) = ScriptOf(test, Root)[pc[Root]]
      /\ inited <=> Before(test, pc[Root], "call") = 1
  BY <1>0, LaunchPlace DEF RootInv
<1>2. PICK rv \in Returns(Root, Op(Root).f, Op(Root).arg, inited, Unwaited) :
        IF rv \in Op(Root).expect
        THEN /\ Advance(Root)
             /\ inited' = IF rv = "0" /\ Op(Root).f \in {"pip_init", "pip_fin"}
                          THEN Op(Root).f = "pip_init" ELSE inited
        ELSE CheckFails(Root, Op(Root).fail) /\ UNCHANGED inited
  BY DEF DoCall
<1>3. rv = "0" /\ Op(Root).expect = Ok /\ Op(Root).f \in {"pip_init", "pip_fin"}
      /\ (Op(Root).f = "pip_init" <=> Before(test, pc[Root], "call") = 0)
  <2>1. CASE /\ Op(Root).f = "pip_init" /\ Op(Root).arg = PipInit.arg /\ Op(Root).expect = Ok
             /\ Before(test, pc[Root], "call") = 0
    <3>1. ~inited BY <1>1, <2>1
    <3>2. Returns(Root, Op(Root).f, Op(Root).arg, inited, Unwaited)
            = InitReturns(Op(Root).arg, inited)
      BY <2>1 DEF Returns
    <3>3. /\ Op(Root).arg.opts = "none" /\ Op(Root).arg.ntasks = "some"
          /\ Op(Root).arg.mode = "none"
      BY <2>1 DEF PipInit, Call
    <3>4. InitReturns(Op(Root).arg, inited) = Ok BY <3>1, <3>3 DEF InitReturns
    <3> QED BY <1>2, <2>1, <3>2, <3>4 DEF Ok
  <2>2. CASE /\ Op(Root).f = "pip_fin" /\ Op(Root).expect = Ok
             /\ Before(test, pc[Root], "call") = 1 /\ Tasks \subseteq Awaited(test, pc[Root])
    <3>1. inited BY <1>1, <2>2
    <3>2. Unwaited = {} BY <1>0, <2>2 DEF RootInv, Unwaited
    <3>3. Returns(Root, Op(Root).f, Op(Root).arg, inited, Unwaited) = Ok
      BY <2>2, <3>1, <3>2 DEF Returns, FinReturns, Ok
    <3> QED BY <1>2, <2>2, <3>3 DEF Ok
  <2> QED BY <1>0, <1>1, <2>1, <2>2 DEF RootLaunches
<1>4. Advance(Root) /\ inited' = (Op(Root).f = "pip_init") BY <1>2, <1>3 DEF Ok
<1>5. reaped \cap Tasks = (reaped \cap Tasks) \cup {} /\ First(reaped \cap Tasks, err[Root])
  BY <1>0 DEF RootInv
<1> QED BY <1>0, <1>3, <1>4, <1>5, RootMoves DEF Advance

LEMMA RootWaits ==
  ASSUME Inv, LifeInv, LaunchInv, Launcher(test), NEW t \in Procs, Reap(Root, t)
  PROVE  LaunchInv'
<1>0. /\ state[Root] = Alive /\ Op(Root).do = "wait" /\ ~Gone(Root) /\ Gone(t)
      /\ Op(Root).who \in {t, ANY} /\ t \in Tasks \ reaped
      /\ UNCHANGED <<test, aborting, inited>> /\ reaped' = reaped \cup {t}
      /\ err' = [err EXCEPT ![Root] = FirstNonZero(Root, t)] /\ err \in [Procs -> Nat]
      /\ RootInv /\ EndInv
  BY Lives, Ids DEF Reap, At, Gone, LaunchInv, Inv, TypeInv, LibType, Everybody
<1>1. /\ RootLaunches(test, pc[Root]) /\ Op(Root) = ScriptOf(test, Root)[pc[Root]]
  BY <1>0, LaunchPlace
<1>2. /\ Op(Root).who \in Tasks /\ \A u \in Awaited(test, pc[Root]) : u < Op(Root).who
      /\ Op(Root).sigval = EXIT_UNRESOLVED /\ Op(Root).ok[t] = Unchecked
  BY <1>0, <1>1 DEF RootLaunches
<1>3. Op(Root).who = t BY <1>0, <1>2, Ids
<1>4. ValueOf(Root, state[t]) = Code(t) BY <1>2 DEF ValueOf, Code
<1>5. err'[Parent] = err[Parent] /\ err'[Root] = IF err[Root] = 0 THEN Code(t) ELSE err[Root]
  BY <1>0, <1>4, Ids DEF FirstNonZero, Everybody
<1>6. First(reaped' \cap Tasks, err'[Root])
  <2>1. reaped' \cap Tasks = (reaped \cap Tasks) \cup {t} BY <1>0
  <2>2. First(reaped \cap Tasks, err[Root]) /\ \A u \in reaped \cap Tasks : u < t
    BY <1>0, <1>2, <1>3 DEF RootInv
  <2>3. reaped \cap Tasks \in SUBSET Int /\ t \in Int BY <1>0, TaskInts
  <2> QED BY <1>5, <2>1, <2>2, <2>3, FirstOfMore
<1>7. Advance(Root) BY <1>2 DEF Reap
<1>8. reaped' \cap Tasks = (reaped \cap Tasks) \cup {t} /\ (Root \in reaped' <=> Root \in reaped)
  BY <1>0, Ids
<1> QED BY <1>0, <1>3, <1>5, <1>6, <1>7, <1>8, RootMoves DEF Advance

LEMMA RootLooks ==
  ASSUME Inv, LaunchInv, Launcher(test), DoQueue(Root)
  PROVE  LaunchInv'
<1>0. /\ state[Root] = Alive /\ Op(Root).do = "queue" /\ ~Gone(Root)
      /\ UNCHANGED <<test, aborting, reaped, err, inited>> /\ RootInv
  BY Lives DEF DoQueue, At, Gone, LaunchInv, lib
<1>1. /\ RootLaunches(test, pc[Root]) /\ Op(Root) = ScriptOf(test, Root)[pc[Root]]
  BY <1>0, LaunchPlace
<1>2. (\A t \in Tasks : state[t] # Queued(Op(Root).queue)) = Op(Root).empty
  BY <1>0 DEF RootInv
<1>4. Advance(Root) BY <1>2, Zenon DEF DoQueue
<1>5. reaped \cap Tasks = (reaped \cap Tasks) \cup {} /\ First(reaped \cap Tasks, err[Root])
  BY <1>0 DEF RootInv
<1> QED BY <1>0, <1>4, <1>5, RootMoves DEF Advance

LEMMA RootSpawns ==
  ASSUME Inv, LaunchInv, Launcher(test), DoSpawn(Root)
  PROVE  LaunchInv'
<1> DEFINE o == Op(Root)
<1>0. /\ state[Root] = Alive /\ o.do = "spawn" /\ ~Gone(Root)
      /\ state[o.who] = NotBorn \/ o.who \in reaped
      /\ state' = [q \in Procs |->
           IF q = o.who THEN IF o.active THEN Alive ELSE Queued(o.queue)
           ELSE IF o.active /\ state[q] = Queued(o.queue) THEN Alive ELSE state[q]]
      /\ pc' = [pc EXCEPT ![Root] = @ + 1, ![o.who] = 1] /\ reaped' = reaped \ {o.who}
      /\ UNCHANGED <<test, failed, inited, err, aborting>>
      /\ pc \in [Procs -> Nat] /\ RootInv /\ EndInv
  BY Lives DEF DoSpawn, At, Gone, LaunchInv, Inv, TypeInv, ProcType
<1>1. PICK k \in Nat \ {0} : k = pc[Root] BY <1>0, LaunchPlace
<1>2. /\ RootLaunches(test, k) /\ RootLaunches(test, k + 1) /\ o = ScriptOf(test, Root)[k]
  BY <1>0, <1>1, LaunchPlace
<1>3. /\ o.who \in Tasks /\ o.who \in Procs /\ o.active \in BOOLEAN
      /\ o.who # Root /\ o.who # Parent
  <2>1. Operands(o) BY <1>0, Ids, Present DEF Inv
  <2> QED BY <1>0, <2>1, Ids DEF Operands
<1>4. reaped \cap Tasks = {} BY <1>0, <1>1, <1>2 DEF RootLaunches, RootInv
<1>5. state[o.who] = NotBorn /\ reaped' = reaped BY <1>0, <1>3, <1>4
<1> HIDE DEF o
<1>6. pc'[Root] = k + 1
  BY <1>0, <1>1, <1>3, Ids
<1>7. /\ Awaited(test, k + 1) = Awaited(test, k) \cup
           IF Op(Root).do = "wait" THEN {Op(Root).who} ELSE {}
      /\ Before(test, k + 1, "call")
           = Before(test, k, "call") + IF Op(Root).do = "call" THEN 1 ELSE 0
      /\ Before(test, k, "call") \in Nat
      /\ Op(Root)'.do = "queue" =>
           Op(Root)'.queue = Op(Root).queue /\ Op(Root)'.empty = Op(Root).active
  BY <1>0, <1>1, <1>2, <1>6, RootNext
<1>8. /\ Awaited(test, k + 1) = Awaited(test, k)
      /\ Before(test, k + 1, "call") = Before(test, k, "call")
      /\ Op(Root)'.do = "queue" => Op(Root)'.queue = o.queue /\ Op(Root)'.empty = o.active
  BY <1>0, <1>7 DEF o
<1>9. /\ \A q \in Procs : q # o.who => state'[q] = IF o.active /\ state[q] = Queued(o.queue)
                                                  THEN Alive ELSE state[q]
      /\ state'[o.who] = IF o.active THEN Alive ELSE Queued(o.queue)
  BY <1>0, <1>3
<1>10. Queued(o.queue) # Alive /\ Queued(o.queue) \notin AnyStatus /\ Alive \notin AnyStatus
       /\ NotBorn \notin AnyStatus
  BY DEF Queued, Alive, AnyStatus, NotBorn
<1>11. \A q \in Procs : Gone(q)' <=> Gone(q) BY <1>5, <1>9, <1>10 DEF Gone
<1>12. \A q \in Procs : Gone(q) => state'[q] = state[q] BY <1>5, <1>9, <1>10 DEF Gone
<1>13. First(reaped \cap Tasks, err[Root])'
  BY <1>0, <1>4, <1>5 DEF RootInv, First
<1>14. (\A t \in Tasks : state'[t] # Queued(o.queue)) = o.active
  <2>1. CASE o.active
    <3>1. \A t \in Tasks : state'[t] # Queued(o.queue) BY <1>9, <1>10, <2>1, Ids
    <3> QED BY <1>3, <2>1, <3>1
  <2>2. CASE ~o.active BY <1>3, <1>9, <2>2
  <2> QED BY <2>1, <2>2
<1>15. RootInv'
  <2>1. (Op(Root).do = "queue" =>
           (\A t \in Tasks : state[t] # Queued(Op(Root).queue)) = Op(Root).empty)'
    BY <1>8, <1>14
  <2>2. (reaped \cap Tasks = Awaited(test, pc[Root]))'
    BY <1>0, <1>1, <1>5, <1>6, <1>8 DEF RootInv
  <2>3. (inited <=> Before(test, pc[Root], "call") = 1)'
    BY <1>0, <1>1, <1>6, <1>8 DEF RootInv
  <2> QED BY <1>13, <2>1, <2>2, <2>3 DEF RootInv
<1>16. EndInv'
  <2>1. ~Gone(Root)' BY <1>0, <1>11, Ids
  <2>2. \A t \in Tasks : Gone(t)' => Gone(t) /\ Code(t)' = Code(t)
    BY <1>11, <1>12, Ids DEF Code
  <2>3. Root \in reaped => state'[Root] = state[Root] BY <1>9, <1>0, <1>3, <1>10, Ids
  <2> QED BY <1>0, <1>5, <1>11, <1>12, <2>1, <2>2, <2>3, Ids DEF EndInv
<1> QED BY <1>0, <1>15, <1>16 DEF LaunchInv

(* While no task ends, what a launcher has to report stays the same.       *)
LEMMA EndRests ==
  ASSUME EndInv, UNCHANGED test, \A t \in Tasks : state'[t] = state[t]
  PROVE  /\ \A t \in Tasks : Gone(t)' => Code(t)' \in 0..AnyCode
         /\ \A e : (First(Tasks, e))' <=> First(Tasks, e)
         /\ \A e : (Reported(e))' = Reported(e)
         /\ Outer' = Outer
<1>1. \A t \in Tasks : Code(t)' = Code(t) BY DEF Code
<1>2. \A t \in Tasks : Gone(t)' => Code(t)' \in 0..AnyCode BY <1>1 DEF EndInv, Gone
<1>3. \A e : (First(Tasks, e))' <=> First(Tasks, e) BY <1>1 DEF First
<1>4. \A e : (Reported(e))' = Reported(e) BY DEF Reported, Name
<1>5. Outer' = Outer BY DEF Outer, Script
<1> QED BY <1>2, <1>3, <1>4, <1>5

LEMMA RootEnds ==
  ASSUME Inv, LifeInv, LaunchInv, Launcher(test), DoArgs(Root) \/ DoReturnErr(Root)
  PROVE  LaunchInv'
<1>0. /\ state[Root] = Alive /\ ~Gone(Root) /\ Root \notin reaped
      /\ UNCHANGED <<test, inited, reaped, err, aborting>> /\ RootInv /\ EndInv
      /\ state \in [Procs -> Life] /\ err \in [Procs -> Nat]
  BY Lives, Ids, AliveFacts
     DEF DoArgs, DoReturnErr, At, Gone, LaunchInv, lib, Inv, TypeInv, ProcType, LibType
<1>1. /\ RootLaunches(test, pc[Root]) /\ Op(Root) = ScriptOf(test, Root)[pc[Root]]
  BY <1>0, LaunchPlace
<1>2. ASSUME NEW s \in AnyStatus, EndWith(Root, s), UNCHANGED failed,
             \/ Outer = Root /\ s = Exited(EXIT_UNTESTED)
             \/ /\ Tasks \subseteq reaped
                /\ \E e \in 0..AnyCode : First(Tasks, e) /\ s = Exited(Reported(e))
      PROVE  LaunchInv'
  <2>1. /\ state'[Root] = s /\ Gone(Root)'
        /\ \A q \in Procs : q # Root => state'[q] = state[q]
    BY <1>0, <1>2, Ids DEF EndWith, Gone
  <2>2. \A t \in Tasks : state'[t] = state[t] BY <2>1, Ids
  <2>3. Parent \in Procs /\ Parent # Root BY Ids DEF Everybody
  <2>4. (Gone(Root) =>
           \/ Outer = Root /\ state[Root] = Exited(EXIT_UNTESTED)
           \/ /\ Tasks \subseteq reaped
              /\ \E e \in 0..AnyCode : First(Tasks, e) /\ state[Root] = Exited(Reported(e)))'
    BY <1>0, <1>2, <2>1, <2>2, EndRests
  <2>5. EndInv' BY <1>0, <2>1, <2>2, <2>3, <2>4, EndRests DEF EndInv, Gone
  <2> QED BY <1>0, <1>2, <2>1, <2>5 DEF LaunchInv, RootInv
<1>3. CASE DoArgs(Root)
  <2>1. Op(Root).do = "args" BY <1>3 DEF DoArgs, At
  <2>2. CASE Advance(Root)
    <3>1. reaped \cap Tasks = (reaped \cap Tasks) \cup {} /\ First(reaped \cap Tasks, err[Root])
      BY <1>0 DEF RootInv
    <3> QED BY <1>0, <2>1, <2>2, <3>1, RootMoves DEF Advance
  <2>3. CASE EndWith(Root, Exited(EXIT_UNTESTED)) /\ UNCHANGED <<pc, failed>>
    <3>1. test.parent = <<>> BY <1>1, <2>1 DEF RootLaunches
    <3>2. Outer = Root BY <3>1 DEF Outer, Script, ScriptOf
    <3> QED BY <1>2, <2>3, <3>2, Codes, Lives
  <2> QED BY <1>3, <2>2, <2>3 DEF DoArgs
<1>4. CASE DoReturnErr(Root)
  <2>1. Op(Root).do = "return err" /\ UNCHANGED failed BY <1>4 DEF DoReturnErr, At
  <2>2. /\ Tasks \subseteq Awaited(test, pc[Root])
        /\ Op(Root).largest = IF Name = "pip_task" THEN EXIT_KILLED ELSE AnyCode
    BY <1>1, <2>1 DEF RootLaunches, Name
  <2>3. Tasks \subseteq reaped /\ First(Tasks, err[Root])
    <3>1. Tasks \subseteq reaped \cap Tasks BY <1>0, <2>2 DEF RootInv
    <3>2. reaped \cap Tasks = Tasks BY <3>1
    <3> QED BY <1>0, <3>2 DEF RootInv
  <2>4. err[Root] \in 0..AnyCode
    <3>1. \A t \in Tasks : Code(t) \in 0..AnyCode BY <1>0, <2>3 DEF EndInv, LifeInv
    <3> QED BY <2>3, <3>1, TaskInts DEF First
  <2>5. (IF err[Root] <= Op(Root).largest THEN err[Root] ELSE EXIT_FAIL) = Reported(err[Root])
    BY <2>2, <2>4, TaskInts DEF Reported, EXIT_KILLED
  <2>6. Reported(err[Root]) \in Nat BY <2>4, TaskInts, Codes DEF Reported
  <2>7. Exited(Reported(err[Root])) \in AnyStatus BY <2>6, Lives
  <2>8. EndWith(Root, Exited(Reported(err[Root]))) BY <1>4, <2>5 DEF DoReturnErr
  <2> QED BY <1>2, <2>1, <2>3, <2>4, <2>7, <2>8
<1> QED BY <1>3, <1>4

LEMMA TaskEnds ==
  ASSUME Inv, LifeInv, LaunchInv, Launcher(test), NEW p \in Tasks, DoExit(p)
  PROVE  LaunchInv'
<1>0. /\ state[p] = Alive /\ Op(p).do = "exit" /\ state[Root] = Alive /\ ~Gone(Root)
      /\ UNCHANGED <<test, pc, failed, inited, reaped, err, aborting>> /\ RootInv /\ EndInv
      /\ state \in [Procs -> Life] /\ p \in Procs /\ p # Root /\ p # Parent
  BY Lives, Ids DEF DoExit, At, Gone, LaunchInv, Inv, TypeInv, ProcType
<1>1. PICK s \in Op(p).statuses : EndWith(p, s) BY DEF DoExit
<1>2. s \in AnyStatus /\ s \in ({"exited"} \X (0..AnyCode)) \cup ({"signaled"} \X Nat)
  <2>1. pc[p] \in Places(test, p) /\ Op(p) = ScriptOf(test, p)[pc[p]] /\ Operands(Op(p))
    BY <1>0, Present DEF Inv
  <2>2. Op(p).statuses \subseteq AnyStatus BY <1>0, <2>1 DEF Operands
  <2>3. Op(p).statuses \subseteq ({"exited"} \X (0..AnyCode)) \cup ({"signaled"} \X Nat)
    BY <2>1 DEF Launcher
  <2> QED BY <1>1, <2>2, <2>3
<1>3. \A q \in Procs : state'[q] = IF q = p THEN s ELSE state[q] BY <1>0, <1>1 DEF EndWith
<1>4. RootInv'
  <2>1. \A t \in Tasks : state'[t] = state[t] \/ (state[t] = Alive /\ state'[t] \in AnyStatus)
    BY <1>0, <1>2, <1>3, Ids
  <2>2. state'[Root] = state[Root] BY <1>0, <1>3, Ids
  <2> QED BY <1>0, <2>1, <2>2, RootRests
<1>5. EndInv'
  <2>1. Code(p)' \in 0..AnyCode
    <3>1. EXIT_UNRESOLVED \in 0..AnyCode BY DEF EXIT_UNRESOLVED, AnyCode
    <3> QED BY <1>0, <1>2, <1>3, <3>1 DEF Code
  <2>2. \A t \in Tasks : t # p => state'[t] = state[t] /\ Code(t)' = Code(t)
    BY <1>3, Ids DEF Code
  <2>3. state'[Root] = state[Root] /\ state'[Parent] = state[Parent] BY <1>0, <1>3, Ids
  <2> QED BY <1>0, <2>1, <2>2, <2>3, Lives DEF EndInv, Gone
<1> QED BY <1>0, <1>4, <1>5 DEF LaunchInv

(* The parent hears of the root what the root has said.                    *)
LEMMA ParentSteps ==
  ASSUME Inv, WatchInv, Vigilant(test), LaunchInv, Launcher(test),
         DoArgs(Parent) \/ DoFork(Parent) \/ DoReturnErr(Parent) \/ \E t \in Procs : Reap(Parent, t)
  PROVE  LaunchInv'
<1>0. /\ state[Parent] = Alive /\ ~Gone(Parent) /\ Parent \notin reaped
      /\ UNCHANGED <<test, inited, aborting>> /\ RootInv /\ EndInv /\ LifeInv /\ HandInv
      /\ state \in [Procs -> Life] /\ err \in [Procs -> Nat] /\ pc \in [Procs -> Nat]
      /\ Parent # Root /\ Parent \notin Tasks
  BY Lives, Ids, AliveFacts
     DEF DoArgs, DoFork, DoReturnErr, Reap, At, Gone, LaunchInv, lib, Inv, TypeInv, ProcType,
         LibType, WatchInv, Everybody
<1>1. /\ pc[Parent] \in Places(test, Parent) /\ Op(Parent) = ScriptOf(test, Parent)[pc[Parent]]
      /\ Op(Parent).do = Do(test, Parent, pc[Parent])
  BY <1>0, Ids, Present DEF Inv
(* The status of the root, if it has ended.                                *)
<1>2. Gone(Root) => \E c \in 0..AnyCode : state[Root] = Exited(c)
  <2>1. \A e \in 0..AnyCode : Reported(e) \in 0..AnyCode
    BY TaskInts DEF Reported, EXIT_FAIL, AnyCode
  <2>2. EXIT_UNTESTED \in 0..AnyCode BY DEF EXIT_UNTESTED, AnyCode
  <2> QED BY <1>0, <2>1, <2>2 DEF EndInv
(* The parent alone changes.                                               *)
<1>3. ASSUME NEW s \in Life, state' = [state EXCEPT ![Parent] = s], pc'[Root] = pc[Root],
             UNCHANGED failed, reaped' \in {reaped, reaped \cup {Root}}, err'[Root] = err[Root],
             (IF s \in AnyStatus
              THEN s = Exited(EXIT_UNTESTED) \/ (Root \in reaped' /\ s = state[Root])
              ELSE IF Root \in reaped' THEN state[Root] = Exited(err'[Parent])
              ELSE err'[Parent] = 0)
      PROVE  LaunchInv'
  <2>1. /\ state'[Parent] = s /\ state'[Root] = state[Root]
        /\ \A t \in Tasks : state'[t] = state[t]
    BY <1>0, <1>3, Ids
  <2>2. reaped' \cap Tasks = reaped \cap Tasks BY <1>3, Ids
  <2>3. RootInv' BY <1>0, <1>3, <2>1, <2>2, RootRests DEF Gone
  <2>4. (Gone(Root) =>
           \/ Outer = Root /\ state[Root] = Exited(EXIT_UNTESTED)
           \/ /\ Tasks \subseteq reaped
              /\ \E e \in 0..AnyCode : First(Tasks, e) /\ state[Root] = Exited(Reported(e)))'
    <3>1. Gone(Root)' <=> Gone(Root) BY <2>1 DEF Gone
    <3>2. Tasks \subseteq reaped => Tasks \subseteq reaped' BY <1>3
    <3> QED BY <1>0, <2>1, <3>1, <3>2, EndRests DEF EndInv
  <2>5. EndInv' BY <1>0, <1>3, <2>1, <2>4, EndRests DEF EndInv, Gone
  <2> QED BY <1>0, <1>3, <2>3, <2>5 DEF LaunchInv
<1>4. err[Parent] = IF Root \in reaped THEN err[Parent] ELSE 0 BY <1>0 DEF EndInv
<1>5. CASE DoArgs(Parent)
  <2>1. reaped' = reaped /\ err' = err BY <1>5 DEF DoArgs, lib
  <2>2. CASE Advance(Parent)
    <3>1. /\ Alive \in Life /\ state' = [state EXCEPT ![Parent] = Alive]
          /\ pc'[Root] = pc[Root] /\ UNCHANGED failed
      BY <1>0, <2>2, Ids DEF Advance, Life
    <3> QED BY <1>0, <1>3, <2>1, <3>1, Lives DEF EndInv
  <2>3. CASE EndWith(Parent, Exited(EXIT_UNTESTED)) /\ UNCHANGED <<pc, failed>>
    <3>1. Exited(EXIT_UNTESTED) \in Life /\ Exited(EXIT_UNTESTED) \in AnyStatus
      BY Codes, Lives DEF Life
    <3> QED BY <1>3, <2>1, <2>3, <3>1 DEF EndWith
  <2> QED BY <1>5, <2>2, <2>3 DEF DoArgs
<1>6. CASE DoReturnErr(Parent)
  <2>1. reaped' = reaped /\ err' = err /\ UNCHANGED <<pc, failed>> /\ Op(Parent).do = "return err"
    BY <1>6 DEF DoReturnErr, lib, At
  <2>2. Root \in reaped
    <3>1. \E j \in 1..(pc[Parent] - 1) : Do(test, Parent, j) = "wait"
      BY <1>1, <2>1 DEF Vigilant, Relays
    <3> QED BY <1>0, <3>1 DEF HandInv
  <2>3. state[Root] = Exited(err[Parent]) /\ Gone(Root) BY <1>0, <2>2 DEF EndInv, LifeInv
  <2>4. err[Parent] \in 0..AnyCode
    <3>1. PICK c \in 0..AnyCode : state[Root] = Exited(c) BY <1>2, <2>3
    <3>2. err[Parent] \in Nat /\ c \in Nat BY <1>0, TaskInts, Ids
    <3> QED BY <2>3, <3>1, <3>2, Statuses
  <2>5. Op(Parent).largest = AnyCode BY <1>1, <2>1 DEF Launcher
  <2>6. (IF err[Parent] <= Op(Parent).largest THEN err[Parent] ELSE EXIT_FAIL) = err[Parent]
    BY <2>4, <2>5, TaskInts
  <2>7. state' = [state EXCEPT ![Parent] = state[Root]]
    BY <1>6, <2>3, <2>6 DEF DoReturnErr, EndWith
  <2>8. state[Root] \in Life /\ state[Root] \in AnyStatus BY <2>3 DEF Gone, Life
  <2> QED BY <1>3, <2>1, <2>2, <2>7, <2>8
<1>7. CASE \E t \in Procs : Reap(Parent, t)
  <2>1. /\ Reap(Parent, Root) /\ Op(Parent).do = "wait" /\ Gone(Root) /\ Root \notin reaped
        /\ reaped' = reaped \cup {Root}
        /\ err' = [err EXCEPT ![Parent] = FirstNonZero(Parent, Root)]
    BY <1>7 DEF Reap, At
  <2>2. Op(Parent).ok[Root] = Unchecked BY <1>1, <2>1 DEF Vigilant, Relays
  <2>3. Advance(Parent) BY <2>1, <2>2 DEF Reap
  <2>4. PICK c \in 0..AnyCode : state[Root] = Exited(c) BY <1>2, <2>1
  <2>5. ValueOf(Parent, state[Root]) = c
    BY <2>4, TaskInts, Statuses DEF ValueOf
  <2>6. err[Parent] = 0 BY <1>4, <2>1
  <2>7. err'[Parent] = c /\ err'[Root] = err[Root]
    BY <1>0, <2>1, <2>5, <2>6, Ids DEF FirstNonZero
  <2>8. /\ Alive \in Life /\ state' = [state EXCEPT ![Parent] = Alive]
        /\ pc'[Root] = pc[Root] /\ UNCHANGED failed
    BY <1>0, <2>3, Ids DEF Advance, Life
  <2>9. Root \in reaped' BY <2>1
  <2> QED BY <1>3, <2>1, <2>4, <2>7, <2>8, <2>9, Lives
<1>8. CASE DoFork(Parent)
  <2>1. /\ UNCHANGED <<failed, reaped, err>> /\ Op(Parent).do = "fork"
        /\ state' = [state EXCEPT ![Root] = Alive] /\ pc' = [pc EXCEPT ![Parent] = @ + 1]
    BY <1>8 DEF DoFork, lib, At
  <2>2. state[Root] = NotBorn
    <3>1. pc[Parent] >= pc[Parent] BY <1>0, Ids
    <3> QED BY <1>0, <1>1, <2>1, <3>1 DEF LifeInv
  <2>3. ~Gone(Root) /\ Root \notin reaped BY <1>0, <2>2, Lives DEF LifeInv, Gone
  <2>4. /\ state'[Root] = Alive /\ state'[Parent] = state[Parent] /\ pc'[Root] = pc[Root]
        /\ \A t \in Tasks : state'[t] = state[t]
    BY <1>0, <2>1, Ids
  <2>5. RootInv' BY <1>0, <2>1, <2>3, <2>4, RootRests
  <2>6. ~Gone(Root)' /\ (Gone(Parent)' <=> Gone(Parent)) BY <2>4, Lives DEF Gone
  <2>7. EndInv' BY <1>0, <2>1, <2>3, <2>4, <2>6, EndRests DEF EndInv
  <2> QED BY <1>0, <2>1, <2>5, <2>7 DEF LaunchInv
<1> QED BY <1>5, <1>6, <1>7, <1>8

-----------------------------------------------------------------------------
LEMMA NextLaunch ==
  ASSUME Inv, WatchInv, Vigilant(test), Launcher(test), LaunchInv, ~fault', ~fault, Next
  PROVE  LaunchInv'
<1>0. LifeInv BY DEF WatchInv
<1>1. ASSUME NEW p \in Procs, Step(p) PROVE LaunchInv'
  <2>1. CASE p = Root BY <1>0, <1>1, <2>1, LaunchSteps, RootCalls, RootSpawns, RootLooks, RootEnds,
                         RootWaits, Ids DEF Everybody
  <2>2. CASE p = Parent BY <1>1, <2>2, LaunchSteps, ParentSteps, Ids DEF Everybody
  <2>3. CASE p \in Tasks BY <1>0, <1>1, <2>3, LaunchSteps, TaskEnds, Ids
  <2> QED BY <2>1, <2>2, <2>3 DEF Procs
<1>2. ~AbortArrives /\ ~WatchdogKills BY AbortFacts DEF WatchdogKills, LaunchInv
<1>3. ~Faults BY DEF Faults, CallFaults, SpawnFails, ForkFails, RootKilled
<1> QED BY <1>1, <1>2, <1>3 DEF Next, Progress

LEMMA InitLaunch == Init => Launch
<1> SUFFICES ASSUME Init, Launcher(test) PROVE LaunchInv
  BY LaunchAssumption DEF Launch, Init, Name
<1>0. /\ pc = [p \in Procs |-> 1] /\ reaped = {} /\ failed = {} /\ err = [p \in Procs |-> 0]
      /\ inited = FALSE /\ aborting = "no" /\ test \in ToSet(Scripts)
      /\ state = [p \in Procs |-> IF p = Outer THEN Alive ELSE NotBorn]
  BY DEF Init
<1>1. \A p \in Procs : ~Gone(p) BY <1>0, Lives DEF Gone
<1>2. Awaited(test, 1) = {} /\ Before(test, 1, "call") = 0 BY AwaitedFacts, BeforeFacts
<1>3. pc[Root] = 1 /\ err[Root] = 0 /\ err[Parent] = 0 BY <1>0, Ids
<1>4. Op(Root).do # "queue"
  <2>1. 1 \in Places(test, Root)
    <3>1. Places(test, Root) # {} /\ Len(ScriptOf(test, Root)) \in Nat
      BY <1>0, ScriptsAssumption, Ids DEF WellFormed
    <3> QED BY <3>1 DEF Places
  <2>2. RootLaunches(test, 1) BY <2>1 DEF Launcher
  <2>3. ScriptOf(test, Root)[1].do = "queue" => 1 > 1 BY <2>2 DEF RootLaunches
  <2>4. Op(Root) = ScriptOf(test, Root)[1] BY <1>3 DEF Op, Script
  <2> QED BY <2>3, <2>4
<1>5. RootInv
  <2>1. First(reaped \cap Tasks, err[Root]) BY <1>0, <1>3 DEF First
  <2>2. reaped \cap Tasks = Awaited(test, pc[Root]) BY <1>0, <1>2, <1>3
  <2>3. inited <=> Before(test, pc[Root], "call") = 1 BY <1>0, <1>2, <1>3
  <2> QED BY <1>4, <2>1, <2>2, <2>3 DEF RootInv
<1>6. EndInv BY <1>0, <1>1, <1>3, Ids DEF EndInv
<1> QED BY <1>0, <1>5, <1>6 DEF LaunchInv

LEMMA StutterLaunch == ASSUME LaunchInv, UNCHANGED vars PROVE LaunchInv'
  BY DEF vars, proc, lib, LaunchInv, RootInv, EndInv, First, Code, Reported, Name, Outer, Script,
         Gone, Op

LEMMA LaunchHolds == Spec => [](Inv /\ Watch /\ Launch)
<1>1. Inv /\ Watch /\ Launch /\ [Next]_vars => Launch'
  <2> SUFFICES ASSUME Inv, Watch, Launch, [Next]_vars, Name' \in {"pip_task", "pip_blt"}, ~fault'
               PROVE  LaunchInv'
    BY DEF Launch
  <2>1. Name \in {"pip_task", "pip_blt"} /\ ~fault
    <3>1. test' = test /\ fault' \in {fault, TRUE} BY SameTest
    <3>2. fault \in BOOLEAN BY DEF Inv, TypeInv, LibType
    <3>3. fault' # TRUE OBVIOUS
    <3>4. fault' = fault BY <3>1, <3>3, Zenon
    <3>5. ~fault BY <3>4, Zenon
    <3> QED BY <3>1, <3>5 DEF Name
  <2>2. LaunchInv BY <2>1 DEF Launch
  <2>3. Launcher(test) /\ Vigilant(test)
    <3>1. test \in ToSet(Scripts) BY DEF Inv, TypeInv, ProcType
    <3>2. Name \notin StatusIgnored BY <2>1 DEF StatusIgnored
    <3> QED BY <2>1, <3>1, <3>2, LaunchAssumption, StatusAssumption DEF Name
  <2>4. WatchInv BY <2>3 DEF Watch
  <2>5. CASE Next BY <2>1, <2>2, <2>3, <2>4, <2>5, NextLaunch
  <2>6. CASE UNCHANGED vars BY <2>2, <2>6, StutterLaunch
  <2> QED BY <2>5, <2>6
<1> QED BY <1>1, WatchHolds, InitLaunch, PTL DEF Spec

(* What the launcher has kept of all its tasks is what it should report.   *)
LEMMA VerdictFacts ==
  ASSUME NEW e \in 0..AnyCode, First(Tasks, e), Name \in {"pip_task", "pip_blt"}
  PROVE  Reported(e) = LaunchVerdict
<1> DEFINE bad == {t \in Tasks : Code(t) # 0}
<1>1. CASE bad = {}
  <2>1. e = 0 BY <1>1 DEF First
  <2>2. Reported(0) = 0 BY DEF Reported, EXIT_KILLED
  <2> QED BY <1>1, <2>1, <2>2 DEF LaunchVerdict, EXIT_PASS
<1>2. CASE bad # {}
  <2>1. PICK t \in Tasks : e = Code(t) /\ e # 0 /\ \A u \in Tasks : Code(u) # 0 => t <= u
    BY <1>2 DEF First
  <2>2. t \in bad /\ \A u \in bad : t <= u BY <2>1
  <2>3. (CHOOSE x \in bad : \A u \in bad : x <= u) = t
    <3>1. \A x \in bad : (\A u \in bad : x <= u) => x = t
      BY <2>2, TaskInts
    <3> QED BY <2>2, <3>1
  <2> QED BY <1>2, <2>1, <2>3 DEF LaunchVerdict, Reported
<1> QED BY <1>1, <1>2

(* pip_task and pip_blt, with any number of tasks, active and passive ones *)
(* in any division, return the status of the first failing task by number, *)
(* in whatever order the tasks end, through the forked root too, and only  *)
(* after all tasks were waited for.                                        *)
THEOREM FirstFailureReported == Spec => []FirstFailure
<1>1. Inv /\ Watch /\ Launch => FirstFailure
  <2> SUFFICES ASSUME Inv, Watch, Launch, Name \in {"pip_task", "pip_blt"}, Over, ~fault,
                      state[Outer] # Exited(EXIT_UNTESTED)
               PROVE  Tasks \subseteq reaped /\ state[Outer] = Exited(LaunchVerdict)
    BY DEF FirstFailure
  <2>1. EndInv BY DEF Launch, LaunchInv
  <2>2. LifeInv
    <3>1. test \in ToSet(Scripts) BY DEF Inv, TypeInv, ProcType
    <3>2. Name \notin StatusIgnored BY DEF StatusIgnored
    <3> QED BY <3>1, <3>2, StatusAssumption DEF Name, Watch, WatchInv
  <2>3. Gone(Root) /\ state[Outer] = state[Root]
    BY <2>1, <2>2 DEF EndInv, Over, Outer, LifeInv
  <2>4. PICK e \in 0..AnyCode :
          Tasks \subseteq reaped /\ First(Tasks, e) /\ state[Root] = Exited(Reported(e))
    BY <2>1, <2>3 DEF EndInv
  <2> QED BY <2>3, <2>4, VerdictFacts
<1> QED BY <1>1, LaunchHolds, PTL

(* With a library that keeps its promises no CHECK of a launcher fails:    *)
(* every queue it looks at is as it should be, and pip_fin finds no task   *)
(* that was not waited for.                                                *)
THEOREM LaunchersPass == Spec => [](Name \in {"pip_task", "pip_blt"} => NoSpuriousFailure)
<1>1. Launch => (Name \in {"pip_task", "pip_blt"} => NoSpuriousFailure)
  BY DEF Launch, LaunchInv, NoSpuriousFailure
<1> QED BY <1>1, LaunchHolds, PTL

-----------------------------------------------------------------------------
(* Ends. A process goes on unless the library fails, it comes to its end,  *)
(* or a CHECK of it fails.                                                 *)
CheckOps == {"queue", "wait", "hooks", "sigwait", "sender is", "touch", "write", "read"}
GoesWell(p) == state'[p] = Alive /\ failed' = failed
Unexpected(p) == Op(p).do = "call" /\
  \E rv \in Returns(p, Op(p).f, Op(p).arg, inited, Unwaited) : rv \notin Op(p).expect
Miscounts(p) == Op(p).do = "count" /\ (count = Op(p).val) = Op(p).not
PoolEmpty(p) == Op(p).do = "wait child" /\ children[Op(p).pool].all = 0

LEMMA StepOutcome ==
  ASSUME Inv, RunOnce(test), NEW p \in Procs, Act(p)
  PROVE  \/ fault' \/ GoesWell(p)
         \/ Op(p).do \in EndOps /\ failed' = failed
         \/ Op(p).do \in CheckOps \/ Unexpected(p) \/ Miscounts(p) \/ PoolEmpty(p)
<1>1. state[p] = Alive /\ state \in [Procs -> Life] /\ Op(p).do \notin {"relay", "pass on"}
  BY Standing DEF Inv, TypeInv, ProcType
<1>2. CASE LifeOps(p)
  <2>1. CASE DoArgs(p) \/ DoExit(p) \/ DoReturnErr(p) \/ DoRaise(p)
    BY <2>1 DEF DoArgs, DoExit, DoReturnErr, DoRaise, At, EndOps, Advance
  <2>2. CASE DoCall(p)
    <3>1. Op(p).do = "call" BY <2>2 DEF DoCall, At
    <3>2. ASSUME ~Unexpected(p) PROVE UNCHANGED <<state, failed>>
      BY <2>2, <3>1, <3>2 DEF DoCall, Unexpected, Advance
    <3> QED BY <1>1, <3>2 DEF GoesWell
  <2>3. CASE DoSpawn(p)
    <3>1. p # Op(p).who
      <4>1. Op(p).do = "spawn" BY <2>3 DEF DoSpawn, At
      <4>2. p = Root /\ Op(p).who \in Tasks BY <4>1, Standing, Zenon
      <4> QED BY <4>2, Ids, Zenon
    <3>2. state'[p] = Alive
      <4>1. state'[p] = IF p = Op(p).who THEN IF Op(p).active THEN Alive ELSE Queued(Op(p).queue)
                        ELSE IF Op(p).active /\ state[p] = Queued(Op(p).queue) THEN Alive
                        ELSE state[p]
        BY <2>3, Zenon DEF DoSpawn
      <4> QED BY <1>1, <3>1, <4>1
    <3> QED BY <2>3, <3>2 DEF DoSpawn, GoesWell
  <2>4. CASE SpawnRefused(p) \/ DoAbort(p)
    BY <1>1, <2>4 DEF SpawnRefused, DoAbort, GoesWell, proc
  <2>5. CASE DoFork(p) BY <1>1, <2>5 DEF DoFork, GoesWell
  <2>6. CASE DoQueue(p) \/ DoHooks(p) \/ \E t \in Procs : Reap(p, t)
    BY <2>6 DEF DoQueue, DoHooks, Reap, At, CheckOps
  <2>7. CASE CallFaults(p) \/ SpawnFails(p) \/ ForkFails(p)
    BY <2>7 DEF CallFaults, SpawnFails, ForkFails
  <2> QED BY <1>2, <2>1, <2>2, <2>3, <2>4, <2>5, <2>6, <2>7 DEF LifeOps
<1>3. CASE SyncOps(p)
  <2>1. CASE DoCount(p)
    <3>1. ASSUME ~Miscounts(p) PROVE UNCHANGED <<state, failed>>
      BY <2>1, <3>1, Zenon DEF DoCount, Miscounts, At, Advance
    <3> QED BY <1>1, <3>1 DEF GoesWell
  <2>2. CASE UNCHANGED <<state, failed>> BY <1>1, <2>2 DEF GoesWell
  <2> QED
    BY <1>3, <2>1, <2>2 DEF SyncOps, Enter, Leave, DoLock, DoUnlock, DoLoad, DoStore, DoAtomic,
                            DoAssign, Advance, proc
<1>4. CASE NameOps(p)
  <2>1. CASE DoWaitChild(p)
    <3>1. ASSUME ~PoolEmpty(p) PROVE UNCHANGED <<state, failed>>
      BY <2>1, <3>1 DEF DoWaitChild, PoolEmpty, At
    <3> QED BY <1>1, <3>1 DEF GoesWell
  <2>2. CASE DoSigWait(p) \/ DoSenderIs(p) BY <2>2 DEF DoSigWait, DoSenderIs, At, CheckOps
  <2>3. CASE UNCHANGED <<state, failed>> BY <1>1, <2>3 DEF GoesWell
  <2> QED
    BY <1>4, <2>1, <2>2, <2>3 DEF NameOps, DoExport, DoImport, DoForkChild, DoRecord, DoMask,
                                  DoSender, DoKill, Advance
<1>5. CASE FileOps(p)
  <2>1. CASE DoTouch(p) \/ DoWrite(p) \/ DoRead(p)
    BY <2>1 DEF DoTouch, DoWrite, DoRead, At, CheckOps
  <2>2. CASE UNCHANGED <<state, failed>> BY <1>1, <2>2 DEF GoesWell
  <2> QED
    BY <1>1, <1>5, <2>1, <2>2 DEF FileOps, DoUnmap, DoPipe, DoCoe, DoClose, DoRelay, DoPassOn,
                                  Advance, At
<1> QED BY <1>2, <1>3, <1>4, <1>5, ActOps

(* A step ends nobody else, and who ends stays where it is.                *)
LEMMA OthersEnd ==
  ASSUME Inv, NEW p \in Procs, Act(p), NEW q \in Procs, state'[q] \in AnyStatus
  PROVE  (q # p => state'[q] = state[q]) /\ (q = p => pc'[q] = pc[q])
<1>1. state[p] = Alive /\ state \in [Procs -> Life] BY ActAlive DEF Inv, TypeInv, ProcType
<1>2. Alive \notin AnyStatus /\ \A n : Queued(n) \notin AnyStatus
  BY Lives DEF AnyStatus, Queued
<1>3. CASE LifeOps(p)
  <2>1. CASE DoSpawn(p) BY <1>1, <1>2, <2>1 DEF DoSpawn
  <2>2. CASE DoFork(p) BY <1>1, <1>2, <2>2 DEF DoFork
  <2>3. CASE UNCHANGED <<state, failed>> BY <1>1, <1>2, <2>3
  <2> QED
    BY <1>1, <1>3, <2>1, <2>2, <2>3 DEF LifeOps, DoArgs, DoCall, SpawnRefused, DoQueue, Reap,
        DoExit, DoReturnErr, DoRaise, DoHooks, DoAbort, CallFaults, SpawnFails, ForkFails, Advance,
        CheckFails, EndWith, proc
<1>4. CASE SyncOps(p)
  BY <1>1, <1>2, <1>4 DEF SyncOps, Enter, Leave, DoLock, DoUnlock, DoLoad, DoStore, DoAtomic,
      DoAssign, DoCount, Advance, CheckFails, EndWith, proc
<1>5. CASE NameOps(p)
  BY <1>1, <1>2, <1>5 DEF NameOps, DoExport, DoImport, DoForkChild, DoRecord, DoWaitChild, DoMask,
      DoSender, DoKill, DoSigWait, DoSenderIs, Advance, CheckFails, EndWith
<1>6. CASE FileOps(p)
  BY <1>1, <1>2, <1>6 DEF FileOps, DoTouch, DoUnmap, DoPipe, DoCoe, DoClose, DoWrite, DoRead,
      DoRelay, DoPassOn, Advance, CheckFails, DiesOf, EndWith
<1> QED BY <1>3, <1>4, <1>5, <1>6, ActOps

LEMMA NobodyAborts ==
  ASSUME NEW p, Act(p), Op(p).do # "abort" PROVE aborting' = aborting
<1>1. CASE LifeOps(p)
  BY <1>1 DEF LifeOps, DoArgs, DoCall, DoSpawn, SpawnRefused, DoQueue, DoFork, Reap, DoExit,
              DoReturnErr, DoRaise, DoHooks, DoAbort, CallFaults, SpawnFails, ForkFails, At, lib
<1>2. CASE SyncOps(p)
  BY <1>2 DEF SyncOps, Enter, Leave, DoLock, DoUnlock, DoLoad, DoStore, DoAtomic, DoAssign,
              DoCount, lib
<1>3. CASE NameOps(p)
  BY <1>3 DEF NameOps, DoExport, DoImport, DoForkChild, DoRecord, DoWaitChild, DoMask,
              DoSender, DoKill, DoSigWait, DoSenderIs, lib
<1>4. CASE FileOps(p)
  BY <1>4 DEF FileOps, DoTouch, DoUnmap, DoPipe, DoCoe, DoClose, DoWrite, DoRead, DoRelay,
              DoPassOn, lib
<1> QED BY <1>1, <1>2, <1>3, <1>4, ActOps

-----------------------------------------------------------------------------
(* Lives: only a spawn or a fork brings another process to life, and who   *)
(* makes a step stays alive or ends.                                       *)
LEMMA StateStep ==
  ASSUME Inv, NEW p \in Procs, Act(p)
  PROVE  \/ DoSpawn(p) \/ DoFork(p)
         \/ /\ \A q \in Procs : q # p => state'[q] = state[q]
            /\ state'[p] = Alive \/ state'[p] \in AnyStatus
<1>1. state[p] = Alive /\ state \in [Procs -> Life] /\ Operands(Op(p)) /\ TypeInv
  BY ActAlive, Present DEF Inv, TypeInv, ProcType
<1> SUFFICES ASSUME ~DoSpawn(p), ~DoFork(p)
             PROVE  state' = state \/ \E s \in AnyStatus : EndWith(p, s)
  BY <1>1 DEF EndWith
<1>2. CASE LifeOps(p)
  <2>1. CASE DoCall(p)
    <3>1. Op(p).do = "call" BY <2>1 DEF DoCall, At
    <3>2. Op(p).fail \in Nat BY <1>1, <3>1 DEF Operands
    <3> QED BY <2>1, <3>2, Lives DEF DoCall, Advance, CheckFails
  <2>2. CASE CallFaults(p)
    <3>1. Op(p).do = "call" => Op(p).fail \in Nat BY <1>1 DEF Operands
    <3> QED BY <2>2, <3>1, Lives, Codes DEF CallFaults, CheckFails
  <2>3. CASE \E t \in Procs : Reap(p, t)
    <3>1. Op(p).do = "wait" BY <2>3 DEF Reap, At
    <3>2. Op(p).sigfail \in Nat BY <1>1, <3>1 DEF Operands
    <3> QED BY <2>3, <3>2, Lives, Codes DEF Reap, Advance, CheckFails
  <2>4. CASE DoExit(p)
    <3>1. Op(p).do = "exit" BY <2>4 DEF DoExit, At
    <3>2. Op(p).statuses \subseteq AnyStatus BY <1>1, <3>1 DEF Operands
    <3> QED BY <2>4, <3>2 DEF DoExit
  <2>5. CASE DoReturnErr(p)
    <3>1. err[p] \in Nat BY <1>1 DEF TypeInv, LibType
    <3> QED BY <2>5, <3>1, Lives, Codes DEF DoReturnErr
  <2>6. CASE DoRaise(p)
    <3>1. Op(p).do = "raise" BY <2>6 DEF DoRaise, At
    <3>2. Op(p).sig \in Nat BY <1>1, <3>1 DEF Operands
    <3> QED BY <2>6, <3>2, Lives DEF DoRaise, Advance
  <2>7. CASE DoArgs(p) \/ SpawnRefused(p) \/ DoQueue(p) \/ DoHooks(p) \/ DoAbort(p)
             \/ SpawnFails(p) \/ ForkFails(p)
    BY <2>7, Lives, Codes DEF DoArgs, SpawnRefused, DoQueue, DoHooks, DoAbort, SpawnFails,
       ForkFails, Advance, CheckFails, proc
  <2> QED BY <1>2, <2>1, <2>2, <2>3, <2>4, <2>5, <2>6, <2>7 DEF LifeOps
<1>3. CASE SyncOps(p)
  BY <1>3, Lives, Codes DEF SyncOps, Enter, Leave, DoLock, DoUnlock, DoLoad, DoStore, DoAtomic,
     DoAssign, DoCount, Advance, CheckFails, proc
<1>4. CASE NameOps(p)
  BY <1>4, Lives, Codes DEF NameOps, DoExport, DoImport, DoForkChild, DoRecord, DoWaitChild,
     DoMask, DoSender, DoKill, DoSigWait, DoSenderIs, Advance, CheckFails
<1>5. CASE FileOps(p)
  BY <1>5, Lives, Codes, Signals DEF FileOps, DoTouch, DoUnmap, DoPipe, DoCoe, DoClose, DoWrite,
     DoRead, DoRelay, DoPassOn, Advance, CheckFails, DiesOf
<1> QED BY <1>2, <1>3, <1>4, <1>5, ActOps

(* The library and the processes waited for.                               *)
LEMMA LibStep ==
  ASSUME NEW p, Act(p)
  PROVE  \/ DoCall(p) \/ DoSpawn(p) \/ SpawnRefused(p) \/ (\E t \in Procs : Reap(p, t))
         \/ /\ UNCHANGED <<inited, reaped>>
            /\ Op(p).do \in {"call", "spawn", "wait"} => pc' = pc
<1>1. CASE LifeOps(p)
  BY <1>1 DEF LifeOps, DoArgs, DoQueue, DoFork, DoExit, DoReturnErr, DoRaise, DoHooks, DoAbort,
              CallFaults, SpawnFails, ForkFails, At, CheckFails, lib
<1>2. CASE SyncOps(p)
  BY <1>2 DEF SyncOps, Enter, Leave, DoLock, DoUnlock, DoLoad, DoStore, DoAtomic, DoAssign,
              DoCount, At, lib
<1>3. CASE NameOps(p)
  BY <1>3 DEF NameOps, DoExport, DoImport, DoForkChild, DoRecord, DoWaitChild, DoMask,
              DoSender, DoKill, DoSigWait, DoSenderIs, At, lib
<1>4. CASE FileOps(p)
  BY <1>4 DEF FileOps, DoTouch, DoUnmap, DoPipe, DoCoe, DoClose, DoWrite, DoRead, DoRelay,
              DoPassOn, At, lib
<1> QED BY <1>1, <1>2, <1>3, <1>4, ActOps

(* The operations with a CHECK that the action of their name only makes.   *)
LEMMA CheckActs ==
  ASSUME NEW p, Act(p)
  PROVE  /\ Op(p).do = "queue" => DoQueue(p)
         /\ Op(p).do = "touch" => DoTouch(p)
         /\ Op(p).do = "sigwait" => DoSigWait(p)
         /\ Op(p).do = "sender is" => DoSenderIs(p)
         /\ Op(p).do = "wait" => \E t \in Procs : Reap(p, t)
         /\ Op(p).do = "wait child" => DoWaitChild(p)
<1> DEFINE Other == Op(p).do \notin {"queue", "touch", "sigwait", "sender is", "wait", "wait child"}
<1>1. CASE LifeOps(p)
  <2>1. DoQueue(p) \/ (\E t \in Procs : Reap(p, t)) \/ Other
    BY <1>1 DEF LifeOps, DoArgs, DoCall, DoSpawn, SpawnRefused, DoFork, DoExit,
                DoReturnErr, DoRaise, DoHooks, DoAbort, CallFaults, SpawnFails, ForkFails,
                At, Checked
  <2> QED BY <2>1 DEF DoQueue, Reap, At
<1>2. CASE SyncOps(p)
  BY <1>2 DEF SyncOps, Enter, Leave, DoLock, DoUnlock, DoLoad, DoStore, DoAtomic, DoAssign,
              DoCount, At
<1>3. CASE NameOps(p)
  BY <1>3 DEF NameOps, DoExport, DoImport, DoForkChild, DoRecord, DoWaitChild, DoMask,
              DoSender, DoKill, DoSigWait, DoSenderIs, At
<1>4. CASE FileOps(p)
  BY <1>4 DEF FileOps, DoTouch, DoUnmap, DoPipe, DoCoe, DoClose, DoWrite, DoRead, DoRelay,
              DoPassOn, At
<1> QED BY <1>1, <1>2, <1>3, <1>4, ActOps

(* Names, as far as they come and go.                                      *)
LEMMA PageStep ==
  ASSUME NEW p, Act(p)
  PROVE  \/ DoExport(p) \/ DoUnmap(p)
         \/ names' = names /\ (Op(p).do \in {"export", "unmap"} => pc' = pc)
<1>1. CASE LifeOps(p)
  <2>1. UNCHANGED names
    BY <1>1 DEF LifeOps, DoArgs, DoCall, DoSpawn, SpawnRefused, DoQueue, DoFork, Reap, DoExit,
                DoReturnErr, DoRaise, DoHooks, DoAbort, CallFaults, SpawnFails, ForkFails, comm
  <2>2. Op(p).do \in {"export", "unmap"} => pc' = pc
    BY <1>1 DEF LifeOps, DoArgs, DoCall, DoSpawn, SpawnRefused, DoQueue, DoFork, Reap, DoExit,
                DoReturnErr, DoRaise, DoHooks, DoAbort, CallFaults, SpawnFails, ForkFails, At,
                CheckFails, Checked
  <2> QED BY <2>1, <2>2
<1>2. CASE SyncOps(p)
  BY <1>2 DEF SyncOps, Enter, Leave, DoLock, DoUnlock, DoLoad, DoStore, DoAtomic, DoAssign,
              DoCount, At, comm
<1>3. CASE NameOps(p)
  BY <1>3 DEF NameOps, DoImport, DoForkChild, DoRecord, DoWaitChild, DoMask, DoSender, DoKill,
              DoSigWait, DoSenderIs, At, comm
<1>4. CASE FileOps(p)
  BY <1>4 DEF FileOps, DoTouch, DoPipe, DoCoe, DoClose, DoWrite, DoRead, DoRelay,
              DoPassOn, At, comm, Others
<1> QED BY <1>1, <1>2, <1>3, <1>4, ActOps

(* A process passes the signal it sends itself only if that is none.       *)
LEMMA RaiseStep ==
  ASSUME NEW p, Act(p), Op(p).do = "raise" PROVE DoRaise(p)
<1>1. CASE LifeOps(p)
  BY <1>1 DEF LifeOps, DoArgs, DoCall, DoSpawn, SpawnRefused, DoQueue, DoFork, Reap, DoExit,
              DoReturnErr, DoHooks, DoAbort, CallFaults, SpawnFails, ForkFails, At, Checked
<1>2. ~SyncOps(p)
  BY DEF SyncOps, Enter, Leave, DoLock, DoUnlock, DoLoad, DoStore, DoAtomic, DoAssign, DoCount, At
<1>3. ~NameOps(p)
  BY DEF NameOps, DoExport, DoImport, DoForkChild, DoRecord, DoWaitChild, DoMask, DoSender,
         DoKill, DoSigWait, DoSenderIs, At
<1>4. ~FileOps(p)
  BY DEF FileOps, DoTouch, DoUnmap, DoPipe, DoCoe, DoClose, DoWrite, DoRead, DoRelay,
         DoPassOn, At
<1> QED BY <1>1, <1>2, <1>3, <1>4, ActOps

(* How a process ends, and who fails.                                      *)
LEMMA EndStep ==
  ASSUME Inv, NEW p \in Procs, Act(p), Op(p).do \in EndOps, state'[p] \in AnyStatus
  PROVE  state'[p] \in EndsWith(test, p, pc[p])
<1>1. state[p] = Alive /\ state \in [Procs -> Life] /\ Operands(Op(p)) /\ TypeInv
      /\ Op(p) = ScriptOf(test, p)[pc[p]]
  BY ActAlive, Present DEF Inv, TypeInv, ProcType
<1>2. Alive \notin AnyStatus BY Lives
<1>3. DoArgs(p) \/ DoExit(p) \/ DoReturnErr(p) \/ DoRaise(p)
  <2>1. CASE LifeOps(p)
    BY <2>1 DEF LifeOps, DoCall, DoSpawn, SpawnRefused, DoQueue, DoFork, Reap, DoHooks, DoAbort,
                CallFaults, SpawnFails, ForkFails, At, Checked, EndOps
  <2>2. ~SyncOps(p)
    BY DEF SyncOps, Enter, Leave, DoLock, DoUnlock, DoLoad, DoStore, DoAtomic, DoAssign, DoCount,
           At, EndOps
  <2>3. ~NameOps(p)
    BY DEF NameOps, DoExport, DoImport, DoForkChild, DoRecord, DoWaitChild, DoMask, DoSender,
           DoKill, DoSigWait, DoSenderIs, At, EndOps
  <2>4. ~FileOps(p)
    BY DEF FileOps, DoTouch, DoUnmap, DoPipe, DoCoe, DoClose, DoWrite, DoRead, DoRelay,
           DoPassOn, At, EndOps
  <2> QED BY <2>1, <2>2, <2>3, <2>4, ActOps
<1>4. CASE DoArgs(p)
  BY <1>1, <1>2, <1>4 DEF DoArgs, At, Advance, EndWith, EndsWith
<1>5. CASE DoExit(p)
  BY <1>1, <1>2, <1>5 DEF DoExit, At, EndWith, EndsWith
<1>6. CASE DoReturnErr(p) BY <1>1, <1>6 DEF DoReturnErr, At, EndsWith
<1>7. CASE DoRaise(p)
  BY <1>1, <1>2, <1>7 DEF DoRaise, At, Advance, EndWith, EndsWith
<1> QED BY <1>3, <1>4, <1>5, <1>6, <1>7

LEMMA FailedStep ==
  ASSUME Inv, NEW p \in Procs, Act(p)
  PROVE  failed' = failed \/ (failed' = failed \cup {p} /\ state'[p] # Alive)
<1>1. state[p] = Alive /\ state \in [Procs -> Life] BY ActAlive DEF Inv, TypeInv, ProcType
<1>2. ASSUME NEW code, CheckFails(p, code) \/ DiesOf(p, code)
      PROVE  failed' = failed \cup {p} /\ state'[p] # Alive
  BY <1>1, <1>2 DEF CheckFails, DiesOf, EndWith, Exited, Signaled, Alive
<1>3. CASE LifeOps(p)
  <2>1. failed' = failed \/ \E code : CheckFails(p, code)
    BY <1>3 DEF LifeOps, DoArgs, DoCall, DoSpawn, SpawnRefused, DoQueue, DoFork, Reap, DoExit,
                DoReturnErr, DoRaise, DoHooks, DoAbort, CallFaults, SpawnFails, ForkFails,
                Advance, proc
  <2> QED BY <1>2, <2>1
<1>4. CASE SyncOps(p)
  <2>1. failed' = failed \/ \E code : CheckFails(p, code)
    BY <1>4 DEF SyncOps, Enter, Leave, DoLock, DoUnlock, DoLoad, DoStore, DoAtomic, DoAssign,
                DoCount, Advance, proc
  <2> QED BY <1>2, <2>1
<1>5. CASE NameOps(p)
  <2>1. failed' = failed \/ \E code : CheckFails(p, code)
    BY <1>5 DEF NameOps, DoExport, DoImport, DoForkChild, DoRecord, DoWaitChild, DoMask,
                DoSender, DoKill, DoSigWait, DoSenderIs, Advance
  <2> QED BY <1>2, <2>1
<1>6. CASE FileOps(p)
  <2>1. failed' = failed \/ \E code : CheckFails(p, code) \/ DiesOf(p, code)
    BY <1>6 DEF FileOps, DoTouch, DoUnmap, DoPipe, DoCoe, DoClose, DoWrite, DoRead, DoRelay,
                DoPassOn, Advance
  <2> QED BY <1>2, <2>1
<1> QED BY <1>3, <1>4, <1>5, <1>6, ActOps

-----------------------------------------------------------------------------
(* What a script that is run once can rest on: the root is not forked yet  *)
(* while its fork is ahead; the place of the root tells what the library   *)
(* knows; a queue is as the spawn before it has left it; who is past a     *)
(* raise was not killed by it; a page that was mapped and not unmapped is  *)
(* there; and a counter that counts up is the number of the updates made.  *)
ForkAhead == \A k \in Places(test, Parent) :
  k >= pc[Parent] /\ Do(test, Parent, k) = "fork" => state[Root] = NotBorn
LeftInv(k) ==
  /\ Knows(test) => inited = Initialised(test, k)
  /\ Unwaited \in MayBeLeft(test, k)
  /\ \A t \in Awaited(test, k) \cap Tasks : Gone(t)
LibraryInv == ~Gone(Root) => LeftInv(pc[Root])
NoneQueued(q) == \A t \in Tasks : state[t] # Queued(q)
QueueInv ==
  LET k == pc[Root]  o == ScriptOf(test, Root)[k] IN
  k \in Places(test, Root) /\ o.do = "queue" /\ FirmQueue(test, k) =>
    NoneQueued(o.queue) = o.empty
RaiseInv == \A p \in Procs : GetsTo(test, p, pc[p])
Unmapped(p) == \E i \in 1..(pc[p] - 1) : Do(test, p, i) = "unmap"
PageInv == \A p \in Procs : \A j \in 1..(pc[p] - 1) :
  j \in Exports(test, p, "page") => Unmapped(p) \/ <<p, "page">> \in names
Added == {w \in Adds(test) : pc[w[1]] > w[2]}
SumInv == CountsUp(test) => ledger = Cardinality(Added)

FactsInv == ForkAhead /\ LibraryInv /\ QueueInv /\ RaiseInv /\ PageInv /\ SumInv
Facts == RunOnce(test) => FactsInv

(* Who has ended does nothing more, and nobody brings it back.             *)
LEMMA GoneStays ==
  ASSUME Inv, RunOnce(test), OrderInv, ForkAhead, test' = test,
         NEW p \in Procs, Act(p), NEW q \in Procs, Gone(q)
  PROVE  q # p /\ state'[q] = state[q] /\ pc'[q] = pc[q] /\ Gone(q)'
<1>1. /\ pc \in [Procs -> Nat] /\ pc[p] \in Places(test, p) /\ pc[p] \in Nat \ {0}
      /\ Op(p) = ScriptOf(test, p)[pc[p]] /\ Op(p).do = Do(test, p, pc[p])
      /\ Op(p).do = "spawn" => p = Root /\ Op(p).errs = {} /\ Op(p).who \in Tasks
      /\ state[p] = Alive /\ state \in [Procs -> Life]
  BY Standing DEF TypeInv, ProcType
<1>2. q # p BY <1>1, Lives DEF Gone
<1>3. state[q] # NotBorn /\ \A x : state[q] # Queued(x) BY Lives DEF Gone, AnyStatus, Queued
<1>4. CASE DoSpawn(p)
  <2>1. p = Root /\ Op(p).who \in Tasks /\ Do(test, Root, pc[Root]) = "spawn"
    BY <1>1, <1>4 DEF DoSpawn, At
  <2>2. state[Op(p).who] = NotBorn BY <1>1, <2>1 DEF OrderInv, SpawnInv
  <2>3. q # Op(p).who BY <1>3, <2>2
  <2>4. state'[q] = state[q] BY <1>3, <1>4, <2>3 DEF DoSpawn
  <2>5. pc'[q] = pc[q]
    <3>1. pc' = [pc EXCEPT ![p] = @ + 1, ![Op(p).who] = 1] BY <1>4 DEF DoSpawn
    <3> QED BY <1>1, <1>2, <2>3, <3>1
  <2> QED BY <1>2, <2>4, <2>5 DEF Gone
<1>5. CASE DoFork(p)
  <2>1. Do(test, p, pc[p]) = "fork" BY <1>1, <1>5 DEF DoFork, At
  <2>2. p = Parent BY <1>1, <2>1 DEF RunOnce
  <2>3. state[Root] = NotBorn BY <1>1, <2>1, <2>2 DEF ForkAhead
  <2>4. q # Root BY <1>3, <2>3
  <2> QED BY <1>1, <1>2, <1>5, <2>4 DEF DoFork, Gone
<1>6. CASE ~DoSpawn(p) /\ ~DoFork(p)
  <2>1. state'[q] = state[q] BY <1>2, <1>6, StateStep
  <2>2. Ahead1(p) BY OnceSteps DEF OrderInv
  <2> QED BY <1>1, <1>2, <2>1, <2>2, AheadFacts DEF Gone
<1> QED BY <1>4, <1>5, <1>6

LEMMA ForkAheadStep ==
  ASSUME Inv, RunOnce(test), OrderInv, ForkAhead, test' = test, NEW p \in Procs, Act(p)
  PROVE  ForkAhead'
<1>1. /\ pc \in [Procs -> Nat] /\ pc[p] \in Places(test, p) /\ pc[p] \in Nat \ {0}
      /\ Op(p) = ScriptOf(test, p)[pc[p]] /\ Op(p).do = Do(test, p, pc[p])
      /\ Op(p).do = "spawn" => p = Root /\ Op(p).errs = {} /\ Op(p).who \in Tasks
      /\ state[p] = Alive /\ state \in [Procs -> Life]
  BY Standing DEF TypeInv, ProcType
<1>2. Ahead1(p) BY OnceSteps DEF OrderInv
<1>3. /\ Root \in Procs /\ Parent \in Procs
      /\ pc'[Parent] \in Nat /\ pc[Parent] \in Nat /\ pc'[Parent] >= pc[Parent]
  BY <1>1, <1>2, Ids, AheadFacts
<1> SUFFICES ASSUME NEW k \in Places(test, Parent), k >= pc'[Parent], Do(test, Parent, k) = "fork"
             PROVE  state'[Root] = NotBorn
  BY DEF ForkAhead
<1>4. k \in Nat BY <1>3, NotEmpty DEF Places, Inv
<1>5. k >= pc[Parent] BY <1>3, <1>4
<1>6. state[Root] = NotBorn BY <1>5 DEF ForkAhead
<1>7. p # Root BY <1>1, <1>6, Lives
<1>8. ~DoSpawn(p) BY <1>1, <1>7 DEF DoSpawn, At
<1>9. ~DoFork(p)
  <2> SUFFICES ASSUME DoFork(p) PROVE FALSE OBVIOUS
  <2>1. Do(test, p, pc[p]) = "fork" /\ pc' = [pc EXCEPT ![p] = @ + 1]
    BY <1>1 DEF DoFork, At
  <2>2. p = Parent /\ k = pc[p] BY <1>1, <1>3, <2>1 DEF RunOnce
  <2>3. pc'[Parent] = k + 1 BY <1>1, <2>1, <2>2
  <2> QED BY <1>4, <2>3
<1> QED BY <1>3, <1>6, <1>7, <1>8, <1>9, StateStep

LEMMA RaiseInvStep ==
  ASSUME Inv, RunOnce(test), RaiseInv, test' = test, NEW p \in Procs, Act(p), Ahead1(p)
  PROVE  RaiseInv'
<1>1. /\ pc \in [Procs -> Nat] /\ pc[p] \in Nat /\ state[p] = Alive
      /\ Op(p) = ScriptOf(test, p)[pc[p]] /\ Op(p).do = Do(test, p, pc[p])
  BY Standing
<1> SUFFICES ASSUME NEW q \in Procs, NEW j \in 1..(pc'[q] - 1), Do(test, q, j) = "raise"
             PROVE  ScriptOf(test, q)[j].sig = 0
  BY DEF RaiseInv, GetsTo
<1>2. CASE j \in 1..(pc[q] - 1) BY <1>2 DEF RaiseInv, GetsTo
<1>3. CASE q = p /\ j = pc[p] /\ pc'[p] = pc[p] + 1
  <2>1. DoRaise(p) BY <1>1, <1>3, RaiseStep
  <2>2. pc'[p] # pc[p] BY <1>1, <1>3
  <2> QED BY <1>1, <1>3, <2>1, <2>2 DEF DoRaise
<1> QED BY <1>2, <1>3, Behind

LEMMA PageInvStep ==
  ASSUME Inv, RunOnce(test), PageInv, test' = test, NEW p \in Procs, Act(p), Ahead1(p)
  PROVE  PageInv'
<1>1. /\ pc \in [Procs -> Nat] /\ pc[p] \in Nat
      /\ Op(p) = ScriptOf(test, p)[pc[p]] /\ Op(p).do = Do(test, p, pc[p])
  BY Standing
<1> SUFFICES ASSUME NEW q \in Procs, NEW j \in 1..(pc'[q] - 1), j \in Exports(test, q, "page"),
                    ~Unmapped(q)'
             PROVE  <<q, "page">> \in names'
  BY DEF PageInv
<1>2. \A i \in 1..(pc[q] - 1) : i \in 1..(pc'[q] - 1) BY Behind
<1>3. ~Unmapped(q) BY <1>2 DEF Unmapped
<1>4. <<q, "page">> \in names \/ (q = p /\ DoExport(p))
  <2>1. CASE j \in 1..(pc[q] - 1) BY <1>3, <2>1 DEF PageInv
  <2>2. CASE q = p /\ j = pc[p] /\ pc'[p] = pc[p] + 1
    <3>1. pc'[p] # pc[p] /\ Op(p).do = "export" BY <1>1, <2>2 DEF Exports, Do
    <3>2. DoExport(p) BY <3>1, PageStep DEF DoUnmap, At
    <3> QED BY <2>2, <3>2
  <2> QED BY <2>1, <2>2, Behind
<1>5. CASE DoExport(p)
  <2>1. names' = names \cup {<<p, Op(p).name>>} /\ pc' = [pc EXCEPT ![p] = @ + 1]
        /\ Op(p).do = "export"
    BY <1>5 DEF DoExport, At, Advance
  <2>2. <<q, "page">> \in names \/ (q = p /\ j = pc[p])
    <3>1. CASE j \in 1..(pc[q] - 1) BY <1>3, <3>1 DEF PageInv
    <3> QED BY <3>1, Behind
  <2>3. q = p /\ j = pc[p] => Op(p).name = "page" BY <1>1 DEF Exports
  <2> QED BY <2>1, <2>2, <2>3
<1>6. CASE DoUnmap(p)
  <2>1. names' = names \ {<<p, "page">>} /\ pc' = [pc EXCEPT ![p] = @ + 1] /\ Op(p).do = "unmap"
    BY <1>6 DEF DoUnmap, At, Advance
  <2>2. q # p
    <3> SUFFICES ASSUME q = p PROVE FALSE OBVIOUS
    <3>1. pc'[p] = pc[p] + 1 BY <1>1, <2>1
    <3>2. pc[p] \in 1..(pc'[p] - 1) BY <3>1, Behind
    <3> QED BY <1>1, <2>1, <3>2 DEF Unmapped
  <2>3. ~DoExport(p) BY <2>1 DEF DoExport, At
  <2>4. <<q, "page">> # <<p, "page">> BY <2>2
  <2> QED BY <1>4, <2>1, <2>3, <2>4
<1>7. CASE names' = names /\ (Op(p).do \in {"export", "unmap"} => pc' = pc)
  <2>1. CASE j \in 1..(pc[q] - 1) BY <1>3, <1>7, <2>1 DEF PageInv
  <2>2. CASE q = p /\ j = pc[p] /\ pc'[p] = pc[p] + 1
    <3>1. pc'[p] # pc[p] /\ Op(p).do = "export" BY <1>1, <2>2 DEF Exports, Do
    <3> QED BY <1>7, <3>1
  <2> QED BY <2>1, <2>2, Behind
<1> QED BY <1>5, <1>6, <1>7, PageStep

(* A sum.                                                                  *)
LEMMA AddFacts ==
  ASSUME Inv
  PROVE  /\ Adds(test) \subseteq Steps(test)
         /\ \A p \in Procs : \A k \in Places(test, p) :
              <<p, k>> \in Adds(test) <=> Do(test, p, k) \in {"store", "atomic"}
  BY StepsFacts DEF Adds, OpAt, Do

LEMMA SumNumber ==
  ASSUME NEW S, NEW inc, inc = 1, NEW l, l = Cardinality(S), NEW T,
         Cardinality(T) = Cardinality(S) + 1
  PROVE  l + inc = Cardinality(T)
  OBVIOUS

LEMMA SumStep ==
  ASSUME Inv, RunOnce(test), OrderInv, CountsUp(test), SumInv, test' = test,
         NEW p \in Procs, Act(p), Ahead1(p)
  PROVE  SumInv'
<1>1. /\ pc \in [Procs -> Nat] /\ pc[p] \in Places(test, p) /\ pc[p] \in Nat \ {0}
      /\ Op(p) = ScriptOf(test, p)[pc[p]] /\ Op(p).do = Do(test, p, pc[p])
      /\ Op(p).do # "relay"
  BY Standing
<1>2. ledger = Cardinality(Added) BY DEF SumInv
<1> DEFINE w == <<p, pc[p]>>
<1>3. /\ w \in Steps(test) /\ Adds(test) \subseteq Steps(test) /\ OpAt(test, w) = Op(p)
      /\ w \in Adds(test) <=> Op(p).do \in {"store", "atomic"}
  BY <1>1, StepsFacts, AddFacts DEF OpAt
<1>4. /\ Cardinality(Added) \in Nat
      /\ pc'[p] = pc[p] \/ w \notin Adds(test) => Added' = Added
      /\ pc'[p] = pc[p] + 1 /\ w \in Adds(test) => Cardinality(Added') = Cardinality(Added) + 1
  <2> DEFINE S == Adds(test)
  <2>1. /\ Added = {x \in S : pc[x[1]] > x[2]} /\ Added' = {x \in S : pc'[x[1]] > x[2]}
        /\ S \subseteq Steps(test)
    BY <1>3 DEF Added
  <2> HIDE DEF S
  <2>2. /\ Cardinality(Added) \in Nat
        /\ pc'[p] = pc[p] \/ w \notin S => Added' = Added
        /\ pc'[p] = pc[p] + 1 /\ w \in S => Cardinality(Added') = Cardinality(Added) + 1
    BY <1>1, <2>1, PassStep
  <2> QED BY <2>2 DEF S
<1>5. SUFFICES ledger' = Cardinality(Added') BY DEF SumInv
<1>6. CASE DoStore(p) \/ DoAtomic(p)
  <2>1. /\ ledger' = ledger + Op(p).inc /\ Op(p).do \in {"store", "atomic"}
        /\ pc' = [pc EXCEPT ![p] = @ + 1]
    BY <1>6 DEF DoStore, DoAtomic, At, Advance
  <2>2. Op(p).inc = 1 BY <1>3, <2>1 DEF CountsUp
  <2>3. pc'[p] = pc[p] + 1 BY <1>1, <2>1
  <2>4. Cardinality(Added') = Cardinality(Added) + 1 BY <1>3, <1>4, <2>1, <2>3
  <2> QED BY <1>2, <2>1, <2>2, <2>4, SumNumber
<1>7. CASE DoAssign(p)
  <2>1. ledger' = Op(p).val /\ Op(p).do = "assign" BY <1>7 DEF DoAssign, At
  <2>2. /\ Op(p).val = 0
        /\ \A x \in Adds(test) : Follows(test, x[1], x[2], w[1], w[2])
    BY <1>3, <2>1 DEF CountsUp
  <2>3. Added' = Added BY <1>3, <1>4, <2>1
  <2>4. ASSUME NEW x \in Added PROVE FALSE
    <3>1. x \in Steps(test) /\ pc[x[1]] > x[2] /\ Follows(test, x[1], x[2], p, pc[p])
      BY <1>3, <2>2 DEF Added
    <3>2. x[1] \in Procs /\ x[2] \in Nat /\ pc[x[1]] \in Nat /\ pc[p] \in Nat
      BY <1>1, <3>1, StepsFacts
    <3>3. pc[x[1]] >= x[2] BY <3>1, <3>2
    <3>4. pc[p] > pc[p] BY <1>1, <3>1, <3>2, <3>3, FollowedThat
    <3> QED BY <3>2, <3>4
  <2>5. Added' = {} BY <2>3, <2>4
  <2> QED BY <2>1, <2>2, <2>5, FS_EmptySet
<1>8. CASE \/ DoLoad(p)
           \/ /\ UNCHANGED <<count, reg, ledger>>
              /\ Op(p).do \in {"load", "store", "atomic", "assign"} => pc' = pc
  <2>1. ledger' = ledger BY <1>8 DEF DoLoad
  <2>2. pc'[p] = pc[p] \/ w \notin Adds(test)
    <3>1. CASE DoLoad(p) BY <1>3, <3>1 DEF DoLoad, At
    <3>2. CASE Op(p).do \in {"load", "store", "atomic", "assign"} => pc' = pc BY <1>3, <3>2
    <3> QED BY <1>8, <3>1, <3>2
  <2> QED BY <1>2, <1>4, <2>1, <2>2
<1> QED BY <1>1, <1>6, <1>7, <1>8, MemStep

(* A queue.                                                                *)
LEMMA QueueInvStep ==
  ASSUME Inv, RunOnce(test), OrderInv, QueueInv, test' = test, NEW p \in Procs, Act(p), Ahead1(p)
  PROVE  QueueInv'
<1>1. /\ pc \in [Procs -> Nat] /\ pc[p] \in Places(test, p) /\ pc[p] \in Nat \ {0}
      /\ Op(p) = ScriptOf(test, p)[pc[p]] /\ Op(p).do = Do(test, p, pc[p])
      /\ Op(p).do = "spawn" => p = Root /\ Op(p).errs = {} /\ Op(p).who \in Tasks
      /\ state[p] = Alive /\ state \in [Procs -> Life] /\ Operands(Op(p))
  BY Standing, Present DEF TypeInv, ProcType
<1>2. pc[Root] \in Nat /\ Root \in Procs /\ Root \notin Tasks /\ Tasks \subseteq Procs
  BY <1>1, Ids
<1> DEFINE k == pc'[Root]
           o == ScriptOf(test, Root)[k]
<1> SUFFICES ASSUME k \in Places(test, Root), o.do = "queue", FirmQueue(test, k)
             PROVE  (\A t \in Tasks : state'[t] # Queued(o.queue)) = o.empty
  BY DEF QueueInv, NoneQueued
<1>3. CASE DoSpawn(p)
  <2>1. p = Root /\ Op(p).do = "spawn" /\ Op(p).who \in Tasks BY <1>1, <1>3 DEF DoSpawn, At
  <2>2. k = pc[Root] + 1 BY <1>1, <1>2, <1>3, <2>1 DEF DoSpawn
  <2>3. k - 1 = pc[Root] BY <1>2, <2>2
  <2>4. Op(p).queue = o.queue /\ Op(p).active = o.empty BY <1>1, <2>1, <2>3 DEF FirmQueue
  <2>5. Op(p).active \in BOOLEAN BY <1>1, <2>1 DEF Operands
  <2>6. \A t \in Tasks : state'[t] =
          IF t = Op(p).who THEN IF Op(p).active THEN Alive ELSE Queued(Op(p).queue)
          ELSE IF Op(p).active /\ state[t] = Queued(Op(p).queue) THEN Alive ELSE state[t]
    BY <1>2, <1>3 DEF DoSpawn
  <2>7. Alive # Queued(Op(p).queue) BY DEF Alive, Queued
  <2>8. CASE Op(p).active = TRUE BY <2>4, <2>6, <2>7, <2>8 DEF NoneQueued
  <2>9. CASE Op(p).active = FALSE BY <2>1, <2>4, <2>6, <2>9 DEF NoneQueued
  <2> QED BY <2>5, <2>8, <2>9
<1>4. CASE ~DoSpawn(p)
  <2>1. ASSUME NEW t \in Tasks PROVE state'[t] = Queued(o.queue) <=> state[t] = Queued(o.queue)
    <3>1. \A x : Alive # Queued(x) /\ Queued(x) \notin AnyStatus BY DEF Alive, Queued, AnyStatus
    <3>2. CASE DoFork(p)
      <4>1. state'[t] = state[t] BY <1>1, <1>2, <3>2 DEF DoFork
      <4> QED BY <4>1
    <3>3. CASE ~DoFork(p)
      <4>1. /\ \A q \in Procs : q # p => state'[q] = state[q]
            /\ state'[p] = Alive \/ state'[p] \in AnyStatus
        BY <1>4, <3>3, StateStep
      <4> QED BY <1>1, <1>2, <3>1, <4>1
    <3> QED BY <3>2, <3>3
  <2> DEFINE x == o.queue
  <2>2. (\A t \in Tasks : state'[t] # Queued(x)) = (\A t \in Tasks : state[t] # Queued(x))
    <3>1. \A t \in Tasks : state'[t] = Queued(x) <=> state[t] = Queued(x) BY <2>1
    <3> HIDE DEF x
    <3> QED BY <3>1
  <2>3. k = pc[Root]
    <3> SUFFICES ASSUME k # pc[Root] PROVE FALSE OBVIOUS
    <3>1. p = Root /\ k = pc[Root] + 1 BY <1>1, <1>2, AheadFacts
    <3>2. k - 1 = pc[Root] BY <1>2, <3>1
    <3>3. Op(p).do = "spawn" BY <1>1, <3>1, <3>2 DEF FirmQueue
    <3>4. pc' # pc /\ Op(p).errs = {} BY <1>1, <3>3
    <3> QED BY <1>4, <3>3, <3>4, LibStep DEF DoCall, SpawnRefused, Reap, At
  <2>4. (\A t \in Tasks : state[t] # Queued(x)) = o.empty BY <2>3 DEF QueueInv, NoneQueued
  <2> QED BY <2>2, <2>4
<1> QED BY <1>3, <1>4

-----------------------------------------------------------------------------
(* The root and the library.                                               *)
LEMMA InitialisedFacts ==
  ASSUME NEW s, NEW k \in Nat \ {0}
  PROVE  /\ ~Initialised(s, 1)
         /\ Initialised(s, k + 1) <=>
              Grants(s, k, "pip_init") \/ (Initialised(s, k) /\ ~Grants(s, k, "pip_fin"))
<1> DEFINE G(j) == Grants(s, j, "pip_init")
           F(j) == Grants(s, j, "pip_fin")
<1>1. \A m \in Nat : Initialised(s, m) <=>
        \E j \in 1..(m - 1) : G(j) /\ \A i \in (j + 1)..(m - 1) : ~F(i)
  BY DEF Initialised
<1> HIDE DEF G, F
<1>2. ~Initialised(s, 1) BY <1>1
<1>3. ASSUME G(k) PROVE Initialised(s, k + 1)
  <2>1. k \in 1..((k + 1) - 1) /\ (k + 1)..((k + 1) - 1) = {} OBVIOUS
  <2> QED BY <1>1, <1>3, <2>1
<1>4. ASSUME Initialised(s, k), ~F(k) PROVE Initialised(s, k + 1)
  <2>1. PICK j \in 1..(k - 1) : G(j) /\ \A i \in (j + 1)..(k - 1) : ~F(i) BY <1>1, <1>4
  <2>2. j \in 1..((k + 1) - 1) /\ \A i \in (j + 1)..((k + 1) - 1) : i \in (j + 1)..(k - 1) \/ i = k
    OBVIOUS
  <2>3. \A i \in (j + 1)..((k + 1) - 1) : ~F(i) BY <1>4, <2>1, <2>2
  <2> QED BY <1>1, <2>1, <2>2, <2>3
<1>5. ASSUME Initialised(s, k + 1), ~G(k) PROVE Initialised(s, k) /\ ~F(k)
  <2>1. PICK j \in 1..((k + 1) - 1) : G(j) /\ \A i \in (j + 1)..((k + 1) - 1) : ~F(i)
    BY <1>1, <1>5
  <2>2. j # k BY <1>5, <2>1
  <2>3. j \in 1..(k - 1) /\ k \in (j + 1)..((k + 1) - 1) BY <2>2
  <2>4. \A i \in (j + 1)..(k - 1) : i \in (j + 1)..((k + 1) - 1) OBVIOUS
  <2> QED BY <1>1, <2>1, <2>3, <2>4
<1> QED BY <1>2, <1>3, <1>4, <1>5 DEF G, F

LEMMA SpawnedFacts ==
  ASSUME NEW s, NEW k \in Nat \ {0}
  PROVE  /\ Spawned(s, 1) = {}
         /\ Spawned(s, k + 1) = Spawned(s, k) \cup
              IF Do(s, Root, k) = "spawn" THEN {ScriptOf(s, Root)[k].who} ELSE {}
<1>1. Spawned(s, 1) = {} BY DEF Spawned
<1>2. \A j \in 1..((k + 1) - 1) : j \in 1..(k - 1) \/ j = k OBVIOUS
<1>3. \A j \in 1..(k - 1) : j \in 1..((k + 1) - 1) OBVIOUS
<1>4. k \in 1..((k + 1) - 1) OBVIOUS
<1> QED BY <1>1, <1>2, <1>3, <1>4 DEF Spawned

LEMMA BeforeOne ==
  ASSUME NEW s, NEW do, NEW k \in Nat \ {0}
  PROVE  /\ Before(s, k, do) \in Nat
         /\ Do(s, Root, k) = do => Before(s, k + 1, do) = Before(s, k, do) + 1
         /\ Do(s, Root, k) # do => Before(s, k + 1, do) = Before(s, k, do)
  BY BeforeFacts

(* What a step of the root adds to the tasks spawned and waited for.       *)
LEMMA OtherPlace ==
  ASSUME NEW s, NEW k \in Nat \ {0}, Do(s, Root, k) # "spawn", Do(s, Root, k) # "wait"
  PROVE  /\ Spawned(s, k + 1) = Spawned(s, k) /\ Awaited(s, k + 1) = Awaited(s, k)
         /\ Before(s, k + 1, "spawn") = Before(s, k, "spawn")
         /\ Before(s, k + 1, "wait") = Before(s, k, "wait")
<1>1. Spawned(s, k + 1) = Spawned(s, k)
  <2>1. Spawned(s, k + 1) = Spawned(s, k) \cup
          IF Do(s, Root, k) = "spawn" THEN {ScriptOf(s, Root)[k].who} ELSE {}
    BY SpawnedFacts, Zenon
  <2> QED BY <2>1
<1>2. Awaited(s, k + 1) = Awaited(s, k)
  <2>1. Awaited(s, k + 1) = Awaited(s, k) \cup
          IF Do(s, Root, k) = "wait" THEN {ScriptOf(s, Root)[k].who} ELSE {}
    BY AwaitedFacts, Zenon
  <2> QED BY <2>1
<1>3. Before(s, k + 1, "spawn") = Before(s, k, "spawn") BY BeforeOne, Zenon
<1>4. Before(s, k + 1, "wait") = Before(s, k, "wait") BY BeforeOne, Zenon
<1> QED BY <1>1, <1>2, <1>3, <1>4

LEMMA SpawnPlace ==
  ASSUME NEW s, NEW k \in Nat \ {0}, Do(s, Root, k) = "spawn"
  PROVE  /\ Spawned(s, k + 1) = Spawned(s, k) \cup {ScriptOf(s, Root)[k].who}
         /\ Awaited(s, k + 1) = Awaited(s, k)
         /\ Before(s, k + 1, "spawn") = Before(s, k, "spawn") + 1
         /\ Before(s, k + 1, "wait") = Before(s, k, "wait")
         /\ Before(s, k, "spawn") \in Nat /\ Before(s, k, "wait") \in Nat
<1>1. Spawned(s, k + 1) = Spawned(s, k) \cup {ScriptOf(s, Root)[k].who}
  <2>1. Spawned(s, k + 1) = Spawned(s, k) \cup
          IF Do(s, Root, k) = "spawn" THEN {ScriptOf(s, Root)[k].who} ELSE {}
    BY SpawnedFacts, Zenon
  <2> QED BY <2>1
<1>2. Awaited(s, k + 1) = Awaited(s, k)
  <2>1. Awaited(s, k + 1) = Awaited(s, k) \cup
          IF Do(s, Root, k) = "wait" THEN {ScriptOf(s, Root)[k].who} ELSE {}
    BY AwaitedFacts, Zenon
  <2> QED BY <2>1
<1>3. Do(s, Root, k) # "wait" OBVIOUS
<1>4. Before(s, k + 1, "spawn") = Before(s, k, "spawn") + 1 BY BeforeOne, Zenon
<1>5. Before(s, k + 1, "wait") = Before(s, k, "wait") BY <1>3, BeforeOne, Zenon
<1>6. Before(s, k, "spawn") \in Nat /\ Before(s, k, "wait") \in Nat BY BeforeOne, Zenon
<1> QED BY <1>1, <1>2, <1>4, <1>5, <1>6, Zenon

LEMMA WaitPlace ==
  ASSUME NEW s, NEW k \in Nat \ {0}, Do(s, Root, k) = "wait"
  PROVE  /\ Spawned(s, k + 1) = Spawned(s, k)
         /\ Awaited(s, k + 1) = Awaited(s, k) \cup {ScriptOf(s, Root)[k].who}
         /\ Before(s, k + 1, "spawn") = Before(s, k, "spawn")
         /\ Before(s, k + 1, "wait") = Before(s, k, "wait") + 1
         /\ Before(s, k, "spawn") \in Nat /\ Before(s, k, "wait") \in Nat
<1>1. Spawned(s, k + 1) = Spawned(s, k)
  <2>1. Spawned(s, k + 1) = Spawned(s, k) \cup
          IF Do(s, Root, k) = "spawn" THEN {ScriptOf(s, Root)[k].who} ELSE {}
    BY SpawnedFacts, Zenon
  <2> QED BY <2>1
<1>2. Awaited(s, k + 1) = Awaited(s, k) \cup {ScriptOf(s, Root)[k].who}
  <2>1. Awaited(s, k + 1) = Awaited(s, k) \cup
          IF Do(s, Root, k) = "wait" THEN {ScriptOf(s, Root)[k].who} ELSE {}
    BY AwaitedFacts, Zenon
  <2> QED BY <2>1
<1>3. Do(s, Root, k) # "spawn" OBVIOUS
<1>4. Before(s, k + 1, "spawn") = Before(s, k, "spawn") BY <1>3, BeforeOne, Zenon
<1>5. Before(s, k + 1, "wait") = Before(s, k, "wait") + 1 BY BeforeOne, Zenon
<1>6. Before(s, k, "spawn") \in Nat /\ Before(s, k, "wait") \in Nat BY BeforeOne, Zenon
<1> QED BY <1>1, <1>2, <1>4, <1>5, <1>6, Zenon

(* The tasks left over do not change but by a spawn or a wait.             *)
LEMMA SameUnwaited ==
  ASSUME Inv, NEW p \in Procs, Act(p), ~DoSpawn(p), reaped' = reaped
  PROVE  Unwaited' = Unwaited
<1>1. state[p] = Alive /\ state \in [Procs -> Life] /\ Root \notin Tasks /\ Tasks \subseteq Procs
  BY ActAlive, Ids DEF Inv, TypeInv, ProcType
<1>2. ASSUME NEW t \in Tasks PROVE state'[t] = NotBorn <=> state[t] = NotBorn
  <2>1. CASE DoFork(p)
    <3>1. state'[t] = state[t] BY <1>1, <2>1 DEF DoFork
    <3> QED BY <3>1
  <2>2. CASE ~DoFork(p) BY <1>1, <2>2, StateStep, Lives
  <2> QED BY <2>1, <2>2
<1> QED BY <1>2 DEF Unwaited

(* Who has been waited for is still gone.                                  *)
LEMMA LeftStays ==
  ASSUME Inv, RunOnce(test), OrderInv, ForkAhead, test' = test, NEW p \in Procs, Act(p),
         NEW k, \A t \in Awaited(test, k) \cap Tasks : Gone(t)
  PROVE  \A t \in Awaited(test, k) \cap Tasks : Gone(t)'
  BY GoneStays, Ids

(* The root goes on with something other than a spawn or a wait.           *)
LEMMA LibraryMoves ==
  ASSUME Inv, RunOnce(test), OrderInv, ForkAhead, test' = test, NEW p \in Procs, Act(p),
         NEW k \in Nat \ {0}, LeftInv(k), ~DoSpawn(p), reaped' = reaped,
         NEW n, n = k \/ (n = k + 1 /\ Do(test, Root, k) \notin {"spawn", "wait"}),
         Knows(test) => inited' = Initialised(test, n)
  PROVE  LeftInv(n)'
<1>1. Unwaited' = Unwaited BY SameUnwaited
<1>2. MayBeLeft(test, n) = MayBeLeft(test, k) /\ Awaited(test, n) = Awaited(test, k)
  <2>1. CASE n = k BY <2>1
  <2>2. CASE n = k + 1 /\ Do(test, Root, k) \notin {"spawn", "wait"}
    <3>1. /\ Spawned(test, n) = Spawned(test, k) /\ Awaited(test, n) = Awaited(test, k)
          /\ Before(test, n, "spawn") = Before(test, k, "spawn")
          /\ Before(test, n, "wait") = Before(test, k, "wait")
      BY <2>2, OtherPlace
    <3> QED BY <3>1 DEF MayBeLeft
  <2> QED BY <2>1, <2>2
<1>3. \A t \in Awaited(test, k) \cap Tasks : Gone(t) BY DEF LeftInv
<1>4. \A t \in Awaited(test, n) \cap Tasks : Gone(t)' BY <1>2, <1>3, LeftStays
<1>5. Unwaited \in MayBeLeft(test, k) BY DEF LeftInv
<1> QED BY <1>1, <1>2, <1>4, <1>5 DEF LeftInv

LEMMA OneMore ==
  ASSUME NEW S, IsFiniteSet(S), NEW x, x \notin S, NEW a \in Nat, NEW b \in Nat,
         Cardinality(S) = a - b
  PROVE  Cardinality(S \cup {x}) = (a + 1) - b
<1>1. Cardinality(S \cup {x}) = Cardinality(S) + 1 BY FS_AddElement
<1> QED BY <1>1

LEMMA OneLess ==
  ASSUME NEW S, IsFiniteSet(S), NEW x, x \in S, NEW a \in Nat, NEW b \in Nat,
         Cardinality(S) = a - b
  PROVE  Cardinality(S \ {x}) = a - (b + 1)
<1>1. Cardinality(S \ {x}) = Cardinality(S) - 1 BY FS_RemoveElement
<1> QED BY <1>1

LEMMA LibrarySpawns ==
  ASSUME Inv, RunOnce(test), OrderInv, ForkAhead, test' = test, NEW p \in Procs, Act(p),
         DoSpawn(p), NEW k, k = pc[Root], LeftInv(k)
  PROVE  LeftInv(k + 1)'
<1> DEFINE w == Op(p).who
<1>1. /\ p = Root /\ k \in Nat \ {0} /\ Do(test, Root, k) = "spawn" /\ w \in Tasks
      /\ ScriptOf(test, Root)[k].who = w /\ k \in Places(test, Root)
      /\ state \in [Procs -> Life]
  BY Standing DEF DoSpawn, At, TypeInv, ProcType
<1>2. state[w] = NotBorn
  <2>1. k >= pc[Root] BY <1>1
  <2> QED BY <1>1, <2>1 DEF OrderInv, SpawnInv
<1>3. /\ Unwaited \subseteq Spawned(test, k) \ Awaited(test, k)
      /\ Cardinality(Unwaited) = Before(test, k, "spawn") - Before(test, k, "wait")
      /\ \A t \in Awaited(test, k) \cap Tasks : Gone(t)
      /\ Knows(test) => inited = Initialised(test, k)
  BY DEF LeftInv, MayBeLeft
<1>4. w \notin Awaited(test, k) /\ w \notin Unwaited
  BY <1>1, <1>2, <1>3, Lives DEF Gone, Unwaited
<1>5. /\ Spawned(test, k + 1) = Spawned(test, k) \cup {w} /\ Awaited(test, k + 1) = Awaited(test, k)
      /\ Before(test, k + 1, "spawn") = Before(test, k, "spawn") + 1
      /\ Before(test, k + 1, "wait") = Before(test, k, "wait")
      /\ Before(test, k, "spawn") \in Nat /\ Before(test, k, "wait") \in Nat
  <2>1. k \in Nat \ {0} /\ Do(test, Root, k) = "spawn" /\ ScriptOf(test, Root)[k].who = w
    BY <1>1
  <2> QED BY <2>1, SpawnPlace
<1>6. Unwaited' = Unwaited \cup {w}
  <2>1. /\ reaped' = reaped \ {w}
        /\ \A t \in Procs : state'[t] =
             IF t = w THEN IF Op(p).active THEN Alive ELSE Queued(Op(p).queue)
             ELSE IF Op(p).active /\ state[t] = Queued(Op(p).queue) THEN Alive ELSE state[t]
    BY DEF DoSpawn
  <2>2. Alive # NotBorn /\ \A x : Queued(x) # NotBorn BY DEF Alive, NotBorn, Queued
  <2>3. ASSUME NEW t \in Tasks PROVE state'[t] # NotBorn <=> state[t] # NotBorn \/ t = w
    BY <1>2, <2>1, <2>2, <2>3, Ids
  <2> HIDE DEF w
  <2> QED BY <1>1, <2>1, <2>3 DEF Unwaited
<1>7. Unwaited' \subseteq Spawned(test, k + 1) \ Awaited(test, k + 1) BY <1>3, <1>4, <1>5, <1>6
<1>8. Cardinality(Unwaited') = Before(test, k + 1, "spawn") - Before(test, k + 1, "wait")
  <2> DEFINE a == Before(test, k, "spawn")
             b == Before(test, k, "wait")
  <2>1. Cardinality(Unwaited \cup {w}) = (a + 1) - b
    <3> HIDE DEF a, b, w
    <3>1. /\ a \in Nat /\ b \in Nat /\ w \notin Unwaited /\ IsFiniteSet(Unwaited)
          /\ Cardinality(Unwaited) = a - b
      BY <1>3, <1>4, <1>5, UnwaitedFinite DEF a, b, w
    <3> QED BY <3>1, OneMore
  <2> QED BY <1>5, <1>6, <2>1, Zenon
<1>9. Unwaited' \in MayBeLeft(test, k + 1) BY <1>7, <1>8 DEF MayBeLeft
<1>10. Knows(test) => inited' = Initialised(test, k + 1)
  <2>1. ~Grants(test, k, "pip_init") /\ ~Grants(test, k, "pip_fin") BY <1>1 DEF Grants, Do
  <2>2. Initialised(test, k + 1) <=> Initialised(test, k) BY <1>1, <2>1, InitialisedFacts
  <2>3. inited' = inited BY DEF DoSpawn
  <2>4. Initialised(test, k + 1) \in BOOLEAN /\ Initialised(test, k) \in BOOLEAN BY DEF Initialised
  <2> QED BY <1>3, <2>2, <2>3, <2>4
<1>11. \A t \in Awaited(test, k + 1) \cap Tasks : Gone(t)' BY <1>3, <1>5, LeftStays
<1> QED BY <1>9, <1>10, <1>11 DEF LeftInv

LEMMA LibraryWaits ==
  ASSUME Inv, RunOnce(test), OrderInv, ForkAhead, test' = test, NEW p \in Procs, Act(p),
         NEW t \in Procs, Reap(p, t), ~Gone(Root), ~Gone(Root)', NEW k, k = pc[Root], LeftInv(k)
  PROVE  pc'[Root] = k + 1 /\ LeftInv(k + 1)'
<1>1. /\ pc[p] \in Nat \ {0} /\ Do(test, p, pc[p]) = "wait" /\ pc[p] \in Places(test, p)
      /\ Op(p) = ScriptOf(test, p)[pc[p]] /\ pc \in [Procs -> Nat]
      /\ state \in [Procs -> Life] /\ Operands(Op(p)) /\ Op(p).do = "wait"
  BY Standing, Present DEF Reap, At, TypeInv, ProcType
<1>2. p = Root
  <2>1. p \in {Root, Parent} BY <1>1 DEF RunOnce
  <2>2. p # Parent BY DEF Reap
  <2> QED BY <2>1, <2>2
<1>3. /\ t \in Tasks /\ t \notin reaped /\ Gone(t) /\ reaped' = reaped \cup {t} /\ inited' = inited
      /\ Op(p).who \in {t, ANY}
      /\ Advance(p) \/ \E c \in Nat : CheckFails(p, c)
  <2>1. Root # Parent BY DEF Root, Parent
  <2>2. Op(p).sigfail \in Nat BY <1>1 DEF Operands
  <2> QED BY <1>2, <2>1, <2>2, Codes DEF Reap
<1>4. Advance(p)
  <2>1. ASSUME NEW c \in Nat, CheckFails(p, c) PROVE FALSE
    BY <1>1, <1>2, <2>1, Lives, Ids DEF CheckFails, EndWith, Gone
  <2> QED BY <1>3, <2>1
<1>5. pc'[Root] = k + 1 /\ state' = state /\ k \in Nat \ {0}
  BY <1>1, <1>2, <1>4 DEF Advance
<1>6. /\ Unwaited \subseteq Spawned(test, k) \ Awaited(test, k)
      /\ Cardinality(Unwaited) = Before(test, k, "spawn") - Before(test, k, "wait")
      /\ \A u \in Awaited(test, k) \cap Tasks : Gone(u)
      /\ Knows(test) => inited = Initialised(test, k)
  BY DEF LeftInv, MayBeLeft
<1>7. /\ Spawned(test, k + 1) = Spawned(test, k)
      /\ Awaited(test, k + 1) = Awaited(test, k) \cup {Op(p).who}
      /\ Before(test, k + 1, "spawn") = Before(test, k, "spawn")
      /\ Before(test, k + 1, "wait") = Before(test, k, "wait") + 1
      /\ Before(test, k, "spawn") \in Nat /\ Before(test, k, "wait") \in Nat
  <2>1. ScriptOf(test, Root)[k].who = Op(p).who /\ Do(test, Root, k) = "wait" BY <1>1, <1>2
  <2> QED BY <1>5, <2>1, WaitPlace
<1>8. Unwaited' = Unwaited \ {t} /\ t \in Unwaited
  BY <1>3, <1>5, Lives DEF Unwaited, Gone
<1>9. ANY \notin Tasks BY Ids
<1>10. Unwaited' \subseteq Spawned(test, k + 1) \ Awaited(test, k + 1)
  <2>1. Unwaited \subseteq Tasks BY DEF Unwaited
  <2> QED BY <1>3, <1>6, <1>7, <1>8, <1>9, <2>1
<1>11. Cardinality(Unwaited') = Before(test, k + 1, "spawn") - Before(test, k + 1, "wait")
  <2> DEFINE a == Before(test, k, "spawn")
             b == Before(test, k, "wait")
  <2>1. Cardinality(Unwaited \ {t}) = a - (b + 1)
    <3> HIDE DEF a, b
    <3>1. /\ a \in Nat /\ b \in Nat /\ t \in Unwaited /\ IsFiniteSet(Unwaited)
          /\ Cardinality(Unwaited) = a - b
      BY <1>6, <1>7, <1>8, UnwaitedFinite DEF a, b
    <3> QED BY <3>1, OneLess
  <2> QED BY <1>7, <1>8, <2>1, Zenon
<1>12. Unwaited' \in MayBeLeft(test, k + 1) BY <1>10, <1>11 DEF MayBeLeft
<1>13. Knows(test) => inited' = Initialised(test, k + 1)
  <2>1. ~Grants(test, k, "pip_init") /\ ~Grants(test, k, "pip_fin") BY <1>1, <1>2 DEF Grants, Do
  <2>2. Initialised(test, k + 1) <=> Initialised(test, k) BY <1>5, <2>1, InitialisedFacts
  <2>4. Initialised(test, k + 1) \in BOOLEAN /\ Initialised(test, k) \in BOOLEAN BY DEF Initialised
  <2> QED BY <1>3, <1>6, <2>2, <2>4
<1>14. \A u \in Awaited(test, k + 1) \cap Tasks : Gone(u)'
  BY <1>3, <1>5, <1>6, <1>7, <1>9 DEF Gone
<1>15. LeftInv(k + 1)' BY <1>12, <1>13, <1>14 DEF LeftInv
<1> QED BY <1>5, <1>15

(* A call of the root, which knows what it returns if it is of those that  *)
(* change what the library knows.                                          *)
LEMMA LibraryCalls ==
  ASSUME Inv, RunOnce(test), Knows(test), NEW p \in Procs, Act(p), DoCall(p), p = Root,
         NEW k, k = pc[Root], inited = Initialised(test, k), ~Gone(Root)'
  PROVE  pc'[Root] = k + 1 /\ inited' = Initialised(test, k + 1)
<1>1. /\ k \in Nat \ {0} /\ Do(test, Root, k) = "call" /\ k \in Places(test, Root)
      /\ Op(p) = ScriptOf(test, Root)[k] /\ pc \in [Procs -> Nat]
      /\ state \in [Procs -> Life] /\ Operands(Op(p)) /\ Op(p).do = "call"
  BY Standing, Present DEF DoCall, At, TypeInv, ProcType
<1>2. ASSUME CheckFails(p, Op(p).fail) PROVE FALSE
  <2>1. Op(p).fail \in Nat BY <1>1 DEF Operands
  <2> QED BY <1>1, <1>2, <2>1, Lives, Ids DEF CheckFails, EndWith, Gone
<1>3. PICK rv : /\ rv \in Op(p).expect /\ Advance(p)
                /\ inited' = IF p = Root /\ rv = "0" /\ Op(p).f \in {"pip_init", "pip_fin"}
                             THEN Op(p).f = "pip_init" ELSE inited
  BY <1>2 DEF DoCall
<1>4. pc'[Root] = k + 1 BY <1>1, <1>3, Ids DEF Advance
<1>5. \A f : Grants(test, k, f) <=> Op(p).f = f /\ "0" \in Op(p).expect BY <1>1 DEF Grants, Do
<1>6. Grants(test, k, "pip_init") \/ Grants(test, k, "pip_fin") => rv = "0"
  BY <1>1, <1>3 DEF Knows, Ok
<1>7. Initialised(test, k + 1) <=>
        Grants(test, k, "pip_init") \/ (Initialised(test, k) /\ ~Grants(test, k, "pip_fin"))
  BY <1>1, InitialisedFacts
<1>8. Initialised(test, k + 1) \in BOOLEAN /\ Initialised(test, k) \in BOOLEAN BY DEF Initialised
<1>9. CASE rv = "0" /\ Op(p).f \in {"pip_init", "pip_fin"}
  <2>1. "0" \in Op(p).expect BY <1>3, <1>9
  <2>2. CASE Op(p).f = "pip_init"
    <3>1. Grants(test, k, "pip_init") BY <1>5, <2>1, <2>2
    <3>2. inited' = TRUE BY <1>3, <1>9, <2>2
    <3>3. Initialised(test, k + 1) BY <1>7, <3>1
    <3>4. Initialised(test, k + 1) = TRUE BY <1>8, <3>3, Zenon
    <3> QED BY <1>4, <3>2, <3>4
  <2>3. CASE Op(p).f = "pip_fin"
    <3>1. Grants(test, k, "pip_fin") /\ ~Grants(test, k, "pip_init") BY <1>5, <2>1, <2>3
    <3>2. inited' = FALSE BY <1>3, <1>9, <2>3
    <3>3. ~Initialised(test, k + 1) BY <1>7, <3>1
    <3>4. Initialised(test, k + 1) = FALSE BY <1>8, <3>3, Zenon
    <3> QED BY <1>4, <3>2, <3>4
  <2> QED BY <1>9, <2>2, <2>3
<1>10. CASE ~(rv = "0" /\ Op(p).f \in {"pip_init", "pip_fin"})
  <2>1. inited' = inited BY <1>3, <1>10
  <2>2. ~Grants(test, k, "pip_init") /\ ~Grants(test, k, "pip_fin") BY <1>5, <1>6, <1>10
  <2> QED BY <1>4, <1>7, <1>8, <2>1, <2>2
<1> QED BY <1>4, <1>9, <1>10

LEMMA LibraryStep ==
  ASSUME Inv, RunOnce(test), OrderInv, ForkAhead, LibraryInv, test' = test,
         NEW p \in Procs, Act(p), Ahead1(p)
  PROVE  LibraryInv'
<1>1. /\ pc \in [Procs -> Nat] /\ pc[p] \in Nat \ {0} /\ state[p] = Alive
      /\ Op(p) = ScriptOf(test, p)[pc[p]] /\ Op(p).do = Do(test, p, pc[p])
      /\ Op(p).do = "spawn" => p = Root /\ Op(p).errs = {} /\ Op(p).who \in Tasks
      /\ Root \in Procs /\ pc[Root] \in Nat \ {0} /\ pc[p] \in Places(test, p)
  BY Standing, Ids, Positive DEF Inv
<1> PICK k : k = pc[Root] OBVIOUS
<1> SUFFICES ASSUME ~Gone(Root)', NEW n, n = pc'[Root] PROVE LeftInv(n)'
  BY DEF LibraryInv
<1>2. ~Gone(Root)
  <2> SUFFICES ASSUME Gone(Root) PROVE FALSE OBVIOUS
  <2> QED BY <1>1, GoneStays
<1>3. LeftInv(k) BY <1>2 DEF LibraryInv
<1>4. CASE DoSpawn(p)
  <2>1. p = Root /\ Op(p).who \in Tasks /\ Op(p).who # Root
    BY <1>1, <1>4, Ids DEF DoSpawn, At
  <2>2. pc'[Root] = k + 1 BY <1>1, <1>4, <2>1 DEF DoSpawn
  <2>3. LeftInv(k + 1)' BY <1>3, <1>4, LibrarySpawns
  <2> QED BY <2>2, <2>3
<1>5. CASE \E t \in Procs : Reap(p, t)
  <2>1. PICK t \in Procs : Reap(p, t) BY <1>5
  <2>2. pc'[Root] = k + 1 /\ LeftInv(k + 1)' BY <1>2, <1>3, <2>1, LibraryWaits
  <2> QED BY <2>2
<1>6. CASE DoCall(p) /\ ~DoSpawn(p)
  <2>1. Do(test, p, k) = "call" \/ p # Root BY <1>1, <1>6 DEF DoCall, At
  <2>2. pc'[Root] = k \/ (p = Root /\ pc'[Root] = k + 1) BY <1>1, AheadFacts
  <2>3. pc'[Root] = k \/ (pc'[Root] = k + 1 /\ Do(test, Root, k) \notin {"spawn", "wait"})
    BY <2>1, <2>2
  <2>4. reaped' = reaped BY <1>6 DEF DoCall
  <2>5. ASSUME Knows(test) PROVE inited' = Initialised(test, pc'[Root])
    <3>1. inited = Initialised(test, k) BY <1>3, <2>5 DEF LeftInv
    <3>2. CASE p = Root BY <1>6, <2>5, <3>1, <3>2, LibraryCalls
    <3>3. CASE p # Root
      <4>1. inited' = inited BY <1>6, <3>3 DEF DoCall
      <4> QED BY <2>2, <3>1, <3>3, <4>1
    <3> QED BY <3>2, <3>3
  <2> QED BY <1>1, <1>3, <1>6, <2>3, <2>4, <2>5, LibraryMoves
<1>7. CASE /\ ~DoSpawn(p) /\ UNCHANGED <<inited, reaped>>
           /\ Op(p).do \in {"call", "spawn", "wait"} => pc' = pc
  <2>1. pc'[Root] = k \/ (p = Root /\ pc'[Root] = k + 1) BY <1>1, AheadFacts
  <2>2. pc'[Root] = k \/ (pc'[Root] = k + 1 /\ Do(test, Root, k) \notin {"call", "spawn", "wait"})
    <3> SUFFICES ASSUME pc'[Root] # k PROVE Op(p).do \notin {"call", "spawn", "wait"} /\ p = Root
      BY <1>1, <2>1
    <3> QED BY <1>7, <2>1
  <2>3. ASSUME Knows(test) PROVE inited' = Initialised(test, pc'[Root])
    <3>1. inited = Initialised(test, k) /\ inited' = inited BY <1>3, <1>7, <2>3 DEF LeftInv
    <3>2. CASE pc'[Root] = k BY <3>1, <3>2
    <3>3. CASE pc'[Root] = k + 1 /\ Do(test, Root, k) \notin {"call", "spawn", "wait"}
      <4>1. ~Grants(test, k, "pip_init") /\ ~Grants(test, k, "pip_fin")
        BY <3>3 DEF Grants, Do
      <4>2. Initialised(test, k + 1) <=> Initialised(test, k) BY <1>1, <4>1, InitialisedFacts
      <4>3. Initialised(test, k + 1) \in BOOLEAN /\ Initialised(test, k) \in BOOLEAN
        BY DEF Initialised
      <4>4. Initialised(test, k + 1) = Initialised(test, k) BY <4>2, <4>3, Zenon
      <4> QED BY <3>1, <3>3, <4>4
    <3> QED BY <2>2, <3>2, <3>3
  <2>4. Do(test, Root, k) \notin {"call", "spawn", "wait"}
          => Do(test, Root, k) \notin {"spawn", "wait"}
    OBVIOUS
  <2> QED BY <1>1, <1>3, <1>7, <2>2, <2>3, <2>4, LibraryMoves
<1>8. ~SpawnRefused(p) BY <1>1 DEF SpawnRefused, At
<1> QED BY <1>4, <1>5, <1>6, <1>7, <1>8, LibStep

LEMMA SameFacts ==
  ASSUME FactsInv, UNCHANGED <<test, pc, names, ledger, inited, reaped>>,
         \A q \in Procs : state'[q] # state[q] => state[q] = Alive /\ state'[q] \in AnyStatus
  PROVE  FactsInv'
<1>1. ASSUME NEW q \in Procs
      PROVE  /\ state'[q] = NotBorn <=> state[q] = NotBorn
             /\ Gone(q) => Gone(q)'
             /\ \A x : state'[q] = Queued(x) <=> state[q] = Queued(x)
  <2>1. Alive \notin AnyStatus /\ NotBorn \notin AnyStatus /\ Alive # NotBorn BY Lives
  <2>2. \A x : Queued(x) \notin AnyStatus /\ Alive # Queued(x) BY DEF Queued, AnyStatus, Alive
  <2> QED BY <2>1, <2>2 DEF Gone
<1>2. Root \in Procs /\ Tasks \subseteq Procs BY Ids
<1>3. ForkAhead' BY <1>1, <1>2 DEF FactsInv, ForkAhead
<1>4. LibraryInv'
  <2>1. Unwaited' = Unwaited BY <1>1, <1>2 DEF Unwaited
  <2>2. ASSUME ~Gone(Root)' PROVE LeftInv(pc[Root])'
    <3>1. LeftInv(pc[Root]) BY <1>1, <1>2, <2>2 DEF FactsInv, LibraryInv
    <3>2. \A t \in Awaited(test, pc[Root]) \cap Tasks : Gone(t)' BY <1>1, <1>2, <3>1 DEF LeftInv
    <3> QED BY <2>1, <3>1, <3>2 DEF LeftInv
  <2> QED BY <2>2 DEF LibraryInv
<1>5. QueueInv'
  <2>1. \A x : (\A t \in Tasks : state'[t] # Queued(x)) = (\A t \in Tasks : state[t] # Queued(x))
    <3>1. ASSUME NEW x
          PROVE  (\A t \in Tasks : state'[t] # Queued(x)) = (\A t \in Tasks : state[t] # Queued(x))
      BY <1>1, <1>2
    <3> QED BY <3>1
  <2> QED BY <2>1, Zenon DEF FactsInv, QueueInv, NoneQueued
<1>6. RaiseInv' BY DEF FactsInv, RaiseInv
<1>7. PageInv' BY DEF FactsInv, PageInv, Unmapped
<1>8. SumInv' BY DEF FactsInv, SumInv, Added
<1> QED BY <1>3, <1>4, <1>5, <1>6, <1>7, <1>8 DEF FactsInv

LEMMA NextFacts ==
  ASSUME Inv, RunOnce(test), OrderInv, FactsInv, Next
  PROVE  FactsInv'
<1>0. test' = test BY SameTest
<1>1. ASSUME NEW p \in Procs, Act(p) PROVE FactsInv'
  <2>1. Ahead1(p) BY <1>0, <1>1, OnceSteps DEF OrderInv
  <2>2. ForkAhead' /\ LibraryInv' BY <1>0, <1>1, <2>1, ForkAheadStep, LibraryStep DEF FactsInv
  <2>3. QueueInv' BY <1>0, <1>1, <2>1, QueueInvStep DEF FactsInv
  <2>4. RaiseInv' /\ PageInv' BY <1>0, <1>1, <2>1, RaiseInvStep, PageInvStep DEF FactsInv
  <2>5. ASSUME CountsUp(test) PROVE SumInv'
    BY <1>0, <1>1, <2>1, <2>5, SumStep DEF FactsInv
  <2>6. SumInv' BY <1>0, <2>5 DEF SumInv
  <2> QED BY <2>2, <2>3, <2>4, <2>6 DEF FactsInv
<1>2. CASE Killing
  <2>1. UNCHANGED <<inited, reaped>>
    BY <1>2, AbortFacts DEF Killing, RootKilled, WatchdogKills, lib
  <2>2. UNCHANGED <<test, pc, names, ledger>> BY <1>2, KillingSpares DEF mem, comm
  <2> QED BY <1>2, <2>1, <2>2, KillingSpares, SameFacts
<1> QED BY <1>1, <1>2, Acts

LEMMA InitFacts == ASSUME Init PROVE FactsInv
<1>1. \A p \in Procs : pc[p] = 1 BY DEF Init
<1>2. Root \in Procs /\ Tasks \subseteq Procs /\ Root \notin Tasks /\ Parent \notin Tasks
      /\ Root # Parent /\ Parent \in Procs
  BY Ids DEF Root, Parent
<1>3. Outer \in {Root, Parent} /\ \A p \in Procs : state[p] = IF p = Outer THEN Alive ELSE NotBorn
  BY DEF Init, Outer
<1>4. Inv BY InitInv
<1>5. ForkAhead
  <2> SUFFICES ASSUME NEW k \in Places(test, Parent) PROVE state[Root] = NotBorn
    BY DEF ForkAhead
  <2>1. ScriptOf(test, Parent) # <<>> BY DEF Places
  <2>2. Outer = Parent BY <2>1 DEF Outer, Script
  <2> QED BY <1>2, <1>3, <2>2
<1>6. LibraryInv
  <2>1. Unwaited = {} BY <1>2, <1>3 DEF Unwaited
  <2>2. 1 \in Nat \ {0} OBVIOUS
  <2>3. ~Initialised(test, 1) /\ Spawned(test, 1) = {} /\ Awaited(test, 1) = {}
    BY <2>2, InitialisedFacts, SpawnedFacts, AwaitedFacts
  <2>4. Before(test, 1, "spawn") = 0 /\ Before(test, 1, "wait") = 0 BY <2>2, BeforeFacts, Zenon
  <2>5. Unwaited \in MayBeLeft(test, 1)
    <3>1. Cardinality({}) = 0 - 0 BY FS_EmptySet
    <3>2. Cardinality({}) = Before(test, 1, "spawn") - Before(test, 1, "wait")
      BY <2>4, <3>1, Zenon
    <3> QED BY <2>1, <2>3, <3>2 DEF MayBeLeft
  <2>6. inited = Initialised(test, 1)
    <3>1. inited = FALSE /\ Initialised(test, 1) \in BOOLEAN BY DEF Init, Initialised
    <3> QED BY <2>3, <3>1, Zenon
  <2> QED BY <1>1, <1>2, <2>3, <2>5, <2>6 DEF LibraryInv, LeftInv
<1>7. QueueInv BY <1>1, <1>2 DEF QueueInv, FirmQueue
<1>8. RaiseInv BY <1>1 DEF RaiseInv, GetsTo
<1>9. PageInv BY <1>1 DEF PageInv
<1>10. SumInv
  <2>1. ASSUME NEW w \in Added PROVE FALSE
    <3>1. w \in Steps(test) /\ pc[w[1]] > w[2] BY <1>4, AddFacts DEF Added
    <3>2. w[1] \in Procs /\ w[2] \in Nat \ {0} BY <1>4, <3>1, StepsFacts
    <3> QED BY <1>1, <3>1, <3>2
  <2>2. Added = {} BY <2>1
  <2> QED BY <2>2, FS_EmptySet DEF SumInv, Init
<1> QED BY <1>5, <1>6, <1>7, <1>8, <1>9, <1>10 DEF FactsInv

LEMMA FactsHold == Spec => [](Inv /\ Order /\ Facts)
<1>1. Init => Facts BY InitFacts DEF Facts
<1>2. Inv /\ Order /\ Facts /\ [Next]_vars => Facts'
  <2> SUFFICES ASSUME Inv, Order, Facts, [Next]_vars, RunOnce(test)' PROVE FactsInv' BY DEF Facts
  <2>1. test' = test BY SameTest
  <2>2. RunOnce(test) /\ OrderInv /\ FactsInv BY <2>1 DEF Order, Facts
  <2>3. CASE Next BY <2>2, <2>3, NextFacts
  <2>4. CASE UNCHANGED vars
    <3>1. UNCHANGED <<test, pc, names, ledger, inited, reaped, state>>
      BY <2>4 DEF vars, proc, lib, mem, comm
    <3> QED BY <2>2, <3>1, SameFacts
  <2> QED BY <2>3, <2>4
<1> QED BY <1>1, <1>2, OrderHolds, PTL DEF Spec

-----------------------------------------------------------------------------
(* The ring once more: the signal on its way is the one its receiver's     *)
(* place expects, and who has just received it finds its sender's name.    *)
Arriving(p, sig) == \E m \in Places(test, Prev(p)) :
  /\ Do(test, Prev(p), m) = "kill" /\ Sent(test, Prev(p), m) = Got(test, p, pc[p])
  /\ ScriptOf(test, Prev(p))[m].sig = sig
ArriveInv ==
  /\ \A p \in Everybody : \A sig \in pending[p] : Arriving(p, sig)
  /\ \A p \in Everybody :
       Do(test, p, pc[p]) = "sender is" /\ FirmSender(test, p, pc[p]) => sender = Prev(p)
Arrivals == Ring(test) => ArriveInv

LEMMA SignalStep ==
  ASSUME NEW p, Act(p)
  PROVE  DoSender(p) \/ DoKill(p) \/ DoSigWait(p) \/ UNCHANGED <<pending, sender>>
<1>1. CASE LifeOps(p)
  BY <1>1 DEF LifeOps, DoArgs, DoCall, DoSpawn, SpawnRefused, DoQueue, DoFork, Reap, DoExit,
              DoReturnErr, DoRaise, DoHooks, DoAbort, CallFaults, SpawnFails, ForkFails, comm
<1>2. CASE SyncOps(p)
  BY <1>2 DEF SyncOps, Enter, Leave, DoLock, DoUnlock, DoLoad, DoStore, DoAtomic, DoAssign,
              DoCount, comm
<1>3. CASE NameOps(p)
  BY <1>3 DEF NameOps, DoExport, DoImport, DoForkChild, DoRecord, DoWaitChild, DoMask,
              DoSenderIs, comm
<1>4. CASE FileOps(p)
  BY <1>4 DEF FileOps, DoTouch, DoUnmap, DoPipe, DoCoe, DoClose, DoWrite, DoRead, DoRelay,
              DoPassOn, comm, Others
<1> QED BY <1>1, <1>2, <1>3, <1>4, ActOps

(* Who has just received the token has it.                                 *)
LEMMA AfterWait ==
  ASSUME Inv, Ring(test), NEW p \in Everybody, FirmSender(test, p, pc[p])
  PROVE  Hand(p, Sends, Gets) = 1
<1>1. /\ pc[p] \in Nat \ {0} /\ pc[p] > 1 /\ Do(test, p, pc[p] - 1) = "sigwait"
      /\ pc[p] \in Places(test, p) /\ Hand(p, Sends, Gets) = Tokens(test, p, pc[p])
  <2>1. 1 \in Places(test, p) BY NotEmpty, Ids DEF Inv
  <2>2. pc[p] \in Places(test, p) BY <2>1, Ids DEF Inv, TypeInv, PlaceInv
  <2> QED BY <2>2, Members DEF FirmSender
<1> DEFINE k == pc[p] - 1
<1>2. k \in Nat \ {0} /\ k \in Places(test, p) /\ k + 1 = pc[p] BY <1>1 DEF Places
<1> HIDE DEF k
<1>3. Tokens(test, p, k) = 0
  <2>1. RingPlace(test, p, k) BY <1>2 DEF Ring
  <2> QED BY <1>1, <1>2, <2>1 DEF RingPlace, Do, k
<1>4. /\ Got(test, p, k + 1) = Got(test, p, k) + 1 /\ Sent(test, p, k + 1) = Sent(test, p, k)
      /\ Got(test, p, k) \in Nat /\ Sent(test, p, k) \in Nat
  <2>1. Do(test, p, k) = "sigwait" BY <1>1 DEF k
  <2>2. \A do : /\ Made(test, p, k, do) \in Nat
                /\ Do(test, p, k) = do => Made(test, p, k + 1, do) = Made(test, p, k, do) + 1
                /\ Do(test, p, k) # do => Made(test, p, k + 1, do) = Made(test, p, k, do)
    BY <1>2, MadeFacts
  <2> QED BY <2>1, <2>2, Zenon DEF Sent, Got
<1>5. Tokens(test, p, k + 1) = 1 BY <1>3, <1>4 DEF Tokens
<1> QED BY <1>1, <1>2, <1>5

LEMMA ArriveStep ==
  ASSUME Inv, Ring(test), RingInv, ArriveInv, test' = test, NEW p \in Procs, Act(p), Ahead1(p)
  PROVE  ArriveInv'
<1>1. /\ pc \in [Procs -> Nat] /\ pc[p] \in Nat \ {0} /\ pc[p] \in Places(test, p)
      /\ state[p] = Alive /\ p \in Everybody
      /\ Op(p) = ScriptOf(test, p)[pc[p]] /\ Op(p).do = Do(test, p, pc[p])
  <2>1. RunOnce(test) BY DEF Ring, Disciplined, Straight
  <2>2. /\ pc \in [Procs -> Nat] /\ pc[p] \in Places(test, p)
        /\ state[p] = Alive /\ pc[p] \in Nat \ {0}
        /\ Op(p) = ScriptOf(test, p)[pc[p]] /\ Op(p).do = Do(test, p, pc[p])
    BY <2>1, Standing
  <2> QED BY <2>2, Members
<1>2. \A q \in Everybody : q \in Procs /\ Prev(q) \in Everybody BY Ids, PrevFacts
<1>3. \A q \in Everybody : pc'[q] # pc[q] => q = p /\ pc'[p] = pc[p] + 1
  BY <1>1, <1>2, AheadFacts
<1>4. ASSUME NEW q \in Everybody, NEW sig \in pending'[q] PROVE Arriving(q, sig)'
  <2>1. CASE DoKill(p)
    <3>1. Op(p).do = "kill" BY <2>1 DEF DoKill, At
    <3>2. /\ \A r \in Everybody : pending[r] = {} /\ Gets[r] = Sends[Prev(r)]
      BY <1>1, <3>1, NothingPending
    <3>3. q = Op(p).to /\ sig = Op(p).sig
      <4>1. CASE Op(p).to \in masked
        <5>1. pending' = [pending EXCEPT ![Op(p).to] = @ \cup {Op(p).sig}] BY <2>1, <4>1 DEF DoKill
        <5>2. pending = [r \in Procs |-> pending[r]] BY DEF RingInv, SignalInv
        <5>3. pending'[q] = IF q = Op(p).to THEN pending[q] \cup {Op(p).sig} ELSE pending[q]
          BY <1>2, <5>1, <5>2
        <5> QED BY <3>2, <5>3
      <4>2. CASE Op(p).to \notin masked
        <5>1. pending' = pending BY <2>1, <4>2 DEF DoKill
        <5> QED BY <3>2, <5>1
      <4> QED BY <4>1, <4>2
    <3>4. Prev(q) = p
      <4>1. RingPlace(test, p, pc[p]) BY <1>1, Members
      <4> QED BY <1>1, <3>1, <3>3, <4>1 DEF RingPlace
    <3>5. pc'[q] = pc[q]
      <4> SUFFICES ASSUME q = p PROVE FALSE BY <1>3
      <4>1. Hand(p, Sends, Gets) = 1 BY <1>1, <3>1, NothingPending
      <4> QED BY <3>4, <4>1, PrevFacts, Ids, TestOpsAssumption DEF Prev, Tasks, Root, Everybody
    <3>6. Sent(test, p, pc[p]) = Got(test, q, pc[q]) BY <1>1, <3>2, <3>4 DEF Sends, Gets
    <3> QED BY <1>1, <3>1, <3>3, <3>4, <3>5, <3>6 DEF Arriving
  <2>2. CASE DoSigWait(p)
    <3>1. PICK g \in pending[p] : pending' = [pending EXCEPT ![p] = @ \ {g}]
      BY <2>2 DEF DoSigWait
    <3>2. pending = [r \in Procs |-> pending[r]] BY DEF RingInv, SignalInv
    <3>3. pending[p] = {g}
      <4>1. PICK x \in pending[p] : pending[p] = {x} BY <1>1, <3>1 DEF RingInv, SignalInv
      <4> QED BY <3>1, <4>1
    <3>4. q # p /\ pending'[q] = pending[q] BY <1>1, <1>2, <3>1, <3>2, <3>3
    <3>5. pc'[q] = pc[q] BY <1>3, <3>4
    <3> QED BY <3>4, <3>5 DEF ArriveInv, Arriving
  <2>3. CASE pending' = pending /\ ~DoSigWait(p)
    <3>1. Arriving(q, sig) BY <2>3 DEF ArriveInv
    <3>2. Got(test, q, pc'[q]) = Got(test, q, pc[q])
      <4>1. CASE pc'[q] = pc[q] BY <4>1
      <4>2. CASE pc'[q] # pc[q]
        <5>1. q = p /\ pc'[q] = pc[p] + 1 /\ Do(test, p, pc[p]) # "sigwait"
          BY <1>1, <1>3, <2>3, <4>2, CheckActs
        <5>2. Made(test, p, pc[p] + 1, "sigwait") = Made(test, p, pc[p], "sigwait")
          <6>1. \A do : Do(test, p, pc[p]) # do /\ Made(test, p, pc[p], do) \in Nat =>
                          Made(test, p, pc[p] + 1, do) = Made(test, p, pc[p], do)
            BY <1>1, MadeFacts
          <6>2. \A do : Made(test, p, pc[p], do) \in Nat BY <1>1, MadeFacts
          <6> QED BY <5>1, <6>1, <6>2, Zenon
        <5> QED BY <5>1, <5>2 DEF Got
      <4> QED BY <4>1, <4>2
    <3> QED BY <3>1, <3>2 DEF Arriving
  <2>4. DoSender(p) => pending' = pending BY DEF DoSender
  <2> QED BY <2>1, <2>2, <2>3, <2>4, SignalStep
<1>5. ASSUME NEW q \in Everybody, Do(test, q, pc'[q]) = "sender is", FirmSender(test, q, pc'[q])
      PROVE  sender' = Prev(q)
  <2>1. CASE pc'[q] = pc[q]
    <3>1. sender = Prev(q) BY <1>5, <2>1 DEF ArriveInv
    <3>2. ~DoSender(p)
      <4> SUFFICES ASSUME DoSender(p) PROVE FALSE OBVIOUS
      <4>1. Op(p).do = "sender" BY DEF DoSender, At
      <4>2. Hand(p, Sends, Gets) = 1 BY <1>1, <4>1, NothingPending
      <4>3. Hand(q, Sends, Gets) = 1 BY <1>5, <2>1, AfterWait
      <4>4. q # p BY <1>1, <1>5, <2>1, <4>1
      <4>5. Sends \in [Everybody -> Nat] /\ Gets \in [Everybody -> Nat] BY Members
      <4>6. Hand(q, Sends, Gets) = 0 BY <1>1, <4>2, <4>4, <4>5, OneHolder DEF RingInv
      <4> QED BY <4>3, <4>6
    <3> QED BY <3>1, <3>2, SignalStep DEF DoKill, DoSigWait
  <2>2. CASE pc'[q] # pc[q]
    <3>1. q = p /\ pc'[q] = pc[p] + 1 BY <1>3, <2>2
    <3>2. Do(test, p, pc[p]) = "sigwait"
      <4>1. pc'[q] - 1 = pc[p] BY <1>1, <3>1
      <4> QED BY <1>5, <3>1, <4>1 DEF FirmSender
    <3>3. DoSigWait(p) BY <1>1, <3>2, CheckActs
    <3>4. pending[p] # {} /\ sender' = sender BY <3>3 DEF DoSigWait
    <3> QED BY <1>1, <3>1, <3>4 DEF RingInv, SignalInv
  <2> QED BY <2>1, <2>2
<1> QED BY <1>4, <1>5 DEF ArriveInv

LEMMA ArrivalsHold == Spec => [](Inv /\ Order /\ Token /\ Arrivals)
<1>1. Init => Arrivals
  <2> SUFFICES ASSUME Init, Ring(test) PROVE ArriveInv BY DEF Arrivals
  <2>1. \A p \in Everybody : pc[p] = 1 /\ pending[p] = {} BY Ids DEF Init
  <2>2. \A p : ~FirmSender(test, p, 1) BY DEF FirmSender
  <2> QED BY <2>1, <2>2 DEF ArriveInv
<1>2. Inv /\ Order /\ Token /\ Arrivals /\ [Next]_vars => Arrivals'
  <2> SUFFICES ASSUME Inv, Order, Token, Arrivals, [Next]_vars, Ring(test)' PROVE ArriveInv'
    BY DEF Arrivals
  <2>1. test' = test BY SameTest
  <2>2. Ring(test) /\ RunOnce(test) /\ OrderInv /\ RingInv /\ ArriveInv
    BY <2>1 DEF Order, Token, Arrivals, Ring, Disciplined, Straight
  <2>3. ASSUME NEW p \in Procs, Act(p) PROVE ArriveInv'
    <3>1. Ahead1(p) BY <2>1, <2>2, <2>3, OnceSteps DEF OrderInv
    <3> QED BY <2>1, <2>2, <2>3, <3>1, ArriveStep
  <2>4. ASSUME UNCHANGED <<test, pc, pending, sender>> PROVE ArriveInv'
    BY <2>2, <2>4 DEF ArriveInv, Arriving
  <2>5. CASE Killing
    <3>1. UNCHANGED <<test, pc, pending, sender>> BY <2>5, KillingSpares DEF comm
    <3> QED BY <2>4, <3>1
  <2>6. CASE UNCHANGED vars
    <3>1. UNCHANGED <<test, pc, pending, sender>> BY <2>6 DEF vars, proc, comm
    <3> QED BY <2>4, <3>1
  <2> QED BY <2>3, <2>5, <2>6, Acts
<1> QED BY <1>1, <1>2, OrderHolds, RingHolds, PTL DEF Spec

-----------------------------------------------------------------------------
(* All that is known by now, and that makes an operation sure.             *)
Grounds == Order /\ Turns /\ Pool /\ Facts /\ Token /\ Arrivals
LEMMA GroundsHold == Spec => [](Inv /\ Grounds)
  BY OrderHolds, TurnsHold, PoolHolds, FactsHold, ArrivalsHold, PTL DEF Grounds

LEMMA CallExpected ==
  ASSUME Inv, RunOnce(test), FactsInv, NEW p \in Procs, Act(p), Op(p).do = "call",
         FirmCall(test, p, pc[p])
  PROVE  ~Unexpected(p)
<1>1. /\ state[p] = Alive /\ Op(p) = ScriptOf(test, p)[pc[p]] /\ inited \in BOOLEAN
  BY Standing DEF Inv, TypeInv, LibType
<1>2. CASE p = Root
  <2>1. ~Gone(Root) BY <1>1, <1>2, Lives DEF Gone
  <2>2. LeftInv(pc[Root]) BY <2>1 DEF FactsInv, LibraryInv
  <2>3. /\ Knows(test) /\ Unwaited \in MayBeLeft(test, pc[p])
        /\ inited = Initialised(test, pc[p])
    BY <1>2, <2>2 DEF LeftInv, FirmCall
  <2>4. Returns(p, Op(p).f, Op(p).arg, inited, Unwaited) \subseteq Op(p).expect
    BY <1>1, <1>2, <2>3 DEF FirmCall
  <2> QED BY <2>4 DEF Unexpected
<1>3. CASE p # Root
  <2>1. Unwaited \in SUBSET Tasks BY DEF Unwaited
  <2>2. Returns(p, Op(p).f, Op(p).arg, inited, Unwaited) \subseteq Op(p).expect
    BY <1>1, <1>3, <2>1 DEF FirmCall
  <2> QED BY <2>2 DEF Unexpected
<1> QED BY <1>2, <1>3

LEMMA QueueSeen ==
  ASSUME Inv, RunOnce(test), FactsInv, NEW p \in Procs, Act(p), Op(p).do = "queue", p = Root,
         FirmQueue(test, pc[p])
  PROVE  GoesWell(p)
<1>1. /\ state[p] = Alive /\ Op(p) = ScriptOf(test, p)[pc[p]] /\ pc[p] \in Places(test, p)
  BY Standing
<1>2. NoneQueued(Op(p).queue) = Op(p).empty BY <1>1 DEF FactsInv, QueueInv
<1>3. DoQueue(p) BY CheckActs
<1>4. Advance(p) BY <1>2, <1>3 DEF DoQueue, NoneQueued
<1> QED BY <1>1, <1>4 DEF Advance, GoesWell

LEMMA PageThere ==
  ASSUME Inv, RunOnce(test), OrderInv, FactsInv, NEW p \in Procs, Act(p), Op(p).do = "touch",
         FirmTouch(test, p, pc[p])
  PROVE  GoesWell(p)
<1>1. /\ state[p] = Alive /\ Op(p) = ScriptOf(test, p)[pc[p]] /\ pc[p] \in Places(test, p)
      /\ pc \in [Procs -> Nat]
  BY Standing
<1> DEFINE q == Op(p).owner
<1>2. q \in Procs /\ Len(ScriptOf(test, q)) \in Nat /\ pc[q] \in Nat /\ pc[p] \in Nat
  BY <1>1, NotEmpty DEF FirmTouch, Inv
<1>3. PICK i \in Exports(test, q, "page") : Follows(test, p, pc[p], q, i)
  BY <1>1 DEF FirmTouch
<1>4. i \in Places(test, q) /\ i \in Nat \ {0} BY <1>2 DEF Exports, Places
<1>5. pc[q] > i
  <2>1. pc[p] >= pc[p] BY <1>2
  <2> QED BY <1>2, <1>3, <1>4, <2>1, FollowedThat
<1>6. i \in 1..(pc[q] - 1) BY <1>2, <1>4, <1>5
<1>7. ~Unmapped(q)
  <2> SUFFICES ASSUME NEW j \in 1..(pc[q] - 1), Do(test, q, j) = "unmap" PROVE FALSE
    BY DEF Unmapped
  <2>1. pc[q] \in Places(test, q) BY <1>2, <1>4 DEF Inv, TypeInv, PlaceInv
  <2>2. j \in Places(test, q) /\ j \in Nat /\ pc[q] >= j BY <1>2, <2>1 DEF Places
  <2>3. Hears(test, q, j, p, pc[p]) BY <1>1, <2>2 DEF FirmTouch
  <2>4. pc[p] > pc[p] BY <1>1, <1>2, <2>2, <2>3, HeardThat
  <2> QED BY <1>2, <2>4
<1>8. <<q, "page">> \in names BY <1>2, <1>6, <1>7 DEF FactsInv, PageInv
<1>9. DoTouch(p) BY CheckActs
<1>10. Advance(p) BY <1>8, <1>9 DEF DoTouch
<1> QED BY <1>1, <1>10 DEF Advance, GoesWell

LEMMA SumThere ==
  ASSUME Inv, RunOnce(test), OrderInv, FactsInv, NEW p \in Procs, NEW k \in Nat, k = pc[p],
         k \in Places(test, p), IsSum(test, p, k)
  PROVE  (count = ScriptOf(test, p)[k].val) # ScriptOf(test, p)[k].not
<1>1. count = ledger /\ ledger = Cardinality(Added)
  BY DEF IsSum, CountsUp, Inv, UpdateInv, FactsInv, SumInv
<1>2. Added = Adds(test)
  <2> SUFFICES ASSUME NEW w \in Adds(test) PROVE pc[w[1]] > w[2] BY DEF Added
  <2>1. w \in Steps(test) BY AddFacts
  <2>2. w[1] \in Procs /\ w[2] \in Places(test, w[1]) BY <2>1, StepsFacts
  <2>3. Follows(test, p, k, w[1], w[2]) BY DEF IsSum
  <2>4. pc[p] >= k OBVIOUS
  <2> QED BY <2>2, <2>3, <2>4, FollowedThat
<1> QED BY <1>1, <1>2 DEF IsSum

LEMMA CountRight ==
  ASSUME Inv, RunOnce(test), OrderInv, FactsInv, Turns, NEW p \in Procs, Act(p), Op(p).do = "count",
         InTurns(test) \/ IsSum(test, p, pc[p])
  PROVE  ~Miscounts(p)
<1>1. /\ state[p] = Alive /\ Op(p) = ScriptOf(test, p)[pc[p]] /\ pc[p] \in Places(test, p)
      /\ pc[p] \in Nat /\ Do(test, p, pc[p]) = "count"
  BY Standing
<1>2. (count = Op(p).val) # Op(p).not
  <2>1. CASE InTurns(test)
    <3> DEFINE O == TurnOrder(test)
               v == Values(test, O)
    <3>1. TakesTurns(test, O, v) BY <2>1 DEF InTurns
    <3> HIDE DEF O, v
    <3>2. TurnInv(O, v) BY <3>1 DEF Turns
    <3> QED BY <1>1, <3>1, <3>2, CountHolds
  <2>2. CASE IsSum(test, p, pc[p]) BY <1>1, <2>2, SumThere
  <2> QED BY <2>1, <2>2
<1> QED BY <1>2 DEF Miscounts

LEMMA SignalRight ==
  ASSUME Inv, Ring(test), ArriveInv, NEW p \in Everybody, Act(p), Op(p).do = "sigwait",
         FirmSignal(test, p, pc[p])
  PROVE  GoesWell(p)
<1>1. state[p] = Alive /\ Op(p) = ScriptOf(test, p)[pc[p]] BY ActAlive DEF Op, Script
<1>2. DoSigWait(p) BY CheckActs
<1>3. PICK s \in pending[p] : IF s = Op(p).sig THEN Advance(p) ELSE CheckFails(p, EXIT_FAIL)
  BY <1>2 DEF DoSigWait
<1>4. Arriving(p, s) BY DEF ArriveInv
<1>5. s = Op(p).sig BY <1>1, <1>4 DEF Arriving, FirmSignal
<1> QED BY <1>1, <1>3, <1>5 DEF Advance, GoesWell

LEMMA SenderRight ==
  ASSUME Inv, Ring(test), ArriveInv, NEW p \in Everybody, Act(p), Op(p).do = "sender is",
         FirmSender(test, p, pc[p])
  PROVE  GoesWell(p)
<1>1. state[p] = Alive /\ Op(p) = ScriptOf(test, p)[pc[p]] /\ Op(p).do = Do(test, p, pc[p])
  BY ActAlive DEF Op, Script, Do
<1>2. sender = Prev(p) /\ Op(p).from = Prev(p) BY <1>1 DEF ArriveInv, FirmSender
<1>3. DoSenderIs(p) BY CheckActs
<1>4. Advance(p) BY <1>2, <1>3 DEF DoSenderIs
<1> QED BY <1>1, <1>4 DEF Advance, GoesWell

(* How a process that is gone has ended: at a place where its script ends, *)
(* with a status that place may have and without a failed CHECK, or where  *)
(* a step may fail.                                                        *)
RightEnd(p) ==
  \/ ~Sure(test, p, pc[p])
  \/ /\ p \notin failed /\ Do(test, p, pc[p]) \in EndOps
     /\ state[p] \in EndsWith(test, p, pc[p])
FinishInv ==
  /\ aborting = "no"
  /\ ~fault => (\A p \in failed : Gone(p)) /\ \A p \in Procs : Gone(p) => RightEnd(p)
Finish == RunOnce(test) /\ NeverAborts(test) => FinishInv

LEMMA StatusRight ==
  ASSUME Inv, RunOnce(test), FactsInv, FinishInv, ~fault, NEW p \in Procs, Act(p),
         Op(p).do = "wait", Sure(test, p, pc[p])
  PROVE  GoesWell(p)
<1>1. /\ state[p] = Alive /\ Op(p) = ScriptOf(test, p)[pc[p]] /\ Op(p).do = Do(test, p, pc[p])
  BY Standing
<1>2. PICK t \in Procs : Reap(p, t) BY CheckActs
<1>3. /\ Gone(t) /\ Op(p).who \in {t, ANY} /\ t \in (IF p = Parent THEN {Root} ELSE Tasks)
      /\ Op(p).ok[t] = Unchecked \/ state[t] \in Op(p).ok[t] => Advance(p)
  BY <1>2 DEF Reap
<1>4. ~Firm(test, p, pc[p]) BY <1>1 DEF Firm, NoCheck
<1>5. Accepts(test, p, pc[p], t) BY <1>1, <1>3, <1>4, Zenon DEF Sure
<1>6. Op(p).ok[t] = Unchecked \/ state[t] \in Op(p).ok[t]
  <2> SUFFICES ASSUME Op(p).ok[t] # Unchecked PROVE state[t] \in Op(p).ok[t] OBVIOUS
  <2> DEFINE m == pc[t]
  <2>1. m \in Places(test, t)
    <3>1. state[t] # NotBorn BY <1>3, Lives DEF Gone
    <3> QED BY <3>1 DEF Inv, TypeInv, PlaceInv
  <2>2. GetsTo(test, t, m) BY DEF FactsInv, RaiseInv
  <2>3. /\ Firm(test, t, m)
        /\ Do(test, t, m) \in EndOps => EndsWith(test, t, m) \subseteq Op(p).ok[t]
    BY <1>1, <1>5, <2>1, <2>2 DEF Accepts
  <2>4. RightEnd(t) BY <1>3 DEF FinishInv
  <2> QED BY <2>3, <2>4 DEF RightEnd, Sure
<1> QED BY <1>1, <1>3, <1>6 DEF Advance, GoesWell

(* A sure step goes well unless the library fails.                         *)
LEMMA SureGoes ==
  ASSUME Inv, RunOnce(test), Grounds, FinishInv, ~fault, ~fault', NEW p \in Procs, Act(p),
         Sure(test, p, pc[p]), Op(p).do \notin EndOps
  PROVE  GoesWell(p)
<1>1. /\ state[p] = Alive /\ Op(p) = ScriptOf(test, p)[pc[p]] /\ Op(p).do = Do(test, p, pc[p])
      /\ OrderInv /\ FactsInv
  BY Standing DEF Grounds, Order, Facts
<1> DEFINE do == Op(p).do
<1>2. do = "wait" \/ Firm(test, p, pc[p]) BY <1>1 DEF Sure, Do
<1>3. CASE do = "wait" BY <1>1, <1>3, StatusRight
<1>4. CASE do \in NoCheck
  <2>1. do \notin CheckOps /\ do \notin {"call", "count", "wait child"}
    BY <1>4 DEF NoCheck, CheckOps
  <2> QED BY <2>1, StepOutcome DEF Unexpected, Miscounts, PoolEmpty
<1>5. CASE do = "call" /\ FirmCall(test, p, pc[p])
  <2>1. ~Unexpected(p) BY <1>1, <1>5, CallExpected
  <2> QED BY <1>5, <2>1, StepOutcome DEF CheckOps, Miscounts, PoolEmpty
<1>6. CASE do = "queue" /\ p = Root /\ FirmQueue(test, pc[p]) BY <1>1, <1>6, QueueSeen
<1>7. CASE do = "touch" /\ FirmTouch(test, p, pc[p]) BY <1>1, <1>7, PageThere
<1>8. CASE do = "count" /\ (InTurns(test) \/ IsSum(test, p, pc[p]))
  <2>1. ~Miscounts(p) BY <1>1, <1>8, CountRight DEF Grounds
  <2> QED BY <1>8, <2>1, StepOutcome DEF CheckOps, Unexpected, PoolEmpty
<1>9. CASE do = "wait child" /\ Pooled(test)
  <2>1. PoolInv BY <1>9 DEF Grounds, Pool
  <2>2. DoWaitChild(p) BY <1>9, CheckActs
  <2>3. UNCHANGED <<state, failed>> BY <1>1, <1>9, <2>1, <2>2, WaitAdvances
  <2> QED BY <1>1, <2>3 DEF GoesWell
<1>10. CASE do \in {"sigwait", "sender is"} /\ Ring(test) /\ p \in Everybody
  <2>1. ArriveInv BY <1>10 DEF Grounds, Arrivals
  <2>2. CASE do = "sigwait"
    <3>1. FirmSignal(test, p, pc[p]) BY <1>1, <1>2, <2>2 DEF Firm, NoCheck
    <3> QED BY <1>10, <2>1, <2>2, <3>1, SignalRight
  <2>3. CASE do = "sender is"
    <3>1. FirmSender(test, p, pc[p]) BY <1>1, <1>2, <2>3 DEF Firm, NoCheck
    <3> QED BY <1>10, <2>1, <2>3, <3>1, SenderRight
  <2> QED BY <1>10, <2>2, <2>3
<1>11. Firm(test, p, pc[p]) =>
         \/ do \in NoCheck
         \/ do = "call" /\ FirmCall(test, p, pc[p])
         \/ do = "queue" /\ p = Root /\ FirmQueue(test, pc[p])
         \/ do = "touch" /\ FirmTouch(test, p, pc[p])
         \/ do = "count" /\ (InTurns(test) \/ IsSum(test, p, pc[p]))
         \/ do = "wait child" /\ Pooled(test)
         \/ do \in {"sigwait", "sender is"} /\ Ring(test) /\ p \in Everybody
  BY <1>1 DEF Firm
<1> QED BY <1>2, <1>3, <1>4, <1>5, <1>6, <1>7, <1>8, <1>9, <1>10, <1>11

LEMMA FinishStep ==
  ASSUME Inv, RunOnce(test), NeverAborts(test), Grounds, FinishInv, test' = test,
         fault' \in {fault, TRUE}, NEW p \in Procs, Act(p)
  PROVE  FinishInv'
<1>1. /\ state[p] = Alive /\ Op(p).do = Do(test, p, pc[p]) /\ pc[p] \in Places(test, p)
      /\ OrderInv /\ FactsInv /\ ForkAhead
  BY Standing DEF Grounds, Order, Facts, FactsInv
<1>2. aborting' = "no"
  <2>1. Op(p).do # "abort" BY <1>1 DEF NeverAborts
  <2> QED BY <2>1, NobodyAborts DEF FinishInv
<1> SUFFICES ASSUME ~fault'
             PROVE  (\A q \in failed' : Gone(q)') /\ \A q \in Procs : Gone(q)' => RightEnd(q)'
  BY <1>2 DEF FinishInv
<1>3. ~fault /\ (\A q \in failed : Gone(q)) /\ \A q \in Procs : Gone(q) => RightEnd(q)
  <2>1. ~fault OBVIOUS
  <2> QED BY <2>1 DEF FinishInv
<1>4. failed \subseteq Procs /\ p \notin failed /\ ~Gone(p)
  BY <1>1, <1>3, Lives DEF Inv, TypeInv, ProcType, Gone
<1>5. ASSUME NEW q \in failed' PROVE Gone(q)'
  <2>1. CASE q \in failed BY <1>1, <1>3, <1>4, <2>1, GoneStays
  <2>2. CASE q \notin failed
    <3>1. q = p /\ state'[p] # Alive /\ failed' # failed BY <2>2, FailedStep
    <3>2. ~DoSpawn(p) /\ ~DoFork(p) BY <3>1 DEF DoSpawn, DoFork
    <3> QED BY <3>1, <3>2, StateStep DEF Gone
  <2> QED BY <2>1, <2>2
<1>6. ASSUME NEW q \in Procs, Gone(q)' PROVE RightEnd(q)'
  <2>1. (q # p => state'[q] = state[q]) /\ (q = p => pc'[q] = pc[q])
    BY <1>6, OthersEnd DEF Gone
  <2>2. failed' = failed \/ failed' = failed \cup {p} BY FailedStep
  <2>3. CASE q # p
    <3>1. Gone(q) BY <1>6, <2>1, <2>3 DEF Gone
    <3>2. RightEnd(q) /\ pc'[q] = pc[q] BY <1>1, <1>3, <3>1, GoneStays
    <3> QED BY <2>1, <2>2, <2>3, <3>2 DEF RightEnd
  <2>4. CASE q = p
    <3> SUFFICES ASSUME Sure(test, p, pc[p])
                 PROVE  /\ p \notin failed' /\ Op(p).do \in EndOps
                        /\ state'[p] \in EndsWith(test, p, pc[p])
      BY <1>1, <2>1, <2>4 DEF RightEnd
    <3>1. ~GoesWell(p) /\ state'[p] \in AnyStatus BY <1>6, <2>4, Lives DEF Gone, GoesWell
    <3>2. Op(p).do \in EndOps BY <1>3, <3>1, SureGoes
    <3>3. failed' = failed
      <4>1. Op(p).do \notin CheckOps \cup {"call", "count", "wait child"}
        BY <3>2 DEF EndOps, CheckOps
      <4> QED BY <3>1, <4>1, StepOutcome DEF Unexpected, Miscounts, PoolEmpty
    <3>4. state'[p] \in EndsWith(test, p, pc[p]) BY <3>1, <3>2, EndStep
    <3> QED BY <1>4, <3>2, <3>3, <3>4
  <2> QED BY <2>3, <2>4
<1> QED BY <1>5, <1>6

LEMMA FinishHolds == Spec => [](Inv /\ Grounds /\ Finish)
<1>1. Init => Finish
  <2> SUFFICES ASSUME Init PROVE FinishInv BY DEF Finish
  <2>1. \A p \in Procs : ~Gone(p) BY Lives DEF Init, Gone
  <2> QED BY <2>1 DEF Init, FinishInv
<1>2. Inv /\ Grounds /\ Finish /\ [Next]_vars => Finish'
  <2> SUFFICES ASSUME Inv, Grounds, Finish, [Next]_vars, RunOnce(test)', NeverAborts(test)'
               PROVE  FinishInv'
    BY DEF Finish
  <2>1. test' = test /\ fault' \in {fault, TRUE} BY SameTest
  <2>2. RunOnce(test) /\ NeverAborts(test) /\ FinishInv BY <2>1 DEF Finish
  <2>3. ASSUME NEW p \in Procs, Act(p) PROVE FinishInv'
    BY <2>1, <2>2, <2>3, FinishStep
  <2>4. CASE Killing
    <3>1. CASE AbortArrives BY <2>2, <3>1, AbortFacts DEF FinishInv
    <3>2. CASE RootKilled(SIGKILL) BY <2>2, <3>2 DEF FinishInv, RootKilled
    <3>3. CASE WatchdogKills BY <2>2, <3>3 DEF FinishInv, WatchdogKills, lib
    <3> QED BY <2>4, <3>1, <3>2, <3>3 DEF Killing
  <2>5. CASE UNCHANGED vars
    <3>1. UNCHANGED <<test, pc, state, failed, aborting, fault>> BY <2>5 DEF vars, proc, lib
    <3> QED BY <2>2, <3>1 DEF FinishInv, RightEnd, Gone
  <2> QED BY <2>3, <2>4, <2>5, Acts
<1> QED BY <1>1, <1>2, GroundsHold, PTL DEF Spec

(* With a library that keeps its promises, and for any number of tasks and *)
(* iterations, no CHECK of all but ten of the programs fails: every call  *)
(* returns what is expected, each count is right when it is looked at, no  *)
(* page is touched that is not mapped, the signals come in their order,    *)
(* and every task ends with a status its wait accepts.                     *)
THEOREM NoCheckFails == Spec => [](Name \notin Unsure => NoSpuriousFailure)
<1>1. Inv /\ Grounds /\ Finish => (Name \notin Unsure => NoSpuriousFailure)
  <2> SUFFICES ASSUME Inv, Finish, Name \notin Unsure, ~fault PROVE failed = {}
    BY DEF NoSpuriousFailure
  <2>1. AllSure(test) BY SureAssumption DEF Inv, TypeInv, ProcType, Name
  <2>2. FinishInv BY <2>1 DEF Finish, AllSure
  <2> SUFFICES ASSUME NEW p \in failed PROVE FALSE OBVIOUS
  <2>3. p \in Procs /\ Gone(p) /\ RightEnd(p)
    BY <2>2 DEF FinishInv, Inv, TypeInv, ProcType
  <2>4. pc[p] \in Places(test, p)
    <3>1. state[p] # NotBorn BY <2>3, Lives DEF Gone
    <3> QED BY <2>3, <3>1 DEF Inv, TypeInv, PlaceInv
  <2> QED BY <2>1, <2>3, <2>4 DEF RightEnd, AllSure
<1> QED BY <1>1, FinishHolds, PTL

(* When task 0 has ended in one of the programs whose tasks use what it    *)
(* owns, no other task has a use of the lock, the counter, the table or a  *)
(* barrier ahead, but for leaving the last barrier.                        *)
THEOREM OwnersOutlive == Spec => []OwnerOutlives
<1>1. Inv /\ Grounds /\ Finish => OwnerOutlives
  <2> SUFFICES ASSUME Inv, Grounds, Finish, Name \in OwnedByTask0, ~fault, Gone(0),
                      NEW p \in Tasks, ~Gone(p),
                      NEW k \in (pc[p] + IF inside[p] THEN 1 ELSE 0)..Len(Script(p)),
                      Script(p)[k].do \in Shared
               PROVE  FALSE
    BY DEF OwnerOutlives, Ahead
  <2>1. OutlivesUse(test, Shared) BY OwnerAssumption DEF Inv, TypeInv, ProcType, Name
  <2>2. RunOnce(test) /\ OrderInv /\ FinishInv BY <2>1 DEF OutlivesUse, Grounds, Order, Finish
  <2>3. /\ 0 \in Procs /\ p \in Procs /\ pc[0] \in Nat \ {0} /\ pc[p] \in Nat \ {0}
        /\ p \in Tasks \ {0} /\ Len(ScriptOf(test, p)) \in Nat
    <3>1. 0 \in Procs /\ p \in Procs /\ p # 0 BY PrevFacts, Ids
    <3> QED BY <3>1, Positive, NotEmpty DEF Inv
  <2>4. k \in Nat /\ k \in Places(test, p) /\ Do(test, p, k) \in Shared
        /\ k >= pc[p] /\ (inside[p] => k > pc[p])
    BY <2>3 DEF Places, Do, Script
  <2>5. pc[0] \in Places(test, 0)
    <3>1. state[0] # NotBorn BY Lives DEF Gone
    <3> QED BY <2>3, <3>1 DEF Inv, TypeInv, PlaceInv
  <2>6. MayEnd(test, 0, pc[0]) BY <2>2, <2>3 DEF FinishInv, RightEnd, MayEnd
  <2>7. Follows(test, 0, pc[0], p, k) \/ (Do(test, p, k) = "barrier" /\ Met(test, 0, pc[0], p, k))
    BY <2>1, <2>3, <2>4, <2>5, <2>6 DEF OutlivesUse
  <2>8. pc[0] \in Nat /\ pc[0] >= pc[0] BY <2>3
  <2>9. CASE Follows(test, 0, pc[0], p, k)
    <3>1. pc[p] > k BY <2>2, <2>3, <2>4, <2>8, <2>9, FollowedThat
    <3> QED BY <2>3, <2>4, <3>1
  <2>10. CASE Met(test, 0, pc[0], p, k)
    <3>1. pc[p] > k \/ (pc[p] = k /\ inside[p]) BY <2>2, <2>3, <2>4, <2>8, <2>10, MetThat
    <3> QED BY <2>3, <2>4, <3>1
  <2> QED BY <2>7, <2>9, <2>10
<1> QED BY <1>1, FinishHolds, PTL

(* The updates of the counter that blt/pip_barrier.c and pip_namexp.c keep *)
(* apart by barriers or by names are made one after the other, in the one  *)
(* order the scripts allow: none is lost, although there is no lock.       *)
THEOREM OrderedUpdates == Spec => [](Name \in {"blt/pip_barrier", "pip_namexp"} => NoLostUpdate)
<1>1. Inv /\ Grounds => (Name \in {"blt/pip_barrier", "pip_namexp"} => NoLostUpdate)
  <2> SUFFICES ASSUME Inv, Grounds, Name \in {"blt/pip_barrier", "pip_namexp"}
               PROVE  count = ledger
    BY DEF NoLostUpdate
  <2>1. InTurns(test) BY TurnsAssumption DEF Inv, TypeInv, ProcType, Name
  <2> DEFINE O == TurnOrder(test)
             v == Values(test, O)
  <2>2. TakesTurns(test, O, v) /\ RunOnce(test) BY <2>1 DEF InTurns
  <2> HIDE DEF O, v
  <2>3. TurnInv(O, v) BY <2>2 DEF Grounds, Turns
  <2> QED BY <2>3 DEF TurnInv
<1> QED BY <1>1, GroundsHold, PTL

=============================================================================

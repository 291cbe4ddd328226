----------------------------- MODULE ScriptOrder -----------------------------
(***************************************************************************)
(* What the barriers and the names of a script put in order: which         *)
(* operations a process has made when another comes to some place, whose   *)
(* turn it is to update the counter, which CHECKs cannot fail, and that a  *)
(* task outlives the use of what it owns.                                  *)
(***************************************************************************)
EXTENDS ScriptShape

(* The e-th barrier of q before place k is that of r as well, and place m  *)
(* of r is not behind r's e-th.                                            *)
Met(s, q, k, r, m) ==
  \E j \in 1..(k - 1) :
    /\ Do(s, q, j) = "barrier" /\ r \in ScriptOf(s, q)[j].parties
    /\ Made(s, r, m, "barrier") < Made(s, q, j + 1, "barrier")

(* Before place k q has imported a name which r exports after place m.     *)
Exports(s, r, n) == {i \in Places(s, r) : Do(s, r, i) = "export" /\ ScriptOf(s, r)[i].name = n}
Told(s, q, k, r, m) ==
  \E j \in 1..(k - 1) :
    /\ Do(s, q, j) = "import" /\ r = ScriptOf(s, q)[j].from
    /\ \A i \in Exports(s, r, ScriptOf(s, q)[j].name) : m < i

(* When q comes to place k, r is past place m: directly or by way of task  *)
(* 0.                                                                      *)
Hears(s, q, k, r, m) ==
  \/ q = r /\ m < k
  \/ Met(s, q, k, r, m) /\ Do(s, r, m) # "barrier"
  \/ Told(s, q, k, r, m)
Follows(s, q, k, r, m) ==
  Hears(s, q, k, r, m) \/ \E i \in Places(s, 0) : Hears(s, q, k, 0, i) /\ Hears(s, 0, i + 1, r, m)

-----------------------------------------------------------------------------
(* All operations, as pairs of a process and a place. The updates of the   *)
(* counter; a plain one begins with its load.                              *)
Steps(s)   == UNION {{<<p, k>> : k \in Places(s, p)} : p \in Procs}
OpAt(s, w) == ScriptOf(s, w[1])[w[2]]
Writes(s)  == {w \in Steps(s) : OpAt(s, w).do \in {"assign", "store"}}
Begin(s, w)  == IF Do(s, w[1], w[2]) = "store" THEN w[2] - 1 ELSE w[2]
After(s, w, v) == Hears(s, w[1], Begin(s, w), v[1], v[2])

(* All updates in an order in which nobody begins before who must come     *)
(* first, and the value of the counter after each of them.                 *)
TurnOrder(s) ==
  LET W == Writes(s)
      behind == [w \in W |-> {v \in W \ {w} : After(s, w, v)}]
      order[n \in 0..Cardinality(W)] ==
        IF n = 0 THEN <<>>
        ELSE LET done == order[n - 1]  left == W \ ToSet(done)
             IN Append(done, CHOOSE w \in left : behind[w] \cap left = {})
  IN order[Cardinality(W)]
Values(s, O) ==
  LET value[n \in 0..Len(O)] ==
        IF n = 0 THEN 0
        ELSE LET o == ScriptOf(s, O[n][1])[O[n][2]]
             IN IF o.do = "assign" THEN o.val ELSE value[n - 1] + o.inc
  IN value

(* Every update begins when the one before it has been made, and a CHECK   *)
(* of the value comes between two of them.                                 *)
TakesTurns(s, O, v) ==
  /\ Len(O) \in Nat /\ \A i, j \in 1..Len(O) : O[i] = O[j] => i = j
  /\ {O[i] : i \in 1..Len(O)} = Writes(s)
  /\ \A i \in 2..Len(O) : After(s, O[i], O[i - 1])
  /\ v[0] = 0
  /\ \A i \in 1..Len(O) :
       LET o == ScriptOf(s, O[i][1])[O[i][2]] IN
       /\ o.do = "store" => O[i][2] > 1 /\ Do(s, O[i][1], O[i][2] - 1) = "load"
       /\ v[i] = IF o.do = "assign" THEN o.val ELSE v[i - 1] + o.inc
  /\ \A p \in Procs : \A k \in Places(s, p) :
       LET o == ScriptOf(s, p)[k] IN
       /\ o.do # "atomic"
       /\ o.do = "count" => \E i \in 0..Len(O) :
            /\ i > 0 => Hears(s, p, k, O[i][1], O[i][2])
            /\ i < Len(O) => Hears(s, O[i + 1][1], Begin(s, O[i + 1]), p, k)
            /\ (v[i] = o.val) # o.not
InTurns(s) == RunOnce(s) /\ LET O == TurnOrder(s) IN TakesTurns(s, O, Values(s, O))

-----------------------------------------------------------------------------
(* The operations on a pool of forked processes.                           *)
OfPool(s, c, do) == {w \in Steps(s) : OpAt(s, w).do = do /\ OpAt(s, w).pool = c}

(* Who waits in a pool does so when all have been forked into it and are   *)
(* in the table, and nobody waits for one too many.                        *)
Pooled(s) ==
  /\ RunOnce(s)
  /\ \A c \in Procs :
       LET F == OfPool(s, c, "fork child")  R == OfPool(s, c, "record")
           W == OfPool(s, c, "wait child")
       IN /\ Cardinality(F) = Cardinality(W) /\ Cardinality(R) = Cardinality(W)
          /\ \A w \in W, f \in F \cup R : Follows(s, w[1], w[2], f[1], f[2])

-----------------------------------------------------------------------------
(* Counting up: the counter is set to 0 before all updates, each of which  *)
(* adds one, and a CHECK of the sum comes after them.                      *)
Adds(s) == {w \in Steps(s) : OpAt(s, w).do \in {"store", "atomic"}}
CountsUp(s) ==
  /\ RunOnce(s) /\ Protected(s)
  /\ \A w \in Adds(s) : OpAt(s, w).inc = 1
  /\ \A v \in Steps(s) : OpAt(s, v).do = "assign" =>
       OpAt(s, v).val = 0 /\ \A w \in Adds(s) : Follows(s, w[1], w[2], v[1], v[2])
IsSum(s, p, k) ==
  LET o == ScriptOf(s, p)[k] IN
  /\ CountsUp(s) /\ \A w \in Adds(s) : Follows(s, p, k, w[1], w[2])
  /\ (Cardinality(Adds(s)) = o.val) # o.not

(* What the root knows of the library: whether it has initialised it, and  *)
(* how many tasks it has spawned and has not waited for.                   *)
Grants(s, k, f) ==
  LET o == ScriptOf(s, Root)[k] IN o.do = "call" /\ o.f = f /\ "0" \in o.expect
Knows(s) ==
  \A k \in Places(s, Root) : Grants(s, k, "pip_init") \/ Grants(s, k, "pip_fin") =>
    ScriptOf(s, Root)[k].expect = Ok
Initialised(s, k) ==
  \E j \in 1..(k - 1) : Grants(s, j, "pip_init")
                           /\ \A i \in (j + 1)..(k - 1) : ~Grants(s, i, "pip_fin")
Spawned(s, k) == {ScriptOf(s, Root)[j].who : j \in {i \in 1..(k - 1) : Do(s, Root, i) = "spawn"}}
MayBeLeft(s, k) ==
  {un \in SUBSET (Spawned(s, k) \ Awaited(s, k)) :
     Cardinality(un) = Before(s, k, "spawn") - Before(s, k, "wait")}

-----------------------------------------------------------------------------
(* What cannot fail unless the library does: most operations have no       *)
(* result, a call has the expected one, a queue is looked at after the     *)
(* spawn that fills or empties it, a page is touched while it is there.    *)
NoCheck == {"args", "spawn", "fork", "barrier", "lock", "unlock", "load", "store", "atomic",
            "assign", "export", "import", "unmap", "fork child", "record", "mask", "sender", "kill",
            "pipe", "coe", "close", "abort", "sleep", "exit", "return err", "raise"}
FirmCall(s, p, k) ==
  LET o == ScriptOf(s, p)[k] IN
  IF p = Root
  THEN Knows(s) /\ \A un \in MayBeLeft(s, k) :
                      Returns(p, o.f, o.arg, Initialised(s, k), un) \subseteq o.expect
  ELSE \A ini \in BOOLEAN, un \in SUBSET Tasks : Returns(p, o.f, o.arg, ini, un) \subseteq o.expect
FirmQueue(s, k) ==
  LET o == ScriptOf(s, Root)[k]  b == ScriptOf(s, Root)[k - 1] IN
  k > 1 /\ b.do = "spawn" /\ b.queue = o.queue /\ b.active = o.empty
FirmTouch(s, p, k) ==
  LET q == ScriptOf(s, p)[k].owner IN
  /\ q \in Procs
  /\ \E i \in Exports(s, q, "page") : Follows(s, p, k, q, i)
  /\ \A j \in Places(s, q) : Do(s, q, j) = "unmap" => Hears(s, q, j, p, k)
(* In a ring the signal that comes is the one sent for this place, and     *)
(* tells who sent it.                                                      *)
FirmSignal(s, p, k) ==
  \A m \in Places(s, Prev(p)) :
    Do(s, Prev(p), m) = "kill" /\ Sent(s, Prev(p), m) = Got(s, p, k) =>
      ScriptOf(s, Prev(p))[m].sig = ScriptOf(s, p)[k].sig
FirmSender(s, p, k) == k > 1 /\ Do(s, p, k - 1) = "sigwait" /\ ScriptOf(s, p)[k].from = Prev(p)
Firm(s, p, k) ==
  LET do == Do(s, p, k) IN
  \/ do \in NoCheck
  \/ do = "call" /\ FirmCall(s, p, k)
  \/ do = "queue" /\ p = Root /\ FirmQueue(s, k)
  \/ do = "touch" /\ FirmTouch(s, p, k)
  \/ do = "count" /\ (InTurns(s) \/ IsSum(s, p, k))
  \/ do = "wait child" /\ Pooled(s)
  \/ do = "sigwait" /\ Ring(s) /\ p \in Everybody /\ FirmSignal(s, p, k)
  \/ do = "sender is" /\ Ring(s) /\ p \in Everybody /\ FirmSender(s, p, k)

(* How a process ends at a place, if it comes so far and no CHECK fails.   *)
EndOps == {"args", "exit", "return err", "raise"}
EndsWith(s, p, k) ==
  LET o == ScriptOf(s, p)[k] IN
  CASE o.do = "args"  -> {Exited(EXIT_UNTESTED)}
    [] o.do = "exit"  -> o.statuses
    [] o.do = "raise" -> IF o.sig = 0 THEN {} ELSE {Signaled(o.sig)}
    [] OTHER          -> AnyStatus
GetsTo(s, p, k) == \A j \in 1..(k - 1) : Do(s, p, j) = "raise" => ScriptOf(s, p)[j].sig = 0

(* A wait accepts whatever its tasks may end with.                         *)
Accepts(s, p, k, t) ==
  LET ok == ScriptOf(s, p)[k].ok[t] IN
  \/ ok = Unchecked
  \/ t \in Tasks /\ \A m \in Places(s, t) : GetsTo(s, t, m) =>
       /\ Firm(s, t, m) /\ Do(s, t, m) # "return err"
       /\ Do(s, t, m) \in EndOps => EndsWith(s, t, m) \subseteq ok
Sure(s, p, k) ==
  \/ Firm(s, p, k)
  \/ LET o == ScriptOf(s, p)[k] IN
     /\ o.do = "wait" /\ p \in {Root, Parent}
     /\ \A t \in IF p = Parent THEN {Root} ELSE Tasks : o.who \in {t, ANY} => Accepts(s, p, k, t)

(* A program with nothing but sure steps fails no CHECK of its own.        *)
NeverAborts(s) == \A p \in Procs : \A k \in Places(s, p) : Do(s, p, k) # "abort"
AllSure(s) ==
  RunOnce(s) /\ NeverAborts(s) /\ \A p \in Procs : \A k \in Places(s, p) : Sure(s, p, k)

(* Where a process may end, and that all use of what task 0 owns is over   *)
(* when it does.                                                           *)
MayEnd(s, p, k) == Do(s, p, k) \in EndOps \/ ~Sure(s, p, k)
OutlivesUse(s, used) ==
  /\ RunOnce(s) /\ NeverAborts(s)
  /\ \A k \in Places(s, 0) : MayEnd(s, 0, k) =>
       \A p \in Tasks \ {0} : \A m \in Places(s, p) :
         Do(s, p, m) \in used =>
           Follows(s, 0, k, p, m) \/ (Do(s, p, m) = "barrier" /\ Met(s, 0, k, p, m))

=============================================================================

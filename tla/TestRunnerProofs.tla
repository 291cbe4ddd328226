-------------------------- MODULE TestRunnerProofs ---------------------------
(***************************************************************************)
(* The ledger of test.sh for every set of lists, every nesting of %include *)
(* lines, every set of modes and every threshold.                          *)
(***************************************************************************)
EXTENDS TestRunner, TLAPS

(* Only the top of the stack runs: the invocations under it wait for their *)
(* child, and the root alone can have exited.                              *)
StackInv ==
  /\ \A i \in 1..(Len(frames) - 1) : frames[i].pc = "included"
  /\ exit # Running <=> Top.pc = "exited"
  /\ Top.pc = "exited" => IsRoot

(* Before the root has passed its mode check nothing has been counted, and *)
(* after a refusal its exit status is 1 or 2.                              *)
FreshInv ==
  /\ Top.pc = "start" => Top.n = Zero
  /\ Top.pc = "start" /\ IsRoot => tally = Zero /\ started = {}
  /\ started = {} => IsRoot /\ Top.pc \in {"start", "exited"}
  /\ started = {} => tally = Zero /\ exit \in {Running, 1, 2}

Inv == /\ TypeOK /\ StackInv /\ FreshInv
       /\ Conservation /\ SumFilePresent /\ VerdictSound /\ XmlAgrees

-----------------------------------------------------------------------------
LEMMA ZeroType == Zero \in Counters
  BY DEF Zero, Counters

LEMMA CountType ==
  ASSUME NEW c \in Counters, NEW s \in Status
  PROVE  Count(c, s) \in Counters
  BY DEF Count, Counters

LEMMA StatusType == \A code : StatusOf(code) \in Status
  BY DEF StatusOf, Status

(* A counted result appears in exactly one of the four XML totals.         *)
XmlMatches(x, c) ==
  /\ x["passed"]  = c["PASS"] + c["XPASS"]
  /\ x["failure"] = c["FAIL"]
  /\ x["skipped"] = c["XFAIL"] + c["UNTESTED"] + c["UNSUPPORTED"]
  /\ x["error"]   = c["UNRESOLVED"] + c["KILLED"]

LEMMA CountXml ==
  ASSUME NEW c \in Counters, NEW s \in Status, NEW x \in [XmlKind -> Nat],
         XmlMatches(x, c)
  PROVE  /\ [x EXCEPT ![XmlOf(s)] = @ + 1] \in [XmlKind -> Nat]
         /\ XmlMatches([x EXCEPT ![XmlOf(s)] = @ + 1], Count(c, s))
  BY DEF XmlMatches, Count, Counters, Status, XmlKind, XmlOf

(* The verdict is sound for the counters it is computed from.              *)
LEMMA VerdictFacts ==
  ASSUME NEW c \in Counters
  PROVE  /\ Verdict(c, Threshold) \in {0, 1, 7}
         /\ Verdict(c, Threshold) = EXIT_PASS =>
              /\ c["PASS"] > 0 /\ c["KILLED"] = 0
              /\ Errors(c) = 0 \/ Errors(c) < Threshold
         /\ Verdict(c, Threshold) = EXIT_KILLED <=> c["KILLED"] > 0
  BY RunnerAssumption
     DEF Verdict, Errors, Counters, Status, EXIT_PASS, EXIT_FAIL, EXIT_KILLED

LEMMA TopType == TypeOK => Top \in Frame
  BY DEF TypeOK, Top

LEMMA NextLineType ==
  ASSUME NEW f \in Frame
  PROVE  /\ NextLine(f) \in Frame
         /\ NextLine(f).n = f.n /\ NextLine(f).pc = f.pc
         /\ NextLine(f).list = f.list /\ NextLine(f).modes = f.modes
  BY DEF NextLine, Frame

(* Replacing the top of the stack, removing it, pushing on it.             *)
LEMMA SetTopFacts ==
  ASSUME TypeOK, StackInv, NEW f \in Frame, frames' = SetTop(f)
  PROVE  /\ frames' \in Seq(Frame) /\ Len(frames') > 0 /\ Top \in Frame
         /\ Top' = f /\ (IsRoot' <=> IsRoot)
         /\ \A i \in 1..(Len(frames') - 1) : frames'[i].pc = "included"
  BY DEF TypeOK, StackInv, SetTop, Top, IsRoot

LEMMA PopFacts ==
  ASSUME TypeOK, StackInv, ~IsRoot, frames' = Pop
  PROVE  /\ frames' \in Seq(Frame) /\ Len(frames') > 0 /\ Top \in Frame
         /\ Top'.pc = "included"
         /\ \A i \in 1..(Len(frames') - 1) : frames'[i].pc = "included"
<1>1. Len(frames) \in Nat /\ Len(frames) > 1 /\ Top \in Frame
  <2>1. Len(frames) \in Nat /\ Len(frames) > 0 /\ Top \in Frame
    BY TopType DEF TypeOK
  <2>2. \A k \in Nat : k > 0 /\ k # 1 => k > 1
    OBVIOUS
  <2> QED BY <2>1, <2>2, Zenon DEF IsRoot
<1> DEFINE k == Len(frames) - 1
<1>2. frames' = SubSeq(frames, 1, k) /\ k \in Nat /\ k >= 1 /\ k <= Len(frames)
  BY <1>1 DEF Pop
<1>3. frames' \in Seq(Frame) /\ Len(frames') = k
  BY <1>2 DEF TypeOK
<1>4. \A i \in 1..k : frames'[i] = frames[i]
  BY <1>2 DEF TypeOK
<1>5. \A i \in 1..k : frames'[i].pc = "included"
  BY <1>4 DEF StackInv
<1> QED BY <1>1, <1>2, <1>3, <1>5 DEF Top

LEMMA PushFacts ==
  ASSUME TypeOK, StackInv, NEW f \in Frame, NEW g \in Frame, f.pc = "included",
         frames' = Append(SetTop(f), g)
  PROVE  /\ frames' \in Seq(Frame) /\ Len(frames') > 0 /\ Top \in Frame
         /\ Top' = g /\ ~IsRoot'
         /\ \A i \in 1..(Len(frames') - 1) : frames'[i].pc = "included"
  BY DEF TypeOK, StackInv, SetTop, Top, IsRoot

-----------------------------------------------------------------------------
(* A step of the top invocation that only moves it within the script.      *)
LEMMA LocalStep ==
  ASSUME Inv, NEW f \in Frame, frames' = SetTop(f), f.n = Top.n,
         Top.pc \notin {"start", "included", "exited"},
         f.pc \notin {"start", "included", "exited"},
         UNCHANGED <<exit, sumFile, sumExists, xml, intr, tally, ran, started, refused>>
  PROVE  Inv'
<1>1. /\ frames' \in Seq(Frame) /\ Len(frames') > 0 /\ Top \in Frame
      /\ Top' = f /\ (IsRoot' <=> IsRoot)
      /\ \A i \in 1..(Len(frames') - 1) : frames'[i].pc = "included"
  BY SetTopFacts DEF Inv
<1>2. TypeOK' BY <1>1 DEF Inv, TypeOK
<1>3. StackInv' BY <1>1 DEF Inv, StackInv
<1>4. FreshInv' BY <1>1 DEF Inv, FreshInv
<1>5. Conservation' BY <1>1 DEF Inv, Conservation, LedgerView
<1>6. SumFilePresent' BY <1>1 DEF Inv, SumFilePresent
<1>7. VerdictSound' /\ XmlAgrees' BY DEF Inv, VerdictSound, XmlAgrees
<1> QED BY <1>2, <1>3, <1>4, <1>5, <1>6, <1>7 DEF Inv

LEMMA LocalActions ==
  Inv /\ (SkipLine \/ TestLine \/ Launch \/ AllModesDone \/ EndOfList) => Inv'
<1> SUFFICES ASSUME Inv, SkipLine \/ TestLine \/ Launch \/ AllModesDone \/ EndOfList
             PROVE  Inv'
  OBVIOUS
<1>0. Top \in Frame BY TopType DEF Inv
<1>1. CASE SkipLine
  <2> QED BY <1>0, <1>1, NextLineType, LocalStep DEF SkipLine, AtLine, At
<1>2. CASE TestLine
  <2> DEFINE f == [NextLine(Top) EXCEPT !.todo = Top.modes, !.pc = "test"]
  <2>1. f \in Frame /\ f.n = Top.n /\ f.pc = "test"
    BY <1>0, NextLineType DEF Frame, PC
  <2> QED BY <2>1, <1>2, LocalStep DEF TestLine, AtLine, At
<1>3. CASE Launch
  <2> DEFINE f == [Top EXCEPT !.pc = "running"]
  <2>1. f \in Frame /\ f.n = Top.n /\ f.pc = "running" BY <1>0 DEF Frame, PC
  <2> QED BY <2>1, <1>3, LocalStep DEF Launch, At
<1>4. CASE AllModesDone
  <2> DEFINE f == [Top EXCEPT !.pc = "read"]
  <2>1. f \in Frame /\ f.n = Top.n /\ f.pc = "read" BY <1>0 DEF Frame, PC
  <2> QED BY <2>1, <1>4, LocalStep DEF AllModesDone, At
<1>5. CASE EndOfList
  <2> DEFINE f == [Top EXCEPT !.pc = "finish"]
  <2>1. f \in Frame /\ f.n = Top.n /\ f.pc = "finish" BY <1>0 DEF Frame, PC
  <2> QED BY <2>1, <1>5, LocalStep DEF EndOfList, At
<1> QED BY <1>1, <1>2, <1>3, <1>4, <1>5

(* The two halves of the hand-over to an included list.                    *)
LEMMA IncludeStep == Inv /\ Include => Inv'
<1> SUFFICES ASSUME Inv, Include PROVE Inv'
  OBVIOUS
<1>0. Top \in Frame BY TopType DEF Inv
<1> DEFINE f == [NextLine(Top) EXCEPT !.pc = "included"]
           g == Invocation(CurrentLine.list, Top.modes)
<1>1. f \in Frame /\ f.pc = "included"
  BY <1>0, NextLineType DEF Frame, PC
<1>2. CurrentLine.list \in Lists
  <2>1. Content[Top.list] \in Seq(Line) /\ Top.pos \in Nat \ {0}
    BY <1>0, RunnerAssumption DEF Frame
  <2>2. Top.pos \in 1..Len(Content[Top.list])
    BY <2>1 DEF Include, AtLine
  <2>3. CurrentLine \in Line
    BY <2>1, <2>2 DEF CurrentLine
  <2> QED BY <2>3 DEF Line
<1>3. g \in Frame /\ g.pc = "start" /\ g.n = Zero
  BY <1>0, <1>2, ZeroType DEF Frame, PC, Invocation
<1>4. /\ frames' \in Seq(Frame) /\ Len(frames') > 0
      /\ Top' = g /\ ~IsRoot'
      /\ \A i \in 1..(Len(frames') - 1) : frames'[i].pc = "included"
  BY <1>1, <1>3, PushFacts DEF Inv, Include
<1>5. TypeOK'
  BY <1>0, <1>4 DEF Inv, TypeOK, Include, Frame
<1>6. StackInv'
  BY <1>3, <1>4 DEF Inv, StackInv, Include, AtLine, At
<1>7. FreshInv'
  BY <1>3, <1>4 DEF Inv, FreshInv, Include, AtLine, At
<1>8. Conservation' /\ SumFilePresent'
  BY <1>3, <1>4 DEF Inv, Conservation, LedgerView, SumFilePresent, Include, AtLine, At
<1>9. VerdictSound' /\ XmlAgrees'
  BY DEF Inv, VerdictSound, XmlAgrees, Include
<1> QED BY <1>5, <1>6, <1>7, <1>8, <1>9 DEF Inv

LEMMA IncludedStep == Inv /\ Included => Inv'
<1> SUFFICES ASSUME Inv, Included PROVE Inv'
  OBVIOUS
<1>0. Top \in Frame BY TopType DEF Inv
<1> DEFINE f == [Top EXCEPT !.n = sumFile, !.pc = "read"]
<1>1. f \in Frame /\ f.pc = "read" /\ f.n = sumFile
  BY <1>0 DEF Inv, TypeOK, Frame, PC
<1>2. /\ frames' \in Seq(Frame) /\ Len(frames') > 0
      /\ Top' = f /\ (IsRoot' <=> IsRoot)
      /\ \A i \in 1..(Len(frames') - 1) : frames'[i].pc = "included"
  BY <1>1, SetTopFacts DEF Inv, Included
<1>3. TypeOK' BY <1>2 DEF Inv, TypeOK, Included
<1>4. StackInv' BY <1>1, <1>2 DEF Inv, StackInv, Included, At
<1>5. FreshInv' BY <1>1, <1>2 DEF Inv, FreshInv, Included, At
<1>6. Conservation' /\ SumFilePresent'
  BY <1>1, <1>2 DEF Inv, Conservation, LedgerView, SumFilePresent, Included, At
<1>7. VerdictSound' /\ XmlAgrees'
  BY DEF Inv, VerdictSound, XmlAgrees, Included
<1> QED BY <1>3, <1>4, <1>5, <1>6, <1>7 DEF Inv

(* A finished test: one count more in the counters, the history and the    *)
(* XML log.                                                                *)
LEMMA ResultStep ==
  ASSUME Inv, NEW m \in Modes, NEW code \in Statuses, Result(m, code)
  PROVE  Inv'
<1>0. Top \in Frame BY TopType DEF Inv
<1> DEFINE s == StatusOf(code)
           f == [Top EXCEPT !.n = Count(@, s), !.todo = @ \ {m},
                            !.pc = IF s = "KILLED" THEN "finish" ELSE "test"]
<1>1. s \in Status BY StatusType
<1> HIDE DEF s
<1>2. f \in Frame /\ f.pc \in {"finish", "test"} /\ f.n = Count(Top.n, s)
  BY <1>0, <1>1, CountType DEF Frame, PC
<1>3. /\ frames' \in Seq(Frame) /\ Len(frames') > 0
      /\ Top' = f /\ (IsRoot' <=> IsRoot)
      /\ \A i \in 1..(Len(frames') - 1) : frames'[i].pc = "included"
  BY <1>2, SetTopFacts DEF Inv, Result, s
<1>4. /\ tally' = Count(tally, s) /\ tally' \in Counters
      /\ xml' = [xml EXCEPT ![XmlOf(s)] = @ + 1]
  BY <1>1, CountType DEF Inv, TypeOK, Result, s
<1>5. started # {} /\ exit = Running
  BY DEF Inv, FreshInv, StackInv, Result, At
<1>6. XmlAgrees' /\ xml' \in [XmlKind -> Nat]
  <2>1. tally \in Counters /\ xml \in [XmlKind -> Nat] /\ XmlMatches(xml, tally)
    BY <1>5 DEF Inv, TypeOK, XmlAgrees, XmlMatches
  <2>2. xml' \in [XmlKind -> Nat] /\ XmlMatches(xml', tally')
    BY <1>1, <1>4, <2>1, CountXml
  <2> QED BY <2>2 DEF XmlAgrees, XmlMatches
<1>7. TypeOK'
  <2>1. ran' \subseteq (Lists \X Nat \X Modes)
    BY <1>0 DEF Inv, TypeOK, Result, Frame
  <2> QED BY <1>3, <1>4, <1>6, <2>1 DEF Inv, TypeOK, Result
<1>8. StackInv' BY <1>2, <1>3 DEF Inv, StackInv, Result, At
<1>9. FreshInv' BY <1>2, <1>3, <1>5 DEF Inv, FreshInv, Result, At
<1>10. Conservation' /\ SumFilePresent'
  BY <1>2, <1>3, <1>4 DEF Inv, Conservation, LedgerView, SumFilePresent, Result, At
<1>11. VerdictSound' BY <1>5 DEF VerdictSound, Result
<1> QED BY <1>6, <1>7, <1>8, <1>9, <1>10, <1>11 DEF Inv

-----------------------------------------------------------------------------
(* An invocation leaves: the root stays on the stack as exited, a child    *)
(* uncovers its parent.                                                    *)
LEMMA LeaveFacts ==
  ASSUME TypeOK, StackInv, Top.pc # "exited", NEW code \in Int, code # Running, Leave(code)
  PROVE  /\ frames' \in Seq(Frame) /\ Len(frames') > 0 /\ exit' \in Int
         /\ StackInv'
         /\ IsRoot => /\ IsRoot' /\ Top'.pc = "exited" /\ Top'.n = Top.n
                      /\ exit' = code
         /\ ~IsRoot => Top'.pc = "included" /\ exit' = Running
<1>0. Top \in Frame BY TopType
<1>1. CASE IsRoot
  <2> DEFINE f == [Top EXCEPT !.pc = "exited"]
  <2>1. f \in Frame /\ f.pc = "exited" /\ f.n = Top.n BY <1>0 DEF Frame, PC
  <2>2. frames' = SetTop(f) /\ exit' = code BY <1>1 DEF Leave
  <2>3. /\ frames' \in Seq(Frame) /\ Len(frames') > 0
        /\ Top' = f /\ (IsRoot' <=> IsRoot)
        /\ \A i \in 1..(Len(frames') - 1) : frames'[i].pc = "included"
    BY <2>1, <2>2, SetTopFacts
  <2> QED BY <1>1, <2>1, <2>2, <2>3 DEF StackInv
<1>2. CASE ~IsRoot
  <2>1. frames' = Pop /\ exit' = exit /\ exit = Running
    BY <1>2 DEF Leave, StackInv
  <2>2. /\ frames' \in Seq(Frame) /\ Len(frames') > 0
        /\ Top'.pc = "included"
        /\ \A i \in 1..(Len(frames') - 1) : frames'[i].pc = "included"
    BY <1>2, <2>1, PopFacts
  <2> QED BY <1>2, <2>1, <2>2 DEF StackInv, TypeOK
<1> QED BY <1>1, <1>2

LEMMA UsageStep == Inv /\ Usage => Inv'
<1> SUFFICES ASSUME Inv, Usage PROVE Inv'
  OBVIOUS
<1>0. Top \in Frame BY TopType DEF Inv
<1>1. /\ frames' \in Seq(Frame) /\ Len(frames') > 0 /\ exit' \in Int
      /\ StackInv'
      /\ IsRoot => /\ IsRoot' /\ Top'.pc = "exited" /\ Top'.n = Top.n
                   /\ exit' = 2
      /\ ~IsRoot => Top'.pc = "included" /\ exit' = Running
  BY LeaveFacts DEF Inv, Usage, At, Running
<1>2. TypeOK' BY <1>0, <1>1 DEF Inv, TypeOK, Usage, Frame
<1>3. FreshInv' BY <1>1 DEF Inv, FreshInv, Usage, At
<1>4. Conservation' /\ SumFilePresent'
  BY <1>1 DEF Inv, FreshInv, Conservation, LedgerView, SumFilePresent, Usage, At
<1>5. VerdictSound'
  <2>1. CASE IsRoot
    BY <1>1, <2>1 DEF Inv, FreshInv, VerdictSound, Usage, At, Zero, Status, Errors,
                      EXIT_PASS, EXIT_KILLED
  <2>2. CASE ~IsRoot
    BY <1>1, <2>2 DEF VerdictSound
  <2> QED BY <2>1, <2>2
<1>6. XmlAgrees' BY DEF Inv, XmlAgrees, Usage
<1> QED BY <1>1, <1>2, <1>3, <1>4, <1>5, <1>6 DEF Inv

LEMMA StartStep ==
  ASSUME Inv, NEW ms \in SUBSET Modes, Start(ms)
  PROVE  Inv'
<1>0. Top \in Frame BY TopType DEF Inv
<1>1. StartCounters = tally /\ StartCounters \in Counters
  BY DEF Inv, TypeOK, FreshInv, Conservation, LedgerView, Start, At, StartCounters
<1>2. exit = Running
  BY DEF Inv, StackInv, Start, At
<1>3. CASE ms = {}
  <2>1. /\ frames' \in Seq(Frame) /\ Len(frames') > 0 /\ exit' \in Int
        /\ StackInv'
        /\ IsRoot => /\ IsRoot' /\ Top'.pc = "exited" /\ Top'.n = Top.n
                     /\ exit' = 1
        /\ ~IsRoot => Top'.pc = "included" /\ exit' = Running
    BY <1>3, LeaveFacts DEF Inv, Start, At, Running
  <2>2. TypeOK' BY <1>0, <1>1, <1>3, <2>1 DEF Inv, TypeOK, Start, Frame
  <2>3. FreshInv' BY <1>3, <2>1 DEF Inv, FreshInv, Start, At
  <2>4. Conservation' /\ SumFilePresent'
    BY <1>1, <1>3, <2>1 DEF Inv, FreshInv, Conservation, LedgerView, SumFilePresent, Start, At
  <2>5. VerdictSound'
    <3>1. CASE IsRoot
      BY <1>3, <2>1, <3>1 DEF Inv, FreshInv, VerdictSound, Start, At, Zero, Status, Errors,
                              EXIT_PASS, EXIT_KILLED
    <3>2. CASE ~IsRoot
      BY <2>1, <3>2 DEF VerdictSound
    <3> QED BY <3>1, <3>2
  <2>6. XmlAgrees' BY <1>3 DEF Inv, XmlAgrees, Start
  <2> QED BY <2>1, <2>2, <2>3, <2>4, <2>5, <2>6 DEF Inv
<1>4. CASE ms # {}
  <2> DEFINE f == [Top EXCEPT !.modes = ms, !.pc = "read", !.n = StartCounters]
  <2>1. f \in Frame /\ f.pc = "read" /\ f.n = StartCounters
    BY <1>0, <1>1 DEF Frame, PC
  <2>2. /\ frames' \in Seq(Frame) /\ Len(frames') > 0
        /\ Top' = f /\ (IsRoot' <=> IsRoot)
        /\ \A i \in 1..(Len(frames') - 1) : frames'[i].pc = "included"
    BY <1>4, <2>1, SetTopFacts DEF Inv, Start
  <2>3. TypeOK'
    BY <1>0, <1>1, <1>4, <2>2 DEF Inv, TypeOK, Start, StartXml, Frame
  <2>4. StackInv' BY <1>2, <1>4, <2>1, <2>2 DEF Inv, StackInv, Start, At
  <2>5. FreshInv' BY <1>4, <2>1, <2>2 DEF Inv, FreshInv, Start, At
  <2>6. Conservation' /\ SumFilePresent'
    BY <1>1, <1>4, <2>1, <2>2 DEF Inv, Conservation, LedgerView, SumFilePresent, Start, At
  <2>7. VerdictSound' BY <1>2, <1>4 DEF VerdictSound, Start
  <2>8. XmlAgrees'
    <3>1. CASE IsRoot
      BY <1>4, <3>1 DEF Inv, FreshInv, XmlAgrees, Start, StartXml, At, Zero, Status, XmlKind
    <3>2. CASE ~IsRoot
      BY <1>4, <3>2 DEF Inv, FreshInv, XmlAgrees, Start, StartXml, At
    <3> QED BY <3>1, <3>2
  <2> QED BY <2>3, <2>4, <2>5, <2>6, <2>7, <2>8 DEF Inv
<1> QED BY <1>3, <1>4

(* The end of an invocation: a child hands its counters back, the root     *)
(* judges them.                                                            *)
LEMMA FinishStep == Inv /\ Finish => Inv'
<1> SUFFICES ASSUME Inv, Finish PROVE Inv'
  OBVIOUS
<1>0. Top \in Frame BY TopType DEF Inv
<1>1. Top.n = tally /\ Top.n \in Counters /\ started # {}
  BY <1>0 DEF Inv, FreshInv, Conservation, LedgerView, Finish, At, Frame
<1> DEFINE code == Verdict(Top.n, Threshold)
<1>2. /\ code \in {0, 1, 7}
      /\ code = EXIT_PASS => /\ tally["PASS"] > 0 /\ tally["KILLED"] = 0
                             /\ Errors(tally) = 0 \/ Errors(tally) < Threshold
      /\ code = EXIT_KILLED <=> tally["KILLED"] > 0
  BY <1>1, VerdictFacts
<1> HIDE DEF code
<1>3. code \in Int /\ code # Running BY <1>2 DEF Running
<1>4. /\ frames' \in Seq(Frame) /\ Len(frames') > 0 /\ exit' \in Int
      /\ StackInv'
      /\ IsRoot => /\ IsRoot' /\ Top'.pc = "exited" /\ Top'.n = Top.n
                   /\ exit' = code
      /\ ~IsRoot => Top'.pc = "included" /\ exit' = Running
  BY <1>3, LeaveFacts DEF Inv, Finish, At, code
<1>5. TypeOK' BY <1>1, <1>4 DEF Inv, TypeOK, Finish
<1>6. FreshInv' BY <1>1, <1>4 DEF FreshInv, Finish
<1>7. Conservation' /\ SumFilePresent'
  BY <1>1, <1>4 DEF Conservation, LedgerView, SumFilePresent, Finish, At
<1>8. VerdictSound' BY <1>2, <1>4 DEF VerdictSound, Finish
<1>9. XmlAgrees' BY DEF Inv, XmlAgrees, Finish
<1> QED BY <1>4, <1>5, <1>6, <1>7, <1>8, <1>9 DEF Inv

LEMMA InterruptStep == Inv /\ Interrupt => Inv'
<1> SUFFICES ASSUME Inv, Interrupt PROVE Inv'
  OBVIOUS
<1>1. TypeOK' BY DEF Inv, TypeOK, Interrupt
<1>2. StackInv' /\ FreshInv'
  BY DEF Inv, StackInv, FreshInv, Interrupt, Top, IsRoot
<1>3. Conservation' /\ SumFilePresent' /\ VerdictSound'
  BY DEF Conservation, LedgerView, SumFilePresent, VerdictSound, Interrupt
<1>4. XmlAgrees' BY DEF Inv, XmlAgrees, Interrupt
<1> QED BY <1>1, <1>2, <1>3, <1>4 DEF Inv

LEMMA CleanupStep == Inv /\ Cleanup => Inv'
<1> SUFFICES ASSUME Inv, Cleanup PROVE Inv'
  OBVIOUS
<1>1. /\ frames' \in Seq(Frame) /\ Len(frames') > 0 /\ exit' \in Int
      /\ StackInv'
      /\ IsRoot => /\ IsRoot' /\ Top'.pc = "exited" /\ Top'.n = Top.n
                   /\ exit' = 1
      /\ ~IsRoot => Top'.pc = "included" /\ exit' = Running
  BY LeaveFacts DEF Inv, StackInv, Cleanup, Running
<1>2. TypeOK' BY <1>1 DEF Inv, TypeOK, Cleanup
<1>3. FreshInv' BY <1>1 DEF Inv, FreshInv, Cleanup
<1>4. Conservation' /\ SumFilePresent' /\ VerdictSound'
  BY DEF Conservation, LedgerView, SumFilePresent, VerdictSound, Cleanup
<1>5. XmlAgrees' BY DEF Inv, XmlAgrees, Cleanup
<1> QED BY <1>1, <1>2, <1>3, <1>4, <1>5 DEF Inv

-----------------------------------------------------------------------------
LEMMA InitInv == Init => Inv
<1> SUFFICES ASSUME Init PROVE Inv
  OBVIOUS
<1> DEFINE f == Invocation(Root, Modes)
<1>1. f \in Frame /\ f.pc = "start" /\ f.n = Zero
  BY RunnerAssumption, ZeroType DEF Invocation, Frame, PC
<1> HIDE DEF f
<1>2. frames = <<f>> BY DEF Init, f
<1>3. frames \in Seq(Frame) /\ Len(frames) = 1 /\ Top = f
  BY <1>1, <1>2 DEF Top
<1>4. TypeOK
  <2>1. PICK c \in 0..1 : xml = [k \in XmlKind |-> c] BY DEF Init
  <2>2. xml \in [XmlKind -> Nat] BY <2>1
  <2>3. exit \in Int BY DEF Init, Running
  <2>4. ran \subseteq (Lists \X Nat \X Modes) /\ started \subseteq (Lists \X SUBSET Modes)
    BY DEF Init
  <2>5. Len(frames) > 0 BY <1>2
  <2> QED BY <1>3, <2>2, <2>3, <2>4, <2>5, ZeroType DEF Init, TypeOK
<1>5. StackInv /\ FreshInv BY <1>1, <1>3 DEF Init, StackInv, FreshInv, IsRoot, Running
<1>6. Conservation /\ SumFilePresent
  BY <1>1, <1>3 DEF Init, Conservation, LedgerView, SumFilePresent, IsRoot
<1>7. VerdictSound /\ XmlAgrees BY DEF Init, VerdictSound, XmlAgrees
<1> QED BY <1>4, <1>5, <1>6, <1>7 DEF Inv

LEMMA NextInv == Inv /\ [Next]_vars => Inv'
<1> SUFFICES ASSUME Inv, [Next]_vars PROVE Inv'
  OBVIOUS
<1>1. CASE UNCHANGED vars
  BY <1>1 DEF Inv, vars, TypeOK, StackInv, FreshInv, Conservation, LedgerView,
              SumFilePresent, VerdictSound, XmlAgrees, Top, IsRoot
<1>2. CASE Step
  BY <1>2, UsageStep, StartStep, LocalActions, IncludeStep, IncludedStep, ResultStep,
     FinishStep, CleanupStep DEF Step
<1>3. CASE Interrupt BY <1>3, InterruptStep
<1>4. CASE Terminated BY <1>1, <1>4 DEF Terminated
<1> QED BY <1>1, <1>2, <1>3, <1>4 DEF Next

(* The state of test.sh stays well typed.                                  *)
THEOREM TypeCorrect == Spec => []TypeOK
<1>1. Inv => TypeOK BY DEF Inv
<1> QED BY InitInv, NextInv, <1>1, PTL DEF Spec

(* The hand-over of the counters between nested invocations loses and      *)
(* duplicates nothing, at any depth of %include.                           *)
THEOREM CountersConserved == Spec => []Conservation
<1>1. Inv => Conservation BY DEF Inv
<1> QED BY InitInv, NextInv, <1>1, PTL DEF Spec

(* No invocation sources a sum_file that does not exist.                   *)
THEOREM SumFileThere == Spec => []SumFilePresent
<1>1. Inv => SumFilePresent BY DEF Inv
<1> QED BY InitInv, NextInv, <1>1, PTL DEF Spec

(* The exit status of test.sh is sound for the tests that ran in the whole *)
(* nest of lists.                                                          *)
THEOREM VerdictCorrect == Spec => []VerdictSound
<1>1. Inv => VerdictSound BY DEF Inv
<1> QED BY InitInv, NextInv, <1>1, PTL DEF Spec

(* The XML log agrees with the counters.                                   *)
THEOREM XmlCorrect == Spec => []XmlAgrees
<1>1. Inv => XmlAgrees BY DEF Inv
<1> QED BY InitInv, NextInv, <1>1, PTL DEF Spec

-----------------------------------------------------------------------------
(* The steps of test.sh seen on the ledger. Inside the invariant the       *)
(* ledger is the history of results, so every step that finishes no test   *)
(* leaves it alone.                                                        *)
LEMMA LedgerNames ==
  /\ Ledger!Running = Running /\ Ledger!Zero = Zero /\ Ledger!Status = Status
  /\ \A c, s : Ledger!Count(c, s) = Count(c, s)
  /\ \A c : Ledger!Verdict(c, Threshold) = Verdict(c, Threshold)
  BY DEF Ledger!Running, Running, Ledger!Zero, Zero, Ledger!Status, Status,
         Ledger!Count, Count, Ledger!Verdict, Verdict, Ledger!Errors, Errors,
         Ledger!EXIT_PASS, EXIT_PASS, Ledger!EXIT_FAIL, EXIT_FAIL,
         Ledger!EXIT_KILLED, EXIT_KILLED

LEMMA LedgerStep ==
  ASSUME Inv, Inv', [Next]_vars
  PROVE  [Ledger!Next]_(Ledger!ledger)
<1>0. LedgerView = tally /\ LedgerView' = tally'
  BY DEF Inv, Conservation
<1>1. CASE UNCHANGED <<tally, exit>>
  BY <1>0, <1>1 DEF Ledger!ledger
<1>2. ASSUME NEW m \in Modes, NEW code \in Statuses, Result(m, code)
      PROVE  Ledger!Record(StatusOf(code))
  BY <1>0, <1>2, LedgerNames DEF Result, At, Ledger!Record, Inv, StackInv
<1>3. ASSUME exit' # exit, Leave(1) \/ Leave(2), tally' = tally, exit = Running
      PROVE  Ledger!GiveUp
  BY <1>0, <1>3, LedgerNames DEF Leave, Ledger!GiveUp
<1>4. ASSUME Finish, exit' # exit PROVE Ledger!Finish
  <2>1. exit = Running /\ Top.n = tally
    BY <1>4 DEF Finish, At, Inv, StackInv, Conservation, LedgerView
  <2>2. exit' = Verdict(Top.n, Threshold) /\ tally' = tally
    BY <1>4 DEF Finish, Leave
  <2> QED BY <1>0, <2>1, <2>2, LedgerNames DEF Ledger!Finish
<1>5. CASE Usage \/ Cleanup \/ \E ms \in SUBSET Modes : Start(ms)
  <2>1. exit = Running BY <1>5 DEF Usage, Cleanup, Start, At, Inv, StackInv
  <2>2. tally' = tally BY <1>5 DEF Usage, Cleanup, Start
  <2>3. exit' = exit \/ Leave(1) \/ Leave(2)
    BY <1>5 DEF Usage, Cleanup, Start
  <2> QED BY <1>1, <1>3, <2>1, <2>2, <2>3 DEF Ledger!Next
<1>6. CASE \/ SkipLine \/ Include \/ Included \/ TestLine \/ Launch \/ AllModesDone
           \/ EndOfList \/ Interrupt \/ Terminated \/ UNCHANGED vars
  BY <1>1, <1>6 DEF SkipLine, Include, Included, TestLine, Launch, AllModesDone,
                    EndOfList, Interrupt, Terminated, vars
<1>7. CASE \E m \in Modes, code \in Statuses : Result(m, code)
  BY <1>2, <1>7, StatusType, LedgerNames DEF Ledger!Next
<1>8. CASE Finish
  <2>1. tally' = tally BY <1>8 DEF Finish
  <2> QED BY <1>1, <1>4, <1>8, <2>1 DEF Ledger!Next
<1> QED BY <1>5, <1>6, <1>7, <1>8 DEF Next, Step

(* test.sh, however it is split into invocations, implements the single    *)
(* ledger of TestLedger.                                                   *)
THEOREM RunnerRefinesLedger == Spec => ImplementsLedger
<1>1. Init => Ledger!Init
  <2> SUFFICES ASSUME Init PROVE Ledger!Init
    OBVIOUS
  <2>1. LedgerView = tally BY InitInv DEF Inv, Conservation
  <2> QED BY <2>1, LedgerNames DEF Init, Ledger!Init
<1>2. Inv /\ Inv' /\ [Next]_vars => [Ledger!Next]_(Ledger!ledger)
  BY LedgerStep
<1> QED BY InitInv, NextInv, <1>1, <1>2, PTL DEF Spec, ImplementsLedger, Ledger!Spec

-----------------------------------------------------------------------------
(* test.sh passes over nothing: a verdict without a KILLED result means    *)
(* that each line of each started list was dealt with.                     *)

(* What the run has done so far; it only grows.                            *)
Hist == [ran |-> ran, started |-> started, refused |-> refused]
History == [ran : SUBSET (Lists \X Nat \X Modes), started : SUBSET (Lists \X SUBSET Modes),
            refused : SUBSET Lists]
Grows(h, g) ==
  /\ h.ran \subseteq g.ran
  /\ h.started \subseteq g.started
  /\ h.refused \subseteq g.refused

(* Line i of list l is dealt with for an invocation with the modes ms.     *)
LineDone(h, l, i, ms) ==
  /\ Content[l][i].kind = "test" => \A m \in ms : <<l, i, m>> \in h.ran
  /\ Content[l][i].kind = "include" =>
       \/ Content[l][i].list \in h.refused
       \/ \E ns \in SUBSET ms : <<Content[l][i].list, ns>> \in h.started

ListDone(h, l, ms) == \A i \in DOMAIN Content[l] : LineDone(h, l, i, ms)

(* The lines an invocation has read: the last one is in Passed only.       *)
Behind(h, f) ==
  \A i \in DOMAIN Content[f.list] : i < f.pos - 1 => LineDone(h, f.list, i, f.modes)
Passed(h, f) ==
  f.pos - 1 \in DOMAIN Content[f.list] => LineDone(h, f.list, f.pos - 1, f.modes)

Active(f) == f.pc \notin {"start", "exited"}

(* What an invocation has done of its list, by the place it is at.         *)
FrameDone(h, f) ==
  /\ Behind(h, f)
  /\ f.pc \in {"read", "finish"} => Passed(h, f)
  /\ f.pc = "finish" => f.pos > Len(Content[f.list])
  /\ f.pc \in {"test", "running"} =>
       /\ Content[f.list][f.pos - 1].kind = "test"
       /\ \A m \in f.modes \ f.todo : <<f.list, f.pos - 1, m>> \in h.ran

(* An included list that has not been started yet.                         *)
Awaits(f, child) ==
  /\ child.pc = "start" /\ child.modes = f.modes
  /\ Content[f.list][f.pos - 1].kind = "include"
  /\ Content[f.list][f.pos - 1].list = child.list

StackDone(h, fs) ==
  /\ \A k \in 1..Len(fs) : Active(fs[k]) => FrameDone(h, fs[k])
  /\ \A k \in 1..(Len(fs) - 1) :
       Passed(h, fs[k]) \/ (k = Len(fs) - 1 /\ Awaits(fs[k], fs[Len(fs)]))
  /\ fs[Len(fs)].pc = "included" => Passed(h, fs[Len(fs)])
  /\ fs[Len(fs)].pc = "start" => fs[Len(fs)].pos = 1
  /\ \A x \in h.started :
       \/ ListDone(h, x[1], x[2])
       \/ \E k \in 1..Len(fs) : Active(fs[k]) /\ x = <<fs[k].list, fs[k].modes>>

CoverInv == ~intr /\ tally["KILLED"] = 0 => StackDone(Hist, frames)

-----------------------------------------------------------------------------
(* What is done stays done.                                                *)
LEMMA LineStays ==
  ASSUME NEW h \in History, NEW g \in History, Grows(h, g),
         NEW l, NEW i, NEW ms, LineDone(h, l, i, ms)
  PROVE  LineDone(g, l, i, ms)
  BY DEF Grows, LineDone

LEMMA FrameStays ==
  ASSUME NEW h \in History, NEW g \in History, Grows(h, g), NEW f \in Frame
  PROVE  /\ Passed(h, f) => Passed(g, f)
         /\ FrameDone(h, f) => FrameDone(g, f)
<1>1. Passed(h, f) => Passed(g, f) BY LineStays DEF Passed
<1>2. Behind(h, f) => Behind(g, f) BY LineStays DEF Behind
<1> QED BY <1>1, <1>2 DEF FrameDone, Grows

LEMMA ListStays ==
  ASSUME NEW h \in History, NEW g \in History, Grows(h, g), NEW l, NEW ms, ListDone(h, l, ms)
  PROVE  ListDone(g, l, ms)
  BY LineStays DEF ListDone

LEMMA GrowsRefl == ASSUME NEW h \in History PROVE Grows(h, h)
  BY DEF Grows

(* Replacing the top of the stack: the new top accounts for its own list,  *)
(* for the one the old top stood for, and for the parent that awaited it.  *)
LEMMA SetTopDone ==
  ASSUME NEW h \in History, NEW g \in History, Grows(h, g),
         NEW fs \in Seq(Frame), Len(fs) > 0, NEW f \in Frame,
         \A k \in 1..(Len(fs) - 1) : fs[k].pc = "included",
         StackDone(h, fs),
         Active(f) => FrameDone(g, f),
         f.pc = "included" => Passed(g, f), f.pc # "start",
         Len(fs) > 1 /\ Awaits(fs[Len(fs) - 1], fs[Len(fs)]) => Passed(g, fs[Len(fs) - 1]),
         \A x \in g.started \ h.started : Active(f) /\ x = <<f.list, f.modes>>,
         Active(fs[Len(fs)]) =>
           \/ ListDone(g, fs[Len(fs)].list, fs[Len(fs)].modes)
           \/ Active(f) /\ f.list = fs[Len(fs)].list /\ f.modes = fs[Len(fs)].modes
  PROVE  StackDone(g, [fs EXCEPT ![Len(fs)] = f])
<1> DEFINE n == Len(fs)
           gs == [fs EXCEPT ![n] = f]
<1>1. n \in Nat \ {0} /\ Len(gs) = n /\ gs[n] = f
      /\ (\A k \in 1..n : fs[k] \in Frame)
      /\ (\A k \in 1..(n - 1) : gs[k] = fs[k])
  OBVIOUS
<1> HIDE DEF n, gs
<1>2. \A k \in 1..n : Active(gs[k]) => FrameDone(g, gs[k])
  <2> SUFFICES ASSUME NEW k \in 1..n, Active(gs[k]) PROVE FrameDone(g, gs[k]) OBVIOUS
  <2>1. CASE k = n BY <1>1, <2>1
  <2>2. CASE k # n
    <3>1. gs[k] = fs[k] /\ fs[k] \in Frame BY <1>1, <2>2
    <3>2. FrameDone(h, fs[k]) BY <3>1 DEF StackDone, n
    <3> QED BY <3>1, <3>2, FrameStays
  <2> QED BY <2>1, <2>2
<1>3. \A k \in 1..(n - 1) : Passed(g, gs[k])
  <2> SUFFICES ASSUME NEW k \in 1..(n - 1) PROVE Passed(g, gs[k]) OBVIOUS
  <2>1. gs[k] = fs[k] /\ fs[k] \in Frame BY <1>1
  <2>2. Passed(h, fs[k]) \/ (k = n - 1 /\ Awaits(fs[k], fs[n])) BY DEF StackDone, n
  <2>3. n > 1 BY <1>1
  <2> QED BY <2>1, <2>2, <2>3, FrameStays DEF n
<1>4. \A x \in g.started :
        \/ ListDone(g, x[1], x[2])
        \/ \E k \in 1..n : Active(gs[k]) /\ x = <<gs[k].list, gs[k].modes>>
  <2> SUFFICES ASSUME NEW x \in g.started, ~ListDone(g, x[1], x[2])
               PROVE  \E k \in 1..n : Active(gs[k]) /\ x = <<gs[k].list, gs[k].modes>>
    OBVIOUS
  <2>1. CASE x \notin h.started
    BY <1>1, <2>1
  <2>2. CASE x \in h.started
    <3>1. ~ListDone(h, x[1], x[2]) BY ListStays
    <3>2. PICK k \in 1..n : Active(fs[k]) /\ x = <<fs[k].list, fs[k].modes>>
      BY <2>2, <3>1 DEF StackDone, n
    <3>3. CASE k = n
      <4>1. x[1] = fs[n].list /\ x[2] = fs[n].modes BY <3>2, <3>3
      <4>2. Active(f) /\ x = <<f.list, f.modes>> BY <3>2, <3>3, <4>1 DEF n
      <4> QED BY <1>1, <4>2
    <3>4. CASE k # n
      <4>1. k \in 1..(n - 1) BY <1>1, <3>4
      <4> QED BY <1>1, <3>2, <4>1
    <3> QED BY <3>3, <3>4
  <2> QED BY <2>1, <2>2
<1> QED BY <1>1, <1>2, <1>3, <1>4 DEF StackDone, n, gs

(* Removing the top: its list is done, and its parent has not awaited it   *)
(* in vain.                                                                *)
LEMMA PopDone ==
  ASSUME NEW h \in History, NEW g \in History, Grows(h, g), g.started = h.started,
         NEW fs \in Seq(Frame), Len(fs) > 1,
         \A k \in 1..(Len(fs) - 1) : fs[k].pc = "included",
         StackDone(h, fs),
         Awaits(fs[Len(fs) - 1], fs[Len(fs)]) => Passed(g, fs[Len(fs) - 1]),
         Active(fs[Len(fs)]) => ListDone(g, fs[Len(fs)].list, fs[Len(fs)].modes)
  PROVE  StackDone(g, SubSeq(fs, 1, Len(fs) - 1))
<1> DEFINE n == Len(fs) - 1
           gs == SubSeq(fs, 1, n)
<1>1. n \in Nat \ {0} /\ Len(fs) = n + 1 /\ Len(gs) = n
      /\ (\A k \in 1..n : gs[k] = fs[k] /\ fs[k] \in Frame)
  OBVIOUS
<1> HIDE DEF n, gs
<1>2. \A k \in 1..n : Active(gs[k]) => FrameDone(g, gs[k])
  <2> SUFFICES ASSUME NEW k \in 1..n, Active(gs[k]) PROVE FrameDone(g, gs[k]) OBVIOUS
  <2>1. gs[k] = fs[k] /\ fs[k] \in Frame /\ k \in 1..(n + 1) BY <1>1
  <2>2. FrameDone(h, fs[k]) BY <1>1, <2>1 DEF StackDone
  <2> QED BY <2>1, <2>2, FrameStays
<1>3. \A k \in 1..n : Passed(g, gs[k])
  <2> SUFFICES ASSUME NEW k \in 1..n PROVE Passed(g, gs[k]) OBVIOUS
  <2>1. gs[k] = fs[k] /\ fs[k] \in Frame BY <1>1
  <2>2. Passed(h, fs[k]) \/ (k = n /\ Awaits(fs[k], fs[Len(fs)])) BY DEF StackDone, n
  <2> QED BY <2>1, <2>2, FrameStays DEF n
<1>4. \A x \in g.started :
        \/ ListDone(g, x[1], x[2])
        \/ \E k \in 1..n : Active(gs[k]) /\ x = <<gs[k].list, gs[k].modes>>
  <2> SUFFICES ASSUME NEW x \in g.started, ~ListDone(g, x[1], x[2])
               PROVE  \E k \in 1..n : Active(gs[k]) /\ x = <<gs[k].list, gs[k].modes>>
    OBVIOUS
  <2>1. ~ListDone(h, x[1], x[2]) BY ListStays
  <2>2. PICK k \in 1..(n + 1) : Active(fs[k]) /\ x = <<fs[k].list, fs[k].modes>>
    BY <1>1, <2>1 DEF StackDone
  <2>3. x[1] = fs[k].list /\ x[2] = fs[k].modes BY <2>2
  <2>4. k # n + 1 BY <1>1, <2>2, <2>3
  <2>5. k \in 1..n BY <1>1, <2>4
  <2> QED BY <1>1, <2>2, <2>5
<1>5. n \in 1..n /\ \A k \in 1..(n - 1) : k \in 1..n BY <1>1
<1>6. gs[n].pc # "start" BY <1>1, <1>5 DEF n
<1>7. StackDone(g, gs) BY <1>1, <1>2, <1>3, <1>4, <1>5, <1>6 DEF StackDone
<1> QED BY <1>7 DEF n, gs

(* Pushing an included list, which its parent then awaits.                 *)
LEMMA PushDone ==
  ASSUME NEW h \in History, NEW fs \in Seq(Frame), Len(fs) > 0,
         NEW f \in Frame, NEW child \in Frame,
         StackDone(h, fs), Active(fs[Len(fs)]),
         f.pc = "included", FrameDone(h, f), Awaits(f, child), child.pos = 1,
         f.list = fs[Len(fs)].list, f.modes = fs[Len(fs)].modes
  PROVE  StackDone(h, Append([fs EXCEPT ![Len(fs)] = f], child))
<1> DEFINE n == Len(fs)
           gs == Append([fs EXCEPT ![n] = f], child)
<1>1. n \in Nat \ {0} /\ Len(gs) = n + 1 /\ gs[n] = f /\ gs[n + 1] = child
      /\ (\A k \in 1..(n - 1) : gs[k] = fs[k])
  OBVIOUS
<1> HIDE DEF n, gs
<1>2. ~Active(child) /\ child.pc # "included" /\ Active(f) BY DEF Awaits, Active
<1>3. \A k \in 1..(n + 1) : Active(gs[k]) => FrameDone(h, gs[k])
  <2> SUFFICES ASSUME NEW k \in 1..(n + 1), Active(gs[k]) PROVE FrameDone(h, gs[k]) OBVIOUS
  <2>1. CASE k = n BY <1>1, <2>1
  <2>2. CASE k \in 1..(n - 1) BY <1>1, <2>2 DEF StackDone, n
  <2> QED BY <1>1, <1>2, <2>1, <2>2
<1>4. \A k \in 1..n : Passed(h, gs[k]) \/ (k = n /\ Awaits(gs[k], gs[n + 1]))
  <2> SUFFICES ASSUME NEW k \in 1..n, k # n PROVE Passed(h, gs[k]) BY <1>1
  <2>1. k \in 1..(n - 1) BY <1>1
  <2> QED BY <1>1, <2>1 DEF StackDone, Awaits, Active, n
<1>5. \A x \in h.started :
        \/ ListDone(h, x[1], x[2])
        \/ \E k \in 1..(n + 1) : Active(gs[k]) /\ x = <<gs[k].list, gs[k].modes>>
  <2> SUFFICES ASSUME NEW x \in h.started, ~ListDone(h, x[1], x[2])
               PROVE  \E k \in 1..(n + 1) : Active(gs[k]) /\ x = <<gs[k].list, gs[k].modes>>
    OBVIOUS
  <2>1. PICK k \in 1..n : Active(fs[k]) /\ x = <<fs[k].list, fs[k].modes>>
    BY DEF StackDone, n
  <2>2. CASE k = n BY <1>1, <1>2, <2>1, <2>2 DEF n
  <2>3. CASE k \in 1..(n - 1) BY <1>1, <2>1, <2>3
  <2> QED BY <1>1, <2>2, <2>3
<1> QED BY <1>1, <1>2, <1>3, <1>4, <1>5 DEF StackDone, gs

-----------------------------------------------------------------------------
LEMMA HistType == TypeOK => Hist \in History
  BY DEF TypeOK, Hist, History

LEMMA NestedLen == ASSUME TypeOK, ~IsRoot PROVE Len(frames) > 1
<1>1. Len(frames) \in Nat /\ Len(frames) > 0 BY DEF TypeOK
<1>2. \A k \in Nat : k > 0 /\ k # 1 => k > 1 OBVIOUS
<1> QED BY <1>1, <1>2, Zenon DEF IsRoot

(* One more line read, all the lines before it done.                       *)
LEMMA BehindNext ==
  ASSUME NEW h \in History, NEW e \in Frame, NEW f \in Frame, Behind(h, e), Passed(h, e),
         f.pos = e.pos + 1, f.list = e.list, f.modes = e.modes
  PROVE  Behind(h, f)
<1>1. e.pos \in Nat /\ f.pos - 1 = e.pos BY DEF Frame
<1>2. \A i \in Nat : i < e.pos => i < e.pos - 1 \/ i = e.pos - 1 BY <1>1
<1>3. \A i \in DOMAIN Content[e.list] : i \in Nat BY RunnerAssumption DEF Frame
<1> QED BY <1>1, <1>2, <1>3 DEF Behind, Passed

(* A step of the top invocation within its list.                           *)
LEMMA LocalCover ==
  ASSUME Inv, CoverInv, ~intr, Active(Top), NEW f \in Frame, Active(f),
         f.list = Top.list, f.modes = Top.modes, f.pc # "included",
         StackDone(Hist, frames) => FrameDone(Hist, f), frames' = SetTop(f),
         UNCHANGED <<tally, ran, started, refused>>
  PROVE  CoverInv'
<1> SUFFICES ASSUME tally["KILLED"] = 0 PROVE StackDone(Hist', frames')
  BY DEF CoverInv
<1>1. Hist' = Hist /\ Hist \in History BY HistType DEF Hist, Inv
<1>2. StackDone(Hist, frames) BY DEF CoverInv
<1>3. /\ frames \in Seq(Frame) /\ Len(frames) > 0
      /\ \A k \in 1..(Len(frames) - 1) : frames[k].pc = "included"
  BY DEF Inv, TypeOK, StackInv
<1>4. ~Awaits(frames[Len(frames) - 1], frames[Len(frames)]) BY DEF Active, Awaits, Top
<1>5. f.pc # "start" BY DEF Active
<1> QED BY <1>1, <1>2, <1>3, <1>4, <1>5, GrowsRefl, SetTopDone DEF SetTop, Top

LEMMA TopDone ==
  ASSUME Inv, StackDone(Hist, frames), Active(Top)
  PROVE  /\ FrameDone(Hist, Top) /\ Behind(Hist, Top)
         /\ Top.pc = "included" => Passed(Hist, Top)
<1>1. Len(frames) \in 1..Len(frames) BY DEF Inv, TypeOK
<1> QED BY <1>1 DEF StackDone, FrameDone, Top

LEMMA LocalActionsCover ==
  ASSUME Inv, CoverInv, SkipLine \/ TestLine \/ Launch \/ AllModesDone \/ EndOfList \/ Included
  PROVE  CoverInv'
<1>0. Top \in Frame /\ Hist \in History BY TopType, HistType DEF Inv
<1>a. Top.pos \in Nat \ {0} /\ Top.modes \subseteq Modes /\ Top.todo \subseteq Modes
  BY <1>0 DEF Frame
<1>b. DOMAIN Content[Top.list] = 1..Len(Content[Top.list]) /\ Len(Content[Top.list]) \in Nat
  BY <1>0, RunnerAssumption DEF Frame
<1>1. CASE SkipLine
  <2>1. Top.pc = "read" /\ ~intr /\ CurrentLine.kind \in {"blank", "missing"}
        /\ frames' = SetTop(NextLine(Top))
    BY <1>1 DEF SkipLine, AtLine, At
  <2> DEFINE f == NextLine(Top)
  <2>2. f \in Frame /\ f.pos = Top.pos + 1 /\ f.pc = "read"
        /\ f.list = Top.list /\ f.modes = Top.modes
    BY <1>0, <2>1 DEF NextLine, Frame
  <2>3. ASSUME StackDone(Hist, frames) PROVE FrameDone(Hist, f)
    <3>1. Behind(Hist, Top) /\ Passed(Hist, Top)
      BY <2>1, <2>3, TopDone DEF FrameDone, Active
    <3>2. Behind(Hist, f) BY <1>0, <2>2, <3>1, BehindNext
    <3>3. f.pos - 1 = Top.pos BY <1>a, <2>2
    <3>4. Passed(Hist, f) BY <2>1, <2>2, <3>3 DEF Passed, LineDone, CurrentLine
    <3> QED BY <2>2, <3>2, <3>4 DEF FrameDone
  <2> HIDE DEF f
  <2> QED BY <1>1, <2>1, <2>2, <2>3, LocalCover DEF SkipLine, Active, f
<1>2. CASE TestLine
  <2> DEFINE f == [NextLine(Top) EXCEPT !.todo = Top.modes, !.pc = "test"]
  <2>1. Top.pc = "read" /\ ~intr /\ CurrentLine.kind = "test" /\ frames' = SetTop(f)
    BY <1>2 DEF TestLine, AtLine, At
  <2>2. f \in Frame /\ f.pos = Top.pos + 1 /\ f.pc = "test" /\ f.todo = f.modes
        /\ f.list = Top.list /\ f.modes = Top.modes
    <3> DEFINE e == NextLine(Top)
    <3>1. e \in Frame /\ e.pos = Top.pos + 1 /\ e.list = Top.list /\ e.modes = Top.modes
      BY <1>0 DEF NextLine, Frame
    <3> HIDE DEF e
    <3>2. f = [e EXCEPT !.todo = Top.modes, !.pc = "test"] BY DEF e
    <3> QED BY <1>a, <3>1, <3>2 DEF Frame, PC
  <2> HIDE DEF f
  <2>3. ASSUME StackDone(Hist, frames) PROVE FrameDone(Hist, f)
    <3>1. Behind(Hist, Top) /\ Passed(Hist, Top)
      BY <2>1, <2>3, TopDone DEF FrameDone, Active
    <3>2. Behind(Hist, f) BY <1>0, <2>2, <3>1, BehindNext
    <3>3. f.pos - 1 = Top.pos BY <1>a, <2>2
    <3> QED BY <2>1, <2>2, <3>2, <3>3 DEF FrameDone, CurrentLine
  <2> QED BY <1>2, <2>1, <2>2, <2>3, LocalCover DEF TestLine, Active
<1>3. CASE Launch
  <2> DEFINE f == [Top EXCEPT !.pc = "running"]
  <2>1. Top.pc = "test" /\ ~intr /\ frames' = SetTop(f) BY <1>3 DEF Launch, At
  <2>2. f \in Frame /\ f.pc = "running" /\ f.pos = Top.pos /\ f.todo = Top.todo
        /\ f.list = Top.list /\ f.modes = Top.modes
    BY <1>0 DEF Frame, PC
  <2> HIDE DEF f
  <2>3. ASSUME StackDone(Hist, frames) PROVE FrameDone(Hist, f)
    BY <2>1, <2>2, <2>3, TopDone DEF FrameDone, Behind, Active
  <2> QED BY <1>3, <2>1, <2>2, <2>3, LocalCover DEF Launch, Active
<1>4. CASE AllModesDone
  <2> DEFINE f == [Top EXCEPT !.pc = "read"]
  <2>1. Top.pc = "test" /\ ~intr /\ Top.todo = {} /\ frames' = SetTop(f)
    BY <1>4 DEF AllModesDone, At
  <2>2. f \in Frame /\ f.pc = "read" /\ f.pos = Top.pos
        /\ f.list = Top.list /\ f.modes = Top.modes
    BY <1>0 DEF Frame, PC
  <2> HIDE DEF f
  <2>3. ASSUME StackDone(Hist, frames) PROVE FrameDone(Hist, f)
    <3>1. FrameDone(Hist, Top) BY <2>1, <2>3, TopDone DEF Active
    <3>2. Behind(Hist, f) BY <2>2, <3>1 DEF FrameDone, Behind
    <3>3. Passed(Hist, f) BY <2>1, <2>2, <3>1 DEF FrameDone, Passed, LineDone
    <3> QED BY <2>2, <3>2, <3>3 DEF FrameDone
  <2> QED BY <1>4, <2>1, <2>2, <2>3, LocalCover DEF AllModesDone, Active
<1>5. CASE EndOfList
  <2> DEFINE f == [Top EXCEPT !.pc = "finish"]
  <2>1. Top.pc = "read" /\ ~intr /\ Top.pos > Len(Content[Top.list]) /\ frames' = SetTop(f)
    BY <1>5 DEF EndOfList, At
  <2>2. f \in Frame /\ f.pc = "finish" /\ f.pos = Top.pos
        /\ f.list = Top.list /\ f.modes = Top.modes
    BY <1>0 DEF Frame, PC
  <2> HIDE DEF f
  <2>3. ASSUME StackDone(Hist, frames) PROVE FrameDone(Hist, f)
    BY <2>1, <2>2, <2>3, TopDone DEF FrameDone, Behind, Passed, Active
  <2> QED BY <1>5, <2>1, <2>2, <2>3, LocalCover DEF EndOfList, Active
<1>6. CASE Included
  <2> DEFINE f == [Top EXCEPT !.n = sumFile, !.pc = "read"]
  <2>1. Top.pc = "included" /\ ~intr /\ frames' = SetTop(f) BY <1>6 DEF Included, At
  <2>2. f \in Frame /\ f.pc = "read" /\ f.pos = Top.pos
        /\ f.list = Top.list /\ f.modes = Top.modes
    BY <1>0 DEF Frame, PC, Inv, TypeOK
  <2> HIDE DEF f
  <2>3. ASSUME StackDone(Hist, frames) PROVE FrameDone(Hist, f)
    BY <2>1, <2>2, <2>3, TopDone DEF FrameDone, Behind, Passed, Active
  <2> QED BY <1>6, <2>1, <2>2, <2>3, LocalCover DEF Included, Active
<1> QED BY <1>1, <1>2, <1>3, <1>4, <1>5, <1>6

(* %include: the parent awaits the list it names.                          *)
LEMMA IncludeCover == ASSUME Inv, CoverInv, Include PROVE CoverInv'
<1> SUFFICES ASSUME tally["KILLED"] = 0 PROVE StackDone(Hist', frames')
  BY DEF CoverInv, Include
<1> DEFINE f == [NextLine(Top) EXCEPT !.pc = "included"]
           child == Invocation(CurrentLine.list, Top.modes)
<1>0. Top \in Frame /\ Hist' = Hist /\ Hist \in History
  BY TopType, HistType DEF Inv, Include, Hist
<1>1. Top.pc = "read" /\ ~intr /\ CurrentLine.kind = "include" /\ frames' = Append(SetTop(f), child)
  BY DEF Include, AtLine, At
<1>2. f \in Frame /\ f.pos = Top.pos + 1 /\ f.pc = "included"
      /\ f.list = Top.list /\ f.modes = Top.modes
  <2> DEFINE e == NextLine(Top)
  <2>1. e \in Frame /\ e.pos = Top.pos + 1 /\ e.list = Top.list /\ e.modes = Top.modes
    BY <1>0 DEF NextLine, Frame
  <2> HIDE DEF e
  <2>2. f = [e EXCEPT !.pc = "included"] BY DEF e
  <2> QED BY <2>1, <2>2 DEF Frame, PC
<1>3. child \in Frame /\ child.pc = "start" /\ child.list = CurrentLine.list
      /\ child.modes = Top.modes /\ child.pos = 1
  <2>1. Content[Top.list] \in Seq(Line) /\ Top.pos \in Nat \ {0} /\ Top.modes \in SUBSET Modes
    BY <1>0, RunnerAssumption DEF Frame
  <2>2. Top.pos \in 1..Len(Content[Top.list]) BY <2>1 DEF Include, AtLine
  <2>3. CurrentLine \in Line BY <2>1, <2>2 DEF CurrentLine
  <2>4. CurrentLine.list \in Lists BY <2>3 DEF Line
  <2> QED BY <2>1, <2>4, ZeroType DEF Frame, PC, Invocation
<1> HIDE DEF f, child
<1>4. StackDone(Hist, frames) BY <1>1 DEF CoverInv
<1>5. f.pos - 1 = Top.pos BY <1>0, <1>2 DEF Frame
<1>6. FrameDone(Hist, f)
  <2>1. Behind(Hist, Top) /\ Passed(Hist, Top)
    BY <1>1, <1>4, TopDone DEF FrameDone, Active
  <2> QED BY <1>0, <1>2, <2>1, BehindNext DEF FrameDone
<1>7. Awaits(f, child) BY <1>1, <1>2, <1>3, <1>5 DEF Awaits, CurrentLine
<1>8. frames \in Seq(Frame) /\ Len(frames) > 0 /\ Active(Top) BY <1>1 DEF Inv, TypeOK, Active
<1> QED BY <1>0, <1>1, <1>2, <1>3, <1>4, <1>6, <1>7, <1>8, PushDone DEF SetTop, Top

(* A test has ended in one more mode.                                      *)
LEMMA ResultCover ==
  ASSUME Inv, CoverInv, TypeOK', NEW m \in Modes, NEW code \in Statuses, Result(m, code)
  PROVE  CoverInv'
<1> DEFINE s == StatusOf(code)
           f == [Top EXCEPT !.n = Count(@, s), !.todo = @ \ {m},
                            !.pc = IF s = "KILLED" THEN "finish" ELSE "test"]
<1> SUFFICES ASSUME tally'["KILLED"] = 0 PROVE StackDone(Hist', frames')
  BY DEF CoverInv
<1>0. Top \in Frame /\ Hist \in History BY TopType, HistType DEF Inv
<1>1. s \in Status BY StatusType
<1> HIDE DEF s
<1>2. Top.pc = "running" /\ ~intr /\ m \in Top.todo /\ frames' = SetTop(f)
      /\ tally' = Count(tally, s) /\ ran' = ran \cup {<<Top.list, Top.pos - 1, m>>}
      /\ started' = started /\ refused' = refused
  BY DEF Result, At, IsNextMode, s
<1>3. s # "KILLED" /\ tally["KILLED"] = 0
  <2>1. tally \in [Status -> Nat] /\ "KILLED" \in Status BY DEF Inv, TypeOK, Counters, Status
  <2>2. tally' = [tally EXCEPT ![s] = @ + 1] BY <1>2 DEF Count
  <2> QED BY <1>1, <2>1, <2>2
<1>4. f \in Frame /\ f.pc = "test" /\ f.pos = Top.pos /\ f.todo = Top.todo \ {m}
      /\ f.list = Top.list /\ f.modes = Top.modes
  BY <1>0, <1>1, <1>3, CountType DEF Frame, PC
<1> HIDE DEF f
<1>5. Hist' \in History /\ Grows(Hist, Hist') /\ Hist'.started = Hist.started
      /\ <<Top.list, Top.pos - 1, m>> \in Hist'.ran
  BY <1>2 DEF TypeOK, Hist, History, Grows
<1>6. StackDone(Hist, frames) BY <1>2, <1>3 DEF CoverInv
<1>7. FrameDone(Hist', f)
  <2>1. FrameDone(Hist, Top) BY <1>2, <1>6, TopDone DEF Active
  <2>2. FrameDone(Hist', Top) BY <1>0, <1>5, <2>1, FrameStays
  <2> QED BY <1>2, <1>4, <1>5, <2>2 DEF FrameDone, Behind
<1>8. /\ frames \in Seq(Frame) /\ Len(frames) > 0
      /\ \A k \in 1..(Len(frames) - 1) : frames[k].pc = "included"
  BY DEF Inv, TypeOK, StackInv
<1>9. Active(f) /\ f.pc \notin {"included", "start"} BY <1>4 DEF Active
<1>10. ~Awaits(frames[Len(frames) - 1], frames[Len(frames)]) BY <1>2 DEF Awaits, Top
<1> QED BY <1>0, <1>2, <1>4, <1>5, <1>6, <1>7, <1>8, <1>9, <1>10, SetTopDone DEF SetTop, Top

(* The list an awaited invocation is for.                                  *)
LEMMA AwaitedDone ==
  ASSUME NEW h, NEW f \in Frame, NEW child \in Frame, Awaits(f, child),
         child.list \in h.refused \/ \E ns \in SUBSET child.modes : <<child.list, ns>> \in h.started
  PROVE  Passed(h, f)
  BY DEF Awaits, Passed, LineDone

(* The start of an invocation with a mode to test.                         *)
LEMMA StartCover ==
  ASSUME Inv, CoverInv, TypeOK', NEW ms \in SUBSET Modes, Start(ms), ms # {}
  PROVE  CoverInv'
<1> DEFINE f == [Top EXCEPT !.modes = ms, !.pc = "read", !.n = StartCounters]
<1> SUFFICES ASSUME tally["KILLED"] = 0 PROVE StackDone(Hist', frames')
  BY DEF CoverInv, Start
<1>0. Top \in Frame /\ Hist \in History BY TopType, HistType DEF Inv
<1>1. Top.pc = "start" /\ ~intr /\ frames' = SetTop(f) /\ ms \subseteq Top.modes
      /\ ran' = ran /\ refused' = refused
      /\ started' = started \cup {<<Top.list, ms>>}
  BY DEF Start, At
<1>2. f.pos = Top.pos /\ f.list = Top.list /\ f.modes = ms /\ f.pc = "read" /\ f \in Frame
  <2>1. StartCounters \in Counters BY ZeroType DEF Inv, TypeOK, StartCounters
  <2> QED BY <1>0, <2>1 DEF Frame, PC
<1> HIDE DEF f
<1>3. /\ Hist' \in History /\ Grows(Hist, Hist')
      /\ Hist'.started = Hist.started \cup {<<f.list, f.modes>>}
  BY <1>1, <1>2 DEF TypeOK, Hist, History, Grows
<1>4. StackDone(Hist, frames) BY <1>1 DEF CoverInv
<1>5. FrameDone(Hist', f)
  <2>1. f.pos = 1 BY <1>1, <1>2, <1>4 DEF StackDone, Top
  <2>2. \A i \in DOMAIN Content[f.list] : i \in Nat /\ i >= 1
    BY <1>2, RunnerAssumption DEF Frame
  <2> QED BY <1>2, <2>1, <2>2 DEF FrameDone, Behind, Passed
<1>6. /\ frames \in Seq(Frame) /\ Len(frames) > 0
      /\ \A k \in 1..(Len(frames) - 1) : frames[k].pc = "included"
  BY DEF Inv, TypeOK, StackInv
<1>7. ASSUME Len(frames) > 1, Awaits(frames[Len(frames) - 1], frames[Len(frames)])
      PROVE  Passed(Hist', frames[Len(frames) - 1])
  <2>1. frames[Len(frames) - 1] \in Frame BY <1>6, <1>7
  <2>2. <<Top.list, ms>> \in Hist'.started BY <1>2, <1>3
  <2> QED BY <1>0, <1>1, <1>7, <2>1, <2>2, AwaitedDone DEF Top
<1>8. Active(f) /\ ~Active(Top) /\ f.pc \notin {"included", "start"} BY <1>1, <1>2 DEF Active
<1> QED BY <1>0, <1>1, <1>2, <1>3, <1>4, <1>5, <1>6, <1>7, <1>8, SetTopDone DEF SetTop, Top

(* An invocation leaves without a mode to test: its list is refused.       *)
LEMMA RefusedCover ==
  ASSUME Inv, CoverInv, TypeOK', Top.pc = "start", ~intr, NEW code \in Int, Leave(code),
         refused' = refused \cup {Top.list}, UNCHANGED <<tally, ran, started>>
  PROVE  CoverInv'
<1> SUFFICES ASSUME tally["KILLED"] = 0 PROVE StackDone(Hist', frames')
  BY DEF CoverInv
<1>0. Top \in Frame /\ Hist \in History BY TopType, HistType DEF Inv
<1>1. Hist' \in History /\ Grows(Hist, Hist') /\ Hist'.started = Hist.started
      /\ Top.list \in Hist'.refused
  BY DEF TypeOK, Hist, History, Grows
<1>2. StackDone(Hist, frames) BY DEF CoverInv
<1>3. /\ frames \in Seq(Frame) /\ Len(frames) > 0
      /\ \A k \in 1..(Len(frames) - 1) : frames[k].pc = "included"
  BY DEF Inv, TypeOK, StackInv
<1>4. ~Active(Top) BY DEF Active
<1>5. CASE IsRoot
  <2> DEFINE f == [Top EXCEPT !.pc = "exited"]
  <2>1. f \in Frame /\ f.pc = "exited" BY <1>0 DEF Frame, PC
  <2>2. frames' = SetTop(f) BY <1>5 DEF Leave
  <2> HIDE DEF f
  <2>3. ~(Len(frames) > 1) /\ ~Active(f) BY <1>5, <2>1 DEF IsRoot, Active
  <2> QED BY <1>0, <1>1, <1>2, <1>3, <1>4, <2>1, <2>2, <2>3, SetTopDone DEF SetTop, Top
<1>6. CASE ~IsRoot
  <2>1. Len(frames) > 1 BY <1>6, NestedLen DEF Inv
  <2>2. frames[Len(frames) - 1] \in Frame BY <1>3, <2>1
  <2>3. Awaits(frames[Len(frames) - 1], Top) => Passed(Hist', frames[Len(frames) - 1])
    BY <1>0, <1>1, <2>2, AwaitedDone
  <2>4. frames' = SubSeq(frames, 1, Len(frames) - 1) BY <1>6 DEF Leave, Pop
  <2> QED BY <1>0, <1>1, <1>2, <1>3, <1>4, <2>1, <2>3, <2>4, PopDone DEF Top
<1> QED BY <1>5, <1>6

(* The end of an invocation that has read its whole list.                  *)
LEMMA FinishCover == ASSUME Inv, CoverInv, Finish PROVE CoverInv'
<1> SUFFICES ASSUME tally["KILLED"] = 0 PROVE StackDone(Hist', frames')
  BY DEF CoverInv, Finish
<1>0. Top \in Frame /\ Hist \in History /\ Hist' = Hist
  BY TopType, HistType DEF Inv, Finish, Hist
<1>1. Top.pc = "finish" /\ ~intr /\ Leave(Verdict(Top.n, Threshold)) BY DEF Finish, At
<1>2. StackDone(Hist, frames) BY <1>1 DEF CoverInv
<1>3. /\ frames \in Seq(Frame) /\ Len(frames) > 0
      /\ \A k \in 1..(Len(frames) - 1) : frames[k].pc = "included"
  BY DEF Inv, TypeOK, StackInv
<1>4. ListDone(Hist, Top.list, Top.modes)
  <2>1. FrameDone(Hist, Top) BY <1>1, <1>2, TopDone DEF Active
  <2>2. Behind(Hist, Top) /\ Passed(Hist, Top) /\ Top.pos > Len(Content[Top.list])
    BY <1>1, <2>1 DEF FrameDone
  <2>3. DOMAIN Content[Top.list] = 1..Len(Content[Top.list]) /\ Len(Content[Top.list]) \in Nat
        /\ Top.pos \in Nat
    BY <1>0, RunnerAssumption DEF Frame
  <2>4. \A i \in DOMAIN Content[Top.list] : i < Top.pos - 1 \/ i = Top.pos - 1
    BY <2>2, <2>3
  <2> QED BY <2>2, <2>4 DEF ListDone, Behind, Passed
<1>5. ~Awaits(frames[Len(frames) - 1], frames[Len(frames)]) BY <1>1 DEF Awaits, Top
<1>6. CASE IsRoot
  <2> DEFINE f == [Top EXCEPT !.pc = "exited"]
  <2>1. f \in Frame /\ f.pc = "exited" BY <1>0 DEF Frame, PC
  <2>2. frames' = SetTop(f) BY <1>1, <1>6 DEF Leave
  <2> HIDE DEF f
  <2>3. ~Active(f) BY <2>1 DEF Active
  <2> QED BY <1>0, <1>2, <1>3, <1>4, <1>5, <2>1, <2>2, <2>3, GrowsRefl, SetTopDone
          DEF SetTop, Top
<1>7. CASE ~IsRoot
  <2>1. Len(frames) > 1 BY <1>7, NestedLen DEF Inv
  <2>2. frames' = SubSeq(frames, 1, Len(frames) - 1) BY <1>1, <1>7 DEF Leave, Pop
  <2> QED BY <1>0, <1>2, <1>3, <1>4, <1>5, <2>1, <2>2, GrowsRefl, PopDone DEF Top
<1> QED BY <1>6, <1>7

-----------------------------------------------------------------------------
LEMMA InitCover == Init => CoverInv
<1> SUFFICES ASSUME Init PROVE StackDone(Hist, frames)
  BY DEF CoverInv
<1> DEFINE f == Invocation(Root, Modes)
<1>1. f.pc = "start" /\ f.pos = 1 BY DEF Invocation
<1> HIDE DEF f
<1>2. Len(frames) = 1 /\ frames[1] = f BY DEF Init, f
<1>3. Hist.started = {} BY DEF Init, Hist
<1> QED BY <1>1, <1>2, <1>3 DEF StackDone, Active

LEMMA NextCover == Inv /\ Inv' /\ CoverInv /\ [Next]_vars => CoverInv'
<1> SUFFICES ASSUME Inv, Inv', CoverInv, [Next]_vars PROVE CoverInv'
  OBVIOUS
<1>0. TypeOK' BY DEF Inv
<1>1. CASE UNCHANGED vars BY <1>1 DEF vars, CoverInv, Hist
<1>2. CASE Usage BY <1>0, <1>2, RefusedCover DEF Usage, At
<1>3. CASE \E ms \in SUBSET Modes : Start(ms)
  <2>1. PICK ms \in SUBSET Modes : Start(ms) BY <1>3
  <2>2. CASE ms = {} BY <1>0, <2>1, <2>2, RefusedCover DEF Start, At
  <2>3. CASE ms # {} BY <1>0, <2>1, <2>3, StartCover
  <2> QED BY <2>2, <2>3
<1>4. CASE SkipLine \/ TestLine \/ Launch \/ AllModesDone \/ EndOfList \/ Included
  BY <1>4, LocalActionsCover
<1>5. CASE Include BY <1>5, IncludeCover
<1>6. CASE \E m \in Modes, code \in Statuses : Result(m, code) BY <1>0, <1>6, ResultCover
<1>7. CASE Finish BY <1>7, FinishCover
<1>8. CASE Interrupt \/ Cleanup BY <1>8 DEF Interrupt, Cleanup, CoverInv
<1>9. CASE Terminated BY <1>1, <1>9 DEF Terminated
<1> QED BY <1>1, <1>2, <1>3, <1>4, <1>5, <1>6, <1>7, <1>8, <1>9 DEF Next, Step

(* The root has exited: no invocation is left to finish a started list.    *)
LEMMA CoverComplete == Inv /\ CoverInv => Complete
<1> SUFFICES ASSUME Inv, CoverInv, exit # Running, ~intr, tally["KILLED"] = 0,
                    NEW l \in Lists, NEW ms \in SUBSET Modes, <<l, ms>> \in started,
                    NEW i \in DOMAIN Content[l]
             PROVE  LineDone(Hist, l, i, ms)
  BY DEF Complete, LineDone, Hist
<1>1. Len(frames) = 1 /\ ~Active(frames[1]) BY DEF Inv, StackInv, IsRoot, Top, Active
<1>2. StackDone(Hist, frames) BY DEF CoverInv
<1>3. <<l, ms>> \in Hist.started BY DEF Hist
<1>4. ListDone(Hist, l, ms) BY <1>1, <1>2, <1>3 DEF StackDone
<1> QED BY <1>4 DEF ListDone

(* A verdict without a KILLED result is about everything: each test line   *)
(* of each started list was run in each mode, and each included list was   *)
(* started or refused, at any depth of %include.                           *)
THEOREM NothingPassedOver == Spec => []Complete
<1> QED BY InitInv, NextInv, InitCover, NextCover, CoverComplete, PTL DEF Spec

=============================================================================

------------------------------ MODULE TestRunner -----------------------------
(***************************************************************************)
(* test.sh: the test runner.  An invocation walks one list file; a         *)
(* %include line runs the script again on another list and hands the       *)
(* counters over through the file sum_file, which the child sources when   *)
(* it starts and rewrites when it ends, and which the parent sources when  *)
(* the child is gone.  The nest of invocations is a stack: only its top    *)
(* runs, the others wait in their foreground command.                      *)
(***************************************************************************)
EXTENDS ExitCodes, Sequences

CONSTANTS Lists,        (* the list files                                  *)
          Root,         (* the one the user names                          *)
          Content,      (* the lines of each list                          *)
          Modes,        (* the requested PiP modes, by rank in L G C T     *)
          ThreadMode,   (* the rank of T, the mode that needs no clone()   *)
          Statuses,     (* the exit statuses a test command may return     *)
          Threshold     (* PIP_TEST_THRESHOLD, 0 when it is not set        *)

(* blank: an empty line or a comment; missing: %include of no file.        *)
Line == [kind : {"blank", "missing", "include", "test"}, list : Lists]

ASSUME RunnerAssumption ==
  /\ Root \in Lists
  /\ Content \in [Lists -> Seq(Line)]
  /\ Modes \subseteq Nat
  /\ Statuses \subseteq ExitStatus
  /\ Threshold \in Nat

VARIABLES frames,       (* the nest of test.sh invocations, root first     *)
          exit,         (* the exit status of the root, or Running         *)
          sumFile,      (* the counters written in sum_file                *)
          sumExists,    (* whether sum_file is there                       *)
          xml,          (* the testcases in test.log.xml, by their element *)
          intr,         (* Control-C was pressed                           *)
          tally,        (* history: the results of all finished tests      *)
          ran,          (* history: <<list, line, mode>> of finished tests *)
          started,      (* history: <<list, modes>> of invocations that    *)
                        (* had a mode to test                              *)
          refused       (* history: lists whose invocation had none        *)

vars == <<frames, exit, sumFile, sumExists, xml, intr,
          tally, ran, started, refused>>

PC == {"start", "read", "included", "test", "running", "finish", "exited"}

(* One invocation: its list, the number of the next line, its modes, the   *)
(* modes the current test has still to run in, and its counters.           *)
Frame == [list : Lists, pos : Nat \ {0}, modes : SUBSET Modes,
          todo : SUBSET Modes, pc : PC, n : Counters]

Invocation(l, ms) ==
  [list |-> l, pos |-> 1, modes |-> ms, todo |-> {}, pc |-> "start", n |-> Zero]

(* The element test.sh puts into a testcase of the XML log.                *)
XmlKind == {"passed", "failure", "skipped", "error"}
XmlOf(s) ==
  CASE s \in {"PASS", "XPASS"}                    -> "passed"
    [] s = "FAIL"                                 -> "failure"
    [] s \in {"XFAIL", "UNTESTED", "UNSUPPORTED"} -> "skipped"
    [] OTHER                                      -> "error"

Top == frames[Len(frames)]
SetTop(f) == [frames EXCEPT ![Len(frames)] = f]
Pop == SubSeq(frames, 1, Len(frames) - 1)
IsRoot == Len(frames) = 1

(* The top invocation is about to execute this part of the script. Once    *)
(* Control-C is pending bash runs the trap instead, as soon as the         *)
(* foreground command is over.                                             *)
At(pc) == Top.pc = pc /\ ~intr

CurrentLine == Content[Top.list][Top.pos]
AtLine(kind) ==
  /\ At("read")
  /\ Top.pos <= Len(Content[Top.list])
  /\ CurrentLine.kind = kind

NextLine(f) == [f EXCEPT !.pos = @ + 1]

(* `for pip_mode in ...' takes the modes in the order L G C T.             *)
IsNextMode(m) == m \in Top.todo /\ \A k \in Top.todo : m <= k

Init ==
  /\ frames = <<Invocation(Root, Modes)>>
  /\ exit = Running
  /\ sumFile = Zero /\ sumExists = FALSE
  /\ xml \in {[k \in XmlKind |-> c] : c \in 0..1}     (* of an earlier run *)
  /\ intr = FALSE
  /\ tally = Zero /\ ran = {} /\ started = {} /\ refused = {}

-----------------------------------------------------------------------------
(* The counters an invocation starts from: the root clears them            *)
(* (reset_summary), a child sources sum_file.                              *)
ResetInChild == Zero                                            (* mutant *)
StartCounters == IF IsRoot THEN Zero ELSE sumFile

(* The root begins a new XML log, the children append to it.               *)
XmlTruncatedByChild == [k \in XmlKind |-> 0]                     (* mutant *)
StartXml == IF IsRoot THEN [k \in XmlKind |-> 0] ELSE xml

(* An invocation exits; nothing reads the exit status of a child.          *)
Leave(code) ==
  /\ frames' = IF IsRoot THEN SetTop([Top EXCEPT !.pc = "exited"]) ELSE Pop
  /\ exit' = IF IsRoot THEN code ELSE exit

(* clone_check fails and T was not asked for: the mode list is empty and   *)
(* print_usage exits before the counters are touched.                      *)
Usage ==
  /\ At("start")
  /\ ThreadMode \notin Top.modes
  /\ Leave(2)
  /\ refused' = refused \cup {Top.list}
  /\ UNCHANGED <<sumFile, sumExists, xml, intr, tally, ran, started>>

(* pip_mode_check finds the modes ms usable. The root has written a zeroed *)
(* sum_file and begins the XML log; with no usable mode the script exits.  *)
Start(ms) ==
  /\ At("start")
  /\ ms \subseteq Top.modes
  /\ sumFile' = StartCounters
  /\ sumExists' = (IsRoot \/ sumExists)
  /\ \/ /\ ms = {}
        /\ Leave(1)
        /\ refused' = refused \cup {Top.list}
        /\ UNCHANGED <<xml, started>>
     \/ /\ ms # {}
        /\ frames' = SetTop([Top EXCEPT !.modes = ms, !.pc = "read",
                                        !.n = StartCounters])
        /\ xml' = StartXml
        /\ started' = started \cup {<<Top.list, ms>>}
        /\ UNCHANGED <<exit, refused>>
  /\ UNCHANGED <<intr, tally, ran>>

(* Empty lines, comments, and an %include of a file that is not there.     *)
SkipStuck ==                                                    (* mutant *)
  /\ AtLine("blank") \/ AtLine("missing")
  /\ frames' = SetTop(Top)
  /\ UNCHANGED <<exit, sumFile, sumExists, xml, intr, tally, ran, started, refused>>

SkipLine ==
  /\ AtLine("blank") \/ AtLine("missing")
  /\ frames' = SetTop(NextLine(Top))
  /\ UNCHANGED <<exit, sumFile, sumExists, xml, intr, tally, ran, started, refused>>

(* %include: save the counters and run the script on the included list.    *)
Include ==
  /\ AtLine("include")
  /\ sumFile' = Top.n /\ sumExists' = TRUE
  /\ frames' = Append(SetTop([NextLine(Top) EXCEPT !.pc = "included"]),
                      Invocation(CurrentLine.list, Top.modes))
  /\ UNCHANGED <<exit, xml, intr, tally, ran, started, refused>>

(* The child has exited: `. $sum_file', whatever the child's exit status.  *)
IncludedNotSourced ==                                           (* mutant *)
  /\ At("included")
  /\ frames' = SetTop([Top EXCEPT !.pc = "read"])
  /\ UNCHANGED <<exit, sumFile, sumExists, xml, intr, tally, ran, started, refused>>

IncludedEatsLine ==                                             (* mutant *)
  /\ At("included")
  /\ frames' = SetTop([NextLine(Top) EXCEPT !.n = sumFile, !.pc = "read"])
  /\ UNCHANGED <<exit, sumFile, sumExists, xml, intr, tally, ran, started, refused>>

Included ==
  /\ At("included")
  /\ frames' = SetTop([Top EXCEPT !.n = sumFile, !.pc = "read"])
  /\ UNCHANGED <<exit, sumFile, sumExists, xml, intr, tally, ran, started, refused>>

(* A test line: it is run once in each of the modes.                       *)
TestLine ==
  /\ AtLine("test")
  /\ frames' = SetTop([NextLine(Top) EXCEPT !.todo = Top.modes, !.pc = "test"])
  /\ UNCHANGED <<exit, sumFile, sumExists, xml, intr, tally, ran, started, refused>>

Launch ==
  /\ At("test")
  /\ Top.todo # {}
  /\ frames' = SetTop([Top EXCEPT !.pc = "running"])
  /\ UNCHANGED <<exit, sumFile, sumExists, xml, intr, tally, ran, started, refused>>

AllModesDone ==
  /\ At("test")
  /\ Top.todo = {}
  /\ frames' = SetTop([Top EXCEPT !.pc = "read"])
  /\ UNCHANGED <<exit, sumFile, sumExists, xml, intr, tally, ran, started, refused>>

(* The test command exits: count it, log it, and stop reading the list     *)
(* (`break 2') when the status is KILLED.                                  *)
Result(m, code) ==
  LET s == StatusOf(code) IN
  /\ At("running")
  /\ IsNextMode(m)
  /\ frames' = SetTop([Top EXCEPT !.n = Count(@, s), !.todo = @ \ {m},
                                  !.pc = IF s = "KILLED" THEN "finish" ELSE "test"])
  /\ xml' = [xml EXCEPT ![XmlOf(s)] = @ + 1]
  /\ tally' = Count(tally, s)
  /\ ran' = ran \cup {<<Top.list, Top.pos - 1, m>>}
  /\ UNCHANGED <<exit, sumFile, sumExists, intr, started, refused>>

EndOfList ==
  /\ At("read")
  /\ Top.pos > Len(Content[Top.list])
  /\ frames' = SetTop([Top EXCEPT !.pc = "finish"])
  /\ UNCHANGED <<exit, sumFile, sumExists, xml, intr, tally, ran, started, refused>>

(* The end of the script: a child writes sum_file, the root removes it and *)
(* exits with the verdict on its counters.                                 *)
FinishAlwaysRemoves ==                                          (* mutant *)
  /\ At("finish")
  /\ sumFile' = IF IsRoot THEN sumFile ELSE Top.n
  /\ sumExists' = FALSE
  /\ Leave(Verdict(Top.n, Threshold))
  /\ UNCHANGED <<xml, intr, tally, ran, started, refused>>

Finish ==
  /\ At("finish")
  /\ sumFile' = IF IsRoot THEN sumFile ELSE Top.n
  /\ sumExists' = ~IsRoot
  /\ Leave(Verdict(Top.n, Threshold))
  /\ UNCHANGED <<xml, intr, tally, ran, started, refused>>

-----------------------------------------------------------------------------
(* Control-C reaches the whole foreground group: every invocation. (The    *)
(* few commands before the trap is installed are left out: there the       *)
(* script just dies.)                                                      *)
Interrupt ==
  /\ exit = Running /\ ~intr
  /\ intr' = TRUE
  /\ UNCHANGED <<frames, exit, sumFile, sumExists, xml, tally, ran, started, refused>>

(* The trap of each invocation, innermost first. A test that was running   *)
(* has ended and is not counted.                                           *)
CleanupKeepsFile ==                                             (* mutant *)
  /\ exit = Running /\ intr
  /\ Leave(1)
  /\ UNCHANGED <<sumFile, sumExists, xml, intr, tally, ran, started, refused>>

Cleanup ==
  /\ exit = Running /\ intr
  /\ sumExists' = FALSE
  /\ Leave(1)
  /\ UNCHANGED <<sumFile, xml, intr, tally, ran, started, refused>>

Terminated == exit # Running /\ UNCHANGED vars

Step ==
  \/ Usage \/ (\E ms \in SUBSET Modes : Start(ms))
  \/ SkipLine \/ Include \/ Included \/ TestLine \/ Launch \/ AllModesDone
  \/ (\E m \in Modes, code \in Statuses : Result(m, code))
  \/ EndOfList \/ Finish \/ Cleanup

Next == Step \/ Interrupt \/ Terminated

(* The shell keeps executing, and every test command ends (they are run    *)
(* under `timer'); nobody has to press Control-C.                          *)
Spec == Init /\ [][Next]_vars /\ WF_vars(Step)

-----------------------------------------------------------------------------
(* Where the counters of the whole run are: in the shell variables of the  *)
(* top invocation, or, between two invocations, in sum_file. What Control-C *)
(* throws away stays as it was recorded.                                   *)
LedgerView ==
  IF intr THEN tally
  ELSE IF Top.pc \in {"start", "included"} THEN sumFile
  ELSE Top.n

TypeOK ==
  /\ frames \in Seq(Frame) /\ Len(frames) > 0
  /\ exit \in Int
  /\ sumFile \in Counters /\ sumExists \in BOOLEAN
  /\ xml \in [XmlKind -> Nat]
  /\ intr \in BOOLEAN
  /\ tally \in Counters
  /\ ran \subseteq (Lists \X Nat \X Modes)
  /\ started \subseteq (Lists \X SUBSET Modes)
  /\ refused \subseteq Lists

(* No result is lost or counted twice in the hand-over of the counters     *)
(* between nested invocations (file_summary, `. $SUMMARY_FILE',            *)
(* `. $sum_file'): wherever the run is, the live counters are the results  *)
(* of all the tests that have finished.                                    *)
Conservation == LedgerView = tally

(* Nobody sources a sum_file that is not there: it exists while a child is *)
(* starting and while a parent is coming back from one, whatever happened  *)
(* in between (a child without a mode to test leaves it alone).            *)
SumFilePresent ==
  ~intr /\ (Top.pc = "included" \/ (Top.pc = "start" /\ ~IsRoot)) => sumExists

(* The root's exit status is right about the tests that ran, nested ones   *)
(* included: PASS needs a passed test and tolerates only errors below the  *)
(* threshold, and a KILLED result anywhere makes it EXIT_KILLED.           *)
VerdictSound ==
  exit # Running /\ ~intr =>
    /\ exit = EXIT_PASS => /\ tally["PASS"] > 0
                           /\ tally["KILLED"] = 0
                           /\ Errors(tally) = 0 \/ Errors(tally) < Threshold
    /\ exit = EXIT_KILLED <=> tally["KILLED"] > 0

(* The XML log, which all invocations append to, and the counters agree:   *)
(* the failures, skips and errors a CI system reads there are the ones     *)
(* that were counted.                                                      *)
XmlAgrees ==
  started # {} =>
    /\ xml["passed"]  = tally["PASS"] + tally["XPASS"]
    /\ xml["failure"] = tally["FAIL"]
    /\ xml["skipped"] = tally["XFAIL"] + tally["UNTESTED"] + tally["UNSUPPORTED"]
    /\ xml["error"]   = tally["UNRESOLVED"] + tally["KILLED"]

(* A run that gave a verdict without a KILLED result has not passed over   *)
(* anything: each invocation that had a mode ran each test line of its     *)
(* list in each of its modes, and each %include of an existing file was    *)
(* started or refused for lack of a mode.                                  *)
Complete ==
  exit # Running /\ ~intr /\ tally["KILLED"] = 0 =>
    \A l \in Lists, ms \in SUBSET Modes : <<l, ms>> \in started =>
    \A i \in DOMAIN Content[l] :
      /\ Content[l][i].kind = "test" => \A m \in ms : <<l, i, m>> \in ran
      /\ Content[l][i].kind = "include" =>
           \/ Content[l][i].list \in refused
           \/ \E ns \in SUBSET ms : <<Content[l][i].list, ns>> \in started

(* Control-C ends the run wherever it is, in mid hand-over of the counters *)
(* as well: all nested invocations unwind, the root exits (with which      *)
(* status is not claimed) and no sum_file stays behind.                    *)
InterruptUnwinds ==
  (intr /\ exit = Running) ~> (exit # Running /\ Len(frames) = 1 /\ ~sumExists)

(* The run always ends with an exit status.                                *)
Ends == <>(exit # Running)

(* `# stopped by Control-C or something like that' before `break 2': after *)
(* a KILLED result no further test is run.                                 *)
NoTestAfterKilled == [][tally["KILLED"] > 0 => ran' = ran]_vars

(* The nest of invocations implements the single ledger of TestLedger.     *)
Ledger == INSTANCE TestLedger WITH n <- LedgerView
ImplementsLedger == Ledger!Spec

=============================================================================

---------------------------- MODULE MCTestRunner -----------------------------
(***************************************************************************)
(* test.sh on a root list with a test, two includes (one of which includes *)
(* a third list), a missing include and a comment, in two modes.           *)
(***************************************************************************)
EXTENDS TestRunner, TLC

CONSTANTS root, basics, utils, deep

MCLists == {root, basics, utils, deep}

Item(k) == [kind |-> k, list |-> root]
Inc(l)  == [kind |-> "include", list |-> l]

MCContent ==
  (root   :> <<Inc(basics), Item("test"), Item("missing"), Inc(utils)>>) @@
  (basics :> <<Item("blank"), Item("test"), Inc(deep)>>) @@
  (utils  :> <<Item("test")>>) @@
  (deep   :> <<Item("test")>>)

(* One rank per process mode and the thread mode T.                        *)
MCModes == {1, 4}

(* A pass, a failure, a skip, a kill and a death by SIGSEGV.               *)
MCStatuses == {EXIT_PASS, EXIT_FAIL, EXIT_UNSUPPORTED, EXIT_KILLED, 139}

=============================================================================

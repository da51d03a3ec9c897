------------------------------- MODULE MCHarness -------------------------------
(***************************************************************************)
(* Calls and flags for Harness, and the part of its behaviours that TLC    *)
(* walks through.  The theorems are about all of them.                     *)
(***************************************************************************)
EXTENDS Harness, TLC

Plain == [interactive |-> FALSE, ack |-> FALSE, auth |-> "none", model |-> "none",
          skills |-> "none", mode |-> "none", protected |-> "none", sandbox |-> "none",
          root |-> "none", service |-> "none"]

\* Calls without questions: a first one with everything, one that leaves everything to what is
\* recorded, and ones that change one thing each.
Full == [Plain EXCEPT !.ack = TRUE, !.auth = "import", !.model = "given", !.skills = "bundled",
         !.mode = "read-only", !.protected = "some", !.service = "declined"]
Change == {Plain, [Plain EXCEPT !.mode = "ask"],
           [Plain EXCEPT !.sandbox = "on", !.root = "outside"],
           [Plain EXCEPT !.sandbox = "on", !.root = "home"],
           [Plain EXCEPT !.protected = "some"], [Plain EXCEPT !.ack = TRUE, !.skills = "bundled"],
           [Plain EXCEPT !.service = "installed"]}

\* A call with questions, its service left to the default.
Interviews == {[Plain EXCEPT !.interactive = TRUE, !.mode = "ask", !.protected = "empty"]}

SlotSymmetry == Permutations(Slots)

AllFlags == {Full} \cup Change \cup Interviews

\* Bound: a behaviour has a session, or requests over a home that no fault touches; neither reads
\* what the other writes. No call is stopped beside a session, which cannot tell it from a slow one.
Bounds ==
  /\ made > 0 => sessions = 0 /\ crashes = 0 /\ edits = 0
  /\ sessions > 0 => crashes = 0

BoundedSpec == Init /\ [][Next /\ Bounds']_vars
==============================================================================

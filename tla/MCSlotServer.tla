---------------------------- MODULE MCSlotServer ----------------------------
(* Instances of SlotServer for TLC: a request of one task, one of a parent *)
(* with a child, and one that asks for the first slot.                     *)
EXTENDS SlotServer

OneTask    == "one"
Parent     == "parent"
Child      == "child"
PinnedTask == "pinned"

MCTasks == {OneTask, Parent, Child, PinnedTask}
MCRequests == {"single", "shared", "pinning"}
MCRoots == [r \in MCRequests |->
  CASE r = "single" -> <<OneTask>> [] r = "shared" -> <<Parent>> [] OTHER -> <<PinnedTask>>]
MCChildren == [t \in MCTasks |-> IF t = Parent THEN <<Child>> ELSE <<>>]
MCImpatient == {"shared"}
MCEmpty == {OneTask}
MCPin == [t \in MCTasks |-> IF t = PinnedTask THEN 1 ELSE 0]
=============================================================================

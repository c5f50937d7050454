---------------------------- MODULE EventStream ----------------------------
(***************************************************************************)
(* What the application promises of a generation: the text on the screen   *)
(* is at every moment a beginning of the text the model has produced, it   *)
(* only grows, and a generation reported as finished or cancelled shows    *)
(* all of its text.  A failed one may show less.                           *)
(***************************************************************************)
EXTENDS SequencesExt

VARIABLES
  text,    \* produced by the model
  shown,   \* on the screen
  status   \* of the last generation

vars == <<text, shown, status>>

Init == text = <<>> /\ shown = <<>> /\ status = "none"

Begin ==
  /\ status # "running"
  /\ status' = "running" /\ text' = <<>> /\ shown' = <<>>

Produce ==
  /\ status = "running"
  /\ IsStrictPrefix(text, text')
  /\ UNCHANGED <<shown, status>>

Show ==
  /\ status = "running"
  /\ IsStrictPrefix(shown, shown') /\ IsPrefix(shown', text)
  /\ UNCHANGED <<text, status>>

End ==
  /\ status = "running"
  /\ \/ status' \in {"finished", "cancelled"} /\ shown = text
     \/ status' = "failed"
  /\ UNCHANGED shown /\ text' = shown

Next == Begin \/ Produce \/ Show \/ End

Spec == Init /\ [][Next]_vars
=============================================================================

----------------------------- MODULE OwnedSlots -----------------------------
(***************************************************************************)
(* What the streaming layer promises about its slot buffers: a slot is     *)
(* overwritten only while no queued GPU work holds it, and work may hold   *)
(* only a slot that already has the whole blob of its expert.              *)
(***************************************************************************)
CONSTANTS Layers, Slots, Experts, NoExpert

VARIABLES
  bytes,  \* per layer and slot: the expert whose blob is there, or NoExpert
  held    \* [layer, slot, expert] triples that queued GPU work reads

vars == <<bytes, held>>

Init ==
  /\ bytes = [l \in Layers |-> [s \in Slots |-> NoExpert]]
  /\ held = {}

\* Reads start into some slots of a layer, none of them held.
Overwrite(l, S) ==
  /\ \A h \in held : h.layer = l => h.slot \notin S
  /\ bytes' = [bytes EXCEPT ![l] =
       [s \in Slots |-> IF s \in S THEN NoExpert ELSE @[s]]]
  /\ UNCHANGED held

\* A read completes.
Fill(l, s, e) ==
  /\ bytes[l][s] = NoExpert
  /\ bytes' = [bytes EXCEPT ![l][s] = e]
  /\ UNCHANGED held

\* Work is queued on slots that hold their experts.
Hold ==
  /\ held \subseteq held'
  /\ \A h \in held' : bytes[h.layer][h.slot] = h.expert
  /\ UNCHANGED bytes

\* Work completes.
Release == held' \subseteq held /\ UNCHANGED bytes

Next ==
  \/ \E l \in Layers, S \in SUBSET Slots : Overwrite(l, S)
  \/ \E l \in Layers, s \in Slots, e \in Experts : Fill(l, s, e)
  \/ Hold
  \/ Release

Spec == Init /\ [][Next]_vars
=============================================================================

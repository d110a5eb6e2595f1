----------------------------- MODULE MCSlotRaces -----------------------------
(* Instances of SlotRaces for TLC.                                         *)
EXTENDS SlotRaces

CONSTANTS r1, r2, r3, c1, c2

ThreeRequests == {r1, r2, r3}
TwoCourts == {c1, c2}

\* Two slots that overlap.
TwoSlots == {[start |-> 1, end |-> 3], [start |-> 2, end |-> 4]}

AllKinds == {"create", "revise", "complete", "close"}
=============================================================================

---------------------------- MODULE MCPlayMatches ----------------------------
(* Instances of PlayMatches for TLC.                                       *)
EXTENDS PlayMatches

CONSTANTS b1, c1, m1, m2, p1, p2, p3, p4, o1, null

OneCourt == {c1}
OneBooking == {b1}
OneMatch == {m1}
TwoMatches == {m1, m2}
TwoPlayers == {p1, p2}
FourPlayers == {p1, p2, p3, p4}
OneRef == {null, o1}

\* Two slots that overlap.
OneSlot == {[start |-> 3, end |-> 4]}
OverlappingSlots == {[start |-> 1, end |-> 3], [start |-> 2, end |-> 4]}
Closing == {[start |-> 3, end |-> 5]}

Stripe == {"STRIPE"}
Always == {TRUE}

Symmetry == Permutations(Player) \cup Permutations(Court) \cup Permutations(MatchId) \cup Permutations(BookingId)
=============================================================================

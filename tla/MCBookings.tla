----------------------------- MODULE MCBookings -----------------------------
(* Instances of Bookings for TLC.                                          *)
EXTENDS Bookings, TLC

CONSTANTS b1, b2, c1, c2, o1, null

TwoCourts == {c1, c2}
TwoBookings == {b1, b2}
OneRef == {null, o1}

\* Two slots that overlap.
OverlappingSlots == {[start |-> 1, end |-> 3], [start |-> 2, end |-> 4]}

\* A closure that meets only the later slot.
Closing == {[start |-> 3, end |-> 5]}

Stripe == {"STRIPE"}
Sometimes == BOOLEAN

Symmetry == Permutations(BookingId) \cup Permutations(Court)
=============================================================================

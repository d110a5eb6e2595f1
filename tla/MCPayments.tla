----------------------------- MODULE MCPayments -----------------------------
(* Instances of Payments for TLC.                                          *)
EXTENDS Payments

CONSTANTS b1, c1, o1, o2, null

OneCourt == {c1}
OneBooking == {b1}
TwoSessions == {null, o1, o2}
OneSlot == {[start |-> 2, end |-> 3]}
BothProviders == OnlineProvider
Sometimes == BOOLEAN
=============================================================================

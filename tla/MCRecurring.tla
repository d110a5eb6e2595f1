---------------------------- MODULE MCRecurring ----------------------------
(* An instance of Recurring for TLC.                                       *)
EXTENDS Recurring, TLC

CONSTANTS b1, b2, b3, b4, c1, r1, null

OneCourt == {c1}
FourBookings == {b1, b2, b3, b4}
OneSeries == {r1}

\* Two weeks; the short game begins while the long one is being played.
Schedules ==
    {[first |-> 0, last |-> 1, time |-> 1, duration |-> 2],
     [first |-> 0, last |-> 1, time |-> 2, duration |-> 1]}
Slots == UNION {RecurringDates(d) : d \in Schedules}
Closing == {[start |-> 4, end |-> 5]}

NoProvider == {}
NullOnly == {null}
Never == {FALSE}

Symmetry == Permutations(BookingId)
=============================================================================

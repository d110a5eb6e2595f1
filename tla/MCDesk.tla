------------------------------- MODULE MCDesk -------------------------------
(* An instance of Desk for TLC: two dates of three ticks, and zones whose  *)
(* clock moves one tick, forward or back, by day or at midnight.           *)
EXTENDS Desk, TLC

CONSTANTS b1, b2, c1, c2, null, none

OneBooking == {b1}
TwoCourts == {c1, c2}
NullOnly == {null}

Zones ==
    {[at |-> 7, before |-> 0, after |-> 1], [at |-> 7, before |-> 1, after |-> 0],
     [at |-> 6, before |-> 0, after |-> 1], [at |-> 6, before |-> 1, after |-> 0]}

Dates == {1, 2}
Durations == {1, 3}
Slots == {[start |-> u, end |-> u + d] : u \in 1..9, d \in Durations}
Closing == {[start |-> 8, end |-> 10]}

\* No deposit; a public one with extras; amounts that round to nothing.
SavedSettings ==
    {[enabled |-> FALSE, base |-> 20, included |-> 1, extra |-> 10, step |-> 1,
      playEnabled |-> FALSE, playAmount |-> 20, usePublic |-> FALSE],
     [enabled |-> TRUE, base |-> 20, included |-> 2, extra |-> 10, step |-> 2,
      playEnabled |-> FALSE, playAmount |-> 20, usePublic |-> TRUE],
     [enabled |-> TRUE, base |-> 4, included |-> 1, extra |-> 10, step |-> 1,
      playEnabled |-> TRUE, playAmount |-> 4, usePublic |-> FALSE]}

Stripe == {"STRIPE"}
Sometimes == BOOLEAN

=============================================================================

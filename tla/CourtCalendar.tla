---------------------------- MODULE CourtCalendar ----------------------------
(***************************************************************************)
(* What the booking service promises, whatever it does inside: a calendar  *)
(* of reservations in which no court is ever given twice for overlapping   *)
(* times, nothing is reserved on a closed court, and a reservation is made *)
(* or moved one at a time.  Bookings.tla implements it, with the           *)
(* reservations being the bookings that occupy their court.                *)
(***************************************************************************)
EXTENDS Integers

CONSTANTS Court, Slot, Period, BookingId

VARIABLES
    reserved,   \* at most one reservation [id, court, slot] per id
    closed      \* [court, slot] closed by the club

calendarVars == <<reserved, closed>>

Meets(s, t) == s.start < t.end /\ t.start < s.end

\* The court can be given to id for the slot: the others leave it free.
Free(id, c, s) ==
    /\ \A r \in reserved : r.id # id /\ r.court = c => ~Meets(r.slot, s)
    /\ \A k \in closed : k.court = c => ~Meets(k.slot, s)

Init == reserved = {} /\ closed = {}

\* Reserve a slot, or move the reservation of the same id there.
Reserve(id, c, s) ==
    /\ Free(id, c, s)
    /\ reserved' = {r \in reserved : r.id # id} \cup {[id |-> id, court |-> c, slot |-> s]}
    /\ UNCHANGED closed

\* Cancellations and expiries release any number of reservations at once.
Release(D) ==
    /\ reserved' = {r \in reserved : r.id \notin D}
    /\ UNCHANGED closed

\* Closing a court leaves the reservations it already has.
Close(c, s) ==
    /\ closed' = closed \cup {[court |-> c, slot |-> s]}
    /\ UNCHANGED reserved

Next ==
    \/ \E id \in BookingId, c \in Court, s \in Slot : Reserve(id, c, s)
    \/ \E D \in SUBSET BookingId : Release(D)
    \/ \E c \in Court, s \in Period : Close(c, s)

Spec == Init /\ [][Next]_calendarVars

\* The promise itself.
NoOverlap ==
    \A q, r \in reserved : q.id # r.id /\ q.court = r.court => ~Meets(q.slot, r.slot)
=============================================================================

----------------------------- MODULE LocalTime -----------------------------
(***************************************************************************)
(* The wall clock of a club, and what a date and a time of day mean in a   *)
(* zone whose clock changes: some local times do not exist, some happen    *)
(* twice.  Translated from services/booking_service.py.                    *)
(*                                                                         *)
(* Instants (UTC) and local times are counted in ticks; local time n is    *)
(* time n % Day of date n \div Day.  A zone changes its offset once, at    *)
(* instant z.at, from z.before to z.after.                                 *)
(***************************************************************************)
EXTENDS Integers

CONSTANTS
    Day,    \* ticks in a calendar day
    Step    \* ticks between the starts the page offers (30 minutes)

ASSUME CalendarAssumption == Day \in Nat \ {0} /\ Step \in Nat \ {0}

\* A request that names no slot_id.
NoId == -1

\* astimezone(zone) of an instant.
WallClock(z, u) == u + (IF u < z.at THEN z.before ELSE z.after)

LocalDate(z, u) == WallClock(z, u) \div Day

Fold == {0, 1}

\* astimezone(UTC) of a local time: in the hour that is skipped or repeated,
\* fold 0 reads it on the clock before the change and fold 1 on the one after.
Instant(z, n, fold) ==
    LET wall == IF (fold = 0) = (z.before > z.after) THEN z.before ELSE z.after
    IN  n - (IF n < z.at + wall THEN z.before ELSE z.after)

\* Mutant of local_time_candidates: the roundtrip is not compared.
CandidatesUnchecked(z, date, time) == {Instant(z, date * Day + time, f) : f \in Fold}

\* None for a time the clock skips, two for one it shows twice.
local_time_candidates(z, date, time) ==
    LET n == date * Day + time
    IN  {u \in {Instant(z, n, f) : f \in Fold} : WallClock(z, u) = n}

\* The start a request means, or none: by its slot_id when it has one, else the
\* first candidate, which is the earlier one.
resolve_local_slot_start(z, date, time, id) ==
    LET candidates == local_time_candidates(z, date, time)
    IN  IF id = NoId THEN {u \in candidates : \A v \in candidates : u <= v}
        ELSE candidates \cap {id}

\* [start_at, end_at) of the request: the duration is real time, whatever the
\* clock does in between.
resolve_slot_window(z, date, time, duration, id) ==
    {[start |-> u, end |-> u + duration] : u \in resolve_local_slot_start(z, date, time, id)}

\* Midnight of a date.
DayStart(z, date) == Instant(z, date * Day, 0)

\* The starts the page offers, counted from midnight in real time.
iter_local_slot_starts(z, date) ==
    {u \in DayStart(z, date)..(DayStart(z, date + 1) - 1) : (u - DayStart(z, date)) % Step = 0}
=============================================================================

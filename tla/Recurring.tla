----------------------------- MODULE Recurring -----------------------------
(***************************************************************************)
(* Recurring series: the administrator books a court every week, and later *)
(* changes, cancels or deletes the whole series, among the other bookings  *)
(* of the club.                                                            *)
(*                                                                         *)
(* Every request holds the global lock and is one transaction, however     *)
(* many bookings it inserts, cancels and deletes.  Labels and the choice   *)
(* of weekday are left out; dates are weeks, and the clock change, which   *)
(* may move or suppress a date, is a matter of the slots.                  *)
(***************************************************************************)
EXTENDS Bookings, Functions

CONSTANTS
    SeriesId, NoSeries,  \* the series that can ever be created, and NULL
    Week,                \* ticks in a week
    Schedule             \* first and last week, time of day, duration

Occurrence(d, w) ==
    [start |-> w * Week + d.time, end |-> w * Week + d.time + d.duration]

\* _recurring_dates: every week from the first date to the last.
RecurringDates(d) == {Occurrence(d, w) : w \in d.first..d.last}

ASSUME SeriesAssumption == NoSeries \notin SeriesId /\ Week \in Nat
ASSUME ScheduleAssumption ==
    /\ Schedule # {}
    /\ \A d \in Schedule :
          /\ d \in [first: Nat, last: Nat, time: Nat, duration: Nat \ {0}]
          /\ d.first <= d.last /\ d.duration <= Week
          /\ RecurringDates(d) \subseteq Slot

VARIABLES
    series,     \* the recurring_booking_series table
    seriesOf    \* recurring_series_id of a booking

seriesVars == <<series, seriesOf>>
recurringVars == <<now, booking, payment, blackouts, series, seriesOf>>

SeriesRow == [status: {"LIVE"} \cup Gone, court: Court, schedule: Schedule]

NoSeriesRow(status) ==
    [status |-> status, court |-> CHOOSE c \in Court : TRUE,
     schedule |-> CHOOSE d \in Schedule : TRUE]

RecurringInit ==
    /\ Init
    /\ series = [r \in SeriesId |-> NoSeriesRow("ABSENT")]
    /\ seriesOf = [b \in BookingId |-> NoSeries]

-----------------------------------------------------------------------------
Members(r) == {b \in BookingId : seriesOf[b] = r /\ Exists(b)}

Absent == {b \in BookingId : booking[b].status = "ABSENT"}

\* preview_recurring_occurrences: the dates that can be booked, the bookings
\* in excluded (exclude_recurring_series_id) not counting.
Bookable(d, c, excluded) ==
    {s \in RecurringDates(d) :
        /\ Future(s) /\ ~BlackedOut(c, s)
        /\ \A o \in BookingId \ excluded :
              Blocking(booking[o]) /\ booking[o].court = c => ~Overlaps(booking[o].slot, s)}

\* The exclusion constraint no_overlapping_bookings lets the dates be inserted
\* next to the other rows of the club, of whatever court.
Accepted(rows, dates) ==
    \A s \in dates, o \in BookingId : Blocking(rows[o]) => ~Overlaps(rows[o].slot, s)

\* The rows with one new booking for each date: at gives new ids their date.
Occupied(rows, at, c) ==
    [b \in BookingId |->
        IF b \in DOMAIN at
        THEN NewBooking("CONFIRMED", c, at[b], FALSE, "NONE", NoTime, "admin")
        ELSE rows[b]]

\* Books the dates for series r, among the given rows.
BookDates(r, rows, dates, c) ==
    \E new \in SUBSET Absent : \E at \in Bijection(new, dates) :
        /\ booking' = Occupied(rows, at, c)
        /\ seriesOf' = [b \in BookingId |-> IF b \in new THEN r ELSE seriesOf[b]]

\* create_recurring_series books what is free and skips the rest, even all of it.
CreateSeries(r, c, d) ==
    /\ series[r].status = "ABSENT"
    /\ Accepted(booking, Bookable(d, c, {}))
    /\ BookDates(r, booking, Bookable(d, c, {}), c)
    /\ series' = [series EXCEPT ![r] = [status |-> "LIVE", court |-> c, schedule |-> d]]
    /\ UNCHANGED <<now, payment, blackouts>>

\* update_booking_status_by_admin to CANCELLED, of those it allows: the others
\* are skipped.  An occurrence has no deposit and so no payment to cancel.
CancelledAmong(B) ==
    [b \in BookingId |->
        IF b \in B /\ MayMoveTo(b, "CANCELLED")
        THEN [CancelRow(booking[b]) EXCEPT !.completed = FALSE, !.noShow = FALSE,
                                           !.balance = FALSE]
        ELSE booking[b]]

FutureMembers(r) == {b \in Members(r) : Future(booking[b].slot)}

\* Mutant of UpdateSeries: the series stands in its own way.
UpdateSeriesInItsWay(r, c, d) ==
    LET free == Bookable(d, c, {})
        rows == CancelledAmong(FutureMembers(r))
    IN
    /\ series[r].status = "LIVE"
    /\ free # {} /\ Accepted(rows, free)
    /\ BookDates(r, rows, free, c)
    /\ series' = [series EXCEPT ![r].court = c, ![r].schedule = d]
    /\ UNCHANGED <<now, payment, blackouts>>

\* update_recurring_series: what is to come is cancelled, moved or not, and
\* the new dates are booked.  All bookings of the series are excluded from the
\* check, also one that is being played and stays: then only the constraint
\* notices, and the whole request fails.
UpdateSeries(r, c, d) ==
    LET free == Bookable(d, c, Members(r))
        rows == CancelledAmong(FutureMembers(r))
    IN
    /\ series[r].status = "LIVE"
    /\ free # {} /\ Accepted(rows, free)
    /\ BookDates(r, rows, free, c)
    /\ series' = [series EXCEPT ![r].court = c, ![r].schedule = d]
    /\ UNCHANGED <<now, payment, blackouts>>

\* cancel_recurring_occurrences: also ones that have begun.
CancelOccurrences(B) ==
    /\ B # {} /\ \A b \in B : Exists(b) /\ seriesOf[b] # NoSeries
    /\ \E b \in B : MayMoveTo(b, "CANCELLED")
    /\ booking' = CancelledAmong(B)
    /\ UNCHANGED <<now, payment, blackouts, series, seriesOf>>

\* cancel_recurring_series_future_occurrences
CancelSeries(r) ==
    /\ series[r].status = "LIVE"
    /\ booking' = CancelledAmong(FutureMembers(r))
    /\ UNCHANGED <<now, payment, blackouts, series, seriesOf>>

\* Mutant of Deletable: every occurrence may be deleted.
DeletableAny(r) == TRUE

Deletable(r) == \A b \in Members(r) : booking[b].status \in DELETABLE_BOOKING_STATUSES

\* delete_recurring_series_permanently: all of its occurrences, or nothing.
DeleteSeries(r) ==
    /\ series[r].status = "LIVE" /\ Deletable(r)
    /\ booking' = [b \in BookingId |->
                      IF b \in Members(r) THEN NoBooking("DELETED") ELSE booking[b]]
    /\ series' = [series EXCEPT ![r] = NoSeriesRow("DELETED")]
    /\ UNCHANGED <<now, payment, blackouts, seriesOf>>

LastOccurrence(b) == seriesOf[b] # NoSeries /\ Members(seriesOf[b]) = {b}

\* delete_booking_permanently takes a series along with its last occurrence.
DeleteOccurrence(b) ==
    /\ DeleteBooking(b)
    /\ series' = IF LastOccurrence(b)
                 THEN [series EXCEPT ![seriesOf[b]] = NoSeriesRow("DELETED")]
                 ELSE series
    /\ UNCHANGED seriesOf

-----------------------------------------------------------------------------
\* The other bookings.  One of a customer takes its slot and gives it back like
\* the administrator's; holds, payments and balances are left to Bookings.
OtherStep(b) ==
    /\ \/ \E c \in Court, s \in Slot : CreateAdminBooking(b, c, s) \/ AdminUpdate(b, c, s)
       \/ AdminCancel(b)
       \/ \E target \in BookingStatus : AdminSetOutcome(b, target)
    /\ UNCHANGED seriesVars

CalendarStep ==
    /\ \/ \E c \in Court, s \in Period : CreateBlackout(c, s)
       \/ Tick
    /\ UNCHANGED seriesVars

SeriesStep(r) ==
    \/ \E c \in Court, d \in Schedule : CreateSeries(r, c, d) \/ UpdateSeries(r, c, d)
    \/ CancelSeries(r)
    \/ DeleteSeries(r)

RecurringNext ==
    \/ \E r \in SeriesId : SeriesStep(r)
    \/ \E B \in SUBSET BookingId : CancelOccurrences(B)
    \/ \E b \in BookingId : DeleteOccurrence(b) \/ OtherStep(b)
    \/ CalendarStep

RecurringSpec == RecurringInit /\ [][RecurringNext]_recurringVars

-----------------------------------------------------------------------------
(* Properties.                                                             *)

\* Series have their types, and their occurrences ask for no deposit: neither
\* cancelling nor deleting a series looks for payments.
SeriesTypeOK ==
    /\ series \in [SeriesId -> SeriesRow]
    /\ seriesOf \in [BookingId -> SeriesId \cup {NoSeries}]
    /\ \A b \in BookingId : Exists(b) /\ seriesOf[b] # NoSeries => ~booking[b].deposit

Held(r) == {<<booking[b].court, booking[b].slot>> :
               b \in {x \in FutureMembers(r) : Blocking(booking[x])}}

Updated(r) ==
    series[r].status = "LIVE" /\ \E b \in BookingId : seriesOf'[b] = r /\ seriesOf[b] # r

\* README.md: an update of a series books the valid dates and skips those in
\* conflict.  What it holds from then on is every future date of the new
\* schedule that nobody else holds, the ones it held before included, and no
\* other; it touches neither what has begun nor anybody else's booking.
UpdateStep ==
    \A r \in SeriesId : Updated(r) =>
        LET row == series'[r]
            others == {o \in BookingId : Blocking(booking[o])} \ FutureMembers(r)
            valid == {s \in RecurringDates(row.schedule) :
                         /\ Future(s) /\ ~BlackedOut(row.court, s)
                         /\ \A o \in others :
                               booking[o].court = row.court => ~Overlaps(booking[o].slot, s)}
        IN
        /\ Held(r)' = {<<row.court, s>> : s \in valid}
        /\ \A o \in others : booking'[o] = booking[o]
UpdateTakesWhatIsFree == [][UpdateStep]_recurringVars

\* A booking that stands, was played or missed is never deleted, neither by
\* itself nor with its series.
DeletionStep == \A b \in BookingId : Blocking(booking[b]) => booking'[b].status # "DELETED"
StandingIsNeverDeleted == [][DeletionStep]_recurringVars
=============================================================================

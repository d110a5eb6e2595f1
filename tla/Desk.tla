-------------------------------- MODULE Desk --------------------------------
(***************************************************************************)
(* The booking desk: the availability page of a day, the requests that are *)
(* made from it with a date, a time and perhaps the slot_id the page gave, *)
(* the club's settings that decide the deposit, and its courts.            *)
(*                                                                         *)
(* It stands on Bookings.tla, whose windows it derives from local times    *)
(* and whose deposits from the settings.  The zone of the club is chosen   *)
(* once.  Money in the settings is in mills, as a floating-point amount    *)
(* may be; charged amounts are in cents.  Outcomes, balances and payments  *)
(* neither move a booking nor change what it owes and are left to          *)
(* Bookings.tla and Payments.tla.                                          *)
(***************************************************************************)
EXTENDS Bookings, LocalTime

CONSTANTS
    Zone,             \* time zones: [at, before, after]
    Date,             \* the dates customers ask for
    VALID_DURATIONS,
    Settings,         \* what the administrator may save
    FirstCourt,       \* the court every club starts with
    NewId,            \* the id of a request's row before it is inserted
    NoCourt           \* a request that names no court

\* The two records of app_settings that decide deposits: of public bookings
\* (base, included, extra, step) and of matches (play, usePublic).
SettingsRow == [enabled: BOOLEAN, base: Nat, included: Nat, extra: Nat, step: Nat,
                playEnabled: BOOLEAN, playAmount: Nat, usePublic: BOOLEAN]

ASSUME ZoneAssumption == Zone \subseteq [at: Int, before: Int, after: Int]
ASSUME RequestAssumption ==
    Date \subseteq Int /\ VALID_DURATIONS \subseteq Nat \ {0} /\ VALID_DURATIONS # {}
\* No zone repeats or skips the stretch around a midnight, only up to it or from
\* it on: that is so of every zone in use.
ASSUME MidnightAssumption ==
    \A z \in Zone, date \in Date, next \in {0, 1} :
        LET midnight == (date + next) * Day IN
        /\ z.at + z.before < midnight => z.at + z.after <= midnight
        /\ z.at + z.after < midnight => z.at + z.before <= midnight
\* Slot holds the windows that can be asked for.
ASSUME WindowAssumption ==
    \A z \in Zone, date \in Date, time \in 0..(Day - 1), duration \in VALID_DURATIONS :
        \A u \in local_time_candidates(z, date, time) :
            [start |-> u, end |-> u + duration] \in Slot
ASSUME SettingsAssumption == Settings \subseteq SettingsRow
ASSUME CourtAssumption == FirstCourt \in Court /\ NoCourt \notin Court
ASSUME NewIdAssumption == NewId \notin BookingId

VARIABLES
    zone,       \* clubs.timezone
    courts,     \* the active courts
    policy,     \* app_settings: the deposit of public bookings and of matches
    due         \* deposit_amount of a booking

deskVars == <<now, booking, payment, blackouts, zone, courts, policy, due>>

DeskInit ==
    /\ Init
    /\ zone \in Zone
    /\ courts = {FirstCourt}
    /\ policy \in Settings
    /\ due = [b \in BookingId |-> 0]

-----------------------------------------------------------------------------
(* The deposit.                                                            *)

\* _money: to the cent, half to even.
_money(mills) ==
    LET cents == mills \div 10
        rest == mills % 10
    IN  IF rest > 5 \/ (rest = 5 /\ cents % 2 = 1) THEN cents + 1 ELSE cents

is_public_booking_deposit_enabled(p) == p.enabled /\ _money(p.base) > 0 /\ p.included > 0

\* A base amount, and one more for every step begun beyond the minutes it includes.
calculate_public_booking_deposit(p, duration) ==
    IF ~is_public_booking_deposit_enabled(p) THEN 0
    ELSE IF duration <= p.included \/ _money(p.extra) = 0 \/ p.step = 0 THEN _money(p.base)
    ELSE _money(p.base) + _money(p.extra) * ((duration - p.included + p.step - 1) \div p.step)

\* The deposit of a match: the public one, or one of its own.
_resolve_play_community_deposit_terms(p, duration) ==
    IF p.usePublic
    THEN [enabled |-> is_public_booking_deposit_enabled(p),
          amount |-> calculate_public_booking_deposit(p, duration)]
    ELSE [enabled |-> p.playEnabled, amount |-> IF p.playEnabled THEN _money(p.playAmount) ELSE 0]

-----------------------------------------------------------------------------
(* Requests.                                                               *)

\* With a date and a time comes the slot_id the page gave for them, or none: any
\* other slot_id is refused.
Request ==
    UNION {[court: courts \cup {NoCourt}, date: {date}, time: {time}, duration: VALID_DURATIONS,
            id: {NoId} \cup local_time_candidates(zone, date, time)] :
              date \in Date, time \in 0..(Day - 1)}

\* The court a request means: the one it names, or the only one there is.
resolve_court(c) ==
    IF c = NoCourt THEN {k \in courts : courts = {k}} ELSE courts \cap {c}

Window(q) == resolve_slot_window(zone, q.date, q.time, q.duration, q.id)

Owes(b, amount) == due' = [due EXCEPT ![b] = amount]

BookAtDesk(b, q) ==
    /\ \E c \in resolve_court(q.court), w \in Window(q) :
          CreatePublicBooking(b, c, w) \/ CreateAdminBooking(b, c, w)
    /\ booking'[b].deposit = is_public_booking_deposit_enabled(policy)
    /\ Owes(b, calculate_public_booking_deposit(policy, q.duration))
    /\ UNCHANGED <<zone, courts, policy>>

\* Mutant of CompleteMatch: a deposit of nothing is asked for.
CompleteMatchForNothing(b, q) ==
    LET terms == _resolve_play_community_deposit_terms(policy, q.duration) IN
    /\ \E c \in resolve_court(q.court), w \in Window(q) : CreatePlayBooking(b, c, w)
    /\ booking'[b].deposit = terms.enabled
    /\ Owes(b, terms.amount)
    /\ UNCHANGED <<zone, courts, policy>>

\* The match took its window from a request like any other; the deposit is
\* decided when the fourth player joins.
CompleteMatch(b, q) ==
    LET terms == _resolve_play_community_deposit_terms(policy, q.duration) IN
    /\ terms.enabled => terms.amount > 0
    /\ \E c \in resolve_court(q.court), w \in Window(q) : CreatePlayBooking(b, c, w)
    /\ booking'[b].deposit = terms.enabled
    /\ Owes(b, terms.amount)
    /\ UNCHANGED <<zone, courts, policy>>

\* The booking keeps its court when none is named, and owes what it owed.
MoveBooking(b, q) ==
    /\ \E w \in Window(q),
          c \in IF q.court = NoCourt THEN {booking[b].court} ELSE resolve_court(q.court) :
             AdminUpdate(b, c, w)
    /\ UNCHANGED <<zone, courts, policy, due>>

LoseBooking(b) ==
    /\ CancelWithoutRefund(b) \/ AdminCancel(b) \/ DeleteBooking(b)
    /\ Owes(b, IF booking'[b].status = "DELETED" THEN 0 ELSE due[b])
    /\ UNCHANGED <<zone, courts, policy>>

\* A deposit for matches needs an amount and somebody to collect it.
MaySave(p) == p.playEnabled => p.playAmount > 0 /\ AvailableProvider # {}

UpdateSettings(p) ==
    /\ MaySave(p)
    /\ policy' = p
    /\ UNCHANGED <<now, booking, payment, blackouts, zone, courts, due>>

AddCourt(c) ==
    /\ c \notin courts
    /\ courts' = courts \cup {c}
    /\ UNCHANGED <<now, booking, payment, blackouts, zone, policy, due>>

TimePasses ==
    /\ Tick \/ ExpirePendingJob \/ (\E c \in courts, s \in Period : CreateBlackout(c, s))
    /\ UNCHANGED <<zone, courts, policy, due>>

RequestStep(b) ==
    \/ /\ booking[b].status = "ABSENT"
       /\ \E q \in Request : BookAtDesk(b, q) \/ CompleteMatch(b, q)
    \/ /\ booking[b].status \in ADMIN_EDITABLE_STATUSES
       /\ \E q \in Request : MoveBooking(b, q)

DeskNext ==
    \/ \E b \in BookingId : RequestStep(b)
    \/ \E b \in BookingId : LoseBooking(b)
    \/ \E p \in Settings : UpdateSettings(p)
    \/ \E c \in Court : AddCourt(c)
    \/ TimePasses

DeskSpec == DeskInit /\ [][DeskNext]_deskVars

-----------------------------------------------------------------------------
(* The availability page.  It reads the blocked windows of the whole day   *)
(* once, for every court, and looks at no booking after that.              *)

\* Mutant of PageSpan: the query ends with the day.
PageSpanOfTheDay(date, duration) ==
    [start |-> DayStart(zone, date), end |-> DayStart(zone, date + 1)]

\* The span the query of a date covers.
PageSpan(date, duration) ==
    [start |-> DayStart(zone, date), end |-> DayStart(zone, date + 1) + duration]

load_daily_court_block_windows(c, date, duration) ==
    {w \in {booking[b].slot : b \in {x \in BookingId : Blocking(booking[x]) /\ booking[x].court = c}}
           \cup {k.slot : k \in {y \in blackouts : y.court = c}} :
        Overlaps(w, PageSpan(date, duration))}

\* The starts the page of a court shows as available.
build_daily_slots(c, date, duration) ==
    LET blocked == load_daily_court_block_windows(c, date, duration) IN
    {u \in iter_local_slot_starts(zone, date) :
        /\ u > now
        /\ \E w \in resolve_slot_window(zone, date, WallClock(zone, u) % Day, duration, u) :
              \A k \in blocked : ~Overlaps(k, w)}

\* The page: the available starts of every active court.
Page(date, duration) == [c \in courts |-> build_daily_slots(c, date, duration)]

-----------------------------------------------------------------------------
(* Properties.                                                             *)

\* The page of a date lists the starts of that local day: all of them, also
\* when the clock changes, and none of another day.
PageListsTheDay ==
    \A date \in Date, u \in {s.start : s \in Slot} :
        u \in iter_local_slot_starts(zone, date)
            <=> LocalDate(zone, u) = date /\ (u - DayStart(zone, date)) % Step = 0

\* A time typed without a slot_id books the first start that shows it, and a
\* time the clock skips books nothing.
TypedTimeIsFirst ==
    \A date \in Date, time \in 0..(Day - 1) :
        LET shown == {u \in {s.start : s \in Slot} : WallClock(zone, u) = date * Day + time}
        IN  shown # {} \/ resolve_local_slot_start(zone, date, time, NoId) # {} =>
            \E u \in shown : /\ resolve_local_slot_start(zone, date, time, NoId) = {u}
                             /\ \A v \in shown : u <= v

\* What the page shows as available is what a request with its slot_id would
\* be given: the day's one query misses no booking and no closure, and blames
\* none that is not in the way.
PageIsTheDesk ==
    \A date \in Date, duration \in VALID_DURATIONS :
        Page(date, duration) = [c \in courts |->
            {u \in iter_local_slot_starts(zone, date) :
                LET s == [start |-> u, end |-> u + duration]
                IN  Future(s) /\ SlotAvailable(NewId, c, s)}]

\* The availability page tells the truth about the day it is asked for.
PageIsTrue == PageListsTheDay /\ TypedTimeIsFirst /\ PageIsTheDesk

\* A booking that asks for a deposit owes an amount, whatever was saved in the
\* settings and however often the booking was moved since: a hold that owes
\* nothing could never be paid (_expected_booking_amount refuses it).
HoldsOweMoney ==
    \A b \in BookingId : Exists(b) => (booking[b].deposit <=> due[b] > 0)
=============================================================================

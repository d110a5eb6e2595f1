----------------------------- MODULE Desk_proofs -----------------------------
(***************************************************************************)
(* Theorems of what the administrator does with the tables, for any zones, *)
(* dates, durations, courts, settings, series and schedules.  The desk     *)
(* only uses the operations of Bookings, so that all that is proved of the *)
(* tables holds of it; its page tells the truth; and a booking with a      *)
(* deposit owes an amount.  A request on a series rewrites many rows at    *)
(* once and is no step of Bookings: its theorems stand on their own        *)
(* inductive invariant, RowsInv.                                           *)
(***************************************************************************)
EXTENDS Desk, Recurring, Bookings_proofs

ZoneRow == [at: Int, before: Int, after: Int]

-----------------------------------------------------------------------------
(* The wall clock.                                                         *)

\* A local time is one date and one time of day.
LEMMA DateAndTime ==
    ASSUME NEW w \in Int
    PROVE  /\ w \div Day \in Int /\ w % Day \in 0..(Day - 1)
           /\ w = (w \div Day) * Day + (w % Day)
           /\ \A d \in Int : w \div Day = d <=> d * Day <= w /\ w < (d + 1) * Day
<1>1. Day \in Nat /\ Day > 0 BY CalendarAssumption
<1> DEFINE q == w \div Day
           r == w % Day
<1>2. q \in Int /\ r \in 0..(Day - 1) /\ w = q * Day + r
  BY <1>1
<1>3. ASSUME NEW d \in Int PROVE q = d <=> d * Day <= w /\ w < (d + 1) * Day
  <2> HIDE DEF q, r
  <2>1. (d + 1) * Day = d * Day + Day /\ (q + 1) * Day = q * Day + Day BY <1>1, <1>2
  <2>2. CASE q < d
    <3>1. (q + 1) * Day <= d * Day BY <2>2, <1>1, <1>2
    <3> QED BY <3>1, <2>1, <2>2, <1>1, <1>2
  <2>3. CASE q > d
    <3>1. (d + 1) * Day <= q * Day BY <2>3, <1>1, <1>2
    <3> QED BY <3>1, <2>1, <2>3, <1>1, <1>2
  <2>4. CASE q = d BY <2>1, <2>4, <1>1, <1>2
  <2> QED BY <2>2, <2>3, <2>4, <1>2
<1> QED BY <1>2, <1>3

\* The two readings of a local time are all the instants that can show it.
LEMMA ReadingsSuffice ==
    ASSUME NEW z \in ZoneRow, NEW u \in Int
    PROVE  u = Instant(z, WallClock(z, u), 0) \/ u = Instant(z, WallClock(z, u), 1)
  BY DEF ZoneRow, Instant, WallClock

\* A reading is an instant.
LEMMA ReadingType ==
    ASSUME NEW z \in ZoneRow, NEW n \in Int, NEW f \in Fold
    PROVE  Instant(z, n, f) \in Int
  BY DEF ZoneRow, Instant, Fold

\* The candidates of a local time are exactly the instants at which the clock
\* shows it.
LEMMA CandidatesExact ==
    ASSUME NEW z \in ZoneRow, NEW date \in Int, NEW time \in Int
    PROVE  local_time_candidates(z, date, time) =
               {u \in Int : WallClock(z, u) = date * Day + time}
<1> DEFINE n == date * Day + time
<1>1. n \in Int BY CalendarAssumption
<1> HIDE DEF n
<1>2. {u \in {Instant(z, n, f) : f \in Fold} : WallClock(z, u) = n}
          = {u \in Int : WallClock(z, u) = n}
  BY <1>1, ReadingsSuffice, ReadingType DEF Fold
<1> QED BY <1>2 DEF local_time_candidates, n

\* Midnight divides the instants of a day from those of the day before.
LEMMA MidnightDivides ==
    ASSUME NEW z \in ZoneRow, NEW m \in Int, NEW u \in Int,
           z.at + z.before < m => z.at + z.after <= m,
           z.at + z.after < m => z.at + z.before <= m
    PROVE  u >= Instant(z, m, 0) <=> WallClock(z, u) >= m
  BY DEF ZoneRow, Instant, WallClock

\* The page of a date offers the starts of that local day and of no other.
LEMMA PageDay ==
    ASSUME NEW z \in Zone, NEW date \in Date, NEW u \in Int
    PROVE  /\ DayStart(z, date) \in Int
           /\ DayStart(z, date + 1) \in Int
           /\ u \in DayStart(z, date)..(DayStart(z, date + 1) - 1) <=> LocalDate(z, u) = date
<1>1. z \in ZoneRow BY ZoneAssumption DEF ZoneRow
<1>2. date \in Int /\ date + 1 \in Int /\ Day \in Int BY RequestAssumption, CalendarAssumption
<1> DEFINE m(next) == (date + next) * Day
<1>3. ASSUME NEW next \in {0, 1}
      PROVE  /\ Instant(z, m(next), 0) \in Int
             /\ u >= Instant(z, m(next), 0) <=> WallClock(z, u) >= m(next)
  <2>1. m(next) \in Int BY <1>2
  <2>2. /\ z.at + z.before < m(next) => z.at + z.after <= m(next)
        /\ z.at + z.after < m(next) => z.at + z.before <= m(next)
    BY MidnightAssumption
  <2> HIDE DEF m
  <2> QED BY <1>1, <2>1, <2>2, MidnightDivides, ReadingType DEF Fold
<1>4. DayStart(z, date) = Instant(z, m(0), 0) /\ DayStart(z, date + 1) = Instant(z, m(1), 0)
  <2>1. date + 0 = date BY <1>2
  <2> QED BY <2>1 DEF DayStart
<1>5. WallClock(z, u) \in Int BY <1>1 DEF WallClock, ZoneRow
<1>6. LocalDate(z, u) = date <=> date * Day <= WallClock(z, u) /\ WallClock(z, u) < (date + 1) * Day
  BY <1>2, <1>5, DateAndTime DEF LocalDate
<1>7. m(0) = date * Day /\ m(1) = (date + 1) * Day /\ m(0) \in Int /\ m(1) \in Int
  <2>1. date + 0 = date BY <1>2
  <2> QED BY <1>2, <2>1
<1> HIDE DEF m
<1> QED BY <1>3, <1>4, <1>5, <1>6, <1>7

\* A start with its slot_id means itself.
LEMMA SlotIdIsExact ==
    ASSUME NEW z \in Zone, NEW date \in Date, NEW u \in Int, u # NoId,
           LocalDate(z, u) = date, NEW duration
    PROVE  resolve_slot_window(z, date, WallClock(z, u) % Day, duration, u)
               = {[start |-> u, end |-> u + duration]}
<1>1. z \in ZoneRow BY ZoneAssumption DEF ZoneRow
<1>2. WallClock(z, u) \in Int BY <1>1 DEF WallClock, ZoneRow
<1> DEFINE time == WallClock(z, u) % Day
<1>3. time \in Int /\ WallClock(z, u) = date * Day + time
  BY <1>2, DateAndTime DEF LocalDate
<1> HIDE DEF time
<1>4. u \in local_time_candidates(z, date, time)
  BY <1>1, <1>3, CandidatesExact, RequestAssumption
<1>5. resolve_local_slot_start(z, date, time, u) = {u}
  BY <1>4 DEF resolve_local_slot_start
<1> QED BY <1>5 DEF resolve_slot_window, time

-----------------------------------------------------------------------------
(* The desk uses the tables as Bookings does.                              *)

\* What the rest of the desk's state is.
DeskTypeOK ==
    /\ TypeOK
    /\ zone \in Zone
    /\ courts \subseteq Court
    /\ policy \in Settings
    /\ due \in [BookingId -> Int]

\* A request asks for windows and courts that Bookings knows.
LEMMA RequestType ==
    ASSUME DeskTypeOK, NEW q \in Request
    PROVE  /\ q.duration \in VALID_DURATIONS
           /\ Window(q) \subseteq Slot
           /\ resolve_court(q.court) \subseteq Court
<1> DEFINE R(date, time) ==
          [court: courts \cup {NoCourt}, date: {date}, time: {time},
           duration: VALID_DURATIONS, id: {NoId} \cup local_time_candidates(zone, date, time)]
<1>0. q \in UNION {R(date, time) : date \in Date, time \in 0..(Day - 1)}
  BY DEF Request
<1>1. PICK date \in Date, time \in 0..(Day - 1) : q \in R(date, time)
  <2> HIDE DEF R
  <2>1. PICK S \in {R(date, time) : date \in Date, time \in 0..(Day - 1)} : q \in S
    BY <1>0
  <2>2. \E date \in Date, time \in 0..(Day - 1) : S = R(date, time)
    BY <2>1
  <2> QED BY <2>1, <2>2
<1>2. q.date = date /\ q.time = time /\ q.duration \in VALID_DURATIONS
  BY <1>1
<1>3. resolve_local_slot_start(zone, date, time, q.id) \subseteq local_time_candidates(zone, date, time)
  BY DEF resolve_local_slot_start
<1>4. Window(q) \subseteq Slot
  BY <1>2, <1>3, WindowAssumption DEF Window, resolve_slot_window, DeskTypeOK
<1>5. resolve_court(q.court) \subseteq Court
  BY DEF resolve_court, DeskTypeOK
<1> QED BY <1>2, <1>4, <1>5

\* Every request of the desk is a request of Bookings or leaves its tables alone.
LEMMA DeskStepsAreBookings ==
    ASSUME DeskTypeOK, [DeskNext]_deskVars
    PROVE  [Next]_vars
<1>1. ASSUME NEW b \in BookingId, NEW q \in Request, BookAtDesk(b, q) PROVE Next
  BY <1>1, RequestType DEF BookAtDesk, Next, CustomerStep, AdminStep
<1>2. ASSUME NEW b \in BookingId, NEW q \in Request, CompleteMatch(b, q) PROVE Next
  BY <1>2, RequestType DEF CompleteMatch, Next, CustomerStep
<1>3. ASSUME NEW b \in BookingId, NEW q \in Request, MoveBooking(b, q) PROVE Next
  <2>1. booking[b].court \in Court BY RowOf DEF DeskTypeOK, Row, BookingRow
  <2>2. \E c \in Court, w \in Slot : AdminUpdate(b, c, w)
    BY <1>3, <2>1, RequestType DEF MoveBooking
  <2> QED BY <2>2 DEF Next, AdminStep
<1>4. ASSUME NEW b \in BookingId, LoseBooking(b) PROVE Next
  BY <1>4 DEF LoseBooking, Next, CustomerStep, AdminStep
<1>5. ASSUME NEW p \in Settings, UpdateSettings(p) PROVE UNCHANGED vars
  BY <1>5 DEF UpdateSettings, vars
<1>6. ASSUME NEW c \in Court, AddCourt(c) PROVE UNCHANGED vars
  BY <1>6 DEF AddCourt, vars
<1>7. ASSUME TimePasses PROVE Next
  BY <1>7 DEF TimePasses, Next, DeskTypeOK
<1>8. ASSUME UNCHANGED deskVars PROVE UNCHANGED vars
  BY <1>8 DEF deskVars, vars
<1> QED BY <1>1, <1>2, <1>3, <1>4, <1>5, <1>6, <1>7, <1>8 DEF DeskNext, RequestStep

-----------------------------------------------------------------------------
(* The deposit.                                                            *)

\* Money is a whole number of cents, and never less than nothing.
LEMMA MoneyType ==
    ASSUME NEW mills \in Nat
    PROVE  _money(mills) \in Nat
<1>1. mills \div 10 \in Nat /\ mills % 10 \in Nat OBVIOUS
<1> QED BY <1>1 DEF _money

\* The deposit of a public booking is an amount exactly when one is asked for.
LEMMA PublicDeposit ==
    ASSUME NEW p \in SettingsRow, NEW duration \in Nat
    PROVE  /\ calculate_public_booking_deposit(p, duration) \in Int
           /\ is_public_booking_deposit_enabled(p) <=> calculate_public_booking_deposit(p, duration) > 0
<1> DEFINE base == _money(p.base)
           extra == _money(p.extra)
           steps == (duration - p.included + p.step - 1) \div p.step
<1>1. base \in Nat /\ extra \in Nat /\ p.included \in Nat /\ p.step \in Nat
  BY MoneyType DEF SettingsRow
<1>2. CASE ~is_public_booking_deposit_enabled(p)
  BY <1>2 DEF calculate_public_booking_deposit
<1>3. CASE /\ is_public_booking_deposit_enabled(p)
           /\ duration <= p.included \/ extra = 0 \/ p.step = 0
  <2>1. base > 0 BY <1>3 DEF is_public_booking_deposit_enabled
  <2>2. calculate_public_booking_deposit(p, duration) = base
    BY <1>3 DEF calculate_public_booking_deposit
  <2> QED BY <1>1, <1>3, <2>1, <2>2
<1>4. CASE /\ is_public_booking_deposit_enabled(p)
           /\ duration > p.included /\ extra # 0 /\ p.step # 0
  <2>1. base > 0 BY <1>4 DEF is_public_booking_deposit_enabled
  <2>2. calculate_public_booking_deposit(p, duration) = base + extra * steps
    BY <1>1, <1>4 DEF calculate_public_booking_deposit
  <2>3. steps \in Nat
    <3> DEFINE minutes == duration - p.included + p.step - 1
    <3>1. minutes \in Nat /\ p.step \in Nat \ {0} BY <1>1, <1>4
    <3> HIDE DEF minutes
    <3>2. minutes \div p.step \in Nat BY <3>1
    <3> QED BY <3>2 DEF minutes
  <2> HIDE DEF base, extra, steps
  <2>4. extra * steps \in Nat BY <1>1, <2>3
  <2> QED BY <1>1, <1>4, <2>1, <2>2, <2>4
<1> QED BY <1>1, <1>2, <1>3, <1>4

\* So is the deposit of a match, which is not made with a deposit of nothing.
LEMMA MatchDeposit ==
    ASSUME NEW p \in SettingsRow, NEW duration \in Nat
    PROVE  LET terms == _resolve_play_community_deposit_terms(p, duration) IN
           /\ terms.amount \in Int
           /\ (terms.enabled => terms.amount > 0) => (terms.enabled <=> terms.amount > 0)
<1>1. _money(p.playAmount) \in Nat BY MoneyType DEF SettingsRow
<1> QED BY <1>1, PublicDeposit DEF _resolve_play_community_deposit_terms

-----------------------------------------------------------------------------
(* What bookings owe.                                                      *)

DeskInv == DeskTypeOK /\ HoldsOweMoney

\* A step after which every booking is an earlier one, with its deposit and its
\* debt, keeps the property.
LEMMA DebtsKept ==
    ASSUME HoldsOweMoney,
           \A o \in BookingId : Exists(o)' =>
               /\ Exists(o)
               /\ booking'[o].deposit = booking[o].deposit
               /\ due'[o] = due[o]
    PROVE  HoldsOweMoney'
  BY DEF HoldsOweMoney

\* A new booking is one row of the table.
LEMMA InsertedRow ==
    ASSUME DeskTypeOK, NEW b \in BookingId, NEW c, NEW s,
           CreatePublicBooking(b, c, s) \/ CreateAdminBooking(b, c, s) \/ CreatePlayBooking(b, c, s)
    PROVE  \A o \in BookingId \ {b} : booking'[o] = booking[o]
<1>1. \E row : Insert(b, row)
  BY DEF CreatePublicBooking, CreateAdminBooking, CreatePlayBooking
<1> QED BY <1>1 DEF Insert, DeskTypeOK, TypeOK

\* A booking owes what its deposit is when it is made.
LEMMA DebtMade ==
    ASSUME DeskInv, NEW b \in BookingId, NEW amount \in Int,
           \A o \in BookingId \ {b} : booking'[o] = booking[o],
           Owes(b, amount),
           booking'[b].deposit <=> amount > 0
    PROVE  HoldsOweMoney'
  BY DEF DeskInv, DeskTypeOK, HoldsOweMoney, Owes, Exists

\* Cancelling, expiring and moving keep the deposit of a booking.
LEMMA DepositKept ==
    ASSUME NEW row \in Row, NEW c \in Court, NEW s \in Slot
    PROVE  /\ ExpireRow(row).deposit = row.deposit
           /\ CancelRow(row).deposit = row.deposit
           /\ [row EXCEPT !.court = c, !.slot = s].deposit = row.deposit
           /\ [row EXCEPT !.court = c, !.slot = s].status = row.status
           /\ [CancelRow(row) EXCEPT !.completed = FALSE, !.noShow = FALSE,
                                     !.balance = FALSE].deposit = row.deposit
  BY DEF ExpireRow, CancelRow, Row, BookingRow

\* Losing a booking keeps what it owed, unless the row is gone.
LEMMA LoseStep ==
    ASSUME DeskInv, NEW b \in BookingId, LoseBooking(b)
    PROVE  HoldsOweMoney' /\ due' \in [BookingId -> Int]
<1>1. due' \in [BookingId -> Int]
  BY DEF LoseBooking, Owes, DeskInv, DeskTypeOK
<1>2. \A o \in BookingId \ {b} : booking'[o] = booking[o] /\ due'[o] = due[o]
  BY DEF LoseBooking, Owes, CancelWithoutRefund, AdminCancel, DeleteBooking, DeskInv, DeskTypeOK, TypeOK
<1>3. Exists(b)' => Exists(b) /\ booking'[b].deposit = booking[b].deposit /\ due'[b] = due[b]
  <2>1. booking[b] \in Row BY RowOf DEF DeskInv, DeskTypeOK
  <2>2. PICK c \in Court, s \in Slot : TRUE BY NonEmptyAssumption
  <2>3. CASE CancelWithoutRefund(b)
    <3>1. Exists(b) BY <2>3 DEF CancelWithoutRefund, PublicCancellable, Exists, Gone
    <3>2. booking'[b] = CancelRow(booking[b])
      BY <2>3 DEF CancelWithoutRefund, DeskInv, DeskTypeOK, TypeOK
    <3>3. booking'[b].status # "DELETED" BY <3>2, <2>1 DEF CancelRow, Row, BookingRow
    <3> QED BY <2>1, <2>2, <3>1, <3>2, <3>3, DepositKept DEF LoseBooking, Owes, DeskInv, DeskTypeOK
  <2>4. CASE AdminCancel(b)
    <3>1. Exists(b)
      BY <2>4 DEF AdminCancel, MayMoveTo, ADMIN_ALLOWED_STATUS_TRANSITIONS, Exists, Gone
    <3>2. booking'[b] = [CancelRow(booking[b]) EXCEPT !.completed = FALSE, !.noShow = FALSE,
                                                       !.balance = FALSE]
      BY <2>4 DEF AdminCancel, DeskInv, DeskTypeOK, TypeOK
    <3>3. booking'[b].status # "DELETED" BY <3>2, <2>1 DEF CancelRow, Row, BookingRow
    <3> QED BY <2>1, <2>2, <3>1, <3>2, <3>3, DepositKept DEF LoseBooking, Owes, DeskInv, DeskTypeOK
  <2>5. CASE DeleteBooking(b)
    <3>1. booking'[b].status = "DELETED"
      BY <2>5 DEF DeleteBooking, NoBooking, NewBooking, DeskInv, DeskTypeOK, TypeOK
    <3> QED BY <3>1 DEF Exists, Gone
  <2> QED BY <2>3, <2>4, <2>5 DEF LoseBooking
<1>4. \A o \in BookingId \ {b} : Exists(o)' => Exists(o) BY <1>2 DEF Exists
<1> QED BY <1>1, <1>2, <1>3, <1>4, DebtsKept DEF DeskInv

\* Every step of the desk keeps the invariant.
LEMMA DeskNextInv == DeskInv /\ [DeskNext]_deskVars => DeskInv'
<1> SUFFICES ASSUME DeskInv, [DeskNext]_deskVars PROVE DeskInv' OBVIOUS
<1> USE DEF DeskInv, DeskTypeOK
<1>0. TypeOK' BY DeskStepsAreBookings, NextType
<1>p. policy \in SettingsRow BY SettingsAssumption
<1>1. ASSUME NEW b \in BookingId, NEW q \in Request, BookAtDesk(b, q) PROVE DeskInv'
  <2> DEFINE amount == calculate_public_booking_deposit(policy, q.duration)
  <2>1. q.duration \in Nat BY RequestType, RequestAssumption
  <2>2. /\ amount \in Int
        /\ is_public_booking_deposit_enabled(policy) <=> amount > 0
    BY <2>1, <1>p, PublicDeposit
  <2>3. /\ \A o \in BookingId \ {b} : booking'[o] = booking[o]
        /\ booking'[b].deposit = is_public_booking_deposit_enabled(policy)
        /\ Owes(b, amount)
        /\ UNCHANGED <<zone, courts, policy>>
    BY <1>1, InsertedRow DEF BookAtDesk
  <2> HIDE DEF amount
  <2>4. HoldsOweMoney' BY <2>2, <2>3, DebtMade
  <2> QED BY <1>0, <2>2, <2>3, <2>4 DEF Owes
<1>2. ASSUME NEW b \in BookingId, NEW q \in Request, CompleteMatch(b, q) PROVE DeskInv'
  <2> DEFINE terms == _resolve_play_community_deposit_terms(policy, q.duration)
  <2>1. q.duration \in Nat BY RequestType, RequestAssumption
  <2>2. /\ terms.amount \in Int
        /\ terms.enabled <=> terms.amount > 0
    BY <1>2, <2>1, <1>p, MatchDeposit DEF CompleteMatch
  <2>3. /\ \A o \in BookingId \ {b} : booking'[o] = booking[o]
        /\ booking'[b].deposit = terms.enabled
        /\ Owes(b, terms.amount)
        /\ UNCHANGED <<zone, courts, policy>>
    BY <1>2, InsertedRow DEF CompleteMatch
  <2> HIDE DEF terms
  <2>4. HoldsOweMoney' BY <2>2, <2>3, DebtMade
  <2> QED BY <1>0, <2>2, <2>3, <2>4 DEF Owes
<1>3. ASSUME NEW b \in BookingId, NEW q \in Request, MoveBooking(b, q) PROVE DeskInv'
  <2>0. booking[b] \in Row BY RowOf
  <2>1. PICK c \in Court, s \in Slot : AdminUpdate(b, c, s)
    BY <1>3, <2>0, RequestType DEF MoveBooking, Row, BookingRow
  <2>2. booking' = [booking EXCEPT ![b] = [booking[b] EXCEPT !.court = c, !.slot = s]]
    BY <2>1 DEF AdminUpdate, TypeOK
  <2>3. UNCHANGED <<zone, courts, policy, due>> BY <1>3 DEF MoveBooking
  <2>4. \A o \in BookingId : /\ Exists(o)' <=> Exists(o)
                             /\ booking'[o].deposit = booking[o].deposit
    <3>1. /\ booking'[b].deposit = booking[b].deposit /\ booking'[b].status = booking[b].status
          /\ \A o \in BookingId \ {b} : booking'[o] = booking[o]
      BY <2>0, <2>2, DepositKept DEF TypeOK
    <3> QED BY <3>1 DEF Exists
  <2> QED BY <1>0, <2>3, <2>4, DebtsKept
<1>4. ASSUME NEW b \in BookingId, LoseBooking(b) PROVE DeskInv'
  <2>1. HoldsOweMoney' /\ due' \in [BookingId -> Int] BY <1>4, LoseStep
  <2> QED BY <1>0, <1>4, <2>1 DEF LoseBooking
<1>5. ASSUME NEW p \in Settings, UpdateSettings(p) PROVE DeskInv'
  BY <1>0, <1>5, DebtsKept DEF UpdateSettings, Exists
<1>6. ASSUME NEW c \in Court, AddCourt(c) PROVE DeskInv'
  BY <1>0, <1>6, DebtsKept DEF AddCourt, Exists
<1>7. ASSUME TimePasses PROVE DeskInv'
  <2>1. UNCHANGED <<zone, courts, policy, due>> BY <1>7 DEF TimePasses
  <2>2. CASE ExpirePendingJob
    <3>1. ASSUME NEW o \in BookingId
          PROVE  (Exists(o)' => Exists(o)) /\ booking'[o].deposit = booking[o].deposit
      <4>1. booking[o] \in Row BY RowOf
      <4>2. PICK c \in Court, s \in Slot : TRUE BY NonEmptyAssumption
      <4>3. ExpireRow(booking[o]).deposit = booking[o].deposit BY <4>1, <4>2, DepositKept
      <4>4. \/ booking'[o] = booking[o]
            \/ HoldLapsed(booking[o], now) /\ booking'[o] = ExpireRow(booking[o])
        BY <2>2 DEF ExpirePendingJob, Expire
      <4> QED BY <4>3, <4>4 DEF Exists, HoldLapsed, Gone
    <3> QED BY <1>0, <2>1, <3>1, DebtsKept
  <2>3. CASE UNCHANGED booking
    BY <1>0, <2>1, <2>3, DebtsKept DEF Exists
  <2> QED BY <1>7, <2>2, <2>3 DEF TimePasses, Tick, CreateBlackout
<1>8. ASSUME UNCHANGED deskVars PROVE DeskInv'
  BY <1>0, <1>8, DebtsKept DEF deskVars, Exists
<1> QED BY <1>1, <1>2, <1>3, <1>4, <1>5, <1>6, <1>7, <1>8 DEF DeskNext, RequestStep

\* The desk starts with an empty table.
LEMMA DeskInitInv == DeskInit => DeskInv
<1> SUFFICES ASSUME DeskInit PROVE DeskInv OBVIOUS
<1>1. TypeOK BY InitType DEF DeskInit
<1>2. HoldsOweMoney
  <2>1. \A b \in BookingId : ~Exists(b)
    BY DEF DeskInit, Init, NoBooking, NewBooking, Exists, Gone
  <2> QED BY <2>1 DEF HoldsOweMoney
<1> QED BY <1>1, <1>2, CourtAssumption DEF DeskInv, DeskTypeOK, DeskInit

\* A booking that asks for a deposit owes an amount, for whatever settings are
\* saved and however it is moved.  (calculate_public_booking_deposit,
\* _resolve_play_community_deposit_terms)
THEOREM DepositsAreOwed == DeskSpec => []HoldsOweMoney
<1>1. DeskInv => HoldsOweMoney BY DEF DeskInv
<1> QED BY <1>1, DeskInitInv, DeskNextInv, PTL DEF DeskSpec

\* The desk implements Bookings: whatever dates, times and settings requests
\* come with, the tables change only as they do there, so the theorems about
\* them hold at the desk.
THEOREM DeskImplementsBookings == DeskSpec => Spec
<1>1. DeskInit => Init BY DEF DeskInit
<1>2. DeskInv /\ [DeskNext]_deskVars => [Next]_vars
  BY DeskStepsAreBookings DEF DeskInv
<1> QED BY <1>1, <1>2, DeskInitInv, DeskNextInv, PTL DEF DeskSpec, Spec

-----------------------------------------------------------------------------
(* The page.                                                               *)

\* The first part: the page of a date is that local day.
LEMMA PageDayHeld == DeskTypeOK => PageListsTheDay
<1> SUFFICES ASSUME DeskTypeOK, NEW date \in Date, NEW s \in Slot
             PROVE  s.start \in iter_local_slot_starts(zone, date)
                        <=> /\ LocalDate(zone, s.start) = date
                            /\ (s.start - DayStart(zone, date)) % Step = 0
  BY DEF PageListsTheDay
<1>1. s.start \in Int BY SlotAssumption
<1> QED BY <1>1, PageDay DEF iter_local_slot_starts, DeskTypeOK

\* The second: a time without a slot_id is the first instant that shows it.
LEMMA FirstStartHeld == DeskTypeOK => TypedTimeIsFirst
<1> SUFFICES ASSUME DeskTypeOK, NEW date \in Date, NEW time \in 0..(Day - 1)
             PROVE  LET shown == {u \in {s.start : s \in Slot} : WallClock(zone, u) = date * Day + time}
                    IN  shown # {} \/ resolve_local_slot_start(zone, date, time, NoId) # {} =>
                        \E u \in shown : /\ resolve_local_slot_start(zone, date, time, NoId) = {u}
                                         /\ \A v \in shown : u <= v
  BY DEF TypedTimeIsFirst
<1> DEFINE shown == {u \in {s.start : s \in Slot} : WallClock(zone, u) = date * Day + time}
           cand == local_time_candidates(zone, date, time)
           first == {u \in cand : \A v \in cand : u <= v}
<1>1. zone \in ZoneRow BY ZoneAssumption DEF ZoneRow, DeskTypeOK
<1>2. date \in Int /\ time \in Int /\ Day \in Int BY RequestAssumption, CalendarAssumption
<1>3. cand = {u \in Int : WallClock(zone, u) = date * Day + time}
  BY <1>1, <1>2, CandidatesExact
<1>4. shown \subseteq cand BY <1>3, SlotAssumption
<1>5. cand \subseteq shown
  <2> SUFFICES ASSUME NEW u \in cand PROVE u \in shown OBVIOUS
  <2>1. PICK duration \in VALID_DURATIONS : TRUE BY RequestAssumption
  <2>2. [start |-> u, end |-> u + duration] \in Slot BY <2>1, WindowAssumption DEF DeskTypeOK
  <2>3. u \in {s.start : s \in Slot} BY <2>2
  <2> QED BY <1>3, <2>3
<1>6. PICK i \in Int, j \in Int : cand \subseteq {i, j}
  <2>1. date * Day + time \in Int BY <1>2
  <2>2. cand \subseteq {Instant(zone, date * Day + time, 0), Instant(zone, date * Day + time, 1)}
    BY DEF local_time_candidates, Fold
  <2> QED BY <1>1, <2>1, <2>2, ReadingType DEF Fold
<1>7. resolve_local_slot_start(zone, date, time, NoId) = first
  BY DEF resolve_local_slot_start
<1> HIDE DEF cand, shown
<1>8. cand # {} => \E u \in cand : first = {u} /\ \A v \in cand : u <= v
  <2> SUFFICES ASSUME NEW w \in cand
               PROVE  \E u \in cand : first = {u} /\ \A v \in cand : u <= v
    OBVIOUS
  <2>1. cand \subseteq Int BY <1>3
  <2>2. PICK u \in cand : \A v \in cand : u <= v
    <3>1. CASE i \in cand /\ j \in cand
      <4>1. i <= j \/ j <= i OBVIOUS
      <4>2. \A v \in cand : v = i \/ v = j BY <1>6
      <4>3. i <= i /\ j <= j OBVIOUS
      <4> QED BY <3>1, <4>1, <4>2, <4>3
    <3>2. CASE ~(i \in cand /\ j \in cand)
      <4>1. \A v \in cand : v = w BY <1>6, <3>2
      <4>2. w <= w BY <2>1
      <4> QED BY <4>1, <4>2
    <3> QED BY <3>1, <3>2
  <2>3. u \in first BY <2>2
  <2>4. \A x \in first : x = u
    <3> SUFFICES ASSUME NEW x \in first PROVE x = u OBVIOUS
    <3>1. x \in cand /\ x <= u BY <2>2
    <3> QED BY <2>1, <2>2, <3>1
  <2> HIDE DEF first
  <2> QED BY <2>2, <2>3, <2>4
<1>9. first # {} => cand # {} OBVIOUS
<1> QED BY <1>4, <1>5, <1>7, <1>8, <1>9 DEF shown

\* What may be in the way of a window that starts on a date is in the span the
\* page of that date looks at.
LEMMA SpanSuffices ==
    ASSUME DeskTypeOK, NEW date \in Date, NEW duration \in VALID_DURATIONS,
           NEW u \in Int, LocalDate(zone, u) = date,
           NEW k \in Slot \cup Period,
           Overlaps(k, [start |-> u, end |-> u + duration])
    PROVE  Overlaps(k, PageSpan(date, duration))
<1>1. /\ DayStart(zone, date) \in Int /\ DayStart(zone, date + 1) \in Int
      /\ DayStart(zone, date) <= u /\ u < DayStart(zone, date + 1)
  BY PageDay DEF DeskTypeOK
<1>2. duration \in Nat /\ k.start \in Int /\ k.end \in Int
  BY RequestAssumption, SlotAssumption, PeriodAssumption
<1> QED BY <1>1, <1>2 DEF Overlaps, PageSpan

\* The third: the page offers what a request would get.
LEMMA PageOffersHeld == DeskTypeOK => PageIsTheDesk
<1> SUFFICES ASSUME DeskTypeOK, NEW date \in Date, NEW duration \in VALID_DURATIONS, NEW c \in courts
             PROVE  build_daily_slots(c, date, duration) =
                        {u \in iter_local_slot_starts(zone, date) :
                            LET s == [start |-> u, end |-> u + duration]
                            IN  Future(s) /\ SlotAvailable(NewId, c, s)}
  BY DEF PageIsTheDesk, Page
<1> DEFINE blocked == load_daily_court_block_windows(c, date, duration)
           W(u) == [start |-> u, end |-> u + duration]
<1> SUFFICES ASSUME NEW u \in iter_local_slot_starts(zone, date)
             PROVE  /\ u > now
                    /\ \E w \in resolve_slot_window(zone, date, WallClock(zone, u) % Day, duration, u) :
                          \A k \in blocked : ~Overlaps(k, w)
                    <=> Future(W(u)) /\ SlotAvailable(NewId, c, W(u))
  BY DEF build_daily_slots
<1>1. u \in Int /\ LocalDate(zone, u) = date
  <2>1. DayStart(zone, date) \in Int /\ DayStart(zone, date + 1) \in Int
    <3>1. 0 \in Int OBVIOUS
    <3> QED BY <3>1, PageDay DEF DeskTypeOK
  <2>2. u \in DayStart(zone, date)..(DayStart(zone, date + 1) - 1)
    BY DEF iter_local_slot_starts
  <2>3. u \in Int BY <2>1, <2>2
  <2> QED BY <2>2, <2>3, PageDay DEF DeskTypeOK
<1>2. now \in Nat BY TimeAssumption DEF DeskTypeOK, TypeOK
<1>3. u > now <=> Future(W(u)) BY DEF Future
<1>4. u > now =>
        resolve_slot_window(zone, date, WallClock(zone, u) % Day, duration, u) = {W(u)}
  BY <1>1, <1>2, SlotIdIsExact DEF NoId, DeskTypeOK
<1>5. (\A k \in blocked : ~Overlaps(k, W(u))) <=> SlotAvailable(NewId, c, W(u))
  <2> DEFINE taken == {booking[b].slot : b \in {x \in BookingId : Blocking(booking[x])
                                                                 /\ booking[x].court = c}}
             shut == {k.slot : k \in {y \in blackouts : y.court = c}}
  <2>1. blocked = {w \in taken \cup shut : Overlaps(w, PageSpan(date, duration))}
    BY DEF load_daily_court_block_windows
  <2>2. taken \subseteq Slot BY RowOf DEF DeskTypeOK, Row, BookingRow
  <2>3. shut \subseteq Period BY DEF DeskTypeOK, TypeOK, Blackout
  <2>4. SlotAvailable(NewId, c, W(u)) <=> \A k \in taken \cup shut : ~Overlaps(k, W(u))
    <3>1. Conflicts(NewId, c, W(u)) <=> \E k \in taken : Overlaps(k, W(u))
      BY NewIdAssumption DEF Conflicts
    <3>2. BlackedOut(c, W(u)) <=> \E k \in shut : Overlaps(k, W(u))
      BY DEF BlackedOut
    <3> HIDE DEF taken, shut
    <3> QED BY <3>1, <3>2 DEF SlotAvailable
  <2> HIDE DEF taken, shut
  <2>5. \A k \in taken \cup shut : Overlaps(k, W(u)) => Overlaps(k, PageSpan(date, duration))
    BY <1>1, <2>2, <2>3, SpanSuffices
  <2> HIDE DEF blocked, W
  <2> QED BY <2>1, <2>4, <2>5
<1> QED BY <1>3, <1>4, <1>5

\* The availability page tells the truth in every zone whose clock never steps
\* over a midnight: it lists the local day, and offers exactly what a request
\* would get.  (build_daily_slots, load_daily_court_block_windows)
THEOREM PageTellsTheTruth == DeskSpec => []PageIsTrue
<1>1. DeskInv => PageIsTrue
  BY PageDayHeld, FirstStartHeld, PageOffersHeld DEF DeskInv, PageIsTrue
<1> QED BY <1>1, DeskInitInv, DeskNextInv, PTL DEF DeskSpec

-----------------------------------------------------------------------------
(* Recurring series: what a request does to the rows.                      *)

\* The first of one week comes after the last of the week before.
LEMMA WeeksApart ==
    ASSUME NEW d \in Schedule, NEW s \in RecurringDates(d), NEW t \in RecurringDates(d), s # t
    PROVE  ~Overlaps(s, t)
<1>1. PICK v \in d.first..d.last : s = Occurrence(d, v) BY DEF RecurringDates
<1>2. PICK w \in d.first..d.last : t = Occurrence(d, w) BY DEF RecurringDates
<1>3. /\ d.first \in Nat /\ d.last \in Nat /\ d.time \in Nat /\ d.duration \in Nat
      /\ d.duration <= Week /\ Week \in Nat
  BY ScheduleAssumption, SeriesAssumption
<1>4. v \in Nat /\ w \in Nat /\ v # w BY <1>1, <1>2, <1>3
<1>5. ASSUME NEW x \in Nat, NEW y \in Nat, x < y
      PROVE  x * Week + d.time + d.duration <= y * Week + d.time
  <2>1. PICK k \in Nat : y = x + 1 + k
    <3>1. y - x - 1 \in Nat /\ y = x + 1 + (y - x - 1) BY <1>5
    <3> QED BY <3>1
  <2>2. k * Week \in Nat /\ x * Week \in Nat BY <1>3
  <2>3. y * Week = x * Week + Week + k * Week BY <2>1, <1>3
  <2> QED BY <2>2, <2>3, <1>3
<1>6. /\ s.start = v * Week + d.time /\ s.end = v * Week + d.time + d.duration
      /\ t.start = w * Week + d.time /\ t.end = w * Week + d.time + d.duration
  BY <1>1, <1>2 DEF Occurrence
<1>7. v * Week \in Nat /\ w * Week \in Nat BY <1>3, <1>4
<1>8. CASE v < w
  <2>1. s.end <= t.start BY <1>8, <1>5, <1>4, <1>6
  <2> QED BY ONLY <2>1, <1>6, <1>7, <1>3 DEF Overlaps
<1>9. CASE w < v
  <2>1. t.end <= s.start BY <1>9, <1>5, <1>4, <1>6
  <2> QED BY ONLY <2>1, <1>6, <1>7, <1>3 DEF Overlaps
<1> QED BY <1>8, <1>9, <1>4

\* A booking after a request to cancel those of B: cancelled, or as it was.
LEMMA CancelledRow ==
    ASSUME TypeOK, NEW b \in BookingId, NEW B
    PROVE  /\ CancelledAmong(B)[b] \in Row
           /\ CancelledAmong(B)[b].deposit = booking[b].deposit
           /\ \/ /\ b \notin B \/ ~MayMoveTo(b, "CANCELLED")
                 /\ CancelledAmong(B)[b] = booking[b]
              \/ /\ b \in B /\ MayMoveTo(b, "CANCELLED")
                 /\ CancelledAmong(B)[b].status = "CANCELLED"
                 /\ CancelledAmong(B)[b].balance = FALSE
<1> DEFINE row == [CancelRow(booking[b]) EXCEPT !.completed = FALSE, !.noShow = FALSE,
                                                !.balance = FALSE]
<1>1. booking[b] \in Row BY RowOf
<1>2. CancelRow(booking[b]) \in Row /\ CancelRow(booking[b]).status = "CANCELLED"
      /\ CancelRow(booking[b]).deposit = booking[b].deposit
  <2>1. PICK p \in OnlineProvider : TRUE BY DEF OnlineProvider
  <2> QED BY <1>1, <2>1, RowTypes DEF CancelRow, Row, BookingRow
<1>3. /\ row \in Row /\ row.status = "CANCELLED" /\ row.balance = FALSE
      /\ row.deposit = booking[b].deposit
  BY <1>2 DEF Row, BookingRow
<1>4. CancelledAmong(B)[b] = IF b \in B /\ MayMoveTo(b, "CANCELLED") THEN row ELSE booking[b]
  BY DEF CancelledAmong
<1> HIDE DEF row
<1> QED BY <1>1, <1>3, <1>4

\* The dates are booked: each id of new is a new occurrence of series r on the
\* date that at gives it, and the other rows are those given.
Booked(r, rows, dates, c, new, at) ==
    /\ new \subseteq Absent
    /\ at \in [new -> dates]
    /\ \A a, b \in new : at[a] = at[b] => a = b
    /\ \A s \in dates : \E b \in new : at[b] = s
    /\ \A b \in BookingId :
          IF b \in new
          THEN /\ seriesOf'[b] = r
               /\ booking'[b] = NewBooking("CONFIRMED", c, at[b], FALSE, "NONE", NoTime, "admin")
          ELSE /\ seriesOf'[b] = seriesOf[b]
               /\ booking'[b] = rows[b]
    /\ DOMAIN booking' = BookingId /\ booking' = [b \in BookingId |-> booking'[b]]
    /\ seriesOf' = [b \in BookingId |-> seriesOf'[b]]

LEMMA BookDatesBooks ==
    ASSUME NEW r, NEW rows, NEW dates, NEW c, BookDates(r, rows, dates, c)
    PROVE  \E new \in SUBSET Absent : \E at \in [new -> dates] : Booked(r, rows, dates, c, new, at)
<1>0. PICK new \in SUBSET Absent : \E at \in Bijection(new, dates) :
          /\ booking' = Occupied(rows, at, c)
          /\ seriesOf' = [b \in BookingId |-> IF b \in new THEN r ELSE seriesOf[b]]
  BY DEF BookDates
<1>1. PICK at \in Bijection(new, dates) :
          /\ booking' = Occupied(rows, at, c)
          /\ seriesOf' = [b \in BookingId |-> IF b \in new THEN r ELSE seriesOf[b]]
  BY <1>0
<1>2. /\ at \in [new -> dates]
      /\ \A a, b \in new : at[a] = at[b] => a = b
      /\ \A s \in dates : \E b \in new : at[b] = s
  BY DEF Bijection, Injection, Surjection, IsInjective
<1>3. DOMAIN at = new BY <1>2
<1>4. booking' = [b \in BookingId |->
          IF b \in new
          THEN NewBooking("CONFIRMED", c, at[b], FALSE, "NONE", NoTime, "admin")
          ELSE rows[b]]
  BY <1>1, <1>3 DEF Occupied
<1>5. ASSUME NEW b \in BookingId
      PROVE  IF b \in new
             THEN /\ seriesOf'[b] = r
                  /\ booking'[b] = NewBooking("CONFIRMED", c, at[b], FALSE, "NONE", NoTime, "admin")
             ELSE /\ seriesOf'[b] = seriesOf[b]
                  /\ booking'[b] = rows[b]
  BY <1>1, <1>4
<1>6. /\ DOMAIN booking' = BookingId /\ booking' = [b \in BookingId |-> booking'[b]]
      /\ seriesOf' = [b \in BookingId |-> seriesOf'[b]]
  BY <1>1, <1>4
<1>7. Booked(r, rows, dates, c, new, at) BY <1>2, <1>5, <1>6 DEF Booked
<1> QED BY <1>2, <1>7

\* A row that is not in the table belongs to no series.
Unclaimed == \A b \in Absent : seriesOf[b] = NoSeries

\* The invariant the theorems rest on.
RowsInv == TypeOK /\ SeriesTypeOK /\ Unclaimed /\ OutcomeAfterTheFact /\ NoDoubleBooking

\* A request on a series: bookings that are still to be played are cancelled,
\* and what the constraint accepts of a schedule's dates is booked.
Books(r, B, dates, c) ==
    /\ B \subseteq BookingId
    /\ \E d \in Schedule : dates \subseteq RecurringDates(d)
    /\ Accepted(CancelledAmong(B), dates)
    /\ BookDates(r, CancelledAmong(B), dates, c)
    /\ UNCHANGED <<now, payment, blackouts>>

LEMMA BooksKeepsRows ==
    ASSUME RowsInv, NEW r \in SeriesId, NEW B, NEW dates, NEW c \in Court, Books(r, B, dates, c),
           series' \in [SeriesId -> SeriesRow]
    PROVE  RowsInv'
<1> DEFINE rows == CancelledAmong(B)
<1>1. PICK d \in Schedule : dates \subseteq RecurringDates(d) BY DEF Books
<1>2a. PICK new \in SUBSET Absent : \E at \in [new -> dates] : Booked(r, rows, dates, c, new, at)
  BY BookDatesBooks DEF Books
<1>2. PICK at \in [new -> dates] : Booked(r, rows, dates, c, new, at)
  BY <1>2a
<1>3. /\ Accepted(rows, dates)
      /\ now' = now /\ payment' = payment /\ blackouts' = blackouts
  BY DEF Books
<1>4. TypeOK /\ SeriesTypeOK /\ Unclaimed /\ OutcomeAfterTheFact /\ NoDoubleBooking
  BY DEF RowsInv
<1>5. ASSUME NEW b \in BookingId, b \notin new
      PROVE  /\ booking'[b] = rows[b] /\ seriesOf'[b] = seriesOf[b]
             /\ booking'[b] \in Row
             /\ booking'[b].deposit = booking[b].deposit
             /\ \/ booking'[b] = booking[b]
                \/ /\ booking'[b].status = "CANCELLED" /\ booking'[b].balance = FALSE
                   /\ MayMoveTo(b, "CANCELLED")
  <2>1. booking'[b] = rows[b] /\ seriesOf'[b] = seriesOf[b] BY <1>2, <1>5 DEF Booked
  <2>2. /\ rows[b] \in Row /\ rows[b].deposit = booking[b].deposit
        /\ \/ rows[b] = booking[b]
           \/ /\ rows[b].status = "CANCELLED" /\ rows[b].balance = FALSE
              /\ MayMoveTo(b, "CANCELLED")
    BY <1>4, CancelledRow
  <2> HIDE DEF rows
  <2> QED BY <2>1, <2>2
<1>6. ASSUME NEW b \in new
      PROVE  /\ booking'[b] \in Row /\ seriesOf'[b] = r
             /\ booking'[b].status = "CONFIRMED" /\ booking'[b].court = c
             /\ booking'[b].slot = at[b] /\ at[b] \in dates /\ at[b] \in RecurringDates(d)
             /\ booking'[b].deposit = FALSE /\ booking'[b].balance = FALSE
  <2>0. b \in BookingId BY DEF Absent
  <2>1. /\ booking'[b] = NewBooking("CONFIRMED", c, at[b], FALSE, "NONE", NoTime, "admin")
        /\ seriesOf'[b] = r /\ at[b] \in dates
    BY <1>2, <2>0 DEF Booked
  <2>2. at[b] \in RecurringDates(d) BY <2>1, <1>1
  <2>3. at[b] \in Slot BY <2>2, ScheduleAssumption
  <2>4. booking'[b] \in Row
    <3>1. NoTime \in Int BY DEF NoTime
    <3>2. NewBooking("CONFIRMED", c, at[b], FALSE, "NONE", NoTime, "admin") \in Row
      BY <2>3, <3>1, NewBookingType DEF BookingStatus, PaymentProvider, Origin
    <3> QED BY <3>2, <2>1
  <2> QED BY <2>1, <2>2, <2>4 DEF NewBooking
<1>7. TypeOK'
  <2>1. booking' = [b \in BookingId |-> booking'[b]] BY <1>2 DEF Booked
  <2>2. \A b \in BookingId : booking'[b] \in Row BY <1>5, <1>6
  <2>3. booking' \in [BookingId -> Row] BY <2>1, <2>2
  <2> QED BY <2>3, <1>3, <1>4 DEF TypeOK, Row, Blackout
<1>8. SeriesTypeOK'
  <2>1. seriesOf' = [b \in BookingId |-> seriesOf'[b]] BY <1>2 DEF Booked
  <2>2. \A b \in BookingId : seriesOf'[b] \in SeriesId \cup {NoSeries}
    BY <1>4, <1>5, <1>6 DEF SeriesTypeOK
  <2>3. seriesOf' \in [BookingId -> SeriesId \cup {NoSeries}] BY <2>1, <2>2
  <2>4. ASSUME NEW b \in BookingId, Exists(b)', seriesOf'[b] # NoSeries PROVE ~booking'[b].deposit
    <3>1. CASE b \in new BY <3>1, <1>6
    <3>2. CASE b \notin new
      <4>1. MayMoveTo(b, "CANCELLED") => Exists(b)
        BY DEF MayMoveTo, ADMIN_ALLOWED_STATUS_TRANSITIONS, Exists, Gone
      <4>2. Exists(b) BY <4>1, <3>2, <2>4, <1>5 DEF Exists
      <4> QED BY <4>2, <3>2, <2>4, <1>5, <1>4 DEF SeriesTypeOK
    <3> QED BY <3>1, <3>2
  <2> QED BY <2>3, <2>4 DEF SeriesTypeOK
<1>9. Unclaimed'
  <2> SUFFICES ASSUME NEW b \in BookingId, booking'[b].status = "ABSENT" PROVE seriesOf'[b] = NoSeries
    BY DEF Unclaimed, Absent
  <2>1. b \notin new BY <1>6
  <2> QED BY <2>1, <1>5, <1>4 DEF Unclaimed, Absent
<1>10. OutcomeAfterTheFact'
  <2> SUFFICES ASSUME NEW b \in BookingId PROVE Timely(booking[b])'
    BY DEF OutcomeAfterTheFact, Timely, Exists
  <2>1. CASE b \in new BY <2>1, <1>6 DEF Timely, BALANCE_ALLOWED_STATUSES
  <2>2. CASE b \notin new BY <2>2, <1>5, <1>4, <1>3, TimelyRow DEF Timely
  <2> QED BY <2>1, <2>2
<1>11. NoDoubleBooking'
  <2> SUFFICES ASSUME NEW a \in BookingId, NEW b \in BookingId, a # b,
                      Blocking(booking'[a]), Blocking(booking'[b]),
                      booking'[a].court = booking'[b].court
               PROVE  ~Overlaps(booking'[a].slot, booking'[b].slot)
    BY DEF NoDoubleBooking
  <2>1. ASSUME NEW o \in BookingId, o \notin new, Blocking(booking'[o])
        PROVE  booking'[o] = booking[o] /\ Blocking(booking[o]) /\ Blocking(rows[o])
    BY <2>1, <1>5 DEF Blocking, BLOCKING_STATUSES
  <2>2. CASE a \in new /\ b \in new
    <3>1. at[a] # at[b] BY <2>2, <1>2 DEF Booked
    <3> QED BY <3>1, <2>2, <1>6, WeeksApart
  <2>3. CASE a \in new /\ b \notin new
    <3>1. ~Overlaps(booking'[b].slot, booking'[a].slot)
      BY <2>3, <2>1, <1>5, <1>6, <1>3 DEF Accepted
    <3> QED BY <3>1 DEF Overlaps
  <2>4. CASE a \notin new /\ b \in new
    BY <2>4, <2>1, <1>5, <1>6, <1>3 DEF Accepted
  <2>5. CASE a \notin new /\ b \notin new
    BY <2>5, <2>1, <1>4 DEF NoDoubleBooking
  <2> QED BY <2>2, <2>3, <2>4, <2>5
<1> QED BY <1>7, <1>8, <1>9, <1>10, <1>11 DEF RowsInv

\* A request that only cancels books no date.
LEMMA CancelBooks ==
    ASSUME TypeOK, SeriesTypeOK, NEW r, NEW B \in SUBSET BookingId, NEW c,
           booking' = CancelledAmong(B), seriesOf' = seriesOf,
           UNCHANGED <<now, payment, blackouts>>
    PROVE  Books(r, B, {}, c)
<1> DEFINE at == [x \in {} |-> x]
<1>1. at \in Bijection({}, {}) BY DEF Bijection, Injection, Surjection, IsInjective
<1>2. booking' = Occupied(CancelledAmong(B), at, c)
  BY DEF Occupied, CancelledAmong
<1>3. seriesOf' = [b \in BookingId |-> IF b \in {} THEN r ELSE seriesOf[b]]
  BY DEF SeriesTypeOK
<1>4. BookDates(r, CancelledAmong(B), {}, c)
  <2> HIDE DEF at
  <2>1. {} \in SUBSET Absent OBVIOUS
  <2> QED BY <1>1, <1>2, <1>3, <2>1 DEF BookDates
<1>5. Accepted(CancelledAmong(B), {}) BY DEF Accepted
<1>6. \E d \in Schedule : {} \subseteq RecurringDates(d) BY ScheduleAssumption
<1> QED BY <1>4, <1>5, <1>6 DEF Books

\* A series has its type, whatever becomes of it.
LEMMA SeriesRowType ==
    ASSUME SeriesTypeOK, NEW r \in SeriesId, NEW c \in Court, NEW d \in Schedule
    PROVE  /\ [series EXCEPT ![r] = [status |-> "LIVE", court |-> c, schedule |-> d]]
                 \in [SeriesId -> SeriesRow]
           /\ [series EXCEPT ![r].court = c, ![r].schedule = d] \in [SeriesId -> SeriesRow]
           /\ [series EXCEPT ![r] = NoSeriesRow("DELETED")] \in [SeriesId -> SeriesRow]
<1>1. (CHOOSE x \in Court : TRUE) \in Court /\ (CHOOSE x \in Schedule : TRUE) \in Schedule
  BY NonEmptyAssumption, ScheduleAssumption
<1>2. NoSeriesRow("DELETED") \in SeriesRow BY <1>1 DEF NoSeriesRow, SeriesRow, Gone
<1>3. [status |-> "LIVE", court |-> c, schedule |-> d] \in SeriesRow BY DEF SeriesRow
<1>4. series \in [SeriesId -> SeriesRow] BY DEF SeriesTypeOK
<1>5. [series[r] EXCEPT !.court = c, !.schedule = d] \in SeriesRow BY <1>4 DEF SeriesRow
<1>6. [series EXCEPT ![r].court = c, ![r].schedule = d]
        = [series EXCEPT ![r] = [series[r] EXCEPT !.court = c, !.schedule = d]]
  BY <1>4
<1> QED BY <1>2, <1>3, <1>4, <1>5, <1>6

\* Requests on a series, and on several occurrences at once.
LEMMA SeriesBooks ==
    ASSUME RowsInv, NEW r \in SeriesId,
           \/ \E c \in Court, d \in Schedule : CreateSeries(r, c, d) \/ UpdateSeries(r, c, d)
           \/ CancelSeries(r)
    PROVE  /\ \E c \in Court : \E B, dates : Books(r, B, dates, c)
           /\ series' \in [SeriesId -> SeriesRow]
<1>1. TypeOK /\ SeriesTypeOK BY DEF RowsInv
<1>2. ASSUME NEW c \in Court, NEW d \in Schedule, CreateSeries(r, c, d)
      PROVE  Books(r, {}, Bookable(d, c, {}), c) /\ series' \in [SeriesId -> SeriesRow]
  <2>1. CancelledAmong({}) = booking BY <1>1 DEF CancelledAmong, TypeOK
  <2>2. Bookable(d, c, {}) \subseteq RecurringDates(d) BY DEF Bookable
  <2> QED BY <1>1, <1>2, <2>1, <2>2, SeriesRowType DEF CreateSeries, Books
<1>3. ASSUME NEW c \in Court, NEW d \in Schedule, UpdateSeries(r, c, d)
      PROVE  /\ Books(r, FutureMembers(r), Bookable(d, c, Members(r)), c)
             /\ series' \in [SeriesId -> SeriesRow]
  <2>1. FutureMembers(r) \subseteq BookingId BY DEF FutureMembers, Members
  <2>2. Bookable(d, c, Members(r)) \subseteq RecurringDates(d) BY DEF Bookable
  <2> QED BY <1>1, <1>3, <2>1, <2>2, SeriesRowType DEF UpdateSeries, Books
<1>4. ASSUME CancelSeries(r)
      PROVE  /\ \E c \in Court : \E B, dates : Books(r, B, dates, c)
             /\ series' \in [SeriesId -> SeriesRow]
  <2>1. FutureMembers(r) \in SUBSET BookingId BY DEF FutureMembers, Members
  <2>2. PICK c \in Court : TRUE BY NonEmptyAssumption
  <2>3. Books(r, FutureMembers(r), {}, c)
    BY <1>1, <1>4, <2>1, CancelBooks DEF CancelSeries
  <2>4. series' \in [SeriesId -> SeriesRow] BY <1>1, <1>4 DEF CancelSeries, SeriesTypeOK
  <2> QED BY <2>3, <2>4
<1> QED BY <1>2, <1>3, <1>4

LEMMA CancelOccurrencesBooks ==
    ASSUME RowsInv, NEW B \in SUBSET BookingId, CancelOccurrences(B)
    PROVE  /\ \E r \in SeriesId, c \in Court : Books(r, B, {}, c)
           /\ series' \in [SeriesId -> SeriesRow]
<1>1. TypeOK /\ SeriesTypeOK BY DEF RowsInv
<1>2. PICK b \in B : seriesOf[b] # NoSeries BY DEF CancelOccurrences
<1>3. seriesOf[b] \in SeriesId BY <1>1, <1>2 DEF SeriesTypeOK
<1>4. PICK c \in Court : TRUE BY NonEmptyAssumption
<1>5. Books(seriesOf[b], B, {}, c) BY <1>1, CancelBooks DEF CancelOccurrences
<1> QED BY <1>3, <1>5, <1>1 DEF CancelOccurrences, SeriesTypeOK

\* Rows that leave the table, in whatever number, leave the rest in order.
LEMMA DeletionKeepsRows ==
    ASSUME RowsInv, NEW r \in SeriesId, DeleteSeries(r)
    PROVE  RowsInv'
<1>1. TypeOK /\ SeriesTypeOK /\ Unclaimed /\ OutcomeAfterTheFact /\ NoDoubleBooking
  BY DEF RowsInv
<1>2. /\ now' = now /\ payment' = payment /\ blackouts' = blackouts /\ seriesOf' = seriesOf
      /\ booking' = [b \in BookingId |->
                        IF b \in Members(r) THEN NoBooking("DELETED") ELSE booking[b]]
  BY DEF DeleteSeries
<1>3. NoBooking("DELETED") \in Row BY NoBookingType DEF Gone
<1>4. /\ NoBooking("DELETED").status = "DELETED" /\ NoBooking("DELETED").balance = FALSE
  BY DEF NoBooking, NewBooking
<1>5. TypeOK'
  <2>1. \A b \in BookingId : booking[b] \in Row BY <1>1, RowOf
  <2>2. booking' \in [BookingId -> Row] BY <1>2, <1>3, <2>1
  <2> QED BY <2>2, <1>2, <1>1 DEF TypeOK, Row, Blackout
<1>6. series' \in [SeriesId -> SeriesRow]
  <2>1. PICK c \in Court, d \in Schedule : TRUE BY NonEmptyAssumption, ScheduleAssumption
  <2> QED BY <2>1, <1>1, SeriesRowType DEF DeleteSeries
<1>7. \A b \in BookingId : booking'[b] = booking[b] \/ booking'[b] = NoBooking("DELETED")
  BY <1>2
<1>8. SeriesTypeOK'
  BY <1>1, <1>2, <1>4, <1>6, <1>7 DEF SeriesTypeOK, Exists, Gone
<1>9. Unclaimed' BY <1>1, <1>2, <1>4, <1>7 DEF Unclaimed, Absent
<1>10. OutcomeAfterTheFact'
  <2> SUFFICES ASSUME NEW b \in BookingId PROVE Timely(booking[b])'
    BY DEF OutcomeAfterTheFact, Timely, Exists
  <2>1. CASE booking'[b] = booking[b] BY <2>1, <1>1, <1>2, TimelyRow DEF Timely
  <2>2. CASE booking'[b] = NoBooking("DELETED") BY <2>2, <1>4 DEF Timely, Gone
  <2> QED BY <2>1, <2>2, <1>7
<1>11. NoDoubleBooking'
  <2>1. ASSUME NEW b \in BookingId, Blocking(booking'[b]) PROVE booking'[b] = booking[b]
    BY <2>1, <1>4, <1>7 DEF Blocking, BLOCKING_STATUSES
  <2> QED BY <2>1, <1>1 DEF NoDoubleBooking
<1> QED BY <1>5, <1>8, <1>9, <1>10, <1>11 DEF RowsInv

\* A request of the administrator for one booking: no other changes, what is
\* deleted did not stand, and a booking keeps its deposit.
OneBooking(b) ==
    /\ \A o \in BookingId \ {b} : booking'[o] = booking[o]
    /\ booking'[b].status = "ABSENT" => booking[b].status = "ABSENT"
    /\ booking'[b].status \notin Gone /\ booking[b].status # "ABSENT" =>
          Exists(b) /\ booking'[b].deposit = booking[b].deposit
    /\ Blocking(booking[b]) => booking'[b].status # "DELETED"

LEMMA AdminOneBooking ==
    ASSUME TypeOK, NEW b \in BookingId, AdminStep(b)
    PROVE  OneBooking(b)
<1>0. booking[b] \in Row /\ DOMAIN booking = BookingId BY RowOf DEF TypeOK
<1>1. ASSUME NEW row, booking' = [booking EXCEPT ![b] = row],
             row.status = "ABSENT" => booking[b].status = "ABSENT",
             row.status \notin Gone /\ booking[b].status # "ABSENT" =>
                Exists(b) /\ row.deposit = booking[b].deposit,
             Blocking(booking[b]) => row.status # "DELETED"
      PROVE  OneBooking(b)
  BY <1>0, <1>1 DEF OneBooking
<1>2. ASSUME NEW c \in Court, NEW s \in Slot, CreateAdminBooking(b, c, s) PROVE OneBooking(b)
  <2>1. PICK row : Insert(b, row) /\ row.status = "CONFIRMED"
    BY <1>2 DEF CreateAdminBooking, NewBooking
  <2> QED BY <2>1, <1>1 DEF Insert
<1>3. ASSUME NEW c \in Court, NEW s \in Slot, AdminUpdate(b, c, s) PROVE OneBooking(b)
  <2> DEFINE row == [booking[b] EXCEPT !.court = c, !.slot = s]
  <2>1. booking' = [booking EXCEPT ![b] = row] BY <1>3, <1>0 DEF AdminUpdate
  <2>2. row.status = "CONFIRMED" /\ booking[b].status = "CONFIRMED"
        /\ row.deposit = booking[b].deposit
    BY <1>3, <1>0 DEF AdminUpdate, ADMIN_EDITABLE_STATUSES, Row, BookingRow
  <2> HIDE DEF row
  <2> QED BY <2>1, <2>2, <1>1 DEF Exists, Gone
<1>4. ASSUME AdminCancel(b) PROVE OneBooking(b)
  <2> DEFINE row == [CancelRow(booking[b]) EXCEPT !.completed = FALSE, !.noShow = FALSE, !.balance = FALSE]
  <2>1. booking' = [booking EXCEPT ![b] = row] BY <1>4 DEF AdminCancel
  <2>2. row.status = "CANCELLED" /\ row.deposit = booking[b].deposit
    BY <1>0 DEF CancelRow, Row, BookingRow
  <2>3. Exists(b)
    BY <1>4 DEF AdminCancel, MayMoveTo, ADMIN_ALLOWED_STATUS_TRANSITIONS, Exists, Gone
  <2> HIDE DEF row
  <2> QED BY <2>1, <2>2, <2>3, <1>1 DEF Exists, Gone
<1>5. ASSUME NEW target \in BookingStatus, AdminSetOutcome(b, target) PROVE OneBooking(b)
  <2> DEFINE row == OutcomeRow(booking[b], target)
  <2>1. booking' = [booking EXCEPT ![b] = row] BY <1>5 DEF AdminSetOutcome
  <2>2. row.status = target /\ row.deposit = booking[b].deposit
    BY <1>0 DEF OutcomeRow, Row, BookingRow
  <2>3. Exists(b) /\ target \notin Gone
    BY <1>5 DEF AdminSetOutcome, MayMoveTo, ADMIN_ALLOWED_STATUS_TRANSITIONS, Exists, Gone
  <2> HIDE DEF row
  <2> QED BY <2>1, <2>2, <2>3, <1>1 DEF Exists, Gone
<1>6. ASSUME MarkBalancePaid(b) PROVE OneBooking(b)
  <2> DEFINE row == [booking[b] EXCEPT !.balance = TRUE]
  <2>1. booking' = [booking EXCEPT ![b] = row] BY <1>6, <1>0 DEF MarkBalancePaid
  <2>2. row.status = booking[b].status /\ row.deposit = booking[b].deposit
    BY <1>0 DEF Row, BookingRow
  <2>3. Exists(b) /\ row.status \notin Gone
    BY <1>6, <2>2 DEF MarkBalancePaid, BALANCE_ALLOWED_STATUSES, Exists, Gone
  <2> HIDE DEF row
  <2> QED BY <2>1, <2>2, <2>3, <1>1 DEF Exists, Gone
<1>7. ASSUME DeleteBooking(b) PROVE OneBooking(b)
  <2>1. NoBooking("DELETED").status = "DELETED" BY DEF NoBooking, NewBooking
  <2>2. ~Blocking(booking[b])
    BY <1>7 DEF DeleteBooking, DELETABLE_BOOKING_STATUSES, Blocking, BLOCKING_STATUSES
  <2> QED BY <2>1, <2>2, <1>1, <1>7 DEF DeleteBooking, Gone
<1> QED BY <1>2, <1>3, <1>4, <1>5, <1>6, <1>7 DEF AdminStep

\* The administrator's request for one booking keeps the rows in order.
LEMMA AdminKeepsRows ==
    ASSUME RowsInv, NEW b \in BookingId, AdminStep(b), seriesOf' = seriesOf,
           series' \in [SeriesId -> SeriesRow]
    PROVE  RowsInv'
<1>1. TypeOK /\ SeriesTypeOK /\ Unclaimed /\ OutcomeAfterTheFact /\ NoDoubleBooking
  BY DEF RowsInv
<1>2. OneBooking(b) BY <1>1, AdminOneBooking
<1>3. [Next]_vars BY DEF Next
<1>4. TypeOK' BY <1>1, <1>3, NextType
<1>5. SeriesTypeOK'
  <2>1. \A o \in BookingId : Exists(o)' /\ seriesOf'[o] # NoSeries => ~booking'[o].deposit
    BY <1>1, <1>2 DEF OneBooking, SeriesTypeOK, Unclaimed, Absent, Exists
  <2> QED BY <2>1, <1>1 DEF SeriesTypeOK
<1>6. Unclaimed' BY <1>1, <1>2 DEF OneBooking, Unclaimed, Absent
<1>7. OutcomeAfterTheFact' BY <1>1, TimelyAdmin
<1>8. NoDoubleBooking' BY <1>1, <1>3, <1>4, StepShape, NoOverlapStep
<1> QED BY <1>4, <1>5, <1>6, <1>7, <1>8 DEF RowsInv

LEMMA DeleteOccurrenceKeepsRows ==
    ASSUME RowsInv, NEW b \in BookingId, DeleteOccurrence(b)
    PROVE  RowsInv'
<1>1. SeriesTypeOK BY DEF RowsInv
<1>2. PICK c \in Court, d \in Schedule : TRUE BY NonEmptyAssumption, ScheduleAssumption
<1>3. LastOccurrence(b) => seriesOf[b] \in SeriesId BY <1>1 DEF LastOccurrence, SeriesTypeOK
<1>4. series' \in [SeriesId -> SeriesRow]
  BY <1>1, <1>2, <1>3, SeriesRowType DEF DeleteOccurrence, SeriesTypeOK
<1>5. AdminStep(b) BY DEF DeleteOccurrence, AdminStep
<1> QED BY <1>4, <1>5, AdminKeepsRows DEF DeleteOccurrence

LEMMA CalendarKeepsRows ==
    ASSUME RowsInv, CalendarStep
    PROVE  RowsInv'
<1>1. TypeOK /\ SeriesTypeOK /\ Unclaimed /\ OutcomeAfterTheFact /\ NoDoubleBooking
  BY DEF RowsInv
<1>2. booking' = booking /\ seriesOf' = seriesOf /\ series' = series
  BY DEF CalendarStep, CreateBlackout, Tick, seriesVars
<1>3. [Next]_vars BY DEF Next, CalendarStep
<1>4. TypeOK' BY <1>1, <1>3, NextType
<1>5. SeriesTypeOK' /\ Unclaimed' /\ NoDoubleBooking'
  BY <1>1, <1>2 DEF SeriesTypeOK, Unclaimed, Absent, Exists, NoDoubleBooking
<1>6. OutcomeAfterTheFact'
  <2>1. ASSUME NEW c \in Court, NEW s \in Period, CreateBlackout(c, s) PROVE OutcomeAfterTheFact'
    BY <2>1, <1>1 DEF CreateBlackout, OutcomeAfterTheFact, Exists
  <2> QED BY <2>1, <1>1, TimelyTick DEF CalendarStep
<1> QED BY <1>4, <1>5, <1>6 DEF RowsInv

\* Every request keeps the rows in order.
LEMMA RowsInvStep == RowsInv /\ [RecurringNext]_recurringVars => RowsInv'
<1> SUFFICES ASSUME RowsInv, [RecurringNext]_recurringVars PROVE RowsInv' OBVIOUS
<1>1. ASSUME NEW r \in SeriesId, SeriesStep(r) PROVE RowsInv'
  <2>1. CASE DeleteSeries(r) BY <2>1, DeletionKeepsRows
  <2>2. CASE ~DeleteSeries(r)
    <3>1. \/ \E c \in Court, d \in Schedule : CreateSeries(r, c, d) \/ UpdateSeries(r, c, d)
          \/ CancelSeries(r)
      BY <1>1, <2>2 DEF SeriesStep
    <3>2. PICK c \in Court : \E B, dates : Books(r, B, dates, c) BY <3>1, SeriesBooks
    <3>3. PICK B, dates : Books(r, B, dates, c) BY <3>2
    <3>4. series' \in [SeriesId -> SeriesRow] BY <3>1, SeriesBooks
    <3> QED BY <3>3, <3>4, BooksKeepsRows
  <2> QED BY <2>1, <2>2
<1>2. ASSUME NEW B \in SUBSET BookingId, CancelOccurrences(B) PROVE RowsInv'
  <2>1. PICK r \in SeriesId, c \in Court : Books(r, B, {}, c) BY <1>2, CancelOccurrencesBooks
  <2>2. series' \in [SeriesId -> SeriesRow] BY <1>2, CancelOccurrencesBooks
  <2> QED BY <2>1, <2>2, BooksKeepsRows
<1>3. ASSUME NEW b \in BookingId, OtherStep(b) PROVE RowsInv'
  <2>1. AdminStep(b) /\ series' = series /\ seriesOf' = seriesOf
    BY <1>3 DEF OtherStep, AdminStep, seriesVars
  <2>2. series' \in [SeriesId -> SeriesRow] BY <2>1 DEF RowsInv, SeriesTypeOK
  <2> QED BY <2>1, <2>2, AdminKeepsRows
<1>4. CASE UNCHANGED recurringVars
  BY <1>4 DEF recurringVars, RowsInv, TypeOK, SeriesTypeOK, Unclaimed, Absent, Exists,
              OutcomeAfterTheFact, NoDoubleBooking
<1> QED BY <1>1, <1>2, <1>3, <1>4, DeleteOccurrenceKeepsRows, CalendarKeepsRows DEF RecurringNext

LEMMA RowsInvHolds == RecurringSpec => []RowsInv
<1>1. RecurringInit => RowsInv
  <2> SUFFICES ASSUME RecurringInit PROVE RowsInv OBVIOUS
  <2>1. Init BY DEF RecurringInit
  <2>2. TypeOK BY <2>1, InitType
  <2>3. \A b \in BookingId : /\ booking[b].status = "ABSENT" /\ ~Blocking(booking[b])
                             /\ ~booking[b].balance /\ seriesOf[b] = NoSeries
    BY <2>1 DEF RecurringInit, Init, NoBooking, NewBooking, Blocking, BLOCKING_STATUSES
  <2>4. SeriesTypeOK
    <3>1. (CHOOSE x \in Court : TRUE) \in Court /\ (CHOOSE x \in Schedule : TRUE) \in Schedule
      BY NonEmptyAssumption, ScheduleAssumption
    <3>2. NoSeriesRow("ABSENT") \in SeriesRow BY <3>1 DEF NoSeriesRow, SeriesRow, Gone
    <3> QED BY <3>2, <2>3 DEF RecurringInit, SeriesTypeOK
  <2>5. Unclaimed BY <2>3 DEF Unclaimed, Absent
  <2>6. OutcomeAfterTheFact /\ NoDoubleBooking BY <2>3 DEF OutcomeAfterTheFact, NoDoubleBooking
  <2> QED BY <2>2, <2>4, <2>5, <2>6 DEF RowsInv
<1> QED BY <1>1, RowsInvStep, PTL DEF RecurringSpec

\* The tables keep their types through every request on series, however many
\* bookings it inserts, cancels and deletes, and an occurrence never has a
\* deposit: cancelling or deleting one forgets no payment.
\* (create_recurring_series, update_recurring_series, delete_recurring_series_permanently)
THEOREM SeriesTypes == RecurringSpec => [](TypeOK /\ SeriesTypeOK)
<1>1. RowsInv => TypeOK /\ SeriesTypeOK BY DEF RowsInv
<1> QED BY <1>1, RowsInvHolds, PTL

\* Two bookings that occupy the same court never overlap, also when a request
\* books many dates at once: the constraint compares them with the rows, and
\* the dates of one schedule are a week apart.
\* (create_recurring_series, update_recurring_series)
THEOREM SeriesNeverOverlap == RecurringSpec => []NoDoubleBooking
<1>1. RowsInv => NoDoubleBooking BY DEF RowsInv
<1> QED BY <1>1, RowsInvHolds, PTL

\* A booking that stands, was played or missed is never deleted, neither by
\* itself nor with its series.
\* (delete_recurring_series_permanently, delete_booking_permanently)
THEOREM StandingBookingsStay == RecurringSpec => StandingIsNeverDeleted
<1>1. RowsInv /\ [RecurringNext]_recurringVars => [DeletionStep]_recurringVars
  <2> SUFFICES ASSUME RowsInv, [RecurringNext]_recurringVars,
                      NEW b \in BookingId, Blocking(booking[b])
               PROVE  booking'[b].status # "DELETED"
    BY DEF DeletionStep
  <2>0. TypeOK /\ booking[b].status \in BLOCKING_STATUSES BY DEF RowsInv, Blocking
  <2>1. ASSUME NEW r \in SeriesId, NEW B, NEW dates, NEW c \in Court, Books(r, B, dates, c)
        PROVE  booking'[b].status # "DELETED"
    <3>1. PICK new \in SUBSET Absent : \E at \in [new -> dates] :
                Booked(r, CancelledAmong(B), dates, c, new, at)
      BY <2>1, BookDatesBooks DEF Books
    <3>2. PICK at \in [new -> dates] : Booked(r, CancelledAmong(B), dates, c, new, at)
      BY <3>1
    <3>3. b \notin new BY <2>0 DEF Absent, BLOCKING_STATUSES
    <3>4. booking'[b] = CancelledAmong(B)[b] BY <3>2, <3>3 DEF Booked
    <3> QED BY <3>4, <2>0, CancelledRow DEF BLOCKING_STATUSES
  <2>2. ASSUME NEW r \in SeriesId, SeriesStep(r) PROVE booking'[b].status # "DELETED"
    <3>1. CASE DeleteSeries(r)
      <4>1. b \notin Members(r)
        BY <3>1, <2>0 DEF DeleteSeries, Deletable, DELETABLE_BOOKING_STATUSES, BLOCKING_STATUSES
      <4> QED BY <4>1, <3>1, <2>0 DEF DeleteSeries, BLOCKING_STATUSES
    <3>2. CASE ~DeleteSeries(r)
      <4>1. PICK c \in Court : \E B, dates : Books(r, B, dates, c)
        BY <2>2, <3>2, SeriesBooks DEF SeriesStep
      <4>2. PICK B, dates : Books(r, B, dates, c) BY <4>1
      <4> QED BY <4>2, <2>1
    <3> QED BY <3>1, <3>2
  <2>3. ASSUME NEW B \in SUBSET BookingId, CancelOccurrences(B) PROVE booking'[b].status # "DELETED"
    <3>1. PICK r \in SeriesId, c \in Court : Books(r, B, {}, c) BY <2>3, CancelOccurrencesBooks
    <3> QED BY <3>1, <2>1
  <2>4. ASSUME NEW x \in BookingId, DeleteOccurrence(x) \/ OtherStep(x)
        PROVE  booking'[b].status # "DELETED"
    <3>1. AdminStep(x) BY <2>4 DEF DeleteOccurrence, OtherStep, AdminStep
    <3>2. OneBooking(x) BY <3>1, <2>0, AdminOneBooking
    <3>3. CASE b = x BY <3>2, <3>3 DEF OneBooking
    <3>4. CASE b # x BY <3>2, <3>4, <2>0 DEF OneBooking, BLOCKING_STATUSES
    <3> QED BY <3>3, <3>4
  <2>5. ASSUME CalendarStep \/ UNCHANGED recurringVars PROVE booking'[b].status # "DELETED"
    <3>1. booking' = booking BY <2>5 DEF CalendarStep, CreateBlackout, Tick, recurringVars
    <3> QED BY <3>1, <2>0 DEF BLOCKING_STATUSES
  <2> QED BY <2>2, <2>3, <2>4, <2>5 DEF RecurringNext
<1> QED BY <1>1, RowsInvHolds, PTL DEF RecurringSpec, StandingIsNeverDeleted

-----------------------------------------------------------------------------
(* Changing a series.                                                      *)

\* Only an update gives a series that is there new bookings.
LEMMA UpdatedByUpdate ==
    ASSUME RowsInv, [RecurringNext]_recurringVars, NEW r \in SeriesId, Updated(r)
    PROVE  \E c \in Court, d \in Schedule : UpdateSeries(r, c, d)
<1>1. PICK b \in BookingId : seriesOf'[b] = r /\ seriesOf[b] # r BY DEF Updated
<1>2. series[r].status = "LIVE" BY DEF Updated
<1>3. ASSUME NEW q \in SeriesId, SeriesStep(q)
      PROVE  q = r /\ \E c \in Court, d \in Schedule : UpdateSeries(r, c, d)
  <2>1. ~CancelSeries(q) /\ ~DeleteSeries(q) BY <1>1 DEF CancelSeries, DeleteSeries
  <2>2. PICK c \in Court, d \in Schedule : CreateSeries(q, c, d) \/ UpdateSeries(q, c, d)
    BY <1>3, <2>1 DEF SeriesStep
  <2>3. q = r
    <3>1. \E rows, dates : BookDates(q, rows, dates, c)
      BY <2>2 DEF CreateSeries, UpdateSeries
    <3> QED BY <3>1, <1>1 DEF BookDates
  <2>4. ~CreateSeries(q, c, d) BY <2>3, <1>2 DEF CreateSeries
  <2> QED BY <2>2, <2>3, <2>4
<1>4. \E q \in SeriesId : SeriesStep(q)
  <2>1. \A B \in SUBSET BookingId : ~CancelOccurrences(B) BY <1>1 DEF CancelOccurrences
  <2>2. \A x \in BookingId : ~DeleteOccurrence(x) /\ ~OtherStep(x)
    BY <1>1 DEF DeleteOccurrence, OtherStep, seriesVars
  <2>3. ~CalendarStep /\ ~UNCHANGED recurringVars
    BY <1>1 DEF CalendarStep, seriesVars, recurringVars
  <2> QED BY <2>1, <2>2, <2>3 DEF RecurringNext
<1> QED BY <1>3, <1>4

\* A booking of the future that stands can be cancelled.
LEMMA FutureIsCancellable ==
    ASSUME TypeOK, OutcomeAfterTheFact, NEW b \in BookingId,
           Blocking(booking[b]), Future(booking[b].slot)
    PROVE  MayMoveTo(b, "CANCELLED")
<1>1. booking[b].slot \in Slot BY RowOf DEF Row, BookingRow
<1>2. booking[b].slot.start \in Nat /\ booking[b].slot.end \in Nat
      /\ booking[b].slot.start < booking[b].slot.end
  BY <1>1, SlotAssumption
<1>3. now \in Int BY TimeAssumption DEF TypeOK
<1>4. booking[b].status # "COMPLETED" /\ booking[b].status # "NO_SHOW"
  BY <1>2, <1>3 DEF OutcomeAfterTheFact, Future
<1> QED BY <1>4 DEF Blocking, BLOCKING_STATUSES, MayMoveTo, ADMIN_ALLOWED_STATUS_TRANSITIONS

\* README.md: an update of a series books the valid dates and skips those in
\* conflict.  It is right to leave all bookings of the series out of the check:
\* those still to come can all be cancelled, since none of them has an outcome
\* yet, and for those that have begun the constraint stands in.
\* (update_recurring_series)
THEOREM UpdatesTakeWhatIsFree == RecurringSpec => UpdateTakesWhatIsFree
<1>1. RowsInv /\ [RecurringNext]_recurringVars => [UpdateStep]_recurringVars
  <2> SUFFICES ASSUME RowsInv, [RecurringNext]_recurringVars, NEW r \in SeriesId, Updated(r)
               PROVE  LET row == series'[r]
                          others == {o \in BookingId : Blocking(booking[o])} \ FutureMembers(r)
                          valid == {s \in RecurringDates(row.schedule) :
                                       /\ Future(s) /\ ~BlackedOut(row.court, s)
                                       /\ \A o \in others :
                                             booking[o].court = row.court
                                                => ~Overlaps(booking[o].slot, s)}
                      IN
                      /\ Held(r)' = {<<row.court, s>> : s \in valid}
                      /\ \A o \in others : booking'[o] = booking[o]
    BY DEF UpdateStep
  <2>0. TypeOK /\ SeriesTypeOK /\ OutcomeAfterTheFact BY DEF RowsInv
  <2>1. PICK c \in Court, d \in Schedule : UpdateSeries(r, c, d) BY UpdatedByUpdate
  <2> DEFINE free == Bookable(d, c, Members(r))
             rows == CancelledAmong(FutureMembers(r))
             others == {o \in BookingId : Blocking(booking[o])} \ FutureMembers(r)
             valid == {s \in RecurringDates(d) :
                          /\ Future(s) /\ ~BlackedOut(c, s)
                          /\ \A o \in others :
                                booking[o].court = c => ~Overlaps(booking[o].slot, s)}
  <2>2. /\ Accepted(rows, free) /\ BookDates(r, rows, free, c) /\ now' = now
        /\ series' = [series EXCEPT ![r].court = c, ![r].schedule = d]
    BY <2>1 DEF UpdateSeries
  <2>3. series'[r].court = c /\ series'[r].schedule = d
    BY <2>0, <2>2 DEF SeriesTypeOK, SeriesRow
  <2>4. ASSUME NEW o \in others
        PROVE  o \in BookingId /\ Blocking(booking[o]) /\ rows[o] = booking[o]
    BY <2>0, CancelledRow
  <2>5. free = valid
    <3>1. ASSUME NEW s \in free PROVE s \in valid
      <4>1. s \in RecurringDates(d) /\ Future(s) /\ ~BlackedOut(c, s) BY DEF Bookable
      <4>2. ASSUME NEW o \in others, booking[o].court = c PROVE ~Overlaps(booking[o].slot, s)
        BY <2>2, <2>4 DEF Accepted
      <4> QED BY <4>1, <4>2
    <3>2. ASSUME NEW s \in valid PROVE s \in free
      <4>1. ASSUME NEW o \in BookingId \ Members(r), Blocking(booking[o]), booking[o].court = c
            PROVE  ~Overlaps(booking[o].slot, s)
        <5>1. o \in others BY <4>1 DEF FutureMembers
        <5> QED BY <5>1, <4>1
      <4> QED BY <4>1 DEF Bookable
    <3> QED BY <3>1, <3>2
  <2>6. PICK new \in SUBSET Absent : \E at \in [new -> free] : Booked(r, rows, free, c, new, at)
    BY <2>2, BookDatesBooks
  <2>7. PICK at \in [new -> free] : Booked(r, rows, free, c, new, at) BY <2>6
  <2>8. ASSUME NEW b \in BookingId, b \notin new
        PROVE  booking'[b] = rows[b] /\ seriesOf'[b] = seriesOf[b]
    BY <2>7, <2>8 DEF Booked
  <2>9. ASSUME NEW b \in new
        PROVE  /\ b \in BookingId /\ seriesOf'[b] = r /\ at[b] \in free
               /\ booking'[b].status = "CONFIRMED" /\ booking'[b].court = c
               /\ booking'[b].slot = at[b]
    <3>1. b \in BookingId BY DEF Absent
    <3>2. booking'[b] = NewBooking("CONFIRMED", c, at[b], FALSE, "NONE", NoTime, "admin")
          /\ seriesOf'[b] = r /\ at[b] \in free
      BY <3>1, <2>7 DEF Booked
    <3> QED BY <3>1, <3>2 DEF NewBooking
  <2>10. ASSUME NEW b \in BookingId,
                seriesOf'[b] = r, Blocking(booking'[b]), Future(booking[b].slot)'
         PROVE  b \in new
    <3> SUFFICES ASSUME b \notin new PROVE FALSE OBVIOUS
    <3>1. booking'[b] = rows[b] /\ seriesOf[b] = r BY <2>8, <2>10
    <3>2. rows[b].status # "CANCELLED" BY <3>1, <2>10 DEF Blocking, BLOCKING_STATUSES
    <3>3. rows[b] = booking[b] /\ (b \notin FutureMembers(r) \/ ~MayMoveTo(b, "CANCELLED"))
      BY <3>2, <2>0, CancelledRow
    <3>4. Blocking(booking[b]) /\ Future(booking[b].slot)
      BY <3>1, <3>3, <2>2, <2>10 DEF Future
    <3>5. b \in FutureMembers(r)
      BY <3>1, <3>4 DEF FutureMembers, Members, Exists, Blocking, BLOCKING_STATUSES, Gone
    <3> QED BY <3>3, <3>4, <3>5, <2>0, FutureIsCancellable
  <2>11. Held(r)' = {<<c, s>> : s \in free}
    <3> DEFINE held == {b \in BookingId : /\ seriesOf'[b] = r /\ Exists(b)'
                                          /\ Future(booking[b].slot)' /\ Blocking(booking'[b])}
    <3>1. Held(r)' = {<<booking'[b].court, booking'[b].slot>> : b \in held}
      BY DEF Held, FutureMembers, Members
    <3>2. held = new
      <4>1. ASSUME NEW b \in new PROVE b \in held
        <5>1. Future(at[b]) BY <2>9 DEF Bookable
        <5> QED BY <5>1, <2>9, <2>2 DEF Exists, Gone, Future, Blocking, BLOCKING_STATUSES
      <4>2. ASSUME NEW b \in held PROVE b \in new BY <2>10
      <4> QED BY <4>1, <4>2
    <3>3. ASSUME NEW x \in Held(r)' PROVE x \in {<<c, s>> : s \in free}
      <4> HIDE DEF held
      <4>1. PICK b \in new : x = <<booking'[b].court, booking'[b].slot>> BY <3>1, <3>2
      <4> QED BY <4>1, <2>9
    <3>4. ASSUME NEW s \in free PROVE <<c, s>> \in Held(r)'
      <4> HIDE DEF held
      <4>1. PICK b \in new : at[b] = s BY <2>7 DEF Booked
      <4> QED BY <4>1, <2>9, <3>1, <3>2
    <3> QED BY <3>3, <3>4
  <2>12. ASSUME NEW o \in others PROVE booking'[o] = booking[o]
    <3>1. o \notin new BY <2>4 DEF Absent, Blocking, BLOCKING_STATUSES
    <3> QED BY <3>1, <2>4, <2>8
  <2> QED BY <2>3, <2>5, <2>11, <2>12
<1> QED BY <1>1, RowsInvHolds, PTL DEF RecurringSpec, UpdateTakesWhatIsFree

=============================================================================

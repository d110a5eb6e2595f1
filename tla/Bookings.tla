------------------------------ MODULE Bookings ------------------------------
(***************************************************************************)
(* The booking calendar of one club: the bookings, booking_payments and    *)
(* blackout_periods tables, and every operation that writes them.          *)
(*                                                                         *)
(* Each action is one HTTP request or scheduler run.  The routers take the *)
(* global lock, call the service and commit before they release it, so a   *)
(* request is one atomic step here; SlotRaces.tla opens the requests up,   *)
(* and has those that take less than the global lock.  One writer takes no *)
(* lock at all, the match list when it expires the holds it meets: it is   *)
(* one step here like the others, and PlayMatches.tla takes it apart.      *)
(* The payment providers are an open environment: a payment of a checkout  *)
(* that was started may be reported at any later moment, any number of     *)
(* times, in any order, with any event time up to now.  Payments.tla       *)
(* closes the environment with sessions, captures and webhooks.            *)
(***************************************************************************)
EXTENDS BookingRules, FiniteSets

CONSTANTS
    Court,               \* the courts of the club
    Slot,                \* the time slots customers ask for, [start, end)
    Period,              \* the times the club may close a court
    BookingId,           \* the rows that can ever be inserted
    AvailableProvider,   \* providers with credentials (list_available_checkout_providers)
    Ref, NoRef,          \* provider order and capture references, and NULL
    DepositPolicy,       \* whether a deposit is asked for; both when the policy may change
    HoldTicks,           \* booking_hold_minutes
    CancelWindow,        \* cancellation_window_hours
    MaxTime              \* bound on the clock

ASSUME SlotAssumption ==
    /\ Slot \subseteq [start: Nat, end: Nat]
    /\ \A s \in Slot : s.start < s.end
ASSUME PeriodAssumption ==
    /\ Period \subseteq [start: Nat, end: Nat]
    /\ \A s \in Period : s.start < s.end
ASSUME NonEmptyAssumption == Court # {} /\ Slot # {}
ASSUME RefAssumption == NoRef \in Ref
ASSUME ProviderAssumption == AvailableProvider \subseteq OnlineProvider
ASSUME PolicyAssumption == DepositPolicy \subseteq BOOLEAN
ASSUME TimeAssumption == HoldTicks \in Nat /\ CancelWindow \in Nat /\ MaxTime \in Nat

VARIABLES
    now,        \* datetime.now(UTC)
    booking,    \* the bookings table, by id
    payment,    \* booking_payments: the row of a booking and a provider
    blackouts   \* active blackout periods

vars == <<now, booking, payment, blackouts>>

Blackout == [court: Court, slot: Period]

\* The place of a row that is not in the table; what it holds is never read.
NoBooking(status) ==
    NewBooking(status, CHOOSE c \in Court : TRUE, CHOOSE s \in Slot : TRUE,
               FALSE, "NONE", NoTime, "admin")

Init ==
    /\ now = 0
    /\ booking = [b \in BookingId |-> NoBooking("ABSENT")]
    /\ payment = [b \in BookingId |-> [p \in OnlineProvider |-> NoPayment(NoRef)]]
    /\ blackouts = {}

-----------------------------------------------------------------------------
(* assert_slot_available, with exclude_booking_id = b.                     *)

\* Mutant of Conflicts: equal slots instead of overlapping ones.
ConflictsSameSlot(b, c, s) ==
    \E o \in BookingId \ {b} :
        booking[o].court = c /\ Blocking(booking[o]) /\ booking[o].slot = s

Conflicts(b, c, s) ==
    \E o \in BookingId \ {b} :
        booking[o].court = c /\ Blocking(booking[o]) /\ Overlaps(booking[o].slot, s)

BlackedOut(c, s) == \E k \in blackouts : k.court = c /\ Overlaps(k.slot, s)

\* Mutant of SlotAvailable: the blackouts are not looked at.
SlotNotTaken(b, c, s) == ~Conflicts(b, c, s)

SlotAvailable(b, c, s) == ~Conflicts(b, c, s) /\ ~BlackedOut(c, s)

\* parse_slot refuses a slot that has started.
Future(s) == s.start > now

Exists(b) == booking[b].status \notin Gone

-----------------------------------------------------------------------------
(* Creating bookings.                                                      *)

Insert(b, row) ==
    /\ booking[b].status = "ABSENT"
    /\ Future(row.slot)
    /\ SlotAvailable(b, row.court, row.slot)
    /\ booking' = [booking EXCEPT ![b] = row]
    /\ UNCHANGED <<now, payment, blackouts>>

\* The clock bound leaves every hold room to lapse.
HoldFits == now + HoldTicks < MaxTime

\* A deposit makes the booking a hold that expires; without one it is final.
CreatePublicBooking(b, c, s) ==
    \/ /\ TRUE \in DepositPolicy /\ HoldFits
       /\ \E p \in AvailableProvider :
             Insert(b, NewBooking("PENDING_PAYMENT", c, s, TRUE, p, now + HoldTicks, "public"))
    \/ /\ FALSE \in DepositPolicy
       /\ Insert(b, NewBooking("CONFIRMED", c, s, FALSE, "NONE", NoTime, "public"))

\* An administrator's booking is confirmed at once, deposit or not.  It has no
\* cancel link and no checkout, so the provider it names is never charged.
CreateAdminBooking(b, c, s) ==
    \E deposit \in DepositPolicy :
        Insert(b, NewBooking("CONFIRMED", c, s, deposit, "NONE", NoTime, "admin"))

\* The fourth player of a match completes it.  The provider is chosen at
\* checkout unless only one is available.
CreatePlayBooking(b, c, s) ==
    \/ /\ TRUE \in DepositPolicy /\ HoldFits /\ AvailableProvider # {}
       /\ \E p \in IF Cardinality(AvailableProvider) = 1 THEN AvailableProvider ELSE {"NONE"} :
             Insert(b, NewBooking("PENDING_PAYMENT", c, s, TRUE, p, now + HoldTicks, "play"))
    \/ /\ FALSE \in DepositPolicy
       /\ Insert(b, NewBooking("CONFIRMED", c, s, FALSE, "NONE", NoTime, "play"))

-----------------------------------------------------------------------------
(* Holds that lapse.                                                       *)

Expire(B, t) ==
    /\ booking' = [b \in BookingId |->
                      IF b \in B /\ HoldLapsed(booking[b], t) THEN ExpireRow(booking[b])
                      ELSE booking[b]]
    /\ payment' = [b \in BookingId |->
                      IF b \in B /\ HoldLapsed(booking[b], t)
                      THEN [p \in OnlineProvider |-> ExpirePayment(payment[b][p])]
                      ELSE payment[b]]

\* The scheduler's job, every minute.
ExpirePendingJob ==
    /\ \E b \in BookingId : HoldLapsed(booking[b], now)
    /\ Expire(BookingId, now)
    /\ UNCHANGED <<now, blackouts>>

\* Checkout, status page, cancellation page and match list expire on the way.
ExpireOnRead(b) ==
    /\ HoldLapsed(booking[b], now)
    /\ Expire({b}, now)
    /\ UNCHANGED <<now, blackouts>>

-----------------------------------------------------------------------------
(* Paying the deposit.                                                     *)

\* The provider a new checkout may use: the booking's own for a public
\* booking, any one for a match whose payment is not under way; an available
\* one in either case.
CheckoutProvider(row) ==
    IF row.origin = "play" /\ ~(row.payStatus = "INITIATED" /\ row.provider # "NONE")
    THEN AvailableProvider
    ELSE {row.provider} \cap AvailableProvider

\* _reuse_initiated_checkout hands the open checkout out again, writing nothing new.
Reusable(b, p) == booking[b].payStatus = "INITIATED" /\ payment[b][p].status = "INITIATED"
                  /\ payment[b][p].exists

StartCheckout(b, p, o) ==
    /\ booking[b].status = "PENDING_PAYMENT"
    /\ booking[b].origin \in {"public", "play"}
    /\ ~HoldLapsed(booking[b], now)
    /\ p \in CheckoutProvider(booking[b])
    /\ ~Reusable(b, p)
    /\ booking' = [booking EXCEPT ![b].provider = p, ![b].payStatus = "INITIATED"]
    /\ payment' = [payment EXCEPT ![b][p].exists = TRUE, ![b][p].status = "INITIATED",
                                  ![b][p].order = o]
    /\ UNCHANGED <<now, blackouts>>

\* A booking that is paid or no longer waits for a payment is left alone.
CheckoutCancellable(b) ==
    booking[b].status = "PENDING_PAYMENT" /\ booking[b].payStatus # "PAID"

\* The customer left the checkout, or the provider closed it.  The booking
\* keeps the slot until the hold lapses.  The cancel URL names a booking and a
\* provider, and asks for no checkout.
CancelCheckout(b, p) ==
    /\ CheckoutCancellable(b)
    /\ IF HoldLapsed(booking[b], now)
       THEN Expire({b}, now)
       ELSE /\ booking' = [booking EXCEPT ![b].provider = p, ![b].payStatus = "CANCELLED"]
            /\ payment' = [payment EXCEPT ![b][p] = LeavePayment(@)]
    /\ UNCHANGED <<now, blackouts>>

\* Mutant of TooLate: a tick of grace after the hold.
TooLateWithGrace(row, t) == row.expiresAt # NoTime /\ t > row.expiresAt + 1

TooLate(row, t) == row.expiresAt # NoTime /\ t > row.expiresAt

\* Mutant of Settled: the capture reference is not recorded.
SettledWithoutCapture(pay, o, k, status) ==
    [pay EXCEPT !.exists = TRUE, !.order = o, !.status = status]

\* The payment row as _confirm_payment leaves it.
Settled(pay, o, k, status) ==
    [pay EXCEPT !.exists = TRUE, !.order = o, !.capture = k, !.status = status]

\* _confirm_payment and mark_booking_paid: provider p reports capture k of
\* order o, made at instant t.  When the slot is not available and the
\* booking is not expired the request fails with 409 and writes nothing.
ConfirmPayment(b, p, o, k, t) ==
    LET row == booking[b] IN
    /\ Exists(b) /\ row.deposit /\ payment[b][p].exists
    /\ \/ /\ row.status = "CANCELLED"
          /\ payment' = [payment EXCEPT ![b][p] = Settled(@, o, k, "CANCELLED")]
          /\ UNCHANGED booking
       \/ /\ row.status # "CANCELLED" /\ TooLate(row, t)
          /\ booking' = [booking EXCEPT ![b] = IF HoldLapsed(@, t) THEN ExpireRow(@) ELSE @]
          /\ payment' = [payment EXCEPT ![b] =
                [q \in OnlineProvider |->
                    IF q = p THEN Settled(@[q], o, k, "EXPIRED")
                    ELSE IF HoldLapsed(row, t) THEN ExpirePayment(@[q]) ELSE @[q]]]
       \/ /\ row.status = "EXPIRED" /\ ~TooLate(row, t)
          /\ ~SlotAvailable(b, row.court, row.slot)
          /\ payment' = [payment EXCEPT ![b][p] = Settled(@, o, k, "EXPIRED")]
          /\ UNCHANGED booking
       \/ /\ row.status # "CANCELLED" /\ ~TooLate(row, t)
          /\ SlotAvailable(b, row.court, row.slot)
          /\ booking' = [booking EXCEPT ![b] = PayRow(@, p)]
          /\ payment' = [payment EXCEPT ![b][p] = Settled(@, o, k, "PAID")]
    /\ UNCHANGED <<now, blackouts>>

-----------------------------------------------------------------------------
(* Cancelling through the link sent to the customer.                       *)

\* Mutant of PublicCancellable: the status is not looked at.
PublicCancellableAgain(b) ==
    /\ booking[b].origin = "public"
    /\ booking[b].status # "DELETED"
    /\ Future(booking[b].slot)

\* _public_cancellation_reason is None, after a lapsed hold was expired.
PublicCancellable(b) ==
    /\ booking[b].origin = "public"
    /\ booking[b].status \in {"PENDING_PAYMENT", "CONFIRMED"}
    /\ ~HoldLapsed(booking[b], now)
    /\ Future(booking[b].slot)

\* The payment row the refund is about, when there is one.
RefundRow(b) ==
    IF booking[b].provider \in OnlineProvider THEN payment[b][booking[b].provider]
    ELSE NoPayment(NoRef)

\* get_booking_refund_snapshot(...).required: an attempt already on record
\* decides; otherwise a paid deposit is due until the window closes.
RefundRequired(b) ==
    IF RefundRow(b).refund # "NULL"
    THEN RefundRow(b).refund \in {"SUCCEEDED", "PENDING", "FAILED"}
    ELSE /\ booking[b].payStatus = "PAID"
         /\ booking[b].provider \in OnlineProvider
         /\ booking[b].slot.start - now >= CancelWindow

\* refund_booking_payment asks the provider again unless one of these is recorded.
RefundOnRecord(b) == RefundRow(b).refund \in {"SUCCEEDED", "PENDING"}

CancelledPayments(b) == [p \in OnlineProvider |-> CancelPayment(payment[b][p])]

CancelWithoutRefund(b) ==
    /\ PublicCancellable(b)
    /\ ~RefundRequired(b)
    /\ booking' = [booking EXCEPT ![b] = CancelRow(@)]
    /\ payment' = [payment EXCEPT ![b] =
          IF RefundRow(b).exists
          THEN [CancelledPayments(b) EXCEPT ![booking[b].provider].refund = "NOT_REQUIRED"]
          ELSE CancelledPayments(b)]
    /\ UNCHANGED <<now, blackouts>>

\* The provider accepted the refund: it is recorded and the booking cancelled
\* in the same transaction.
CancelWithRefund(b, outcome) ==
    /\ PublicCancellable(b)
    /\ RefundRequired(b) /\ RefundRow(b).exists
    /\ RefundOnRecord(b) => outcome = RefundRow(b).refund
    /\ booking' = [booking EXCEPT ![b] = CancelRow(@)]
    /\ payment' = [payment EXCEPT ![b] =
                      [CancelledPayments(b) EXCEPT ![booking[b].provider].refund = outcome]]
    /\ UNCHANGED <<now, blackouts>>

\* Mutant of RefundFails: a refusal is taken for a refund on its way.
RefundFailsPending(b) ==
    /\ PublicCancellable(b)
    /\ RefundRequired(b) /\ RefundRow(b).exists
    /\ ~RefundOnRecord(b)
    /\ payment' = [payment EXCEPT ![b][booking[b].provider].refund = "PENDING"]
    /\ UNCHANGED <<now, booking, blackouts>>

\* The provider refused or could not be reached: 502, but FAILED is committed
\* and the booking stays as it was.
RefundFails(b) ==
    /\ PublicCancellable(b)
    /\ RefundRequired(b) /\ RefundRow(b).exists
    /\ ~RefundOnRecord(b)
    /\ payment' = [payment EXCEPT ![b][booking[b].provider].refund = "FAILED"]
    /\ UNCHANGED <<now, booking, blackouts>>

-----------------------------------------------------------------------------
(* The administrator.                                                      *)

\* Mutant of AdminUpdate: the new place is not checked.
AdminUpdateUnchecked(b, c, s) ==
    /\ booking[b].status \in ADMIN_EDITABLE_STATUSES
    /\ Future(booking[b].slot)
    /\ Future(s)
    /\ booking' = [booking EXCEPT ![b].court = c, ![b].slot = s]
    /\ UNCHANGED <<now, payment, blackouts>>

\* update_booking_by_admin: only a confirmed booking that has not started.
AdminUpdate(b, c, s) ==
    /\ booking[b].status \in ADMIN_EDITABLE_STATUSES
    /\ Future(booking[b].slot)
    /\ Future(s)
    /\ SlotAvailable(b, c, s)
    /\ booking' = [booking EXCEPT ![b].court = c, ![b].slot = s]
    /\ UNCHANGED <<now, payment, blackouts>>

\* Mutant of MayMoveTo: no-show before the game starts.
MayMoveToEarly(b, target) ==
    /\ <<booking[b].status, target>> \in ADMIN_ALLOWED_STATUS_TRANSITIONS
    /\ target = "COMPLETED" => now >= booking[b].slot.end

MayMoveTo(b, target) ==
    /\ <<booking[b].status, target>> \in ADMIN_ALLOWED_STATUS_TRANSITIONS
    /\ target = "COMPLETED" => now >= booking[b].slot.end
    /\ target = "NO_SHOW" => now >= booking[b].slot.start

\* Cancelling never refunds, whatever was paid.
AdminCancel(b) ==
    /\ MayMoveTo(b, "CANCELLED")
    /\ booking' = [booking EXCEPT ![b] =
          [CancelRow(@) EXCEPT !.completed = FALSE, !.noShow = FALSE, !.balance = FALSE]]
    /\ payment' = [payment EXCEPT ![b] = CancelledPayments(b)]
    /\ UNCHANGED <<now, blackouts>>

AdminSetOutcome(b, target) ==
    /\ target \in {"CONFIRMED", "COMPLETED", "NO_SHOW"}
    /\ MayMoveTo(b, target)
    /\ booking' = [booking EXCEPT ![b] = OutcomeRow(@, target)]
    /\ UNCHANGED <<now, payment, blackouts>>

MarkBalancePaid(b) ==
    /\ booking[b].status \in BALANCE_ALLOWED_STATUSES
    /\ now >= booking[b].slot.start
    /\ ~booking[b].balance
    /\ booking' = [booking EXCEPT ![b].balance = TRUE]
    /\ UNCHANGED <<now, payment, blackouts>>

\* delete_booking_permanently.  The row of a completed match is referenced by
\* the match (matches.booking_id), so PostgreSQL refuses to delete it.
DeleteBooking(b) ==
    /\ booking[b].status \in DELETABLE_BOOKING_STATUSES
    /\ booking[b].origin # "play"
    /\ booking' = [booking EXCEPT ![b] = NoBooking("DELETED")]
    /\ payment' = [payment EXCEPT ![b] = [p \in OnlineProvider |-> NoPayment(NoRef)]]
    /\ UNCHANGED <<now, blackouts>>

\* create_blackout looks at no booking: it may close a slot that is taken.
CreateBlackout(c, s) ==
    /\ [court |-> c, slot |-> s] \notin blackouts
    /\ blackouts' = blackouts \cup {[court |-> c, slot |-> s]}
    /\ UNCHANGED <<now, booking, payment>>

Tick ==
    /\ now < MaxTime
    /\ now' = now + 1
    /\ UNCHANGED <<booking, payment, blackouts>>

-----------------------------------------------------------------------------
CustomerStep(b) ==
    \/ \E c \in Court, s \in Slot : CreatePublicBooking(b, c, s) \/ CreatePlayBooking(b, c, s)
    \/ \E p \in OnlineProvider, o \in Ref \ {NoRef} : StartCheckout(b, p, o)
    \/ \E p \in OnlineProvider : CancelCheckout(b, p)
    \/ ExpireOnRead(b)
    \/ CancelWithoutRefund(b)
    \/ \E outcome \in {"SUCCEEDED", "PENDING"} : CancelWithRefund(b, outcome)
    \/ RefundFails(b)

AdminStep(b) ==
    \/ \E c \in Court, s \in Slot : CreateAdminBooking(b, c, s) \/ AdminUpdate(b, c, s)
    \/ AdminCancel(b)
    \/ \E target \in BookingStatus : AdminSetOutcome(b, target)
    \/ MarkBalancePaid(b)
    \/ DeleteBooking(b)

ProviderStep(b) ==
    \E p \in OnlineProvider, o, k \in Ref \ {NoRef}, t \in 0..now : ConfirmPayment(b, p, o, k, t)

Next ==
    \/ \E b \in BookingId : CustomerStep(b) \/ AdminStep(b) \/ ProviderStep(b)
    \/ \E c \in Court, s \in Period : CreateBlackout(c, s)
    \/ ExpirePendingJob
    \/ Tick

Spec == Init /\ [][Next]_vars

-----------------------------------------------------------------------------
(* The calendar this table implements.                                     *)

Reservations ==
    {[id |-> b, court |-> booking[b].court, slot |-> booking[b].slot] :
        b \in {x \in BookingId : Blocking(booking[x])}}

Calendar == INSTANCE CourtCalendar WITH reserved <- Reservations, closed <- blackouts

-----------------------------------------------------------------------------
(* Properties.                                                             *)

\* Every row, payment and blackout has its type.
TypeOK ==
    /\ now \in 0..MaxTime
    /\ booking \in [BookingId -> BookingRow(Court, Slot)]
    /\ payment \in [BookingId -> [OnlineProvider -> PaymentRow(Ref)]]
    /\ blackouts \subseteq Blackout

\* Two bookings that occupy the same court never overlap, whatever order
\* creations, moves, expiries and late payments come in (assert_slot_available
\* under the lock).
NoDoubleBooking ==
    \A a, b \in BookingId :
        a # b /\ Blocking(booking[a]) /\ Blocking(booking[b])
          /\ booking[a].court = booking[b].court
            => ~Overlaps(booking[a].slot, booking[b].slot)

\* A customer's booking that asked for a deposit is confirmed, played or
\* missed only once the deposit is paid, and a hold is never a paid one.
ConfirmedOnlyWhenPaid ==
    \A b \in BookingId :
        /\ booking[b].deposit /\ booking[b].origin # "admin"
             /\ booking[b].status \in {"CONFIRMED", "COMPLETED", "NO_SHOW"}
               => booking[b].payStatus = "PAID"
        /\ booking[b].status \in {"PENDING_PAYMENT", "EXPIRED"} => booking[b].payStatus # "PAID"

\* A refund that went out, or is on its way, leaves no booking standing: a
\* late webhook, a retry or the administrator cannot bring it back.
RefundMeansCancelled ==
    \A b \in BookingId, p \in OnlineProvider :
        payment[b][p].refund \in {"SUCCEEDED", "PENDING"} => booking[b].status = "CANCELLED"

\* The outcome of a booking is recorded only after the fact, also when it was
\* moved to another slot first: COMPLETED after the end, NO_SHOW after the
\* start; the balance is settled only from the start on, for a game that stands.
OutcomeAfterTheFact ==
    \A b \in BookingId :
        /\ booking[b].status = "COMPLETED" => now >= booking[b].slot.end
        /\ booking[b].status = "NO_SHOW" => now >= booking[b].slot.start
        /\ booking[b].balance /\ Exists(b) =>
              /\ booking[b].status \in BALANCE_ALLOWED_STATUSES
              /\ now >= booking[b].slot.start

\* A booking that gave its court back takes it again only by a payment, which is
\* on record; the administrator cannot revive it, and a cancelled one never
\* comes back.
RevivalStep ==
    \A b \in BookingId :
        Exists(b) /\ ~Blocking(booking[b]) /\ Blocking(booking[b])' =>
            /\ booking[b].status = "EXPIRED"
            /\ PaidAndConfirmed(booking[b]')
            /\ \E p \in OnlineProvider : payment[b][p]'.status = "PAID"
OnlyPaymentRevives == [][RevivalStep]_vars

\* No booking comes to occupy, or is moved onto, a court the club has closed.
ClosedCourtStep ==
    \A b \in BookingId :
        /\ Blocking(booking[b])'
        /\ ~Blocking(booking[b]) \/ booking[b].court # booking[b].court'
             \/ booking[b].slot # booking[b].slot'
        => \A k \in blackouts :
              k.court = booking[b].court' => ~Overlaps(k.slot, booking[b].slot')
BlackoutKeptFree == [][ClosedCourtStep]_vars

\* Every hold is decided: paid, cancelled or expired.  The court is never
\* kept by a customer who went away.
HoldIsDecided ==
    \A b \in BookingId :
        booking[b].status = "PENDING_PAYMENT" ~> booking[b].status # "PENDING_PAYMENT"

\* Seen from outside, the table is the abstract calendar: every request
\* reserves or moves one reservation on a free court, releases some, closes a
\* court, or changes nothing.
ImplementsCalendar == Calendar!Spec
=============================================================================

---------------------------- MODULE BookingRules ----------------------------
(***************************************************************************)
(* The rules of a booking row that hold no state of their own: statuses,   *)
(* the administrator's transition table, overlap of time slots, the two    *)
(* rows a booking is born with, and what cancelling, expiring or paying    *)
(* does to a row.  Translated from services/booking_service.py and         *)
(* services/payment_service.py; the state machines EXTEND this module.     *)
(*                                                                         *)
(* A slot is a half-open interval [start, end) of clock ticks.  Amounts    *)
(* and currencies are abstracted to "deposit": the booking was created     *)
(* with a deposit greater than zero.                                       *)
(***************************************************************************)
EXTENDS Integers

OnlineProvider == {"STRIPE", "PAYPAL"}
PaymentProvider == OnlineProvider \cup {"NONE"}

BookingStatus ==
    {"PENDING_PAYMENT", "CONFIRMED", "CANCELLED", "COMPLETED", "NO_SHOW", "EXPIRED"}

\* A row that was never inserted, and one deleted for good: no query finds either.
Gone == {"ABSENT", "DELETED"}

PaymentStatus == {"UNPAID", "INITIATED", "PAID", "CANCELLED", "EXPIRED"}
RefundStatus == {"NULL", "NOT_REQUIRED", "PENDING", "SUCCEEDED", "FAILED"}
Origin == {"public", "admin", "play"}

\* The statuses that occupy the court.
BLOCKING_STATUSES == {"PENDING_PAYMENT", "CONFIRMED", "COMPLETED", "NO_SHOW"}

ADMIN_EDITABLE_STATUSES == {"CONFIRMED"}
BALANCE_ALLOWED_STATUSES == {"CONFIRMED", "COMPLETED"}
DELETABLE_BOOKING_STATUSES == {"CANCELLED", "EXPIRED"}

\* Mutants of ADMIN_ALLOWED_STATUS_TRANSITIONS: the administrator may wave a
\* hold through, reopen a cancelled booking, or bring an expired one back.
WithTransition(edge) ==
    {edge, <<"PENDING_PAYMENT", "CANCELLED">>,
     <<"CONFIRMED", "CANCELLED">>, <<"CONFIRMED", "COMPLETED">>, <<"CONFIRMED", "NO_SHOW">>,
     <<"COMPLETED", "CONFIRMED">>, <<"NO_SHOW", "CONFIRMED">>}
TransitionsConfirmHolds == WithTransition(<<"PENDING_PAYMENT", "CONFIRMED">>)
TransitionsReopen == WithTransition(<<"CANCELLED", "CONFIRMED">>)
TransitionsRevive == WithTransition(<<"EXPIRED", "CONFIRMED">>)

\* <<from, to>>: the status changes an administrator may ask for.
ADMIN_ALLOWED_STATUS_TRANSITIONS ==
    {<<"PENDING_PAYMENT", "CANCELLED">>,
     <<"CONFIRMED", "CANCELLED">>, <<"CONFIRMED", "COMPLETED">>, <<"CONFIRMED", "NO_SHOW">>,
     <<"COMPLETED", "CONFIRMED">>,
     <<"NO_SHOW", "CONFIRMED">>}

\* A null timestamp (expires_at IS NULL).
NoTime == -1

Overlaps(s, t) == s.start < t.end /\ s.end > t.start

BookingRow(Court, Slot) ==
    [status: BookingStatus \cup Gone, court: Court, slot: Slot,
     deposit: BOOLEAN, provider: PaymentProvider, payStatus: PaymentStatus,
     expiresAt: Int, origin: Origin, completed: BOOLEAN, noShow: BOOLEAN, balance: BOOLEAN]

PaymentRow(Ref) ==
    [exists: BOOLEAN, status: PaymentStatus, order: Ref, capture: Ref, refund: RefundStatus]

\* Mutant of NewBooking: expires_at is not set.
NewBookingForGood(status, c, s, deposit, p, expiresAt, origin) ==
    [status |-> status, court |-> c, slot |-> s, deposit |-> deposit,
     provider |-> p, payStatus |-> "UNPAID", expiresAt |-> NoTime,
     origin |-> origin, completed |-> FALSE, noShow |-> FALSE, balance |-> FALSE]

\* A freshly inserted booking.
NewBooking(status, c, s, deposit, p, expiresAt, origin) ==
    [status |-> status, court |-> c, slot |-> s, deposit |-> deposit,
     provider |-> p, payStatus |-> "UNPAID", expiresAt |-> expiresAt,
     origin |-> origin, completed |-> FALSE, noShow |-> FALSE, balance |-> FALSE]

NoPayment(noRef) ==
    [exists |-> FALSE, status |-> "UNPAID", order |-> noRef, capture |-> noRef,
     refund |-> "NULL"]

Blocking(row) == row.status \in BLOCKING_STATUSES

\* expires_at is set and lies strictly before the given instant.
HoldLapsed(row, t) ==
    row.status = "PENDING_PAYMENT" /\ row.expiresAt # NoTime /\ t > row.expiresAt

ExpireRow(row) ==
    [row EXCEPT !.status = "EXPIRED",
                !.payStatus = IF @ = "PAID" THEN @ ELSE "EXPIRED"]

ExpirePayment(pay) ==
    IF pay.exists /\ pay.status \in {"INITIATED", "UNPAID", "CANCELLED"}
    THEN [pay EXCEPT !.status = "EXPIRED"]
    ELSE pay

CancelRow(row) ==
    [row EXCEPT !.status = "CANCELLED",
                !.payStatus = IF @ = "PAID" THEN @ ELSE "CANCELLED"]

CancelPayment(pay) ==
    IF pay.exists /\ pay.status \in {"INITIATED", "UNPAID"}
    THEN [pay EXCEPT !.status = "CANCELLED"]
    ELSE pay

\* The checkout was left: mark_checkout_cancelled on the provider's row, if any.
LeavePayment(pay) ==
    IF pay.exists /\ pay.status # "PAID" THEN [pay EXCEPT !.status = "CANCELLED"] ELSE pay

\* mark_booking_paid keeps completed_at and no_show_at as they are.
PayRow(row, p) ==
    [row EXCEPT !.status = "CONFIRMED", !.payStatus = "PAID",
                !.provider = p, !.expiresAt = NoTime]

\* The administrator records how a booking went, or takes that back.
OutcomeRow(row, target) ==
    [row EXCEPT !.status = target,
                !.completed = (target = "COMPLETED"),
                !.noShow = (target = "NO_SHOW"),
                !.balance = IF target = "NO_SHOW" THEN FALSE ELSE @]

PaidAndConfirmed(row) == row.payStatus = "PAID" /\ row.status = "CONFIRMED"
=============================================================================

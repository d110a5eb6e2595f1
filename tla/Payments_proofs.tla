--------------------------- MODULE Payments_proofs ---------------------------
(***************************************************************************)
(* The providers and the tables, for every value of the constants: the     *)
(* providers drive the tables through the operations of Bookings, paid     *)
(* means captured, and a refund on record was made.                        *)
(***************************************************************************)
EXTENDS Payments, Bookings_proofs

-----------------------------------------------------------------------------
(* Sessions.                                                               *)

\* The booking an unused session shows means nothing.
SessionRecord ==
    [state: SessionState, booking: BookingId \cup {CHOOSE b \in BookingId : TRUE},
     provider: OnlineProvider, at: Nat]

\* What a session in use says: a booking, a time that has come, and, once it is
\* approved, PayPal.
InUse(row) ==
    row.state # "unused" =>
        /\ row.booking \in BookingId /\ row.at <= now
        /\ row.state = "approved" => row.provider = "PAYPAL"

SessionsOK ==
    /\ session \in [Session -> SessionRecord]
    /\ \A x \in Session : InUse(session[x])

\* Captured sessions are never touched again.
CapturesKept == \A y \in Session : session[y].state = "captured" => session'[y] = session[y]

\* Rewriting one session keeps the others as they were.
LEMMA SessionUpdate ==
    ASSUME SessionsOK, NEW x \in Session, NEW row \in SessionRecord,
           session' = [session EXCEPT ![x] = row], now' = now, InUse(row),
           session[x].state # "captured"
    PROVE  SessionsOK' /\ CapturesKept /\ session'[x] = row
  BY DEF SessionsOK, InUse, CapturesKept

\* The steps of the tables move the clock forward only.
LEMMA ClockForward == [Next]_vars /\ TypeOK => now' = now \/ now' = now + 1
<1> SUFFICES ASSUME [Next]_vars, TypeOK PROVE now' = now \/ now' = now + 1 OBVIOUS
<1>1. ASSUME NEW b \in BookingId, CustomerStep(b) PROVE now' = now
  BY <1>1 DEF CustomerStep, CreatePublicBooking, CreatePlayBooking, Insert, StartCheckout,
              CancelCheckout, ExpireOnRead, CancelWithoutRefund, CancelWithRefund, RefundFails
<1>2. ASSUME NEW b \in BookingId, AdminStep(b) PROVE now' = now
  BY <1>2 DEF AdminStep, CreateAdminBooking, Insert, AdminUpdate, AdminCancel, AdminSetOutcome,
              MarkBalancePaid, DeleteBooking
<1>3. ASSUME NEW b \in BookingId, ProviderStep(b) PROVE now' = now
  BY <1>3 DEF ProviderStep, ConfirmPayment
<1> QED BY <1>1, <1>2, <1>3 DEF Next, CreateBlackout, ExpirePendingJob, Tick, vars

\* What one step does, seen from the providers: sessions that were paid stay as
\* they are, and the report of a payment is about a session that was.
Reports(x) ==
    \E t \in 0..now :
        /\ session'[x].state = "captured" /\ session'[x].at = t
        /\ BookingOf(x)' = BookingOf(x) /\ BookingOf(x) \in BookingId
        /\ ProviderOf(x)' = ProviderOf(x) /\ ProviderOf(x) \in OnlineProvider
        /\ ConfirmPayment(BookingOf(x), ProviderOf(x), x, x, t)

\* The steps of one session: of the tables, and of itself.
LEMMA SessionShape ==
    ASSUME TypeOK, SessionsOK, NEW x \in Session, SessionStep(x)
    PROVE  /\ SessionsOK' /\ CapturesKept /\ now' = now
           /\ \/ UNCHANGED vars
              \/ \E b \in BookingId, p \in OnlineProvider :
                    StartCheckout(b, p, x) \/ CancelCheckout(b, p)
              \/ Reports(x)
<1>1. /\ now \in Nat /\ now \in 0..now
      /\ session[x] \in SessionRecord /\ InUse(session[x])
  BY TimeAssumption DEF TypeOK, SessionsOK
<1>2. UNCHANGED session /\ now' = now => SessionsOK' /\ CapturesKept
  BY DEF SessionsOK, CapturesKept, InUse
<1>3. ASSUME NEW b \in BookingId, NEW p \in OnlineProvider, Checkout(b, p, x)
      PROVE  SessionsOK' /\ CapturesKept /\ now' = now /\ StartCheckout(b, p, x)
  <2> DEFINE row == [state |-> "open", booking |-> b, provider |-> p, at |-> 0]
  <2>1. row \in SessionRecord /\ InUse(row)
    BY <1>1 DEF SessionState, SessionRecord, InUse
  <2>2. /\ session' = [session EXCEPT ![x] = row] /\ now' = now /\ StartCheckout(b, p, x)
        /\ session[x].state # "captured"
    BY <1>3 DEF Checkout, StartCheckout
  <2> HIDE DEF row
  <2> QED BY <2>1, <2>2, SessionUpdate
<1>4. ASSUME NEW state \in {"approved", "captured", "closed"}, NEW at \in 0..now, now' = now,
             session[x].state \in {"open", "approved"},
             state = "approved" => ProviderOf(x) = "PAYPAL",
             session' = [session EXCEPT ![x] = [session[x] EXCEPT !.state = state, !.at = at]]
      PROVE  /\ SessionsOK' /\ CapturesKept /\ now' = now
             /\ session'[x].state = state /\ session'[x].at = at
             /\ BookingOf(x)' = BookingOf(x) /\ BookingOf(x) \in BookingId
             /\ ProviderOf(x)' = ProviderOf(x)
  <2> DEFINE row == [session[x] EXCEPT !.state = state, !.at = at]
  <2>1. /\ row \in SessionRecord
        /\ row.booking = BookingOf(x) /\ row.provider = ProviderOf(x)
        /\ row.state = state /\ row.at = at
    <3>1. at \in Nat /\ state \in SessionState BY <1>1, <1>4 DEF SessionState
    <3> QED BY <1>1, <3>1 DEF SessionRecord, BookingOf, ProviderOf
  <2>2. BookingOf(x) \in BookingId BY <1>1, <1>4 DEF InUse, BookingOf
  <2> HIDE DEF row
  <2>3. session' = [session EXCEPT ![x] = row] BY <1>4 DEF row
  <2>4. InUse(row) BY <1>1, <1>4, <2>1, <2>2 DEF InUse
  <2>5. session[x].state # "captured" BY <1>4
  <2>6. SessionsOK' /\ CapturesKept /\ session'[x] = row
    BY <1>4, <2>1, <2>3, <2>4, <2>5, SessionUpdate
  <2> QED BY <1>4, <2>1, <2>2, <2>6 DEF BookingOf, ProviderOf
<1>5. ASSUME PayStripe(x) \/ PaypalReturnLost(x)
      PROVE  SessionsOK' /\ CapturesKept /\ UNCHANGED vars
  <2>1. /\ session' = [session EXCEPT ![x] = [session[x] EXCEPT !.state = "captured", !.at = now]]
        /\ UNCHANGED vars /\ now' = now /\ session[x].state \in {"open", "approved"}
    BY <1>1, <1>5 DEF PayStripe, PaypalReturnLost, ReturnCaptures, vars, SessionRecord, SessionsOK
  <2> QED BY <1>1, <1>4, <2>1
<1>6. ASSUME ApprovePaypal(x) \/ CloseSession(x)
      PROVE  SessionsOK' /\ CapturesKept /\ UNCHANGED vars
  <2>1. PICK state \in {"approved", "closed"} :
           /\ session' = [session EXCEPT ![x] = [session[x] EXCEPT !.state = state, !.at = session[x].at]]
           /\ state = "approved" => ProviderOf(x) = "PAYPAL"
    BY <1>1, <1>6 DEF ApprovePaypal, CloseSession, SessionRecord, SessionsOK
  <2>2. UNCHANGED vars /\ now' = now /\ session[x].state \in {"open", "approved"}
    BY <1>6 DEF ApprovePaypal, CloseSession, vars
  <2>3. session[x].at \in 0..now BY <1>1, <2>2 DEF InUse, SessionRecord
  <2> QED BY <1>4, <2>1, <2>2, <2>3
<1>7. ASSUME PaypalReturn(x)
      PROVE  SessionsOK' /\ CapturesKept /\ now' = now /\ Reports(x)
  <2>1. /\ session' = [session EXCEPT ![x] = [session[x] EXCEPT !.state = "captured", !.at = now]]
        /\ session[x].state = "approved" /\ now' = now
    BY <1>1, <1>7 DEF PaypalReturn, ReturnCaptures, ConfirmPayment, SessionRecord, SessionsOK
  <2>2. /\ SessionsOK' /\ CapturesKept
        /\ session'[x].state = "captured" /\ session'[x].at = now
        /\ BookingOf(x)' = BookingOf(x) /\ BookingOf(x) \in BookingId
        /\ ProviderOf(x)' = ProviderOf(x)
    BY <1>1, <1>4, <2>1
  <2>3. ProviderOf(x) = "PAYPAL" BY <1>1, <2>1 DEF InUse, ProviderOf
  <2>4. ConfirmPayment(BookingOf(x), ProviderOf(x), x, x, now) BY <1>7, <2>3 DEF PaypalReturn
  <2> QED BY <1>1, <2>1, <2>2, <2>3, <2>4 DEF Reports, OnlineProvider
<1>8. /\ BookingOf(x)' = BookingOf(x) <=> session'[x].booking = session[x].booking
      /\ session[x].state # "unused" =>
            /\ BookingOf(x) \in BookingId /\ ProviderOf(x) \in OnlineProvider
            /\ session[x].at \in 0..now
  BY <1>1 DEF InUse, SessionRecord, BookingOf, ProviderOf
<1>9. ASSUME DeliverCapture(x)
      PROVE  UNCHANGED session /\ now' = now /\ (UNCHANGED vars \/ Reports(x))
  <2>1. UNCHANGED session /\ session[x].state = "captured" BY <1>9 DEF DeliverCapture
  <2>2. CASE UNCHANGED vars BY <2>1, <2>2 DEF vars
  <2>3. CASE ConfirmPayment(BookingOf(x), ProviderOf(x), x, x, session[x].at)
    <3>1. now' = now BY <2>3 DEF ConfirmPayment
    <3> QED BY <1>8, <2>1, <2>3, <3>1 DEF Reports, BookingOf, ProviderOf
  <2> QED BY <1>9, <2>2, <2>3 DEF DeliverCapture
<1>10. ASSUME DeliverClosed(x)
       PROVE  /\ UNCHANGED session /\ now' = now
              /\ UNCHANGED vars \/ \E b \in BookingId, p \in OnlineProvider : CancelCheckout(b, p)
  <2>1. UNCHANGED session /\ session[x].state # "unused"
    BY <1>10 DEF DeliverClosed
  <2>2. UNCHANGED vars \/ CancelCheckout(BookingOf(x), ProviderOf(x))
    BY <1>10 DEF DeliverClosed
  <2>3. now' = now BY <2>2 DEF vars, CancelCheckout
  <2> QED BY <1>8, <2>1, <2>2, <2>3
<1> QED
  BY <1>2, <1>3, <1>5, <1>6, <1>7, <1>9, <1>10 DEF SessionStep, vars

\* The shape of every step: one of the tables, one of Bookings as far as the
\* providers are concerned, and captured sessions never change.
LEMMA DrivenStep ==
    ASSUME TypeOK, SessionsOK, [PNext]_allVars
    PROVE  [Next]_vars /\ SessionsOK' /\ CapturesKept
<1>1. /\ UNCHANGED session /\ (now' = now \/ now' = now + 1) => SessionsOK' /\ CapturesKept
      /\ now \in Nat
  <2>1. now \in Nat BY TimeAssumption DEF TypeOK
  <2>2. ASSUME UNCHANGED session, now' = now \/ now' = now + 1 PROVE SessionsOK' /\ CapturesKept
    BY <2>1, <2>2 DEF SessionsOK, CapturesKept, InUse, SessionRecord
  <2> QED BY <2>1, <2>2
<1>2. CASE LocalStep
  <2>1. Next
    <3>1. CASE \E b \in BookingId, c \in Court, s \in Slot :
                  CreatePublicBooking(b, c, s) \/ CreatePlayBooking(b, c, s)
      BY <3>1 DEF Next, CustomerStep
    <3>2. CASE \E b \in BookingId : ExpireOnRead(b) \/ CancelWithoutRefund(b) \/ AdminStep(b)
      BY <3>2 DEF Next, CustomerStep
    <3> QED BY <1>2, <3>1, <3>2 DEF LocalStep, Next
  <2>2. UNCHANGED session BY <1>2 DEF LocalStep, providerVars
  <2> QED BY <1>1, <2>1, <2>2, ClockForward
<1>3. ASSUME NEW x \in Session, SessionStep(x) PROVE [Next]_vars /\ SessionsOK' /\ CapturesKept
  <2>1. CASE UNCHANGED vars BY <1>3, <2>1, SessionShape
  <2>2. ASSUME NEW b \in BookingId, NEW p \in OnlineProvider, StartCheckout(b, p, x) PROVE Next
    BY <2>2 DEF Session, Next, CustomerStep
  <2>3. ASSUME NEW b \in BookingId, NEW p \in OnlineProvider, CancelCheckout(b, p) PROVE Next
    BY <2>3 DEF Next, CustomerStep
  <2>4. CASE Reports(x)
    <3>1. ProviderStep(BookingOf(x)) /\ BookingOf(x) \in BookingId
      BY <2>4 DEF Reports, ProviderStep, Session
    <3> QED BY <1>3, <3>1, SessionShape DEF Next
  <2> QED BY <1>3, <2>1, <2>2, <2>3, <2>4, SessionShape
<1>4. ASSUME NEW b \in BookingId, RefundStep(b) PROVE [Next]_vars /\ SessionsOK' /\ CapturesKept
  <2>1. UNCHANGED session /\ [Next]_vars /\ now' = now
    <3>1. ASSUME NEW outcome \in {"SUCCEEDED", "PENDING"}, RefundAccepted(b, outcome)
          PROVE  UNCHANGED session /\ Next /\ now' = now
      BY <3>1 DEF RefundAccepted, CancelWithRefund, Next, CustomerStep
    <3>2. CASE RefundRefused(b) \/ RefundAnswerLost(b)
      <4>1. UNCHANGED session /\ RefundFails(b)
        BY <3>2 DEF RefundRefused, RefundAnswerLost, providerVars
      <4> QED BY <4>1 DEF RefundFails, Next, CustomerStep
    <3>3. CASE CrashAfterRefund(b) BY <3>3 DEF CrashAfterRefund, vars
    <3> QED BY <1>4, <3>1, <3>2, <3>3 DEF RefundStep
  <2> QED BY <1>1, <2>1
<1>5. ASSUME NEW b \in BookingId, NEW p \in OnlineProvider, FollowCancelUrl(b, p)
      PROVE  [Next]_vars /\ SessionsOK' /\ CapturesKept
  <2>1. CancelCheckout(b, p) /\ UNCHANGED session BY <1>5 DEF FollowCancelUrl, providerVars
  <2>2. Next /\ now' = now BY <2>1 DEF Next, CustomerStep, CancelCheckout
  <2> QED BY <1>1, <2>1, <2>2
<1>6. CASE UNCHANGED allVars BY <1>1, <1>6 DEF allVars, vars
<1> QED BY <1>2, <1>3, <1>4, <1>5, <1>6 DEF PNext

LEMMA InitSessions == PInit => SessionsOK
<1> SUFFICES ASSUME PInit PROVE SessionsOK OBVIOUS
<1> DEFINE row == [state |-> "unused", booking |-> CHOOSE b \in BookingId : TRUE,
                   provider |-> "STRIPE", at |-> 0]
<1>1. row \in SessionRecord BY DEF SessionRecord, SessionState, OnlineProvider
<1>2. row.state = "unused" OBVIOUS
<1>3. session = [x \in Session |-> row] BY DEF PInit
<1> HIDE DEF row
<1> QED BY <1>1, <1>2, <1>3 DEF SessionsOK, InUse

\* Both tables and sessions keep their types.
LEMMA SessionsCorrect == PSpec => [](TypeOK /\ SessionsOK)
<1>1. PInit => TypeOK /\ SessionsOK BY InitType, InitSessions DEF PInit
<1>2. TypeOK /\ SessionsOK /\ [PNext]_allVars => (TypeOK /\ SessionsOK)'
  BY DrivenStep, NextType
<1> QED BY <1>1, <1>2, PTL DEF PSpec

\* Whatever sessions, events, refunds and crashes do, the tables go through the
\* operations of Bookings; its theorems hold with the providers too.
\* (_confirm_payment, mark_checkout_cancelled, refund_booking_payment)
THEOREM PaymentsDriveBookings == PSpec => DrivesBookings
<1>1. PInit => Init BY DEF PInit
<1>2. TypeOK /\ SessionsOK /\ [PNext]_allVars => [Next]_vars BY DrivenStep
<1> QED BY <1>1, <1>2, SessionsCorrect, PTL DEF PSpec, Spec, DrivesBookings

-----------------------------------------------------------------------------
(* Steps that settle no payment and make no refund.                        *)

\* A hold and an expired booking have an expiry; a place that was never used is
\* not paid.
Sound(row) ==
    /\ row.status \in {"PENDING_PAYMENT", "EXPIRED"} => row.expiresAt # NoTime
    /\ row.status = "ABSENT" => row.payStatus # "PAID"

\* A row changes without being paid or confirmed.
RowQuiet(row, next) ==
    /\ next.payStatus = "PAID" => row.payStatus = "PAID" /\ next.provider = row.provider
    /\ next.status = "CONFIRMED" => row.status \notin {"PENDING_PAYMENT", "EXPIRED"}
    /\ Sound(row) => Sound(next)

KeepsPaid(row, next) == row.payStatus = "PAID" => next.payStatus = "PAID"

Sought(pay) == pay.refund \in {"SUCCEEDED", "PENDING", "FAILED"}

Quiet(b) ==
    /\ RowQuiet(booking[b], booking'[b])
    /\ \A p \in OnlineProvider :
          /\ booking'[b].payStatus = "PAID" => payment'[b][p].capture = payment[b][p].capture
          /\ Sought(payment'[b][p]) => /\ payment'[b][p].refund = payment[b][p].refund
                                       /\ KeepsPaid(booking[b], booking'[b])

\* A payment's capture and refund stay, unless the refund is found not to be due.
PayQuiet(pay, next) ==
    next.capture = pay.capture /\ next.refund \in {pay.refund, "NULL", "NOT_REQUIRED"}

\* Rewriting the rows of one booking leaves the others quiet.
LEMMA QuietUpdate ==
    ASSUME TypeOK, NEW b \in BookingId, NEW row, NEW pays,
           booking' = [booking EXCEPT ![b] = row], payment' = [payment EXCEPT ![b] = pays],
           RowQuiet(booking[b], row), KeepsPaid(booking[b], row),
           \A p \in OnlineProvider : PayQuiet(payment[b][p], pays[p])
    PROVE  \A o \in BookingId : Quiet(o)
<1>1. Quiet(b) BY DEF TypeOK, Quiet, Sought, PayQuiet
<1>2. ASSUME NEW o \in BookingId \ {b} PROVE Quiet(o)
  <2>1. booking'[o] = booking[o] /\ payment'[o] = payment[o] BY DEF TypeOK
  <2> QED BY <2>1 DEF Quiet, RowQuiet, KeepsPaid
<1> QED BY <1>1, <1>2

\* The same when only the booking changes.
LEMMA QuietRow ==
    ASSUME TypeOK, NEW b \in BookingId, NEW row,
           booking' = [booking EXCEPT ![b] = row], payment' = payment,
           RowQuiet(booking[b], row), KeepsPaid(booking[b], row)
    PROVE  \A o \in BookingId : Quiet(o)
<1>1. payment' = [payment EXCEPT ![b] = payment[b]] BY DEF TypeOK
<1> QED BY <1>1, QuietUpdate DEF PayQuiet

LEMMA QuietSame == ASSUME UNCHANGED <<booking, payment>> PROVE \A o \in BookingId : Quiet(o)
  BY DEF Quiet, RowQuiet, KeepsPaid

\* Expiring and cancelling are quiet.
LEMMA QuietRows ==
    ASSUME NEW row \in Row, NEW t
    PROVE  /\ HoldLapsed(row, t) => RowQuiet(row, ExpireRow(row)) /\ KeepsPaid(row, ExpireRow(row))
           /\ RowQuiet(row, CancelRow(row)) /\ KeepsPaid(row, CancelRow(row))
           /\ CancelRow(row) \in Row /\ CancelRow(row).provider = row.provider
           /\ CancelRow(row).status = "CANCELLED"
  BY DEF HoldLapsed, RowQuiet, KeepsPaid, Sound, ExpireRow, CancelRow, Row, BookingRow,
         BookingStatus, PaymentStatus, Gone

LEMMA QuietPays ==
    ASSUME NEW pay \in Pay
    PROVE  PayQuiet(pay, ExpirePayment(pay)) /\ PayQuiet(pay, CancelPayment(pay))
  BY DEF PayQuiet, ExpirePayment, CancelPayment, Pay, PaymentRow

LEMMA QuietExpire ==
    ASSUME TypeOK, NEW B, NEW t, Expire(B, t)
    PROVE  \A o \in BookingId : Quiet(o)
<1> SUFFICES ASSUME NEW o \in BookingId PROVE Quiet(o) OBVIOUS
<1>1. /\ booking[o] \in Row
      /\ \A p \in OnlineProvider : PayQuiet(payment[o][p], ExpirePayment(payment[o][p]))
  BY RowOf, QuietPays
<1>2. CASE o \in B /\ HoldLapsed(booking[o], t)
  <2>1. /\ booking'[o] = ExpireRow(booking[o])
        /\ \A p \in OnlineProvider : payment'[o][p] = ExpirePayment(payment[o][p])
    BY <1>2 DEF Expire
  <2>2. RowQuiet(booking[o], booking'[o]) /\ KeepsPaid(booking[o], booking'[o])
    BY <1>1, <1>2, <2>1, QuietRows
  <2> QED BY <1>1, <2>1, <2>2 DEF Quiet, PayQuiet, Sought
<1>3. CASE ~(o \in B /\ HoldLapsed(booking[o], t))
  <2>1. booking'[o] = booking[o] /\ payment'[o] = payment[o] BY <1>3 DEF Expire
  <2> QED BY <2>1 DEF Quiet, RowQuiet, KeepsPaid
<1> QED BY <1>2, <1>3

\* An insertion pays nothing.
LEMMA QuietInsert ==
    ASSUME TypeOK, NEW b \in BookingId, Sound(booking[b]), NEW c \in Court, NEW s \in Slot,
           CreatePublicBooking(b, c, s) \/ CreateAdminBooking(b, c, s)
             \/ CreatePlayBooking(b, c, s)
    PROVE  \A o \in BookingId : Quiet(o)
<1>1. now + HoldTicks # NoTime BY TimeAssumption DEF TypeOK, NoTime
<1>2. PICK row : Insert(b, row) /\ row.payStatus = "UNPAID" /\ Sound(row)
  <2> DEFINE New(row) == row.payStatus = "UNPAID" /\ Sound(row)
  <2>1. \A deposit, p, origin :
           /\ New(NewBooking("PENDING_PAYMENT", c, s, deposit, p, now + HoldTicks, origin))
           /\ New(NewBooking("CONFIRMED", c, s, deposit, p, NoTime, origin))
    BY <1>1 DEF NewBooking, Sound
  <2> HIDE DEF New
  <2>2. \E row : Insert(b, row) /\ New(row)
    BY <2>1 DEF CreatePublicBooking, CreateAdminBooking, CreatePlayBooking
  <2> QED BY <2>2 DEF New
<1>3. RowQuiet(booking[b], row) /\ KeepsPaid(booking[b], row)
  BY <1>2 DEF RowQuiet, KeepsPaid, Insert, Sound
<1> QED BY <1>2, <1>3, QuietRow DEF Insert

\* Checkouts pay nothing: a hold is not a paid booking.
LEMMA QuietCheckout ==
    ASSUME TypeOK, ConfirmedOnlyWhenPaid, NEW b \in BookingId, NEW p \in OnlineProvider, NEW x,
           StartCheckout(b, p, x) \/ CancelCheckout(b, p)
    PROVE  \A o \in BookingId : Quiet(o)
<1>1. booking[b] \in Row /\ payment[b] \in [OnlineProvider -> Pay] BY RowOf
<1>2. CASE CancelCheckout(b, p) /\ HoldLapsed(booking[b], now)
  BY <1>2, QuietExpire DEF CancelCheckout
<1>3. CASE ~(CancelCheckout(b, p) /\ HoldLapsed(booking[b], now))
  <2>1. /\ booking[b].status = "PENDING_PAYMENT" /\ booking[b].payStatus # "PAID"
    BY DEF StartCheckout, CancelCheckout, CheckoutCancellable, ConfirmedOnlyWhenPaid
  <2>2. PICK status \in {"INITIATED", "CANCELLED"} :
           booking' = [booking EXCEPT ![b] = [booking[b] EXCEPT !.provider = p, !.payStatus = status]]
    BY <1>3 DEF StartCheckout, CancelCheckout, TypeOK
  <2>3. PICK pay : /\ payment' = [payment EXCEPT ![b] = [payment[b] EXCEPT ![p] = pay]]
                   /\ PayQuiet(payment[b][p], pay)
    <3>1. CASE StartCheckout(b, p, x)
      <4> DEFINE pay == [payment[b][p] EXCEPT !.exists = TRUE, !.status = "INITIATED", !.order = x]
      <4>1. payment' = [payment EXCEPT ![b] = [payment[b] EXCEPT ![p] = pay]]
        BY <1>1, <3>1 DEF StartCheckout, TypeOK
      <4>2. PayQuiet(payment[b][p], pay) BY <1>1 DEF PayQuiet, Pay, PaymentRow
      <4> QED BY <4>1, <4>2
    <3>2. CASE CancelCheckout(b, p) /\ ~HoldLapsed(booking[b], now)
      <4> DEFINE pay == LeavePayment(payment[b][p])
      <4>1. payment' = [payment EXCEPT ![b] = [payment[b] EXCEPT ![p] = pay]]
        BY <1>1, <3>2 DEF CancelCheckout, TypeOK
      <4>2. PayQuiet(payment[b][p], pay) BY <1>1 DEF LeavePayment, PayQuiet, Pay, PaymentRow
      <4> QED BY <4>1, <4>2
    <3> QED BY <1>3, <3>1, <3>2
  <2> DEFINE row == [booking[b] EXCEPT !.provider = p, !.payStatus = status]
             pays == [payment[b] EXCEPT ![p] = pay]
  <2>4. RowQuiet(booking[b], row) /\ KeepsPaid(booking[b], row)
    BY <1>1, <2>1 DEF RowQuiet, KeepsPaid, Sound, Row, BookingRow
  <2>5. \A q \in OnlineProvider : PayQuiet(payment[b][q], pays[q])
    BY <1>1, <2>3 DEF PayQuiet
  <2> HIDE DEF row, pays
  <2> QED BY <2>2, <2>3, <2>4, <2>5, QuietUpdate DEF row, pays
<1> QED BY <1>2, <1>3

\* A cancellation without a refund, and all the administrator does, are quiet.
LEMMA QuietCancel ==
    ASSUME TypeOK, NEW b \in BookingId, CancelWithoutRefund(b)
    PROVE  \A o \in BookingId : Quiet(o)
<1>1. /\ booking[b] \in Row
      /\ \A p \in OnlineProvider : /\ CancelPayment(payment[b][p]) \in Pay
                                   /\ PayQuiet(payment[b][p], CancelPayment(payment[b][p]))
  BY RowOf, QuietPays, PaymentTypes, RefAssumption DEF PaymentStatus
<1> DEFINE p == booking[b].provider
           pays == IF RefundRow(b).exists
                   THEN [CancelledPayments(b) EXCEPT ![p].refund = "NOT_REQUIRED"]
                   ELSE CancelledPayments(b)
<1>2. RefundRow(b).exists => p \in OnlineProvider BY DEF RefundRow, NoPayment
<1>3. \A q \in OnlineProvider : PayQuiet(payment[b][q], pays[q])
  BY <1>1, <1>2 DEF CancelledPayments, PayQuiet, Pay, PaymentRow
<1>4. /\ booking' = [booking EXCEPT ![b] = CancelRow(booking[b])]
      /\ payment' = [payment EXCEPT ![b] = pays]
  BY DEF CancelWithoutRefund, TypeOK
<1> HIDE DEF pays
<1> QED BY <1>1, <1>3, <1>4, QuietRows, QuietUpdate

LEMMA QuietAdmin ==
    ASSUME TypeOK, NEW b \in BookingId, Sound(booking[b]), AdminStep(b)
    PROVE  \A o \in BookingId : Quiet(o)
<1>1. booking[b] \in Row BY RowOf
<1>2. ASSUME NEW c \in Court, NEW s \in Slot, CreateAdminBooking(b, c, s)
      PROVE \A o \in BookingId : Quiet(o)
  BY <1>2, QuietInsert
<1>3. ASSUME NEW c \in Court, NEW s \in Slot, AdminUpdate(b, c, s)
      PROVE \A o \in BookingId : Quiet(o)
  <2> DEFINE row == [booking[b] EXCEPT !.court = c, !.slot = s]
  <2>1. booking' = [booking EXCEPT ![b] = row] /\ payment' = payment
    BY <1>3 DEF AdminUpdate, TypeOK
  <2>2. RowQuiet(booking[b], row) /\ KeepsPaid(booking[b], row)
    BY <1>1 DEF RowQuiet, KeepsPaid, Sound, Row, BookingRow
  <2> HIDE DEF row
  <2> QED BY <2>1, <2>2, QuietRow
<1>4. ASSUME AdminCancel(b) PROVE \A o \in BookingId : Quiet(o)
  <2> DEFINE row == [CancelRow(booking[b]) EXCEPT !.completed = FALSE, !.noShow = FALSE, !.balance = FALSE]
  <2>1. /\ booking' = [booking EXCEPT ![b] = row]
        /\ payment' = [payment EXCEPT ![b] = CancelledPayments(b)]
    BY <1>4 DEF AdminCancel
  <2>2. RowQuiet(booking[b], row) /\ KeepsPaid(booking[b], row)
    BY <1>1 DEF CancelRow, RowQuiet, KeepsPaid, Sound, Row, BookingRow
  <2>3. \A p \in OnlineProvider : PayQuiet(payment[b][p], CancelledPayments(b)[p])
    BY RowOf, QuietPays DEF CancelledPayments
  <2> HIDE DEF row
  <2> QED BY <2>1, <2>2, <2>3, QuietUpdate
<1>5. ASSUME NEW target \in BookingStatus, AdminSetOutcome(b, target)
      PROVE \A o \in BookingId : Quiet(o)
  <2>1. /\ target \in {"CONFIRMED", "COMPLETED", "NO_SHOW"}
        /\ booking[b].status \in {"CONFIRMED", "COMPLETED", "NO_SHOW"}
    BY <1>5 DEF AdminSetOutcome, MayMoveTo, ADMIN_ALLOWED_STATUS_TRANSITIONS
  <2>2. RowQuiet(booking[b], OutcomeRow(booking[b], target))
        /\ KeepsPaid(booking[b], OutcomeRow(booking[b], target))
    BY <1>1, <2>1 DEF OutcomeRow, RowQuiet, KeepsPaid, Sound, Row, BookingRow
  <2> QED BY <1>5, <2>2, QuietRow DEF AdminSetOutcome
<1>6. ASSUME MarkBalancePaid(b) PROVE \A o \in BookingId : Quiet(o)
  <2> DEFINE row == [booking[b] EXCEPT !.balance = TRUE]
  <2>1. booking' = [booking EXCEPT ![b] = row] /\ payment' = payment
    BY <1>6 DEF MarkBalancePaid, TypeOK
  <2>2. RowQuiet(booking[b], row) /\ KeepsPaid(booking[b], row)
    BY <1>1 DEF RowQuiet, KeepsPaid, Sound, Row, BookingRow
  <2> HIDE DEF row
  <2> QED BY <2>1, <2>2, QuietRow
<1>7. ASSUME DeleteBooking(b) PROVE \A o \in BookingId : Quiet(o)
  <2>1. ASSUME NEW o \in BookingId \ {b} PROVE Quiet(o)
    <3>1. booking'[o] = booking[o] /\ payment'[o] = payment[o]
      BY <1>7 DEF DeleteBooking, TypeOK
    <3> QED BY <3>1 DEF Quiet, RowQuiet, KeepsPaid
  <2>2. /\ booking'[b] = NoBooking("DELETED")
        /\ payment'[b] = [p \in OnlineProvider |-> NoPayment(NoRef)]
    BY <1>7 DEF DeleteBooking, TypeOK
  <2>3. Quiet(b)
    BY <2>2 DEF Quiet, RowQuiet, Sound, Sought, NoBooking, NewBooking, NoPayment
  <2> QED BY <2>1, <2>3
<1> QED BY <1>2, <1>3, <1>4, <1>5, <1>6, <1>7 DEF AdminStep

-----------------------------------------------------------------------------
(* Money.                                                                  *)

\* What ties the tables to the providers.  A refund that failed was asked for a
\* booking that is still paid, so that the next attempt is about a capture too.
MoneyInv ==
    /\ refunded \subseteq Session
    /\ \A b \in BookingId : Sound(booking[b])
    /\ \A b \in BookingId, p \in OnlineProvider :
          payment[b][p].refund = "FAILED" => booking[b].payStatus = "PAID"
    /\ PaidIsCaptured
    /\ RecordedRefundWasMade

\* The capture that a booking's payment by p names was made for it.
PaidFor(b, p) ==
    LET k == payment[b][p].capture IN k \in Session /\ Captured(b, k) /\ ProviderOf(k) = p

LEMMA CaptureStays ==
    ASSUME CapturesKept, NEW b, NEW x \in Session, Captured(b, x)
    PROVE  Captured(b, x)' /\ ProviderOf(x)' = ProviderOf(x)
  BY DEF CapturesKept, Captured, BookingOf, ProviderOf

\* A booking that stays paid stays paid for.
LEMMA PaidForStays ==
    ASSUME CapturesKept, NEW b, NEW p, PaidFor(b, p),
           payment'[b][p].capture = payment[b][p].capture
    PROVE  PaidFor(b, p)'
<1>1. PICK k \in Session :
         k = payment[b][p].capture /\ Captured(b, k) /\ ProviderOf(k) = p
  BY DEF PaidFor
<1>2. Captured(b, k)' /\ ProviderOf(k)' = p BY <1>1, CaptureStays
<1>3. payment'[b][p].capture = k BY <1>1
<1> QED BY <1>2, <1>3 DEF PaidFor

\* MoneyInv, one booking at a time.
MoneyOf(b) ==
    /\ Sound(booking[b])
    /\ \A p \in OnlineProvider : payment[b][p].refund = "FAILED" => booking[b].payStatus = "PAID"
    /\ booking[b].payStatus = "PAID" =>
          booking[b].provider \in OnlineProvider /\ PaidFor(b, booking[b].provider)
    /\ \A p \in OnlineProvider : Refunded(payment[b][p]) =>
          \E x \in refunded : Captured(b, x) /\ ProviderOf(x) = p

LEMMA MoneyByBooking ==
    MoneyInv <=> refunded \subseteq Session /\ \A b \in BookingId : MoneyOf(b)
  BY DEF MoneyInv, MoneyOf, PaidIsCaptured, RecordedRefundWasMade, PaidFor, Refunded

LEMMA MoneyNext ==
    ASSUME refunded' \subseteq Session, \A b \in BookingId : MoneyOf(b)'
    PROVE  MoneyInv'
  BY DEF MoneyInv, MoneyOf, PaidIsCaptured, RecordedRefundWasMade, PaidFor, Refunded, Session

\* Refunds that were made stay made.
LEMMA RefundStays ==
    ASSUME CapturesKept, refunded \subseteq Session, refunded \subseteq refunded', NEW b, NEW p,
           \E x \in refunded : Captured(b, x) /\ ProviderOf(x) = p
    PROVE  \E x \in refunded' : Captured(b, x)' /\ ProviderOf(x)' = p
  BY CaptureStays

\* A quiet booking keeps its money right.
LEMMA QuietMoney ==
    ASSUME NEW b \in BookingId, MoneyOf(b), Quiet(b), CapturesKept,
           refunded \subseteq Session, refunded \subseteq refunded'
    PROVE  MoneyOf(b)'
<1>1. Sound(booking[b])' BY DEF MoneyOf, Quiet, RowQuiet, Sound
<1>2. ASSUME NEW p \in OnlineProvider, payment'[b][p].refund = "FAILED"
      PROVE  booking'[b].payStatus = "PAID"
  BY <1>2 DEF MoneyOf, Quiet, Sought, KeepsPaid
<1>3. ASSUME booking'[b].payStatus = "PAID"
      PROVE  booking'[b].provider \in OnlineProvider /\ PaidFor(b, booking[b].provider)'
  <2> DEFINE p == booking[b].provider
  <2>1. /\ booking[b].payStatus = "PAID" /\ booking'[b].provider = p
        /\ p \in OnlineProvider /\ PaidFor(b, p)
    BY <1>3 DEF Quiet, RowQuiet, MoneyOf
  <2>2. payment'[b][p].capture = payment[b][p].capture BY <1>3, <2>1 DEF Quiet
  <2>3. PaidFor(b, booking[b].provider) /\ booking'[b].provider = booking[b].provider BY <2>1
  <2>4. ASSUME NEW q, PaidFor(b, q), payment'[b][q].capture = payment[b][q].capture
        PROVE  PaidFor(b, q)'
    BY <2>4, PaidForStays
  <2> QED BY <2>1, <2>2, <2>4 DEF PaidFor
<1>4. ASSUME NEW p \in OnlineProvider, Refunded(payment[b][p])'
      PROVE  \E x \in refunded' : Captured(b, x)' /\ ProviderOf(x)' = p
  <2>1. Refunded(payment[b][p]) BY <1>4 DEF Refunded, Quiet, Sought
  <2> QED BY <2>1, RefundStays DEF MoneyOf
<1> QED BY <1>1, <1>2, <1>3, <1>4 DEF MoneyOf

\* A report settles the payment it is about, and leaves the rest alone.
LEMMA ReportMoney ==
    ASSUME TypeOK, MoneyInv, CapturesKept, UNCHANGED refunded, NEW x \in Session, Reports(x)
    PROVE  MoneyInv' /\ ConfirmationStep
<1>1. PICK b \in BookingId, p \in OnlineProvider, t \in 0..now :
         /\ session'[x].state = "captured" /\ session'[x].at = t
         /\ BookingOf(x) = b /\ BookingOf(x)' = b /\ ProviderOf(x)' = p
         /\ ConfirmPayment(b, p, x, x, t)
  BY DEF Reports
<1>2. Captured(b, x)' /\ ProviderOf(x)' = p BY <1>1 DEF Captured
<1>3. /\ booking[b] \in Row /\ payment[b] \in [OnlineProvider -> Pay]
      /\ \A q \in OnlineProvider : payment[b][q] \in Pay
      /\ \A o \in BookingId : MoneyOf(o)
  BY RowOf, MoneyByBooking
<1>4. ASSUME NEW o \in BookingId \ {b} PROVE booking'[o] = booking[o] /\ payment'[o] = payment[o]
  BY <1>1 DEF ConfirmPayment, TypeOK
<1>5. /\ payment'[b][p].capture = x /\ payment'[b][p].refund = payment[b][p].refund
      /\ \A q \in OnlineProvider \ {p} : /\ payment'[b][q].capture = payment[b][q].capture
                                         /\ payment'[b][q].refund = payment[b][q].refund
  <2>1. ASSUME NEW pay \in Pay, NEW status
        PROVE  /\ Settled(pay, x, x, status).capture = x
               /\ Settled(pay, x, x, status).refund = pay.refund
               /\ ExpirePayment(pay).capture = pay.capture
               /\ ExpirePayment(pay).refund = pay.refund
    BY DEF Settled, ExpirePayment, Pay, PaymentRow
  <2>2. \E status \in {"CANCELLED", "EXPIRED", "PAID"} :
           /\ payment'[b][p] = Settled(payment[b][p], x, x, status)
           /\ \A q \in OnlineProvider \ {p} :
                 payment'[b][q] \in {payment[b][q], ExpirePayment(payment[b][q])}
    BY <1>1, <1>3 DEF ConfirmPayment, TypeOK
  <2> QED BY <1>3, <2>1, <2>2
<1>6. \/ booking'[b] = booking[b]
      \/ HoldLapsed(booking[b], t) /\ booking'[b] = ExpireRow(booking[b])
      \/ /\ booking'[b] = PayRow(booking[b], p) /\ ~TooLate(booking[b], t)
  BY <1>1 DEF ConfirmPayment, TypeOK
<1>7. /\ KeepsPaid(booking[b], booking'[b]) /\ Sound(booking'[b])
      /\ booking'[b].payStatus = "PAID" =>
            \/ booking'[b].provider = p
            \/ booking[b].payStatus = "PAID" /\ booking'[b].provider = booking[b].provider
      /\ booking[b].status \in {"PENDING_PAYMENT", "EXPIRED"} /\ booking'[b].status = "CONFIRMED"
            => ~TooLate(booking[b], t)
  <2>1. Sound(booking[b]) BY <1>3 DEF MoneyOf
  <2>2. CASE booking'[b] = booking[b] BY <2>1, <2>2 DEF KeepsPaid
  <2>3. CASE HoldLapsed(booking[b], t) /\ booking'[b] = ExpireRow(booking[b])
    <3>1. RowQuiet(booking[b], booking'[b]) /\ KeepsPaid(booking[b], booking'[b])
      BY <1>3, <2>3, QuietRows
    <3> QED BY <2>1, <3>1 DEF RowQuiet
  <2>4. CASE booking'[b] = PayRow(booking[b], p) /\ ~TooLate(booking[b], t)
    BY <1>3, <2>1, <2>4 DEF PayRow, KeepsPaid, Sound, Row, BookingRow
  <2> QED BY <1>6, <2>2, <2>3, <2>4
<1>8. MoneyOf(b)'
  <2>1. ASSUME NEW q \in OnlineProvider, PaidFor(b, q) \/ q = p PROVE PaidFor(b, q)'
    <3>1. CASE q = p BY <1>2, <1>5, <3>1 DEF PaidFor
    <3>2. CASE q # p
      <4>1. payment'[b][q].capture = payment[b][q].capture BY <1>5, <3>2
      <4> QED BY <2>1, <3>2, <4>1, PaidForStays
    <3> QED BY <3>1, <3>2
  <2>2. ASSUME booking'[b].payStatus = "PAID"
        PROVE  booking'[b].provider \in OnlineProvider /\ PaidFor(b, booking[b].provider)'
    <3>1. PICK q \in OnlineProvider : booking'[b].provider = q /\ (PaidFor(b, q) \/ q = p)
      BY <1>3, <1>7, <2>2 DEF MoneyOf
    <3>2. PaidFor(b, q)' BY <2>1, <3>1
    <3> QED BY <3>1, <3>2 DEF PaidFor
  <2>3. ASSUME NEW q \in OnlineProvider
        PROVE  /\ payment'[b][q].refund = "FAILED" => booking'[b].payStatus = "PAID"
               /\ Refunded(payment[b][q])' =>
                     \E y \in refunded' : Captured(b, y)' /\ ProviderOf(y)' = q
    <3>1. payment'[b][q].refund = payment[b][q].refund BY <1>5
    <3>2. payment[b][q].refund = "FAILED" => booking[b].payStatus = "PAID" BY <1>3 DEF MoneyOf
    <3>3. Refunded(payment[b][q]) => \E y \in refunded : Captured(b, y) /\ ProviderOf(y) = q
      BY <1>3 DEF MoneyOf
    <3>4. Refunded(payment[b][q])' => Refunded(payment[b][q]) BY <3>1 DEF Refunded
    <3>5. (\E y \in refunded : Captured(b, y) /\ ProviderOf(y) = q)
             => \E y \in refunded' : Captured(b, y)' /\ ProviderOf(y)' = q
      BY RefundStays DEF MoneyInv
    <3> QED BY <1>7, <3>1, <3>2, <3>3, <3>4, <3>5 DEF KeepsPaid
  <2> QED BY <1>7, <2>2, <2>3 DEF MoneyOf, Sound
<1>9. ASSUME NEW o \in BookingId \ {b} PROVE MoneyOf(o)'
  <2>1. Quiet(o) BY <1>4 DEF Quiet, RowQuiet, KeepsPaid
  <2> QED BY <1>3, <2>1, QuietMoney DEF MoneyInv
<1>10. MoneyInv'
  <2>1. \A o \in BookingId : MoneyOf(o)' BY <1>8, <1>9
  <2>2. refunded' \subseteq Session BY DEF MoneyInv
  <2> QED BY <2>1, <2>2, MoneyNext
<1>11. ConfirmationStep
  <2> SUFFICES ASSUME NEW o \in BookingId,
                      booking[o].status \in {"PENDING_PAYMENT", "EXPIRED"},
                      booking'[o].status = "CONFIRMED"
               PROVE  /\ session'[x].state = "captured" /\ BookingOf(x) = o
                      /\ session'[x].at <= booking[o].expiresAt
    BY DEF ConfirmationStep
  <2>1. o = b BY <1>4
  <2>2. ~TooLate(booking[b], t) /\ booking[b].expiresAt # NoTime
    BY <1>3, <1>7, <2>1 DEF MoneyOf, Sound
  <2>3. t \in Int /\ booking[b].expiresAt \in Int
    BY <1>3, TimeAssumption DEF TypeOK, Row, BookingRow
  <2> QED BY <1>1, <2>1, <2>2, <2>3 DEF TooLate
<1> QED BY <1>10, <1>11

\* A refund that is due is for a paid booking, and names its capture.
LEMMA RefundDue ==
    ASSUME TypeOK, NEW b \in BookingId, MoneyOf(b),
           RefundRequired(b), RefundRow(b).exists, ~RefundOnRecord(b)
    PROVE  \E p \in OnlineProvider, k \in Session :
              /\ booking[b].provider = p /\ booking[b].payStatus = "PAID"
              /\ k = payment[b][p].capture /\ RefundReference(b) = k
              /\ Captured(b, k) /\ ProviderOf(k) = p
<1>1. PICK p \in OnlineProvider : booking[b].provider = p /\ RefundRow(b) = payment[b][p]
  BY DEF RefundRow, NoPayment
<1>2. booking[b].payStatus = "PAID"
  BY <1>1 DEF RefundRequired, RefundOnRecord, MoneyOf
<1>3. PaidFor(b, p) BY <1>1, <1>2 DEF MoneyOf
<1> QED BY <1>1, <1>2, <1>3 DEF PaidFor, RefundReference

\* Recording what came of a refund, for a booking that stays paid.
LEMMA RefundRecorded ==
    ASSUME TypeOK, MoneyInv, CapturesKept, refunded \subseteq refunded', refunded' \subseteq Session,
           NEW b \in BookingId, NEW p \in OnlineProvider, NEW k \in Session,
           booking[b].payStatus = "PAID", k = payment[b][p].capture,
           Captured(b, k), ProviderOf(k) = p,
           \A o \in BookingId \ {b} : booking'[o] = booking[o] /\ payment'[o] = payment[o],
           booking'[b].payStatus = "PAID", booking'[b].provider = p, Sound(booking'[b]),
           \A q \in OnlineProvider : /\ payment'[b][q].capture = payment[b][q].capture
                                     /\ q # p => payment'[b][q].refund = payment[b][q].refund,
           payment'[b][p].refund = "FAILED" \/ k \in refunded'
    PROVE  MoneyInv'
<1>1. ASSUME NEW o \in BookingId \ {b} PROVE MoneyOf(o)'
  <2>1. Quiet(o) BY DEF Quiet, RowQuiet, KeepsPaid
  <2> QED BY <2>1, QuietMoney, MoneyByBooking
<1>2. PaidFor(b, p) BY DEF PaidFor
<1>3. PaidFor(b, p)' BY <1>2, PaidForStays
<1>4. Captured(b, k)' /\ ProviderOf(k)' = p BY CaptureStays
<1>5. ASSUME NEW q \in OnlineProvider, Refunded(payment[b][q])'
      PROVE  \E y \in refunded' : Captured(b, y)' /\ ProviderOf(y)' = q
  <2>1. CASE q = p
    <3>1. k \in refunded' BY <1>5, <2>1 DEF Refunded
    <3> QED BY <1>4, <2>1, <3>1
  <2>2. CASE q # p
    <3>1. Refunded(payment[b][q]) BY <1>5, <2>2 DEF Refunded
    <3>2. \E y \in refunded : Captured(b, y) /\ ProviderOf(y) = q
      BY <3>1, MoneyByBooking DEF MoneyOf
    <3> QED BY <3>2, RefundStays DEF MoneyInv
  <2> QED BY <2>1, <2>2
<1>6. MoneyOf(b)'
  <2>1. booking'[b].payStatus = "PAID" /\ booking'[b].provider = p OBVIOUS
  <2>2. booking'[b].provider \in OnlineProvider /\ PaidFor(b, booking[b].provider)'
    BY <1>3, <2>1 DEF PaidFor
  <2> QED BY <1>5, <2>1, <2>2 DEF MoneyOf, Sound
<1> QED BY <1>1, <1>6, MoneyNext

\* What a cancellation writes for each payment.
LEMMA CancelledRows ==
    ASSUME TypeOK, NEW b \in BookingId
    PROVE  \A q \in OnlineProvider : /\ CancelledPayments(b)[q] \in Pay
                                     /\ CancelledPayments(b)[q].capture = payment[b][q].capture
                                     /\ CancelledPayments(b)[q].refund = payment[b][q].refund
  BY RowOf DEF CancelledPayments, CancelPayment, Pay, PaymentRow, PaymentStatus

\* Refunds: asked for once, recorded or lost.
LEMMA RefundMoney ==
    ASSUME TypeOK, ConfirmedOnlyWhenPaid, MoneyInv, CapturesKept, UNCHANGED session,
           NEW b \in BookingId, RefundStep(b)
    PROVE  MoneyInv' /\ RefundStepOK /\ ConfirmationStep
<1>1. /\ booking[b] \in Row /\ payment[b] \in [OnlineProvider -> Pay]
      /\ \A q \in OnlineProvider : payment[b][q] \in Pay
      /\ MoneyOf(b) /\ refunded \subseteq Session
  BY RowOf, MoneyByBooking DEF MoneyInv
<1>2. CASE \E outcome \in {"SUCCEEDED", "PENDING"} :
              RefundAccepted(b, outcome) /\ RefundOnRecord(b)
  <2>1. PICK outcome : /\ CancelWithRefund(b, outcome) /\ outcome = RefundRow(b).refund
                       /\ UNCHANGED refunded
    BY <1>2 DEF RefundAccepted, CancelWithRefund
  <2>2. PICK p \in OnlineProvider : booking[b].provider = p /\ outcome = payment[b][p].refund
    BY <2>1 DEF CancelWithRefund, RefundRow, NoPayment
  <2> DEFINE pays == [CancelledPayments(b) EXCEPT ![p].refund = outcome]
  <2>3. \A q \in OnlineProvider : PayQuiet(payment[b][q], pays[q])
    BY <1>1, <2>2, CancelledRows DEF PayQuiet, CancelledPayments, Pay, PaymentRow
  <2>4. booking' = [booking EXCEPT ![b] = CancelRow(booking[b])]
        /\ payment' = [payment EXCEPT ![b] = pays]
    BY <2>1, <2>2 DEF CancelWithRefund
  <2> HIDE DEF pays
  <2>5. \A o \in BookingId : Quiet(o) BY <1>1, <2>3, <2>4, QuietRows, QuietUpdate
  <2>6. \A o \in BookingId : MoneyOf(o)' BY <2>1, <2>5, QuietMoney, MoneyByBooking
  <2> QED BY <1>1, <2>1, <2>5, <2>6, MoneyNext
          DEF RefundStepOK, ConfirmationStep, Quiet, RowQuiet
<1>3. CASE /\ PublicCancellable(b) /\ RefundRequired(b) /\ RefundRow(b).exists
           /\ ~RefundOnRecord(b)
  <2>1. PICK p \in OnlineProvider, k \in Session :
           /\ booking[b].provider = p /\ booking[b].payStatus = "PAID"
           /\ k = payment[b][p].capture /\ RefundReference(b) = k
           /\ Captured(b, k) /\ ProviderOf(k) = p
    BY <1>1, <1>3, RefundDue
  <2>2. /\ booking[b].status = "CONFIRMED"
        /\ refunded' = refunded \/ refunded' = refunded \cup {k}
    BY <1>3, <2>1 DEF RefundStep, RefundAccepted, RefundRefused, RefundAnswerLost,
       CrashAfterRefund, AskRefund, PublicCancellable, ConfirmedOnlyWhenPaid, providerVars
  <2>3. refunded \subseteq refunded' /\ refunded' \subseteq Session BY <1>1, <2>2
  <2>4. RefundStepOK
    BY <2>1, <2>2 DEF RefundStepOK, Captured
  <2>5. ASSUME NEW outcome \in {"SUCCEEDED", "PENDING"}, RefundAccepted(b, outcome)
        PROVE  MoneyInv' /\ ConfirmationStep
    <3> DEFINE pays == [CancelledPayments(b) EXCEPT ![p].refund = outcome]
    <3>1. /\ booking' = [booking EXCEPT ![b] = CancelRow(booking[b])]
          /\ payment' = [payment EXCEPT ![b] = pays] /\ k \in refunded'
      BY <1>3, <2>1, <2>5 DEF RefundAccepted, CancelWithRefund, AskRefund
    <3>2. \A q \in OnlineProvider : /\ pays[q].capture = payment[b][q].capture
                                    /\ q # p => pays[q].refund = payment[b][q].refund
      BY <1>1, CancelledRows DEF CancelledPayments, Pay, PaymentRow
    <3>3. /\ Sound(CancelRow(booking[b])) /\ CancelRow(booking[b]).payStatus = "PAID"
          /\ CancelRow(booking[b]).provider = p
      <4>1. RowQuiet(booking[b], CancelRow(booking[b])) /\ KeepsPaid(booking[b], CancelRow(booking[b]))
            /\ CancelRow(booking[b]).provider = booking[b].provider
        BY <1>1, QuietRows
      <4> QED BY <1>1, <2>1, <4>1 DEF RowQuiet, KeepsPaid, MoneyOf
    <3> HIDE DEF pays
    <3>4. /\ booking'[b] = CancelRow(booking[b]) /\ payment'[b] = pays
          /\ \A o \in BookingId \ {b} : booking'[o] = booking[o] /\ payment'[o] = payment[o]
      BY <3>1 DEF TypeOK
    <3>5. /\ booking'[b].payStatus = "PAID" /\ booking'[b].provider = p /\ Sound(booking'[b])
          /\ \A q \in OnlineProvider : /\ payment'[b][q].capture = payment[b][q].capture
                                       /\ q # p => payment'[b][q].refund = payment[b][q].refund
      BY <3>2, <3>3, <3>4
    <3>6. MoneyInv' BY <2>1, <2>3, <3>1, <3>4, <3>5, RefundRecorded
    <3>7. ConfirmationStep
      BY <1>1, <3>1, QuietRows DEF ConfirmationStep, TypeOK
    <3> QED BY <3>6, <3>7
  <2>6. ASSUME RefundFails(b) PROVE MoneyInv' /\ ConfirmationStep
    <3> DEFINE pays == [payment[b] EXCEPT ![p] = [payment[b][p] EXCEPT !.refund = "FAILED"]]
    <3>1. /\ booking' = [booking EXCEPT ![b] = booking[b]]
          /\ payment' = [payment EXCEPT ![b] = pays]
      BY <1>1, <2>1, <2>6 DEF RefundFails, TypeOK
    <3>2. /\ \A q \in OnlineProvider : /\ pays[q].capture = payment[b][q].capture
                                       /\ q # p => pays[q].refund = payment[b][q].refund
          /\ pays[p].refund = "FAILED"
      BY <1>1 DEF Pay, PaymentRow
    <3> HIDE DEF pays
    <3>3. /\ booking'[b] = booking[b] /\ payment'[b] = pays /\ Sound(booking[b])
          /\ \A o \in BookingId \ {b} : booking'[o] = booking[o] /\ payment'[o] = payment[o]
      BY <1>1, <3>1 DEF TypeOK, MoneyOf
    <3>4. /\ booking'[b].payStatus = "PAID" /\ booking'[b].provider = p /\ Sound(booking'[b])
          /\ payment'[b][p].refund = "FAILED"
          /\ \A q \in OnlineProvider : /\ payment'[b][q].capture = payment[b][q].capture
                                       /\ q # p => payment'[b][q].refund = payment[b][q].refund
      BY <2>1, <3>2, <3>3
    <3>5. MoneyInv' BY <2>1, <2>3, <3>3, <3>4, RefundRecorded
    <3>6. ConfirmationStep BY <2>6 DEF RefundFails, ConfirmationStep
    <3> QED BY <3>5, <3>6
  <2>7. ASSUME UNCHANGED vars PROVE MoneyInv' /\ ConfirmationStep
    <3>1. \A o \in BookingId : Quiet(o) BY <2>7, QuietSame DEF vars
    <3>2. \A o \in BookingId : MoneyOf(o)' BY <2>3, <3>1, QuietMoney, MoneyByBooking
    <3> QED BY <2>3, <2>7, <3>2, MoneyNext DEF vars, ConfirmationStep
  <2>8. \/ \E outcome \in {"SUCCEEDED", "PENDING"} : RefundAccepted(b, outcome)
        \/ RefundFails(b) \/ UNCHANGED vars
    BY DEF RefundStep, RefundRefused, RefundAnswerLost, CrashAfterRefund
  <2> QED BY <2>4, <2>5, <2>6, <2>7, <2>8
<1> QED BY <1>2, <1>3 DEF RefundStep, RefundAccepted, RefundRefused, RefundAnswerLost,
                          CrashAfterRefund, CancelWithRefund, RefundFails

\* Quiet steps, as a whole.
LEMMA QuietKeeps ==
    ASSUME MoneyInv, CapturesKept, UNCHANGED refunded, \A o \in BookingId : Quiet(o)
    PROVE  MoneyInv' /\ RefundStepOK /\ ConfirmationStep
<1>1. \A o \in BookingId : MoneyOf(o)' BY QuietMoney, MoneyByBooking DEF MoneyInv
<1> QED BY <1>1, MoneyNext DEF MoneyInv, RefundStepOK, ConfirmationStep, Quiet, RowQuiet

LEMMA LocalQuiet ==
    ASSUME TypeOK, MoneyInv, LocalStep
    PROVE  \A o \in BookingId : Quiet(o)
<1>1. ASSUME NEW b \in BookingId, NEW c \in Court, NEW s \in Slot,
             CreatePublicBooking(b, c, s) \/ CreatePlayBooking(b, c, s)
      PROVE  \A o \in BookingId : Quiet(o)
  BY <1>1, QuietInsert DEF MoneyInv
<1>2. ASSUME NEW b \in BookingId, ExpireOnRead(b) PROVE \A o \in BookingId : Quiet(o)
  BY <1>2, QuietExpire DEF ExpireOnRead
<1>3. ASSUME NEW b \in BookingId, CancelWithoutRefund(b) PROVE \A o \in BookingId : Quiet(o)
  BY <1>3, QuietCancel
<1>4. ASSUME NEW b \in BookingId, AdminStep(b) PROVE \A o \in BookingId : Quiet(o)
  BY <1>4, QuietAdmin DEF MoneyInv
<1>5. CASE ExpirePendingJob BY <1>5, QuietExpire DEF ExpirePendingJob
<1>6. CASE Tick \/ \E c \in Court, s \in Period : CreateBlackout(c, s)
  BY <1>6, QuietSame DEF Tick, CreateBlackout
<1> QED BY <1>1, <1>2, <1>3, <1>4, <1>5, <1>6 DEF LocalStep

\* Every step of the providers and the tables.
LEMMA MoneyStep ==
    ASSUME TypeOK, SessionsOK, ConfirmedOnlyWhenPaid, MoneyInv, [PNext]_allVars
    PROVE  MoneyInv' /\ (RefundStepOK \/ UNCHANGED allVars) /\ (ConfirmationStep \/ UNCHANGED allVars)
<1>1. CapturesKept BY DrivenStep
<1>2. CASE LocalStep
  <2>1. UNCHANGED refunded BY <1>2 DEF LocalStep, providerVars
  <2> QED BY <1>1, <1>2, <2>1, LocalQuiet, QuietKeeps
<1>3. ASSUME NEW x \in Session, SessionStep(x) PROVE MoneyInv' /\ RefundStepOK /\ ConfirmationStep
  <2>1. UNCHANGED refunded
    BY <1>3 DEF SessionStep, Checkout, PayStripe, ApprovePaypal, CloseSession,
                DeliverCapture, DeliverClosed, PaypalReturn, PaypalReturnLost, ReturnCaptures
  <2>2. CASE UNCHANGED vars
    <3>1. \A o \in BookingId : Quiet(o) BY <2>2, QuietSame DEF vars
    <3> QED BY <1>1, <2>1, <3>1, QuietKeeps
  <2>3. ASSUME NEW b \in BookingId, NEW p \in OnlineProvider,
               StartCheckout(b, p, x) \/ CancelCheckout(b, p)
        PROVE  MoneyInv' /\ RefundStepOK /\ ConfirmationStep
    <3>1. \A o \in BookingId : Quiet(o) BY <2>3, QuietCheckout
    <3> QED BY <1>1, <2>1, <3>1, QuietKeeps
  <2>4. CASE Reports(x)
    <3>1. MoneyInv' /\ ConfirmationStep BY <1>1, <2>1, <2>4, ReportMoney
    <3> QED BY <2>1, <3>1 DEF RefundStepOK
  <2> QED BY <1>3, <2>2, <2>3, <2>4, SessionShape
<1>4. ASSUME NEW b \in BookingId, RefundStep(b) PROVE MoneyInv' /\ RefundStepOK /\ ConfirmationStep
  <2>1. UNCHANGED session
    BY <1>4 DEF RefundStep, RefundAccepted, RefundRefused, RefundAnswerLost, CrashAfterRefund,
                providerVars
  <2> QED BY <1>1, <1>4, <2>1, RefundMoney
<1>5. ASSUME NEW b \in BookingId, NEW p \in OnlineProvider, FollowCancelUrl(b, p)
      PROVE  MoneyInv' /\ RefundStepOK /\ ConfirmationStep
  <2>1. CancelCheckout(b, p) /\ UNCHANGED refunded BY <1>5 DEF FollowCancelUrl, providerVars
  <2>2. \A o \in BookingId : Quiet(o) BY <2>1, QuietCheckout
  <2> QED BY <1>1, <2>1, <2>2, QuietKeeps
<1>6. CASE UNCHANGED allVars
  <2>1. /\ \A o \in BookingId : Quiet(o)
        /\ UNCHANGED refunded
    BY <1>6, QuietSame DEF allVars
  <2> QED BY <1>1, <1>6, <2>1, QuietKeeps
<1> QED BY <1>2, <1>3, <1>4, <1>5, <1>6 DEF PNext

LEMMA InitMoney == PInit => MoneyInv
  BY DEF PInit, Init, NoBooking, NewBooking, NoPayment, MoneyInv, Sound, PaidIsCaptured,
         RecordedRefundWasMade

LEMMA MoneyCorrect ==
    PSpec => [](TypeOK /\ SessionsOK /\ ConfirmedOnlyWhenPaid /\ MoneyInv)
<1>1. PInit => MoneyInv BY InitMoney
<1>2. TypeOK /\ SessionsOK /\ ConfirmedOnlyWhenPaid /\ MoneyInv /\ [PNext]_allVars => MoneyInv'
  BY MoneyStep
<1> QED
  BY <1>1, <1>2, SessionsCorrect, PaymentsDriveBookings, DepositsArePaid, PTL DEF PSpec, DrivesBookings

\* Paid means that the provider holds a capture made for this booking, by the
\* provider the booking names, whatever order events and checkouts come in.
\* (mark_booking_paid, _confirm_payment)
THEOREM PaidMeansCaptured == PSpec => []PaidIsCaptured
  BY MoneyCorrect, PTL DEF MoneyInv

\* A refund on record was made: crashes and lost answers may leave a refund
\* unrecorded, never a record without a refund.  (refund_booking_payment)
THEOREM RefundsWereMade == PSpec => []RecordedRefundWasMade
  BY MoneyCorrect, PTL DEF MoneyInv

\* Money goes back only for a booking that is paid and stands.
\* (cancel_public_booking, get_booking_refund_snapshot)
THEOREM RefundsAreForStandingBookings == PSpec => RefundOnlyForStandingBooking
<1>1. TypeOK /\ SessionsOK /\ ConfirmedOnlyWhenPaid /\ MoneyInv /\ [PNext]_allVars
        => [RefundStepOK]_allVars
  BY MoneyStep
<1> QED BY <1>1, MoneyCorrect, PTL DEF PSpec, RefundOnlyForStandingBooking

\* Only money paid while the hold ran confirms a booking.  (_confirm_payment)
THEOREM TimelyMoneyConfirms == PSpec => OnlyTimelyPaymentConfirms
<1>1. TypeOK /\ SessionsOK /\ ConfirmedOnlyWhenPaid /\ MoneyInv /\ [PNext]_allVars
        => [ConfirmationStep]_allVars
  BY MoneyStep
<1> QED BY <1>1, MoneyCorrect, PTL DEF PSpec, OnlyTimelyPaymentConfirms
=============================================================================

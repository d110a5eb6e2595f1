--------------------------- MODULE Bookings_proofs ---------------------------
(***************************************************************************)
(* Theorems of Bookings for any courts, slots, bookings, providers,        *)
(* deposit policy and times.  TypeOK is inductive; NoDoubleBooking is      *)
(* inductive together with it.  Then the life of a booking: outcomes and   *)
(* balances come after the fact, a refund leaves nothing standing, and     *)
(* only a payment brings a booking back.                                   *)
(***************************************************************************)
EXTENDS Bookings, TLAPS

Row == BookingRow(Court, Slot)
Pay == PaymentRow(Ref)

-----------------------------------------------------------------------------
(* What the rules of BookingRules do to a row.                             *)

\* The row that stands for no row is a row.
LEMMA NoBookingType ==
    ASSUME NEW status \in Gone
    PROVE  NoBooking(status) \in Row
<1>1. (CHOOSE c \in Court : TRUE) \in Court /\ (CHOOSE s \in Slot : TRUE) \in Slot
  BY NonEmptyAssumption
<1> QED
  BY <1>1 DEF NoBooking, NewBooking, Row, BookingRow, NoTime, PaymentProvider, PaymentStatus, Origin

\* A booking is born with its type.
LEMMA NewBookingType ==
    ASSUME NEW status \in BookingStatus, NEW c \in Court, NEW s \in Slot,
           NEW deposit \in BOOLEAN, NEW p \in PaymentProvider, NEW e \in Int,
           NEW origin \in Origin
    PROVE  NewBooking(status, c, s, deposit, p, e, origin) \in Row
  BY DEF NewBooking, Row, BookingRow, PaymentStatus

\* The payment row that does not exist is a payment row.
LEMMA NoPaymentType == NoPayment(NoRef) \in Pay
  BY RefAssumption DEF NoPayment, Pay, PaymentRow, PaymentStatus, RefundStatus

\* Expiring, cancelling and paying keep the type of a booking.
LEMMA RowTypes ==
    ASSUME NEW row \in Row, NEW p \in OnlineProvider
    PROVE  /\ ExpireRow(row) \in Row
           /\ CancelRow(row) \in Row
           /\ PayRow(row, p) \in Row
<1>1. ExpireRow(row) \in Row
  BY DEF ExpireRow, Row, BookingRow, BookingStatus, PaymentStatus
<1>2. CancelRow(row) \in Row
  BY DEF CancelRow, Row, BookingRow, BookingStatus, PaymentStatus
<1>3. PayRow(row, p) \in Row
  <2>1. p \in PaymentProvider /\ NoTime \in Int BY DEF PaymentProvider, NoTime
  <2> QED BY <2>1 DEF PayRow, Row, BookingRow, BookingStatus, PaymentStatus
<1> QED BY <1>1, <1>2, <1>3

\* ... and none of them moves it.
LEMMA RowPlaces ==
    ASSUME NEW row \in Row, NEW p \in OnlineProvider
    PROVE  /\ ~Blocking(ExpireRow(row)) /\ ~Blocking(CancelRow(row))
           /\ PayRow(row, p).court = row.court /\ PayRow(row, p).slot = row.slot
  BY DEF ExpireRow, CancelRow, PayRow, Blocking, BLOCKING_STATUSES, Row, BookingRow

\* Expiring, cancelling and settling keep the type of a payment.
LEMMA PaymentTypes ==
    ASSUME NEW pay \in Pay, NEW o \in Ref, NEW k \in Ref, NEW status \in PaymentStatus
    PROVE  /\ ExpirePayment(pay) \in Pay
           /\ CancelPayment(pay) \in Pay
           /\ LeavePayment(pay) \in Pay
           /\ Settled(pay, o, k, status) \in Pay
  BY DEF ExpirePayment, CancelPayment, LeavePayment, Settled, Pay, PaymentRow, PaymentStatus

\* The payment a checkout was opened for, and one whose refund was answered.
LEMMA OpenedType ==
    ASSUME NEW pay \in Pay, NEW o \in Ref, NEW refund \in RefundStatus
    PROVE  /\ [pay EXCEPT !.exists = TRUE, !.status = "INITIATED", !.order = o] \in Pay
           /\ [pay EXCEPT !.refund = refund] \in Pay
  BY DEF Pay, PaymentRow, PaymentStatus

-----------------------------------------------------------------------------
(* Types.                                                                  *)

\* The empty tables have their types.
LEMMA InitType == Init => TypeOK
<1> SUFFICES ASSUME Init PROVE TypeOK OBVIOUS
<1>1. now \in 0..MaxTime BY TimeAssumption DEF Init
<1>2. booking \in [BookingId -> Row]
  <2>1. NoBooking("ABSENT") \in Row BY NoBookingType DEF Gone
  <2> QED BY <2>1 DEF Init
<1>3. payment \in [BookingId -> [OnlineProvider -> Pay]]
  BY NoPaymentType DEF Init
<1>4. blackouts \subseteq Blackout BY DEF Init
<1> QED BY <1>1, <1>2, <1>3, <1>4 DEF TypeOK, Row, Pay

\* A booking that is inserted is a row.
LEMMA InsertType ==
    ASSUME TypeOK, NEW b \in BookingId, NEW row \in Row, Insert(b, row)
    PROVE  TypeOK'
<1>1. booking' \in [BookingId -> Row] BY DEF TypeOK, Insert, Row
<1> QED BY <1>1 DEF TypeOK, Insert, Row, Blackout

\* The three ways a booking comes about keep the types.
LEMMA CreateType ==
    ASSUME TypeOK, NEW b \in BookingId, NEW c \in Court, NEW s \in Slot,
           CreatePublicBooking(b, c, s) \/ CreateAdminBooking(b, c, s)
             \/ CreatePlayBooking(b, c, s)
    PROVE  TypeOK'
<1> USE NewBookingType, InsertType, ProviderAssumption, PolicyAssumption
<1>0. now + HoldTicks \in Int /\ NoTime \in Int
  BY TimeAssumption DEF TypeOK, NoTime
<1>1. ASSUME CreatePublicBooking(b, c, s) PROVE TypeOK'
  BY <1>1, <1>0 DEF CreatePublicBooking, BookingStatus, PaymentProvider, OnlineProvider, Origin
<1>2. ASSUME CreateAdminBooking(b, c, s) PROVE TypeOK'
  BY <1>2, <1>0 DEF CreateAdminBooking, BookingStatus, PaymentProvider, Origin
<1>3. ASSUME CreatePlayBooking(b, c, s) PROVE TypeOK'
  BY <1>3, <1>0 DEF CreatePlayBooking, BookingStatus, PaymentProvider, OnlineProvider, Origin
<1> QED BY <1>1, <1>2, <1>3

\* Expiring any holds at any instant keeps both tables' types.
LEMMA ExpireType ==
    ASSUME TypeOK, NEW B, NEW t, Expire(B, t)
    PROVE  /\ booking' \in [BookingId -> Row]
           /\ payment' \in [BookingId -> [OnlineProvider -> Pay]]
<1>1. ASSUME NEW b \in BookingId PROVE ExpireRow(booking[b]) \in Row
  <2>1. booking[b] \in Row BY DEF TypeOK, Row
  <2>2. PICK p \in OnlineProvider : TRUE BY DEF OnlineProvider
  <2> QED BY <2>1, <2>2, RowTypes
<1>2. ASSUME NEW b \in BookingId, NEW p \in OnlineProvider
      PROVE  ExpirePayment(payment[b][p]) \in Pay
  <2>1. payment[b][p] \in Pay BY DEF TypeOK, Pay
  <2> QED BY <2>1, PaymentTypes, RefAssumption DEF PaymentStatus
<1>3. booking' \in [BookingId -> Row] BY <1>1 DEF Expire, TypeOK, Row
<1>4. payment' \in [BookingId -> [OnlineProvider -> Pay]] BY <1>2 DEF Expire, TypeOK, Pay
<1> QED BY <1>3, <1>4

\* Replacing one row of each table by one of its type keeps the types.
LEMMA UpdateType ==
    ASSUME TypeOK, NEW b \in BookingId, NEW row \in Row,
           NEW pays \in [OnlineProvider -> Pay]
    PROVE  /\ [booking EXCEPT ![b] = row] \in [BookingId -> Row]
           /\ [payment EXCEPT ![b] = pays] \in [BookingId -> [OnlineProvider -> Pay]]
  BY DEF TypeOK, Row, Pay

\* What a booking and its payments are, one by one.
LEMMA RowOf ==
    ASSUME TypeOK, NEW b \in BookingId
    PROVE  /\ booking[b] \in Row
           /\ payment[b] \in [OnlineProvider -> Pay]
           /\ \A p \in OnlineProvider : payment[b][p] \in Pay
  BY DEF TypeOK, Row, Pay

\* Refunds and cancellations leave a row of payments.
LEMMA CancelledPaymentsType ==
    ASSUME TypeOK, NEW b \in BookingId
    PROVE  CancelledPayments(b) \in [OnlineProvider -> Pay]
<1>1. ASSUME NEW p \in OnlineProvider PROVE CancelPayment(payment[b][p]) \in Pay
  BY RowOf, PaymentTypes, RefAssumption DEF PaymentStatus
<1> QED BY <1>1 DEF CancelledPayments

\* Opening a checkout keeps the types.
LEMMA StartCheckoutType ==
    ASSUME TypeOK, NEW b \in BookingId, NEW p \in OnlineProvider, NEW o \in Ref,
           StartCheckout(b, p, o)
    PROVE  TypeOK'
<1>1. booking' = [booking EXCEPT ![b] = [booking[b] EXCEPT !.provider = p, !.payStatus = "INITIATED"]]
  BY DEF StartCheckout, TypeOK
<1>2. [booking[b] EXCEPT !.provider = p, !.payStatus = "INITIATED"] \in Row
  <2>1. p \in PaymentProvider BY DEF PaymentProvider
  <2> QED BY <2>1, RowOf DEF Row, BookingRow, PaymentStatus
<1>3. booking' \in [BookingId -> Row] BY <1>1, <1>2 DEF TypeOK, Row
<1>4. payment' \in [BookingId -> [OnlineProvider -> Pay]]
  <2>1. [payment[b][p] EXCEPT !.exists = TRUE, !.status = "INITIATED", !.order = o] \in Pay
    BY RowOf, OpenedType DEF RefundStatus
  <2>2. payment' = [payment EXCEPT ![b] = [payment[b] EXCEPT ![p] =
            [payment[b][p] EXCEPT !.exists = TRUE, !.status = "INITIATED", !.order = o]]]
    BY DEF StartCheckout, TypeOK
  <2> QED BY <2>1, <2>2, RowOf, UpdateType
<1> QED BY <1>3, <1>4 DEF StartCheckout, TypeOK, Row, Pay, Blackout

\* Leaving a checkout keeps the types, whether or not the hold lapsed meanwhile.
LEMMA CancelCheckoutType ==
    ASSUME TypeOK, NEW b \in BookingId, NEW p \in OnlineProvider, CancelCheckout(b, p)
    PROVE  TypeOK'
<1>1. CASE HoldLapsed(booking[b], now)
  <2>1. Expire({b}, now) BY <1>1 DEF CancelCheckout
  <2> QED BY <2>1, ExpireType DEF CancelCheckout, TypeOK, Row, Pay, Blackout
<1>2. CASE ~HoldLapsed(booking[b], now)
  <2> DEFINE row == [booking[b] EXCEPT !.provider = p, !.payStatus = "CANCELLED"]
             pay == LeavePayment(payment[b][p])
  <2>1. booking' = [booking EXCEPT ![b] = row] BY <1>2 DEF CancelCheckout, TypeOK
  <2>2. payment' = [payment EXCEPT ![b] = [payment[b] EXCEPT ![p] = pay]]
    BY <1>2 DEF CancelCheckout, TypeOK
  <2>3. row \in Row
    <3>1. p \in PaymentProvider BY DEF PaymentProvider
    <3> QED BY <3>1, RowOf DEF Row, BookingRow, PaymentStatus
  <2>4. pay \in Pay BY RowOf DEF LeavePayment, Pay, PaymentRow, PaymentStatus
  <2> HIDE DEF row, pay
  <2>5. booking' \in [BookingId -> Row] /\ payment' \in [BookingId -> [OnlineProvider -> Pay]]
    BY <2>1, <2>2, <2>3, <2>4, RowOf, UpdateType
  <2> QED BY <2>5 DEF CancelCheckout, TypeOK, Row, Pay, Blackout
<1> QED BY <1>1, <1>2

\* The outcomes of a reported payment, one by one.
LEMMA ConfirmPaymentType ==
    ASSUME TypeOK, NEW b \in BookingId, NEW p \in OnlineProvider,
           NEW o \in Ref, NEW k \in Ref, NEW t \in 0..now, ConfirmPayment(b, p, o, k, t)
    PROVE  TypeOK'
<1> DEFINE row == booking[b]
<1>1. /\ row \in Row
      /\ \A status \in PaymentStatus :
            [payment EXCEPT ![b][p] = Settled(@, o, k, status)]
               \in [BookingId -> [OnlineProvider -> Pay]]
  <2>1. ASSUME NEW status \in PaymentStatus
        PROVE  [payment EXCEPT ![b][p] = Settled(@, o, k, status)]
               \in [BookingId -> [OnlineProvider -> Pay]]
    <3>1. Settled(payment[b][p], o, k, status) \in Pay BY RowOf, PaymentTypes
    <3> QED BY <3>1 DEF TypeOK, Pay
  <2> QED BY <2>1, RowOf
<1>2. \/ UNCHANGED booking
      \/ booking' = [booking EXCEPT ![b] = IF HoldLapsed(@, t) THEN ExpireRow(@) ELSE @]
      \/ booking' = [booking EXCEPT ![b] = PayRow(@, p)]
  BY DEF ConfirmPayment
<1>3. booking' \in [BookingId -> Row]
  <2>1. ExpireRow(row) \in Row /\ PayRow(row, p) \in Row BY <1>1, RowTypes
  <2> QED BY <1>1, <1>2, <2>1 DEF TypeOK, Row
<1>4. payment' \in [BookingId -> [OnlineProvider -> Pay]]
  <2>1. CASE \E status \in PaymentStatus :
                payment' = [payment EXCEPT ![b][p] = Settled(@, o, k, status)]
    BY <2>1, <1>1
  <2>2. CASE payment' = [payment EXCEPT ![b] =
                [q \in OnlineProvider |->
                    IF q = p THEN Settled(@[q], o, k, "EXPIRED")
                    ELSE IF HoldLapsed(row, t) THEN ExpirePayment(@[q]) ELSE @[q]]]
    <3>1. ASSUME NEW q \in OnlineProvider
          PROVE  /\ payment[b][q] \in Pay
                 /\ Settled(payment[b][q], o, k, "EXPIRED") \in Pay
                 /\ ExpirePayment(payment[b][q]) \in Pay
      BY RowOf, PaymentTypes DEF PaymentStatus
    <3> QED BY <2>2, <3>1 DEF TypeOK, Pay
  <2>3. "CANCELLED" \in PaymentStatus /\ "EXPIRED" \in PaymentStatus /\ "PAID" \in PaymentStatus
    BY DEF PaymentStatus
  <2> QED BY <2>1, <2>2, <2>3 DEF ConfirmPayment
<1> QED BY <1>3, <1>4 DEF ConfirmPayment, TypeOK, Row, Pay, Blackout

\* Cancelling through the link keeps the types, whatever the refund answers.
LEMMA PublicCancelType ==
    ASSUME TypeOK, NEW b \in BookingId,
           \/ CancelWithoutRefund(b)
           \/ \E outcome \in {"SUCCEEDED", "PENDING"} : CancelWithRefund(b, outcome)
           \/ RefundFails(b)
    PROVE  TypeOK'
<1> DEFINE p == booking[b].provider
<1>1. RefundRow(b).exists => p \in OnlineProvider
  BY DEF RefundRow, NoPayment
<1>2. CancelRow(booking[b]) \in Row
  <2>1. PICK q \in OnlineProvider : TRUE BY DEF OnlineProvider
  <2> QED BY <2>1, RowOf, RowTypes
<1>3. ASSUME NEW refund \in RefundStatus, p \in OnlineProvider
      PROVE  /\ [CancelledPayments(b) EXCEPT ![p].refund = refund] \in [OnlineProvider -> Pay]
             /\ [payment EXCEPT ![b][p].refund = refund] \in [BookingId -> [OnlineProvider -> Pay]]
  <2>1. [CancelledPayments(b)[p] EXCEPT !.refund = refund] \in Pay
    BY <1>3, CancelledPaymentsType, OpenedType, RefAssumption
  <2>2. [payment[b][p] EXCEPT !.refund = refund] \in Pay
    BY <1>3, RowOf, OpenedType, RefAssumption
  <2> QED BY <1>3, <2>1, <2>2, CancelledPaymentsType DEF TypeOK, Pay
<1>4. {"NOT_REQUIRED", "SUCCEEDED", "PENDING", "FAILED"} \subseteq RefundStatus
  BY DEF RefundStatus
<1>5. ASSUME CancelWithoutRefund(b) PROVE TypeOK'
  <2>1. IF RefundRow(b).exists
        THEN [CancelledPayments(b) EXCEPT ![p].refund = "NOT_REQUIRED"] \in [OnlineProvider -> Pay]
        ELSE CancelledPayments(b) \in [OnlineProvider -> Pay]
    BY <1>1, <1>3, <1>4, CancelledPaymentsType
  <2> QED BY <1>5, <1>2, <2>1 DEF CancelWithoutRefund, TypeOK, Row, Pay, Blackout
<1>6. ASSUME NEW outcome \in {"SUCCEEDED", "PENDING"}, CancelWithRefund(b, outcome) PROVE TypeOK'
  <2>1. [CancelledPayments(b) EXCEPT ![p].refund = outcome] \in [OnlineProvider -> Pay]
    BY <1>1, <1>3, <1>4, <1>6 DEF CancelWithRefund
  <2> QED BY <1>6, <1>2, <2>1 DEF CancelWithRefund, TypeOK, Row, Pay, Blackout
<1>7. ASSUME RefundFails(b) PROVE TypeOK'
  <2>1. [payment EXCEPT ![b][p].refund = "FAILED"] \in [BookingId -> [OnlineProvider -> Pay]]
    BY <1>1, <1>3, <1>4, <1>7 DEF RefundFails
  <2> QED BY <1>7, <2>1 DEF RefundFails, TypeOK, Pay, Blackout
<1> QED BY <1>5, <1>6, <1>7

\* The administrator's requests keep the types.
LEMMA AdminType ==
    ASSUME TypeOK, NEW b \in BookingId,
           \/ \E c \in Court, s \in Slot : AdminUpdate(b, c, s)
           \/ AdminCancel(b)
           \/ \E target \in BookingStatus : AdminSetOutcome(b, target)
           \/ MarkBalancePaid(b)
           \/ DeleteBooking(b)
    PROVE  TypeOK'
<1>1. ASSUME NEW c \in Court, NEW s \in Slot, AdminUpdate(b, c, s) PROVE TypeOK'
  <2>1. [booking[b] EXCEPT !.court = c, !.slot = s] \in Row
    BY RowOf DEF Row, BookingRow
  <2>2. booking' = [booking EXCEPT ![b] = [booking[b] EXCEPT !.court = c, !.slot = s]]
    BY <1>1 DEF AdminUpdate, TypeOK
  <2> QED BY <1>1, <2>1, <2>2 DEF AdminUpdate, TypeOK, Row, Blackout
<1>2. ASSUME AdminCancel(b) PROVE TypeOK'
  <2>1. PICK p \in OnlineProvider : TRUE BY DEF OnlineProvider
  <2>2. CancelRow(booking[b]) \in Row BY <2>1, RowOf, RowTypes
  <2>3. [CancelRow(booking[b]) EXCEPT !.completed = FALSE, !.noShow = FALSE, !.balance = FALSE]
            \in Row
    BY <2>2 DEF Row, BookingRow
  <2>4. /\ booking' \in [BookingId -> Row]
        /\ payment' \in [BookingId -> [OnlineProvider -> Pay]]
    BY <1>2, <2>3, CancelledPaymentsType, UpdateType DEF AdminCancel
  <2> QED BY <1>2, <2>4 DEF AdminCancel, TypeOK, Row, Pay, Blackout
<1>3. ASSUME NEW target \in BookingStatus, AdminSetOutcome(b, target) PROVE TypeOK'
  <2>1. OutcomeRow(booking[b], target) \in Row
    BY RowOf DEF OutcomeRow, Row, BookingRow
  <2> QED BY <1>3, <2>1 DEF AdminSetOutcome, TypeOK, Row, Blackout
<1>4. ASSUME MarkBalancePaid(b) PROVE TypeOK'
  <2>1. [booking[b] EXCEPT !.balance = TRUE] \in Row BY RowOf DEF Row, BookingRow
  <2> QED BY <1>4, <2>1 DEF MarkBalancePaid, TypeOK, Row, Blackout
<1>5. ASSUME DeleteBooking(b) PROVE TypeOK'
  <2>1. NoBooking("DELETED") \in Row BY NoBookingType DEF Gone
  <2> QED BY <1>5, <2>1, NoPaymentType DEF DeleteBooking, TypeOK, Row, Pay, Blackout
<1> QED BY <1>1, <1>2, <1>3, <1>4, <1>5

\* Every step keeps the types.
LEMMA NextType == TypeOK /\ [Next]_vars => TypeOK'
<1> SUFFICES ASSUME TypeOK, [Next]_vars PROVE TypeOK' OBVIOUS
<1>1. ASSUME NEW b \in BookingId, CustomerStep(b) PROVE TypeOK'
  <2>1. CASE \E c \in Court, s \in Slot :
                CreatePublicBooking(b, c, s) \/ CreatePlayBooking(b, c, s)
    BY <2>1, CreateType
  <2>2. CASE \E p \in OnlineProvider, o \in Ref \ {NoRef} : StartCheckout(b, p, o)
    BY <2>2, StartCheckoutType
  <2>3. CASE \E p \in OnlineProvider : CancelCheckout(b, p)
    BY <2>3, CancelCheckoutType
  <2>4. CASE ExpireOnRead(b)
    BY <2>4, ExpireType DEF ExpireOnRead, TypeOK, Row, Pay, Blackout
  <2> QED BY <1>1, <2>1, <2>2, <2>3, <2>4, PublicCancelType DEF CustomerStep
<1>2. ASSUME NEW b \in BookingId, AdminStep(b) PROVE TypeOK'
  BY <1>2, CreateType, AdminType DEF AdminStep
<1>3. ASSUME NEW b \in BookingId, ProviderStep(b) PROVE TypeOK'
  BY <1>3, ConfirmPaymentType DEF ProviderStep
<1>4. ASSUME NEW c \in Court, NEW s \in Period, CreateBlackout(c, s) PROVE TypeOK'
  BY <1>4 DEF CreateBlackout, TypeOK, Blackout
<1>5. ASSUME ExpirePendingJob PROVE TypeOK'
  BY <1>5, ExpireType DEF ExpirePendingJob, TypeOK, Row, Pay, Blackout
<1>6. ASSUME Tick PROVE TypeOK'
  BY <1>6, TimeAssumption DEF Tick, TypeOK, Blackout
<1>7. ASSUME UNCHANGED vars PROVE TypeOK'
  BY <1>7 DEF vars, TypeOK, Blackout
<1> QED BY <1>1, <1>2, <1>3, <1>4, <1>5, <1>6, <1>7 DEF Next

\* The tables keep their types for ever.
THEOREM TypeCorrect == Spec => []TypeOK
  BY InitType, NextType, PTL DEF Spec

-----------------------------------------------------------------------------
(* What a step can do to the calendar: give courts back, put one booking on *)
(* a court that is free for it, or close a court.                          *)

SamePlace(o) == booking'[o].court = booking[o].court /\ booking'[o].slot = booking[o].slot

\* Whoever occupies a court afterwards occupied it before.
ReleasesOnly ==
    /\ \A o \in BookingId : Blocking(booking'[o]) => Blocking(booking[o]) /\ SamePlace(o)
    /\ UNCHANGED blackouts

\* Booking b comes to a place that is free for it; no other booking changes.
Places(b) ==
    /\ booking'[b].court \in Court /\ booking'[b].slot \in Slot
    /\ SlotAvailable(b, booking'[b].court, booking'[b].slot)
    /\ \A o \in BookingId \ {b} : booking'[o] = booking[o]
    /\ Blocking(booking'[b])
    /\ UNCHANGED blackouts

Closes ==
    /\ \E c \in Court, s \in Period : blackouts' = blackouts \cup {[court |-> c, slot |-> s]}
    /\ UNCHANGED booking

\* An insertion gives a free place to one booking.
LEMMA InsertPlaces ==
    ASSUME TypeOK, NEW b \in BookingId, NEW c \in Court, NEW s \in Slot,
           CreatePublicBooking(b, c, s) \/ CreateAdminBooking(b, c, s)
             \/ CreatePlayBooking(b, c, s)
    PROVE  Places(b)
<1>1. PICK row : row.status \in BLOCKING_STATUSES /\ row.court = c /\ row.slot = s
                  /\ Insert(b, row)
  BY DEF CreatePublicBooking, CreateAdminBooking, CreatePlayBooking, NewBooking,
         BLOCKING_STATUSES
<1>2. booking'[b] = row /\ (\A o \in BookingId \ {b} : booking'[o] = booking[o])
  BY <1>1 DEF Insert, TypeOK
<1> QED BY <1>1, <1>2 DEF Insert, Places, Blocking

\* Expiring holds gives courts back.
LEMMA ExpireReleases ==
    ASSUME TypeOK, NEW B, NEW t, Expire(B, t), UNCHANGED blackouts
    PROVE  ReleasesOnly
<1>1. ASSUME NEW o \in BookingId PROVE ~Blocking(ExpireRow(booking[o]))
  <2>1. PICK p \in OnlineProvider : TRUE BY DEF OnlineProvider
  <2> QED BY <2>1, RowOf, RowPlaces
<1> QED BY <1>1 DEF Expire, ReleasesOnly, SamePlace

\* Rewriting one row that stays where it is gives nothing away.
LEMMA RewriteReleases ==
    ASSUME TypeOK, NEW b \in BookingId, NEW row, booking' = [booking EXCEPT ![b] = row],
           UNCHANGED blackouts,
           Blocking(row) => /\ Blocking(booking[b])
                            /\ row.court = booking[b].court /\ row.slot = booking[b].slot
    PROVE  ReleasesOnly
  BY DEF TypeOK, ReleasesOnly, SamePlace

\* Each of a customer's requests releases bookings or places one.
LEMMA CustomerShape ==
    ASSUME TypeOK, NEW b \in BookingId, CustomerStep(b)
    PROVE  ReleasesOnly \/ Places(b)
<1>0. ~Blocking(CancelRow(booking[b]))
  <2>1. PICK p \in OnlineProvider : TRUE BY DEF OnlineProvider
  <2> QED BY <2>1, RowOf, RowPlaces
<1>1. CASE \E c \in Court, s \in Slot :
              CreatePublicBooking(b, c, s) \/ CreatePlayBooking(b, c, s)
  BY <1>1, InsertPlaces
<1>2. ASSUME NEW p \in OnlineProvider, NEW o \in Ref, StartCheckout(b, p, o) PROVE ReleasesOnly
  <2> DEFINE row == [booking[b] EXCEPT !.provider = p, !.payStatus = "INITIATED"]
  <2>1. booking' = [booking EXCEPT ![b] = row] /\ UNCHANGED blackouts
    BY <1>2 DEF StartCheckout, TypeOK
  <2>2. row.status = booking[b].status /\ row.court = booking[b].court /\ row.slot = booking[b].slot
    BY RowOf DEF Row, BookingRow
  <2> HIDE DEF row
  <2> QED BY <2>1, <2>2, RewriteReleases DEF Blocking
<1>3. ASSUME NEW p \in OnlineProvider, CancelCheckout(b, p) PROVE ReleasesOnly
  <2>1. CASE HoldLapsed(booking[b], now)
    BY <1>3, <2>1, ExpireReleases DEF CancelCheckout
  <2>2. CASE ~HoldLapsed(booking[b], now)
    <3> DEFINE row == [booking[b] EXCEPT !.provider = p, !.payStatus = "CANCELLED"]
    <3>1. booking' = [booking EXCEPT ![b] = row] /\ UNCHANGED blackouts
      BY <1>3, <2>2 DEF CancelCheckout, TypeOK
    <3>2. row.status = booking[b].status /\ row.court = booking[b].court /\ row.slot = booking[b].slot
      BY RowOf DEF Row, BookingRow
    <3> HIDE DEF row
    <3> QED BY <3>1, <3>2, RewriteReleases DEF Blocking
  <2> QED BY <2>1, <2>2
<1>4. ASSUME ExpireOnRead(b) PROVE ReleasesOnly
  BY <1>4, ExpireReleases DEF ExpireOnRead
<1>5. ASSUME CancelWithoutRefund(b) PROVE ReleasesOnly
  BY <1>0, <1>5, RewriteReleases DEF CancelWithoutRefund
<1>6. ASSUME NEW outcome, CancelWithRefund(b, outcome) PROVE ReleasesOnly
  BY <1>0, <1>6, RewriteReleases DEF CancelWithRefund
<1>7. ASSUME RefundFails(b) PROVE ReleasesOnly
  BY <1>7 DEF RefundFails, ReleasesOnly, SamePlace
<1> QED BY <1>1, <1>2, <1>3, <1>4, <1>5, <1>6, <1>7 DEF CustomerStep

\* So does each of the administrator's.
LEMMA AdminShape ==
    ASSUME TypeOK, NEW b \in BookingId, AdminStep(b)
    PROVE  ReleasesOnly \/ Places(b)
<1>1. CASE \E c \in Court, s \in Slot : CreateAdminBooking(b, c, s)
  BY <1>1, InsertPlaces
<1>2. ASSUME NEW c \in Court, NEW s \in Slot, AdminUpdate(b, c, s) PROVE Places(b)
  <2> DEFINE row == [booking[b] EXCEPT !.court = c, !.slot = s]
  <2>1. row.status = "CONFIRMED" /\ row.court = c /\ row.slot = s
    BY <1>2, RowOf DEF AdminUpdate, ADMIN_EDITABLE_STATUSES, Row, BookingRow
  <2>2. booking'[b] = row /\ (\A o \in BookingId \ {b} : booking'[o] = booking[o])
    BY <1>2 DEF AdminUpdate, TypeOK
  <2> HIDE DEF row
  <2> QED BY <1>2, <2>1, <2>2 DEF AdminUpdate, Places, Blocking, BLOCKING_STATUSES
<1>3. ASSUME AdminCancel(b) PROVE ReleasesOnly
  <2> DEFINE row == [CancelRow(booking[b]) EXCEPT !.completed = FALSE, !.noShow = FALSE,
                                                  !.balance = FALSE]
  <2>1. ~Blocking(row)
    <3>1. PICK p \in OnlineProvider : TRUE BY DEF OnlineProvider
    <3>2. CancelRow(booking[b]) \in Row /\ ~Blocking(CancelRow(booking[b]))
      BY <3>1, RowOf, RowTypes, RowPlaces
    <3> QED BY <3>2 DEF Blocking, Row, BookingRow
  <2> HIDE DEF row
  <2> QED BY <1>3, <2>1, RewriteReleases DEF AdminCancel, row
<1>4. ASSUME NEW target \in BookingStatus, AdminSetOutcome(b, target) PROVE ReleasesOnly
  <2>1. booking[b].status \in BLOCKING_STATUSES
    BY <1>4 DEF AdminSetOutcome, MayMoveTo, ADMIN_ALLOWED_STATUS_TRANSITIONS, BLOCKING_STATUSES
  <2>2. /\ OutcomeRow(booking[b], target).court = booking[b].court
        /\ OutcomeRow(booking[b], target).slot = booking[b].slot
    BY RowOf DEF OutcomeRow, Row, BookingRow
  <2> QED BY <1>4, <2>1, <2>2, RewriteReleases DEF Blocking, AdminSetOutcome
<1>5. ASSUME MarkBalancePaid(b) PROVE ReleasesOnly
  <2> DEFINE row == [booking[b] EXCEPT !.balance = TRUE]
  <2>1. booking' = [booking EXCEPT ![b] = row] /\ UNCHANGED blackouts
    BY <1>5 DEF MarkBalancePaid, TypeOK
  <2>2. row.status = booking[b].status /\ row.court = booking[b].court /\ row.slot = booking[b].slot
    BY RowOf DEF Row, BookingRow
  <2> HIDE DEF row
  <2> QED BY <2>1, <2>2, RewriteReleases DEF Blocking
<1>6. ASSUME DeleteBooking(b) PROVE ReleasesOnly
  <2>1. ~Blocking(NoBooking("DELETED"))
    BY DEF NoBooking, NewBooking, Blocking, BLOCKING_STATUSES
  <2> QED BY <1>6, <2>1, RewriteReleases DEF DeleteBooking
<1> QED BY <1>1, <1>2, <1>3, <1>4, <1>5, <1>6 DEF AdminStep

\* So does a reported payment: it releases, or it places the booking it pays.
LEMMA ProviderShape ==
    ASSUME TypeOK, NEW b \in BookingId, ProviderStep(b)
    PROVE  ReleasesOnly \/ Places(b)
<1>1. PICK p \in OnlineProvider, o \in Ref, k \in Ref, t \in 0..now : ConfirmPayment(b, p, o, k, t)
  BY DEF ProviderStep
<1>2. CASE UNCHANGED booking
  BY <1>1, <1>2 DEF ConfirmPayment, ReleasesOnly, SamePlace
<1>3. CASE booking' = [booking EXCEPT ![b] = IF HoldLapsed(@, t) THEN ExpireRow(@) ELSE @]
  <2>1. ~Blocking(ExpireRow(booking[b])) BY RowOf, RowPlaces
  <2> QED BY <1>1, <1>3, <2>1, RewriteReleases DEF ConfirmPayment
<1>4. CASE /\ booking' = [booking EXCEPT ![b] = PayRow(@, p)]
           /\ SlotAvailable(b, booking[b].court, booking[b].slot)
  <2>1. /\ PayRow(booking[b], p).court = booking[b].court
        /\ PayRow(booking[b], p).slot = booking[b].slot
    BY RowOf, RowPlaces
  <2>2. Blocking(PayRow(booking[b], p))
    BY RowOf DEF PayRow, Blocking, BLOCKING_STATUSES, Row, BookingRow
  <2>3. booking'[b] = PayRow(booking[b], p) /\ (\A x \in BookingId \ {b} : booking'[x] = booking[x])
    BY <1>4 DEF TypeOK
  <2>4. booking[b].court \in Court /\ booking[b].slot \in Slot
    BY RowOf DEF Row, BookingRow
  <2> QED BY <1>1, <1>4, <2>1, <2>2, <2>3, <2>4 DEF Places, ConfirmPayment
<1> QED BY <1>1, <1>2, <1>3, <1>4 DEF ConfirmPayment

\* Every step of the system has one of the three shapes.
LEMMA StepShape ==
    ASSUME TypeOK, [Next]_vars
    PROVE  ReleasesOnly \/ Closes \/ \E b \in BookingId : Places(b)
<1>1. ASSUME NEW c \in Court, NEW s \in Period, CreateBlackout(c, s) PROVE Closes
  BY <1>1 DEF CreateBlackout, Closes
<1>2. ASSUME ExpirePendingJob PROVE ReleasesOnly
  BY <1>2, ExpireReleases DEF ExpirePendingJob
<1>3. ASSUME Tick \/ UNCHANGED vars PROVE ReleasesOnly
  BY <1>3 DEF Tick, vars, ReleasesOnly, SamePlace
<1> QED BY <1>1, <1>2, <1>3, CustomerShape, AdminShape, ProviderShape DEF Next

-----------------------------------------------------------------------------
(* What follows for the calendar.                                          *)

\* The invariant the theorems rest on.
IInv == TypeOK /\ NoDoubleBooking

\* Releasing, placing and closing keep courts free of double bookings.
LEMMA NoOverlapStep ==
    ASSUME TypeOK, TypeOK', NoDoubleBooking,
           ReleasesOnly \/ Closes \/ \E b \in BookingId : Places(b)
    PROVE  NoDoubleBooking'
<1>1. CASE ReleasesOnly
  BY <1>1 DEF ReleasesOnly, SamePlace, NoDoubleBooking
<1>2. CASE Closes
  BY <1>2 DEF Closes, NoDoubleBooking
<1>3. ASSUME NEW x \in BookingId, Places(x) PROVE NoDoubleBooking'
  <2> SUFFICES ASSUME NEW a \in BookingId, NEW b \in BookingId, a # b,
                      Blocking(booking'[a]), Blocking(booking'[b]),
                      booking'[a].court = booking'[b].court
               PROVE  ~Overlaps(booking'[a].slot, booking'[b].slot)
    BY DEF NoDoubleBooking
  <2>1. CASE x = a
    <3>1. ~Overlaps(booking'[b].slot, booking'[a].slot)
      BY <1>3, <2>1 DEF Places, SlotAvailable, Conflicts
    <3> QED BY <3>1 DEF Overlaps
  <2>2. CASE x = b
    BY <1>3, <2>2 DEF Places, SlotAvailable, Conflicts
  <2>3. CASE x # a /\ x # b
    BY <1>3, <2>3 DEF Places, NoDoubleBooking
  <2> QED BY <2>1, <2>2, <2>3
<1> QED BY <1>1, <1>2, <1>3

\* Two bookings that occupy the same court never overlap.
THEOREM DoubleBookingExcluded == Spec => []NoDoubleBooking
<1>1. Init => IInv
  <2> SUFFICES ASSUME Init PROVE NoDoubleBooking BY InitType DEF IInv
  <2>1. \A b \in BookingId : ~Blocking(booking[b])
    BY DEF Init, NoBooking, NewBooking, Blocking, BLOCKING_STATUSES
  <2> QED BY <2>1 DEF NoDoubleBooking
<1>2. IInv /\ [Next]_vars => IInv'
  BY NextType, StepShape, NoOverlapStep DEF IInv
<1>3. IInv => NoDoubleBooking
  BY DEF IInv
<1> QED BY <1>1, <1>2, <1>3, PTL DEF Spec

\* No booking comes to occupy, or is moved onto, a court the club has closed.
THEOREM ClosedCourtsKeptFree == Spec => BlackoutKeptFree
<1>1. TypeOK /\ [Next]_vars => [ClosedCourtStep]_vars
  <2> SUFFICES ASSUME TypeOK, [Next]_vars PROVE ClosedCourtStep OBVIOUS
  <2> SUFFICES ASSUME NEW b \in BookingId,
                      Blocking(booking'[b]),
                      ~Blocking(booking[b]) \/ booking[b].court # booking'[b].court
                        \/ booking[b].slot # booking'[b].slot,
                      NEW k \in blackouts, k.court = booking'[b].court
               PROVE  ~Overlaps(k.slot, booking'[b].slot)
    BY DEF ClosedCourtStep
  <2>1. Places(b) BY StepShape DEF ReleasesOnly, SamePlace, Closes, Places
  <2> QED BY <2>1 DEF Places, SlotAvailable, BlackedOut
<1> QED BY <1>1, TypeCorrect, PTL DEF Spec, BlackoutKeptFree

-----------------------------------------------------------------------------
(* The abstract calendar.                                                  *)

Reserved(id) == [id |-> id, court |-> booking[id].court, slot |-> booking[id].slot]

\* A step that only releases is Release, or moves nothing, in the calendar.
LEMMA ReleaseStep ==
    ASSUME ReleasesOnly
    PROVE  \E D \in SUBSET BookingId : Calendar!Release(D)
<1> DEFINE D == {o \in BookingId : ~Blocking(booking'[o])}
<1>1. Reservations' = {r \in Reservations : r.id \notin D}
  <2>1. ASSUME NEW r \in Reservations' PROVE r \in Reservations /\ r.id \notin D
    <3>1. PICK o \in BookingId : Blocking(booking'[o]) /\ r = Reserved(o)'
      BY <2>1 DEF Reservations, Reserved
    <3>2. Blocking(booking[o]) /\ r = Reserved(o)
      BY <3>1 DEF ReleasesOnly, SamePlace, Reserved
    <3> QED BY <3>1, <3>2 DEF Reservations, Reserved
  <2>2. ASSUME NEW r \in Reservations, r.id \notin D PROVE r \in Reservations'
    <3>1. PICK o \in BookingId : Blocking(booking[o]) /\ r = Reserved(o)
      BY <2>2 DEF Reservations, Reserved
    <3>2. Blocking(booking'[o]) /\ r = Reserved(o)'
      BY <2>2, <3>1 DEF ReleasesOnly, SamePlace, Reserved
    <3> QED BY <3>2 DEF Reservations, Reserved
  <2> QED BY <2>1, <2>2
<1>2. D \in SUBSET BookingId OBVIOUS
<1> HIDE DEF D
<1> QED BY <1>1, <1>2 DEF Calendar!Release, ReleasesOnly

\* A step that places a booking is Reserve in the calendar.
LEMMA ReserveStep ==
    ASSUME NEW b \in BookingId, Places(b)
    PROVE  \E c \in Court, s \in Slot : Calendar!Reserve(b, c, s)
<1> DEFINE c == booking'[b].court
           s == booking'[b].slot
<1>1. Calendar!Free(b, c, s)
  <2>1. ASSUME NEW r \in Reservations, r.id # b, r.court = c PROVE ~Calendar!Meets(r.slot, s)
    <3>1. PICK o \in BookingId : Blocking(booking[o]) /\ r = Reserved(o)
      BY <2>1 DEF Reservations, Reserved
    <3>2. ~Overlaps(booking[o].slot, s) /\ r.slot = booking[o].slot
      BY <2>1, <3>1 DEF Places, SlotAvailable, Conflicts, Reserved
    <3> QED BY <3>2 DEF Overlaps, Calendar!Meets
  <2>2. ASSUME NEW k \in blackouts, k.court = c PROVE ~Calendar!Meets(k.slot, s)
    BY <2>2 DEF Places, SlotAvailable, BlackedOut, Overlaps, Calendar!Meets
  <2> QED BY <2>1, <2>2 DEF Calendar!Free
<1>2. Reservations' = {r \in Reservations : r.id # b} \cup {[id |-> b, court |-> c, slot |-> s]}
  <2>1. ASSUME NEW r \in Reservations'
        PROVE  r \in {x \in Reservations : x.id # b} \cup {[id |-> b, court |-> c, slot |-> s]}
    <3>1. PICK o \in BookingId : Blocking(booking'[o]) /\ r = Reserved(o)'
      BY <2>1 DEF Reservations, Reserved
    <3>2. CASE o = b BY <3>1, <3>2 DEF Reserved
    <3>3. CASE o # b
      <4>1. Blocking(booking[o]) /\ r = Reserved(o)
        BY <3>1, <3>3 DEF Places, Reserved
      <4> QED BY <3>3, <4>1 DEF Reservations, Reserved
    <3> QED BY <3>2, <3>3
  <2>2. ASSUME NEW r \in Reservations, r.id # b PROVE r \in Reservations'
    <3>1. PICK o \in BookingId : Blocking(booking[o]) /\ r = Reserved(o)
      BY <2>2 DEF Reservations, Reserved
    <3>2. Blocking(booking'[o]) /\ r = Reserved(o)'
      BY <2>2, <3>1 DEF Places, Reserved
    <3> QED BY <3>2 DEF Reservations, Reserved
  <2>3. [id |-> b, court |-> c, slot |-> s] \in Reservations'
    BY DEF Places, Reservations
  <2> QED BY <2>1, <2>2, <2>3
<1>3. c \in Court /\ s \in Slot /\ UNCHANGED blackouts BY DEF Places
<1> HIDE DEF c, s
<1> QED BY <1>1, <1>2, <1>3 DEF Calendar!Reserve

\* Seen from outside, the booking tables are the abstract calendar.
THEOREM BookingsImplementCalendar == Spec => ImplementsCalendar
<1>1. Init => Calendar!Init
  <2> SUFFICES ASSUME Init PROVE Reservations = {} /\ blackouts = {} BY DEF Calendar!Init
  <2>1. \A b \in BookingId : ~Blocking(booking[b])
    BY DEF Init, NoBooking, NewBooking, Blocking, BLOCKING_STATUSES
  <2> QED BY <2>1 DEF Init, Reservations
<1>2. TypeOK /\ [Next]_vars => [Calendar!Next]_(Calendar!calendarVars)
  <2> SUFFICES ASSUME TypeOK, [Next]_vars PROVE Calendar!Next OBVIOUS
  <2>1. ASSUME Closes PROVE Calendar!Next
    BY <2>1 DEF Closes, Calendar!Next, Calendar!Close, Reservations
  <2> QED BY <2>1, StepShape, ReleaseStep, ReserveStep DEF Calendar!Next
<1> QED BY <1>1, <1>2, TypeCorrect, PTL DEF Spec, ImplementsCalendar, Calendar!Spec

-----------------------------------------------------------------------------
(* Deposits.                                                               *)

\* ConfirmedOnlyWhenPaid, one booking at a time.
Honest(row) ==
    /\ row.deposit /\ row.origin # "admin"
         /\ row.status \in {"CONFIRMED", "COMPLETED", "NO_SHOW"} => row.payStatus = "PAID"
    /\ row.status \in {"PENDING_PAYMENT", "EXPIRED"} => row.payStatus # "PAID"

\* Expiring, cancelling and paying leave an honest row honest.
LEMMA HonestRows ==
    ASSUME NEW row \in Row, Honest(row), NEW p \in OnlineProvider, NEW t
    PROVE  /\ HoldLapsed(row, t) => Honest(ExpireRow(row))
           /\ Honest(CancelRow(row))
           /\ Honest(PayRow(row, p))
<1>1. HoldLapsed(row, t) => Honest(ExpireRow(row))
  BY DEF Honest, HoldLapsed, ExpireRow, Row, BookingRow
<1>2. Honest(CancelRow(row)) BY DEF Honest, CancelRow, Row, BookingRow
<1>3. Honest(PayRow(row, p)) BY DEF Honest, PayRow, Row, BookingRow
<1> QED BY <1>1, <1>2, <1>3

\* Rewriting one row by an honest one keeps all rows honest.
LEMMA HonestUpdate ==
    ASSUME TypeOK, ConfirmedOnlyWhenPaid, NEW b \in BookingId, NEW row, Honest(row),
           booking' = [booking EXCEPT ![b] = row]
    PROVE  ConfirmedOnlyWhenPaid'
  BY DEF TypeOK, ConfirmedOnlyWhenPaid, Honest

\* Expiring holds keeps every row honest.
LEMMA HonestExpire ==
    ASSUME TypeOK, ConfirmedOnlyWhenPaid, NEW B, NEW t, Expire(B, t)
    PROVE  ConfirmedOnlyWhenPaid'
<1>1. ASSUME NEW o \in BookingId, HoldLapsed(booking[o], t) PROVE Honest(ExpireRow(booking[o]))
  <2>1. PICK p \in OnlineProvider : TRUE BY DEF OnlineProvider
  <2>2. Honest(booking[o]) BY DEF ConfirmedOnlyWhenPaid, Honest
  <2> QED BY <1>1, <2>1, <2>2, RowOf, HonestRows
<1> QED BY <1>1 DEF Expire, ConfirmedOnlyWhenPaid, Honest

\* A customer's requests keep every row honest.
LEMMA HonestCustomer ==
    ASSUME TypeOK, ConfirmedOnlyWhenPaid, NEW b \in BookingId, CustomerStep(b)
    PROVE  ConfirmedOnlyWhenPaid'
<1>0. Honest(booking[b]) /\ booking[b] \in Row /\ Honest(CancelRow(booking[b]))
  <2>1. PICK p \in OnlineProvider : TRUE BY DEF OnlineProvider
  <2> QED BY <2>1, RowOf, HonestRows DEF ConfirmedOnlyWhenPaid, Honest
<1>1. ASSUME NEW c \in Court, NEW s \in Slot, CreatePublicBooking(b, c, s) PROVE ConfirmedOnlyWhenPaid'
  BY <1>1, HonestUpdate DEF CreatePublicBooking, Insert, NewBooking, Honest
<1>2. ASSUME NEW c \in Court, NEW s \in Slot, CreatePlayBooking(b, c, s) PROVE ConfirmedOnlyWhenPaid'
  BY <1>2, HonestUpdate DEF CreatePlayBooking, Insert, NewBooking, Honest
<1>3. ASSUME NEW p \in OnlineProvider, NEW o \in Ref, StartCheckout(b, p, o) PROVE ConfirmedOnlyWhenPaid'
  <2> DEFINE row == [booking[b] EXCEPT !.provider = p, !.payStatus = "INITIATED"]
  <2>1. booking' = [booking EXCEPT ![b] = row] BY <1>3 DEF StartCheckout, TypeOK
  <2>2. Honest(row) BY <1>0, <1>3 DEF StartCheckout, Honest, Row, BookingRow
  <2> HIDE DEF row
  <2> QED BY <2>1, <2>2, HonestUpdate
<1>4. ASSUME NEW p \in OnlineProvider, CancelCheckout(b, p) PROVE ConfirmedOnlyWhenPaid'
  <2>1. CASE HoldLapsed(booking[b], now) BY <1>4, <2>1, HonestExpire DEF CancelCheckout
  <2>2. CASE ~HoldLapsed(booking[b], now)
    <3> DEFINE row == [booking[b] EXCEPT !.provider = p, !.payStatus = "CANCELLED"]
    <3>1. booking' = [booking EXCEPT ![b] = row] BY <1>4, <2>2 DEF CancelCheckout, TypeOK
    <3>2. Honest(row)
      BY <1>0, <1>4 DEF CancelCheckout, CheckoutCancellable, Honest, Row, BookingRow
    <3> HIDE DEF row
    <3> QED BY <3>1, <3>2, HonestUpdate
  <2> QED BY <2>1, <2>2
<1>5. ASSUME ExpireOnRead(b) PROVE ConfirmedOnlyWhenPaid'
  BY <1>5, HonestExpire DEF ExpireOnRead
<1>6. ASSUME CancelWithoutRefund(b) PROVE ConfirmedOnlyWhenPaid'
  BY <1>0, <1>6, HonestUpdate DEF CancelWithoutRefund
<1>7. ASSUME NEW outcome, CancelWithRefund(b, outcome) PROVE ConfirmedOnlyWhenPaid'
  BY <1>0, <1>7, HonestUpdate DEF CancelWithRefund
<1>8. ASSUME RefundFails(b) PROVE ConfirmedOnlyWhenPaid'
  BY <1>8 DEF RefundFails, ConfirmedOnlyWhenPaid
<1> QED BY <1>1, <1>2, <1>3, <1>4, <1>5, <1>6, <1>7, <1>8 DEF CustomerStep

\* The administrator's requests keep every row honest.
LEMMA HonestAdmin ==
    ASSUME TypeOK, ConfirmedOnlyWhenPaid, NEW b \in BookingId, AdminStep(b)
    PROVE  ConfirmedOnlyWhenPaid'
<1>0. Honest(booking[b]) /\ booking[b] \in Row
  BY RowOf DEF ConfirmedOnlyWhenPaid, Honest
<1>1. ASSUME NEW c \in Court, NEW s \in Slot, CreateAdminBooking(b, c, s) PROVE ConfirmedOnlyWhenPaid'
  BY <1>1, HonestUpdate DEF CreateAdminBooking, Insert, NewBooking, Honest
<1>2. ASSUME NEW c \in Court, NEW s \in Slot, AdminUpdate(b, c, s) PROVE ConfirmedOnlyWhenPaid'
  <2> DEFINE row == [booking[b] EXCEPT !.court = c, !.slot = s]
  <2>1. booking' = [booking EXCEPT ![b] = row] BY <1>2 DEF AdminUpdate, TypeOK
  <2>2. Honest(row) BY <1>0 DEF Honest, Row, BookingRow
  <2> HIDE DEF row
  <2> QED BY <2>1, <2>2, HonestUpdate
<1>3. ASSUME AdminCancel(b) PROVE ConfirmedOnlyWhenPaid'
  <2>1. PICK p \in OnlineProvider : TRUE BY DEF OnlineProvider
  <2>2. CancelRow(booking[b]) \in Row /\ Honest(CancelRow(booking[b]))
    BY <1>0, <2>1, RowTypes, HonestRows
  <2>3. Honest([CancelRow(booking[b]) EXCEPT !.completed = FALSE, !.noShow = FALSE, !.balance = FALSE])
    BY <2>2 DEF Honest, Row, BookingRow
  <2> QED BY <1>3, <2>3, HonestUpdate DEF AdminCancel
<1>4. ASSUME NEW target \in BookingStatus, AdminSetOutcome(b, target) PROVE ConfirmedOnlyWhenPaid'
  <2>1. /\ booking[b].status \in {"CONFIRMED", "COMPLETED", "NO_SHOW"}
        /\ target \in {"CONFIRMED", "COMPLETED", "NO_SHOW"}
    BY <1>4 DEF AdminSetOutcome, MayMoveTo, ADMIN_ALLOWED_STATUS_TRANSITIONS
  <2>2. Honest(OutcomeRow(booking[b], target))
    BY <1>0, <2>1 DEF Honest, OutcomeRow, Row, BookingRow
  <2> QED BY <1>4, <2>2, HonestUpdate DEF AdminSetOutcome
<1>5. ASSUME MarkBalancePaid(b) PROVE ConfirmedOnlyWhenPaid'
  <2> DEFINE row == [booking[b] EXCEPT !.balance = TRUE]
  <2>1. booking' = [booking EXCEPT ![b] = row] BY <1>5 DEF MarkBalancePaid, TypeOK
  <2>2. Honest(row) BY <1>0 DEF Honest, Row, BookingRow
  <2> HIDE DEF row
  <2> QED BY <2>1, <2>2, HonestUpdate
<1>6. ASSUME DeleteBooking(b) PROVE ConfirmedOnlyWhenPaid'
  <2>1. Honest(NoBooking("DELETED")) BY DEF NoBooking, NewBooking, Honest
  <2> QED BY <1>6, <2>1, HonestUpdate DEF DeleteBooking
<1> QED BY <1>1, <1>2, <1>3, <1>4, <1>5, <1>6 DEF AdminStep

\* A reported payment keeps every row honest.
LEMMA HonestProvider ==
    ASSUME TypeOK, ConfirmedOnlyWhenPaid, NEW b \in BookingId, ProviderStep(b)
    PROVE  ConfirmedOnlyWhenPaid'
<1>1. PICK p \in OnlineProvider, o \in Ref, k \in Ref, t \in 0..now : ConfirmPayment(b, p, o, k, t)
  BY DEF ProviderStep
<1>2. Honest(booking[b]) /\ booking[b] \in Row
  BY RowOf DEF ConfirmedOnlyWhenPaid, Honest
<1>3. CASE UNCHANGED booking
  BY <1>3 DEF ConfirmedOnlyWhenPaid
<1>4. CASE booking' = [booking EXCEPT ![b] = IF HoldLapsed(@, t) THEN ExpireRow(@) ELSE @]
  BY <1>2, <1>4, HonestRows, HonestUpdate
<1>5. CASE booking' = [booking EXCEPT ![b] = PayRow(@, p)]
  BY <1>2, <1>5, HonestRows, HonestUpdate
<1> QED BY <1>1, <1>3, <1>4, <1>5 DEF ConfirmPayment

\* A customer's booking that asked for a deposit stands only once it is paid.
THEOREM DepositsArePaid == Spec => []ConfirmedOnlyWhenPaid
<1>1. Init => ConfirmedOnlyWhenPaid
  BY DEF Init, NoBooking, NewBooking, ConfirmedOnlyWhenPaid
<1>2. TypeOK /\ ConfirmedOnlyWhenPaid /\ [Next]_vars => ConfirmedOnlyWhenPaid'
  <2> SUFFICES ASSUME TypeOK, ConfirmedOnlyWhenPaid, [Next]_vars
               PROVE  ConfirmedOnlyWhenPaid' OBVIOUS
  <2>1. ASSUME NEW c \in Court, NEW s \in Period, CreateBlackout(c, s) PROVE ConfirmedOnlyWhenPaid'
    BY <2>1 DEF CreateBlackout, ConfirmedOnlyWhenPaid
  <2>2. ASSUME ExpirePendingJob PROVE ConfirmedOnlyWhenPaid'
    BY <2>2, HonestExpire DEF ExpirePendingJob
  <2>3. ASSUME Tick \/ UNCHANGED vars PROVE ConfirmedOnlyWhenPaid'
    BY <2>3 DEF Tick, vars, ConfirmedOnlyWhenPaid
  <2> QED BY <2>1, <2>2, <2>3, HonestCustomer, HonestAdmin, HonestProvider DEF Next
<1> QED BY <1>1, <1>2, TypeCorrect, PTL DEF Spec

-----------------------------------------------------------------------------
(* Outcomes.                                                               *)

\* OutcomeAfterTheFact, one booking at a time.
Timely(row) ==
    /\ row.status = "COMPLETED" => now >= row.slot.end
    /\ row.status = "NO_SHOW" => now >= row.slot.start
    /\ row.balance /\ row.status \notin Gone =>
          /\ row.status \in BALANCE_ALLOWED_STATUSES
          /\ now >= row.slot.start

\* Every row is timely, and has the type of a row.
LEMMA TimelyRow ==
    ASSUME TypeOK, OutcomeAfterTheFact, NEW b \in BookingId
    PROVE  /\ Timely(booking[b]) /\ booking[b] \in Row
           /\ now \in Int /\ booking[b].slot.start \in Int /\ booking[b].slot.end \in Int
<1>1. booking[b] \in Row BY RowOf
<1>2. booking[b].slot \in Slot BY <1>1 DEF Row, BookingRow
<1>3. now \in Int BY TimeAssumption DEF TypeOK
<1> QED BY <1>1, <1>2, <1>3, SlotAssumption DEF OutcomeAfterTheFact, Timely, Exists

\* Rewriting one row by a timely one keeps them all timely.
LEMMA TimelyUpdate ==
    ASSUME TypeOK, OutcomeAfterTheFact, NEW b \in BookingId, NEW row, Timely(row),
           booking' = [booking EXCEPT ![b] = row], now' = now
    PROVE  OutcomeAfterTheFact'
  BY DEF TypeOK, OutcomeAfterTheFact, Timely, Exists

\* Expiring and paying leave a timely row timely, and so does cancelling one
\* that is still to be played.
LEMMA TimelyRows ==
    ASSUME NEW row \in Row, Timely(row), NEW p \in OnlineProvider, NEW t,
           now \in Int, row.slot.start \in Int
    PROVE  /\ HoldLapsed(row, t) => Timely(ExpireRow(row))
           /\ row.status \notin Gone /\ Future(row.slot) => Timely(CancelRow(row))
           /\ row.status \notin Gone => Timely(PayRow(row, p))
<1>1. HoldLapsed(row, t) => Timely(ExpireRow(row))
  BY DEF Timely, HoldLapsed, ExpireRow, Row, BookingRow, BALANCE_ALLOWED_STATUSES, Gone
<1>2. row.status \notin Gone /\ Future(row.slot) => Timely(CancelRow(row))
  <2>1. /\ CancelRow(row).status = "CANCELLED" /\ CancelRow(row).slot = row.slot
        /\ CancelRow(row).balance = row.balance
    BY DEF CancelRow, Row, BookingRow
  <2>2. Future(row.slot) => ~(now >= row.slot.start) BY DEF Future
  <2> QED BY <2>1, <2>2, Zenon DEF Timely
<1>3. row.status \notin Gone => Timely(PayRow(row, p))
  <2>1. /\ PayRow(row, p).status = "CONFIRMED" /\ PayRow(row, p).slot = row.slot
        /\ PayRow(row, p).balance = row.balance
    BY DEF PayRow, Row, BookingRow
  <2>2. "CONFIRMED" \in BALANCE_ALLOWED_STATUSES BY DEF BALANCE_ALLOWED_STATUSES
  <2> QED BY <2>1, <2>2, Zenon DEF Timely
<1> QED BY <1>1, <1>2, <1>3

\* Expiring holds keeps every row timely.
LEMMA TimelyExpire ==
    ASSUME TypeOK, OutcomeAfterTheFact, NEW B, NEW t, Expire(B, t), now' = now
    PROVE  OutcomeAfterTheFact'
<1>1. ASSUME NEW o \in BookingId, HoldLapsed(booking[o], t) PROVE Timely(ExpireRow(booking[o]))
  <2>1. PICK p \in OnlineProvider : TRUE BY DEF OnlineProvider
  <2> QED BY <1>1, <2>1, TimelyRow, TimelyRows
<1> QED BY <1>1 DEF Expire, OutcomeAfterTheFact, Timely, Exists

\* A customer's requests keep every row timely.
LEMMA TimelyCustomer ==
    ASSUME TypeOK, OutcomeAfterTheFact, NEW b \in BookingId, CustomerStep(b)
    PROVE  OutcomeAfterTheFact'
<1>0. /\ Timely(booking[b]) /\ booking[b] \in Row
      /\ PublicCancellable(b) => Timely(CancelRow(booking[b]))
  <2>1. PICK p \in OnlineProvider : TRUE BY DEF OnlineProvider
  <2>2. PublicCancellable(b) => booking[b].status \notin Gone /\ Future(booking[b].slot)
    BY DEF PublicCancellable, Gone
  <2> QED BY <2>1, <2>2, TimelyRow, TimelyRows
<1>1. ASSUME NEW c \in Court, NEW s \in Slot,
             CreatePublicBooking(b, c, s) \/ CreatePlayBooking(b, c, s)
      PROVE OutcomeAfterTheFact'
  <2>1. ASSUME NEW status \in {"PENDING_PAYMENT", "CONFIRMED"}, NEW deposit, NEW p, NEW e, NEW origin
        PROVE  Timely(NewBooking(status, c, s, deposit, p, e, origin))
    BY DEF Timely, NewBooking
  <2>2. CASE CreatePublicBooking(b, c, s)
    BY <2>1, <2>2, TimelyUpdate DEF CreatePublicBooking, Insert
  <2>3. CASE CreatePlayBooking(b, c, s)
    BY <2>1, <2>3, TimelyUpdate DEF CreatePlayBooking, Insert
  <2> QED BY <1>1, <2>2, <2>3
<1>2. ASSUME NEW p \in OnlineProvider, NEW o \in Ref, StartCheckout(b, p, o)
      PROVE OutcomeAfterTheFact'
  <2> DEFINE row == [booking[b] EXCEPT !.provider = p, !.payStatus = "INITIATED"]
  <2>1. booking' = [booking EXCEPT ![b] = row] /\ now' = now BY <1>2 DEF StartCheckout, TypeOK
  <2>2. Timely(row) BY <1>0 DEF Timely, Row, BookingRow
  <2> HIDE DEF row
  <2> QED BY <2>1, <2>2, TimelyUpdate
<1>3. ASSUME NEW p \in OnlineProvider, CancelCheckout(b, p) PROVE OutcomeAfterTheFact'
  <2>1. CASE HoldLapsed(booking[b], now) BY <1>3, <2>1, TimelyExpire DEF CancelCheckout
  <2>2. CASE ~HoldLapsed(booking[b], now)
    <3> DEFINE row == [booking[b] EXCEPT !.provider = p, !.payStatus = "CANCELLED"]
    <3>1. booking' = [booking EXCEPT ![b] = row] /\ now' = now
      BY <1>3, <2>2 DEF CancelCheckout, TypeOK
    <3>2. Timely(row) BY <1>0 DEF Timely, Row, BookingRow
    <3> HIDE DEF row
    <3> QED BY <3>1, <3>2, TimelyUpdate
  <2> QED BY <2>1, <2>2
<1>4. ASSUME ExpireOnRead(b) PROVE OutcomeAfterTheFact'
  BY <1>4, TimelyExpire DEF ExpireOnRead
<1>5. ASSUME CancelWithoutRefund(b) PROVE OutcomeAfterTheFact'
  BY <1>0, <1>5, TimelyUpdate DEF CancelWithoutRefund
<1>6. ASSUME NEW outcome, CancelWithRefund(b, outcome) PROVE OutcomeAfterTheFact'
  BY <1>0, <1>6, TimelyUpdate DEF CancelWithRefund
<1>7. ASSUME RefundFails(b) PROVE OutcomeAfterTheFact'
  BY <1>7 DEF RefundFails, OutcomeAfterTheFact, Exists
<1> QED BY <1>1, <1>2, <1>3, <1>4, <1>5, <1>6, <1>7 DEF CustomerStep

\* The administrator's requests keep every row timely: a move only to what is
\* still to come, an outcome only once it is over.
LEMMA TimelyAdmin ==
    ASSUME TypeOK, OutcomeAfterTheFact, NEW b \in BookingId, AdminStep(b)
    PROVE  OutcomeAfterTheFact'
<1>0. /\ Timely(booking[b]) /\ booking[b] \in Row
      /\ now \in Int /\ booking[b].slot.start \in Int /\ booking[b].slot.end \in Int
  BY TimelyRow
<1>1. ASSUME NEW c \in Court, NEW s \in Slot, CreateAdminBooking(b, c, s) PROVE OutcomeAfterTheFact'
  <2>1. PICK row : Insert(b, row) /\ row.status = "CONFIRMED" /\ row.balance = FALSE
    BY <1>1 DEF CreateAdminBooking, NewBooking
  <2>2. Timely(row) BY <2>1 DEF Timely
  <2> QED BY <2>1, <2>2, TimelyUpdate DEF Insert
<1>2. ASSUME NEW c \in Court, NEW s \in Slot, AdminUpdate(b, c, s) PROVE OutcomeAfterTheFact'
  <2> DEFINE row == [booking[b] EXCEPT !.court = c, !.slot = s]
  <2>1. booking' = [booking EXCEPT ![b] = row] /\ now' = now BY <1>2 DEF AdminUpdate, TypeOK
  <2>2. booking[b].status = "CONFIRMED" /\ Future(booking[b].slot)
    BY <1>2 DEF AdminUpdate, ADMIN_EDITABLE_STATUSES
  <2>3. ~booking[b].balance BY <1>0, <2>2 DEF Timely, Future, Gone
  <2>4. Timely(row) BY <1>0, <2>2, <2>3 DEF Timely, Row, BookingRow
  <2> HIDE DEF row
  <2> QED BY <2>1, <2>4, TimelyUpdate
<1>3. ASSUME AdminCancel(b) PROVE OutcomeAfterTheFact'
  <2> DEFINE row == [CancelRow(booking[b]) EXCEPT !.completed = FALSE, !.noShow = FALSE, !.balance = FALSE]
  <2>1. booking' = [booking EXCEPT ![b] = row] /\ now' = now BY <1>3 DEF AdminCancel
  <2>2. Timely(row) BY <1>0 DEF Timely, CancelRow, Row, BookingRow
  <2> HIDE DEF row
  <2> QED BY <2>1, <2>2, TimelyUpdate
<1>4. ASSUME NEW target \in BookingStatus, AdminSetOutcome(b, target) PROVE OutcomeAfterTheFact'
  <2>1. /\ target = "COMPLETED" => now >= booking[b].slot.end
        /\ target = "NO_SHOW" => now >= booking[b].slot.start
        /\ target \in {"CONFIRMED", "COMPLETED", "NO_SHOW"}
        /\ booking[b].status \in {"CONFIRMED", "COMPLETED", "NO_SHOW"}
    BY <1>4 DEF AdminSetOutcome, MayMoveTo, ADMIN_ALLOWED_STATUS_TRANSITIONS
  <2>2. Timely(OutcomeRow(booking[b], target))
    BY <1>0, <2>1 DEF Timely, OutcomeRow, Row, BookingRow, BALANCE_ALLOWED_STATUSES, Gone
  <2> QED BY <1>4, <2>2, TimelyUpdate DEF AdminSetOutcome
<1>5. ASSUME MarkBalancePaid(b) PROVE OutcomeAfterTheFact'
  <2> DEFINE row == [booking[b] EXCEPT !.balance = TRUE]
  <2>1. booking' = [booking EXCEPT ![b] = row] /\ now' = now BY <1>5 DEF MarkBalancePaid, TypeOK
  <2>2. Timely(row) BY <1>0, <1>5 DEF MarkBalancePaid, Timely, Row, BookingRow
  <2> HIDE DEF row
  <2> QED BY <2>1, <2>2, TimelyUpdate
<1>6. ASSUME DeleteBooking(b) PROVE OutcomeAfterTheFact'
  <2>1. Timely(NoBooking("DELETED")) BY DEF NoBooking, NewBooking, Timely
  <2> QED BY <1>6, <2>1, TimelyUpdate DEF DeleteBooking
<1> QED BY <1>1, <1>2, <1>3, <1>4, <1>5, <1>6 DEF AdminStep

\* A reported payment keeps every row timely.
LEMMA TimelyProvider ==
    ASSUME TypeOK, OutcomeAfterTheFact, NEW b \in BookingId, ProviderStep(b)
    PROVE  OutcomeAfterTheFact'
<1>1. PICK p \in OnlineProvider, o \in Ref, k \in Ref, t \in 0..now : ConfirmPayment(b, p, o, k, t)
  BY DEF ProviderStep
<1>2. /\ HoldLapsed(booking[b], t) => Timely(ExpireRow(booking[b]))
      /\ Timely(PayRow(booking[b], p)) /\ Timely(booking[b]) /\ now' = now
  <2>1. Exists(b) /\ now' = now BY <1>1 DEF ConfirmPayment
  <2> QED BY <2>1, TimelyRow, TimelyRows DEF Exists
<1>3. CASE UNCHANGED booking
  BY <1>2, <1>3 DEF OutcomeAfterTheFact, Exists
<1>4. CASE booking' = [booking EXCEPT ![b] = IF HoldLapsed(@, t) THEN ExpireRow(@) ELSE @]
  BY <1>2, <1>4, TimelyUpdate
<1>5. CASE booking' = [booking EXCEPT ![b] = PayRow(@, p)]
  BY <1>2, <1>5, TimelyUpdate
<1> QED BY <1>1, <1>3, <1>4, <1>5 DEF ConfirmPayment

\* Time only makes a timely row later.
LEMMA TimelyTick == TypeOK /\ OutcomeAfterTheFact /\ Tick => OutcomeAfterTheFact'
<1> SUFFICES ASSUME TypeOK, OutcomeAfterTheFact, Tick PROVE OutcomeAfterTheFact' OBVIOUS
<1>1. booking' = booking /\ now' = now + 1 BY DEF Tick
<1> SUFFICES ASSUME NEW b \in BookingId PROVE Timely(booking[b])'
  BY DEF OutcomeAfterTheFact, Timely, Exists
<1> QED BY <1>1, TimelyRow DEF Timely

\* Outcomes and balances are recorded only after the fact, for every instance,
\* however bookings are moved, cancelled, paid late and revived.
\* (update_booking_status_by_admin, mark_balance_paid_at_field)
THEOREM OutcomesComeAfterTheFact == Spec => []OutcomeAfterTheFact
<1>1. Init => OutcomeAfterTheFact
  BY DEF Init, NoBooking, NewBooking, OutcomeAfterTheFact, Exists
<1>2. TypeOK /\ OutcomeAfterTheFact /\ [Next]_vars => OutcomeAfterTheFact'
  <2> SUFFICES ASSUME TypeOK, OutcomeAfterTheFact, [Next]_vars
               PROVE  OutcomeAfterTheFact' OBVIOUS
  <2>1. ASSUME NEW c \in Court, NEW s \in Period, CreateBlackout(c, s) PROVE OutcomeAfterTheFact'
    BY <2>1 DEF CreateBlackout, OutcomeAfterTheFact, Exists
  <2>2. ASSUME ExpirePendingJob PROVE OutcomeAfterTheFact'
    BY <2>2, TimelyExpire DEF ExpirePendingJob
  <2>3. ASSUME UNCHANGED vars PROVE OutcomeAfterTheFact'
    BY <2>3 DEF vars, OutcomeAfterTheFact, Exists
  <2> QED BY <2>1, <2>2, <2>3, TimelyTick, TimelyCustomer, TimelyAdmin, TimelyProvider DEF Next
<1> QED BY <1>1, <1>2, TypeCorrect, PTL DEF Spec

-----------------------------------------------------------------------------
(* Refunds.                                                                *)

\* RefundMeansCancelled, one booking at a time.
Refunded(pay) == pay.refund \in {"SUCCEEDED", "PENDING"}
Over(row, pays) == \A p \in OnlineProvider : Refunded(pays[p]) => row.status = "CANCELLED"

\* Every booking is over for its refunds; its rows have their types.
LEMMA OverRow ==
    ASSUME TypeOK, RefundMeansCancelled, NEW b \in BookingId
    PROVE  /\ Over(booking[b], payment[b])
           /\ booking[b] \in Row /\ payment[b] \in [OnlineProvider -> Pay]
           /\ \A p \in OnlineProvider : payment[b][p] \in Pay
  BY RowOf DEF RefundMeansCancelled, Over, Refunded, TypeOK, Pay

\* Rewriting the rows of one booking keeps the others as they were.
LEMMA OverUpdate ==
    ASSUME TypeOK, RefundMeansCancelled, NEW b \in BookingId, NEW row, NEW pays,
           booking' = [booking EXCEPT ![b] = row], payment' = [payment EXCEPT ![b] = pays],
           Over(row, pays)
    PROVE  RefundMeansCancelled'
  BY DEF TypeOK, RefundMeansCancelled, Over, Refunded

\* Expiring, cancelling and settling a payment leave its refund alone.
LEMMA RefundKept ==
    ASSUME NEW pay \in Pay, NEW o, NEW k, NEW status
    PROVE  /\ ExpirePayment(pay).refund = pay.refund
           /\ CancelPayment(pay).refund = pay.refund
           /\ LeavePayment(pay).refund = pay.refund
           /\ Settled(pay, o, k, status).refund = pay.refund
           /\ [pay EXCEPT !.exists = TRUE, !.status = "INITIATED", !.order = o].refund = pay.refund
           /\ [pay EXCEPT !.status = status].refund = pay.refund
  BY DEF ExpirePayment, CancelPayment, LeavePayment, Settled, Pay, PaymentRow

\* Rows whose refunds are untouched may take any status, unless they were cancelled.
LEMMA OverKept ==
    ASSUME TypeOK, RefundMeansCancelled, NEW b \in BookingId, NEW row, NEW pays,
           booking' = [booking EXCEPT ![b] = row], payment' = [payment EXCEPT ![b] = pays],
           \A p \in OnlineProvider : pays[p].refund = payment[b][p].refund,
           row.status = booking[b].status \/ booking[b].status # "CANCELLED"
    PROVE  RefundMeansCancelled'
<1>1. Over(row, pays) BY OverRow DEF Over, Refunded
<1> QED BY <1>1, OverUpdate

\* Expiring holds touches no refund.
LEMMA OverExpire ==
    ASSUME TypeOK, RefundMeansCancelled, NEW B, NEW t, Expire(B, t)
    PROVE  RefundMeansCancelled'
<1> SUFFICES ASSUME NEW o \in BookingId, NEW p \in OnlineProvider, Refunded(payment'[o][p])
             PROVE  booking'[o].status = "CANCELLED"
  BY DEF RefundMeansCancelled, Refunded
<1>1. payment'[o][p].refund = payment[o][p].refund
  BY OverRow, RefundKept DEF Expire
<1>2. booking[o].status = "CANCELLED" BY <1>1 DEF RefundMeansCancelled, Refunded
<1> QED BY <1>2 DEF Expire, HoldLapsed

\* A customer's requests refund only what they cancel.
LEMMA OverCustomer ==
    ASSUME TypeOK, RefundMeansCancelled, NEW b \in BookingId, CustomerStep(b)
    PROVE  RefundMeansCancelled'
<1>0. /\ Over(booking[b], payment[b]) /\ payment[b] \in [OnlineProvider -> Pay]
      /\ booking[b] \in Row /\ \A p \in OnlineProvider : payment[b][p] \in Pay
  BY OverRow
<1>1. payment = [payment EXCEPT ![b] = payment[b]] BY DEF TypeOK
<1>2. /\ \A p \in OnlineProvider : CancelledPayments(b)[p].refund = payment[b][p].refund
      /\ CancelRow(booking[b]).status = "CANCELLED"
      /\ \A pays : Over(CancelRow(booking[b]), pays)
  BY <1>0, RefundKept DEF CancelledPayments, CancelRow, Over, Row, BookingRow
<1>3. ASSUME NEW c \in Court, NEW s \in Slot,
             CreatePublicBooking(b, c, s) \/ CreatePlayBooking(b, c, s)
      PROVE  RefundMeansCancelled'
  <2>1. PICK row : Insert(b, row)
    BY <1>3 DEF CreatePublicBooking, CreatePlayBooking
  <2> QED BY <1>1, <2>1, OverKept DEF Insert
<1>4. ASSUME NEW p \in OnlineProvider, NEW o \in Ref, StartCheckout(b, p, o)
      PROVE  RefundMeansCancelled'
  <2> DEFINE row == [booking[b] EXCEPT !.provider = p, !.payStatus = "INITIATED"]
             pay == [payment[b][p] EXCEPT !.exists = TRUE, !.status = "INITIATED", !.order = o]
             pays == [payment[b] EXCEPT ![p] = pay]
  <2>1. booking' = [booking EXCEPT ![b] = row] BY <1>4 DEF StartCheckout, TypeOK
  <2>2. payment' = [payment EXCEPT ![b] = pays] BY <1>0, <1>4 DEF StartCheckout, TypeOK
  <2>3. pay.refund = payment[b][p].refund BY <1>0, RefundKept
  <2>4. booking[b].status = "PENDING_PAYMENT" BY <1>4 DEF StartCheckout
  <2> HIDE DEF pay
  <2>5. \A q \in OnlineProvider : pays[q].refund = payment[b][q].refund BY <1>0, <2>3
  <2> HIDE DEF row, pays
  <2> QED BY <2>1, <2>2, <2>4, <2>5, OverKept
<1>5. ASSUME NEW p \in OnlineProvider, CancelCheckout(b, p) PROVE RefundMeansCancelled'
  <2>1. CASE HoldLapsed(booking[b], now) BY <1>5, <2>1, OverExpire DEF CancelCheckout
  <2>2. CASE ~HoldLapsed(booking[b], now)
    <3> DEFINE row == [booking[b] EXCEPT !.provider = p, !.payStatus = "CANCELLED"]
               pay == LeavePayment(payment[b][p])
               pays == [payment[b] EXCEPT ![p] = pay]
    <3>1. booking' = [booking EXCEPT ![b] = row] BY <1>5, <2>2 DEF CancelCheckout, TypeOK
    <3>2. payment' = [payment EXCEPT ![b] = pays] BY <1>0, <1>5, <2>2 DEF CancelCheckout, TypeOK
    <3>3. pay.refund = payment[b][p].refund BY <1>0, RefundKept
    <3>4. booking[b].status = "PENDING_PAYMENT" BY <1>5 DEF CancelCheckout, CheckoutCancellable
    <3> HIDE DEF pay
    <3>5. \A q \in OnlineProvider : pays[q].refund = payment[b][q].refund BY <1>0, <3>3
    <3> HIDE DEF row, pays
    <3> QED BY <3>1, <3>2, <3>4, <3>5, OverKept
  <2> QED BY <2>1, <2>2
<1>6. ASSUME ExpireOnRead(b) PROVE RefundMeansCancelled'
  BY <1>6, OverExpire DEF ExpireOnRead
<1>7. ASSUME CancelWithoutRefund(b) PROVE RefundMeansCancelled'
  BY <1>2, <1>7, OverUpdate DEF CancelWithoutRefund
<1>8. ASSUME NEW outcome, CancelWithRefund(b, outcome) PROVE RefundMeansCancelled'
  BY <1>2, <1>8, OverUpdate DEF CancelWithRefund
<1>9. ASSUME RefundFails(b) PROVE RefundMeansCancelled'
  <2> DEFINE p == booking[b].provider
             pay == [payment[b][p] EXCEPT !.refund = "FAILED"]
             pays == [payment[b] EXCEPT ![p] = pay]
  <2>1. booking' = [booking EXCEPT ![b] = booking[b]] BY <1>9 DEF RefundFails, TypeOK
  <2>2. payment' = [payment EXCEPT ![b] = pays] BY <1>0, <1>9 DEF RefundFails, TypeOK
  <2>3. p \in OnlineProvider BY <1>9 DEF RefundFails, RefundRow, NoPayment
  <2>4. ~Refunded(pay) BY <1>0, <2>3 DEF Refunded, Pay, PaymentRow
  <2> HIDE DEF pay, p
  <2>5. Over(booking[b], pays) BY <1>0, <2>3, <2>4 DEF Over
  <2> HIDE DEF pays
  <2> QED BY <2>1, <2>2, <2>5, OverUpdate
<1> QED BY <1>3, <1>4, <1>5, <1>6, <1>7, <1>8, <1>9 DEF CustomerStep

\* The administrator never refunds, and brings nothing back from CANCELLED.
LEMMA OverAdmin ==
    ASSUME TypeOK, RefundMeansCancelled, NEW b \in BookingId, AdminStep(b)
    PROVE  RefundMeansCancelled'
<1>0. /\ Over(booking[b], payment[b]) /\ payment[b] \in [OnlineProvider -> Pay]
      /\ booking[b] \in Row /\ \A p \in OnlineProvider : payment[b][p] \in Pay
  BY OverRow
<1>1. payment = [payment EXCEPT ![b] = payment[b]] BY DEF TypeOK
<1>2. ASSUME NEW c \in Court, NEW s \in Slot, CreateAdminBooking(b, c, s)
      PROVE  RefundMeansCancelled'
  <2>1. PICK row : Insert(b, row) BY <1>2 DEF CreateAdminBooking
  <2> QED BY <1>1, <2>1, OverKept DEF Insert
<1>3. ASSUME NEW c \in Court, NEW s \in Slot, AdminUpdate(b, c, s) PROVE RefundMeansCancelled'
  <2> DEFINE row == [booking[b] EXCEPT !.court = c, !.slot = s]
  <2>1. booking' = [booking EXCEPT ![b] = row] /\ payment' = payment
    BY <1>3 DEF AdminUpdate, TypeOK
  <2>2. booking[b].status # "CANCELLED" BY <1>3 DEF AdminUpdate, ADMIN_EDITABLE_STATUSES
  <2> HIDE DEF row
  <2> QED BY <1>1, <2>1, <2>2, OverKept
<1>4. ASSUME AdminCancel(b) PROVE RefundMeansCancelled'
  <2> DEFINE row == [CancelRow(booking[b]) EXCEPT !.completed = FALSE, !.noShow = FALSE, !.balance = FALSE]
  <2>1. /\ booking' = [booking EXCEPT ![b] = row]
        /\ payment' = [payment EXCEPT ![b] = CancelledPayments(b)]
    BY <1>4 DEF AdminCancel
  <2>2. row.status = "CANCELLED" BY <1>0 DEF CancelRow, Row, BookingRow
  <2>3. Over(row, CancelledPayments(b)) BY <2>2 DEF Over
  <2> HIDE DEF row
  <2> QED BY <2>1, <2>3, OverUpdate
<1>5. ASSUME NEW target \in BookingStatus, AdminSetOutcome(b, target) PROVE RefundMeansCancelled'
  <2>1. booking[b].status # "CANCELLED"
    BY <1>5 DEF AdminSetOutcome, MayMoveTo, ADMIN_ALLOWED_STATUS_TRANSITIONS
  <2> QED BY <1>1, <1>5, <2>1, OverKept DEF AdminSetOutcome
<1>6. ASSUME MarkBalancePaid(b) PROVE RefundMeansCancelled'
  <2> DEFINE row == [booking[b] EXCEPT !.balance = TRUE]
  <2>1. booking' = [booking EXCEPT ![b] = row] /\ payment' = payment
    BY <1>6 DEF MarkBalancePaid, TypeOK
  <2>2. row.status = booking[b].status BY <1>0 DEF Row, BookingRow
  <2> HIDE DEF row
  <2> QED BY <1>1, <2>1, <2>2, OverKept
<1>7. ASSUME DeleteBooking(b) PROVE RefundMeansCancelled'
  <2>1. Over(NoBooking("DELETED"), [p \in OnlineProvider |-> NoPayment(NoRef)])
    BY DEF Over, Refunded, NoPayment
  <2> QED BY <1>7, <2>1, OverUpdate DEF DeleteBooking
<1> QED BY <1>2, <1>3, <1>4, <1>5, <1>6, <1>7 DEF AdminStep

\* A reported payment touches no refund and leaves a cancelled booking cancelled.
LEMMA OverProvider ==
    ASSUME TypeOK, RefundMeansCancelled, NEW b \in BookingId, ProviderStep(b)
    PROVE  RefundMeansCancelled'
<1>0. /\ Over(booking[b], payment[b]) /\ payment[b] \in [OnlineProvider -> Pay]
      /\ \A p \in OnlineProvider : payment[b][p] \in Pay
  BY OverRow
<1>1. PICK p \in OnlineProvider, o \in Ref, k \in Ref, t \in 0..now : ConfirmPayment(b, p, o, k, t)
  BY DEF ProviderStep
<1>2. PICK row, pays :
         /\ booking' = [booking EXCEPT ![b] = row] /\ payment' = [payment EXCEPT ![b] = pays]
         /\ row.status = booking[b].status \/ booking[b].status # "CANCELLED"
         /\ \A q \in OnlineProvider : pays[q].refund = payment[b][q].refund
  <2> DEFINE Pays(status) == [payment[b] EXCEPT ![p] = Settled(payment[b][p], o, k, status)]
  <2>1. booking = [booking EXCEPT ![b] = booking[b]] BY DEF TypeOK
  <2>2. \A status : \A q \in OnlineProvider : Pays(status)[q].refund = payment[b][q].refund
    BY <1>0, RefundKept
  <2>3. ASSUME NEW status, payment' = [payment EXCEPT ![b][p] = Settled(@, o, k, status)]
        PROVE  payment' = [payment EXCEPT ![b] = Pays(status)]
    BY <1>0, <2>3 DEF TypeOK
  <2> HIDE DEF Pays
  <2>4. CASE /\ payment' = [payment EXCEPT ![b][p] = Settled(@, o, k, "CANCELLED")]
             /\ UNCHANGED booking
    <3> WITNESS booking[b], Pays("CANCELLED")
    <3> QED BY <2>1, <2>2, <2>3, <2>4
  <2>5. CASE /\ payment' = [payment EXCEPT ![b][p] = Settled(@, o, k, "EXPIRED")]
             /\ UNCHANGED booking
    <3> WITNESS booking[b], Pays("EXPIRED")
    <3> QED BY <2>1, <2>2, <2>3, <2>5
  <2>6. CASE /\ booking[b].status # "CANCELLED"
             /\ booking' = [booking EXCEPT ![b] = PayRow(@, p)]
             /\ payment' = [payment EXCEPT ![b][p] = Settled(@, o, k, "PAID")]
    <3> WITNESS PayRow(booking[b], p), Pays("PAID")
    <3> QED BY <2>2, <2>3, <2>6
  <2>7. CASE /\ booking[b].status # "CANCELLED"
             /\ booking' = [booking EXCEPT ![b] = IF HoldLapsed(@, t) THEN ExpireRow(@) ELSE @]
             /\ payment' = [payment EXCEPT ![b] =
                   [q \in OnlineProvider |->
                       IF q = p THEN Settled(@[q], o, k, "EXPIRED")
                       ELSE IF HoldLapsed(booking[b], t) THEN ExpirePayment(@[q]) ELSE @[q]]]
    <3> DEFINE pays == [q \in OnlineProvider |->
                           IF q = p THEN Settled(payment[b][q], o, k, "EXPIRED")
                           ELSE IF HoldLapsed(booking[b], t) THEN ExpirePayment(payment[b][q])
                           ELSE payment[b][q]]
    <3>1. payment' = [payment EXCEPT ![b] = pays] BY <2>7
    <3>2. \A q \in OnlineProvider : pays[q].refund = payment[b][q].refund BY <1>0, RefundKept
    <3> HIDE DEF pays
    <3> QED BY <2>7, <3>1, <3>2
  <2> QED BY <1>1, <2>4, <2>5, <2>6, <2>7 DEF ConfirmPayment
<1> QED BY <1>2, OverKept

\* A refund that went out, or is on its way, leaves no booking standing, for
\* every instance: no late webhook, retry or administrator brings it back.
\* (cancel_public_booking, _confirm_payment, delete_booking_permanently)
THEOREM RefundsAreFinal == Spec => []RefundMeansCancelled
<1>1. Init => RefundMeansCancelled
  BY DEF Init, NoPayment, RefundMeansCancelled
<1>2. TypeOK /\ RefundMeansCancelled /\ [Next]_vars => RefundMeansCancelled'
  <2> SUFFICES ASSUME TypeOK, RefundMeansCancelled, [Next]_vars
               PROVE  RefundMeansCancelled' OBVIOUS
  <2>1. ASSUME NEW c \in Court, NEW s \in Period, CreateBlackout(c, s) PROVE RefundMeansCancelled'
    BY <2>1 DEF CreateBlackout, RefundMeansCancelled
  <2>2. ASSUME ExpirePendingJob PROVE RefundMeansCancelled'
    BY <2>2, OverExpire DEF ExpirePendingJob
  <2>3. ASSUME Tick \/ UNCHANGED vars PROVE RefundMeansCancelled'
    BY <2>3 DEF Tick, vars, RefundMeansCancelled
  <2> QED BY <2>1, <2>2, <2>3, OverCustomer, OverAdmin, OverProvider DEF Next
<1> QED BY <1>1, <1>2, TypeCorrect, PTL DEF Spec

-----------------------------------------------------------------------------
(* Revivals.                                                               *)

\* The requests of customers and the administrator never touch a booking that
\* has given its court back, but to delete it.
LEMMA OnlyStandingTouched ==
    ASSUME NEW b \in BookingId, CustomerStep(b) \/ AdminStep(b)
    PROVE  ~Exists(b) \/ Blocking(booking[b]) \/ DeleteBooking(b)
<1> USE DEF Exists, Gone, Blocking, BLOCKING_STATUSES
<1>1. CASE CustomerStep(b)
  <2>1. ASSUME NEW c \in Court, NEW s \in Slot,
               CreatePublicBooking(b, c, s) \/ CreatePlayBooking(b, c, s)
        PROVE  ~Exists(b)
    BY <2>1 DEF CreatePublicBooking, CreatePlayBooking, Insert
  <2>2. ASSUME NEW p \in OnlineProvider, NEW o, StartCheckout(b, p, o) PROVE Blocking(booking[b])
    BY <2>2 DEF StartCheckout
  <2>3. ASSUME NEW p \in OnlineProvider, CancelCheckout(b, p) PROVE Blocking(booking[b])
    BY <2>3 DEF CancelCheckout, CheckoutCancellable
  <2>4. ASSUME ExpireOnRead(b) PROVE Blocking(booking[b])
    BY <2>4 DEF ExpireOnRead, HoldLapsed
  <2>5. PublicCancellable(b) => Blocking(booking[b]) BY DEF PublicCancellable
  <2>6. /\ CancelWithoutRefund(b) => PublicCancellable(b)
        /\ RefundFails(b) => PublicCancellable(b)
        /\ \A outcome : CancelWithRefund(b, outcome) => PublicCancellable(b)
    BY DEF CancelWithoutRefund, CancelWithRefund, RefundFails
  <2> QED BY <1>1, <2>1, <2>2, <2>3, <2>4, <2>5, <2>6, Zenon DEF CustomerStep
<1>2. CASE AdminStep(b)
  <2>1. ASSUME NEW c \in Court, NEW s \in Slot, CreateAdminBooking(b, c, s) PROVE ~Exists(b)
    BY <2>1 DEF CreateAdminBooking, Insert
  <2>2. ASSUME NEW c \in Court, NEW s \in Slot, AdminUpdate(b, c, s) PROVE Blocking(booking[b])
    BY <2>2 DEF AdminUpdate, ADMIN_EDITABLE_STATUSES
  <2>3. ASSUME NEW target, MayMoveTo(b, target) PROVE Blocking(booking[b])
    BY <2>3 DEF MayMoveTo, ADMIN_ALLOWED_STATUS_TRANSITIONS
  <2>4. ASSUME MarkBalancePaid(b) PROVE Blocking(booking[b])
    BY <2>4 DEF MarkBalancePaid, BALANCE_ALLOWED_STATUSES
  <2>5. /\ AdminCancel(b) => MayMoveTo(b, "CANCELLED")
        /\ \A target : AdminSetOutcome(b, target) => MayMoveTo(b, target)
    BY DEF AdminCancel, AdminSetOutcome
  <2> QED BY <1>2, <2>1, <2>2, <2>3, <2>4, <2>5, Zenon DEF AdminStep
<1> QED BY <1>1, <1>2

\* A step that releases, and one that places a booking which stood or is new,
\* revives nothing.
LEMMA NothingRevived ==
    ASSUME TypeOK,
           ReleasesOnly \/ \E b \in BookingId : Places(b) /\ (~Exists(b) \/ Blocking(booking[b]))
    PROVE  RevivalStep
<1> SUFFICES ASSUME NEW o \in BookingId PROVE Blocking(booking'[o]) /\ Exists(o) => Blocking(booking[o])
  BY DEF RevivalStep, Blocking
<1>1. CASE ReleasesOnly BY <1>1 DEF ReleasesOnly
<1>2. ASSUME NEW b \in BookingId, Places(b), ~Exists(b) \/ Blocking(booking[b])
      PROVE  Blocking(booking'[o]) /\ Exists(o) => Blocking(booking[o])
  BY <1>2 DEF Places
<1> QED BY <1>1, <1>2

\* A reported payment brings back an expired booking only, paid and on record.
LEMMA RevivedByPayment ==
    ASSUME TypeOK, NEW b \in BookingId, ProviderStep(b)
    PROVE  RevivalStep
<1>1. PICK p \in OnlineProvider, o \in Ref, k \in Ref, t \in 0..now : ConfirmPayment(b, p, o, k, t)
  BY DEF ProviderStep
<1>2. CASE ReleasesOnly BY <1>2, NothingRevived
<1>3. CASE ~ReleasesOnly /\ Places(b)
  <2>1. \A x \in BookingId \ {b} : booking'[x] = booking[x] BY <1>3 DEF Places
  <2>2. ~Blocking(booking[b]) /\ Exists(b) =>
           /\ booking[b].status = "EXPIRED"
           /\ booking' = [booking EXCEPT ![b] = PayRow(@, p)]
           /\ payment' = [payment EXCEPT ![b][p] = Settled(@, o, k, "PAID")]
    <3> SUFFICES ASSUME ~Blocking(booking[b]), Exists(b)
                 PROVE  /\ booking[b].status = "EXPIRED"
                        /\ booking' = [booking EXCEPT ![b] = PayRow(@, p)]
                        /\ payment' = [payment EXCEPT ![b][p] = Settled(@, o, k, "PAID")]
      OBVIOUS
    <3>1. booking[b].status \in {"CANCELLED", "EXPIRED"}
      BY RowOf DEF Row, BookingRow, BookingStatus, Blocking, BLOCKING_STATUSES, Exists
    <3>2. ~HoldLapsed(booking[b], t) BY <3>1 DEF HoldLapsed
    <3>3. UNCHANGED booking => FALSE BY <1>3 DEF Places, Blocking
    <3>4. (booking' = [booking EXCEPT ![b] = IF HoldLapsed(@, t) THEN ExpireRow(@) ELSE @])
             => UNCHANGED booking
      BY <3>2 DEF TypeOK
    <3> QED BY <1>1, <3>1, <3>3, <3>4 DEF ConfirmPayment
  <2>3. /\ PaidAndConfirmed(PayRow(booking[b], p))
        /\ \A pay \in Pay : Settled(pay, o, k, "PAID").status = "PAID"
    BY RowOf DEF PaidAndConfirmed, PayRow, Settled, Row, BookingRow, Pay, PaymentRow
  <2>4. payment[b][p] \in Pay BY DEF TypeOK, Pay
  <2>5. ~Blocking(booking[b]) /\ Exists(b) =>
           /\ booking[b].status = "EXPIRED"
           /\ booking'[b] = PayRow(booking[b], p)
           /\ payment'[b][p] = Settled(payment[b][p], o, k, "PAID")
    BY <2>2 DEF TypeOK
  <2> QED BY <2>1, <2>3, <2>4, <2>5 DEF RevivalStep, Blocking, PaidAndConfirmed
<1> QED BY <1>2, <1>3, ProviderShape

\* A booking that gave its court back takes it again only by a payment, for every instance.
\* (mark_booking_paid, ADMIN_ALLOWED_STATUS_TRANSITIONS)
THEOREM PaymentAloneRevives == Spec => OnlyPaymentRevives
<1>1. TypeOK /\ [Next]_vars => [RevivalStep]_vars
  <2> SUFFICES ASSUME TypeOK, [Next]_vars PROVE RevivalStep OBVIOUS
  <2>1. ASSUME NEW c \in Court, NEW s \in Period, CreateBlackout(c, s) PROVE RevivalStep
    BY <2>1 DEF CreateBlackout, RevivalStep, Blocking
  <2>2. ASSUME ExpirePendingJob PROVE RevivalStep
    BY <2>2, ExpireReleases, NothingRevived DEF ExpirePendingJob
  <2>3. ASSUME Tick \/ UNCHANGED vars PROVE RevivalStep
    BY <2>3 DEF Tick, vars, RevivalStep, Blocking
  <2>4. ASSUME NEW b \in BookingId, CustomerStep(b) \/ AdminStep(b) PROVE RevivalStep
    <3>1. ReleasesOnly \/ Places(b) BY <2>4, CustomerShape, AdminShape
    <3>2. DeleteBooking(b) => ~Places(b)
      <4>1. ~Blocking(NoBooking("DELETED"))
        BY DEF NoBooking, NewBooking, Blocking, BLOCKING_STATUSES
      <4> QED BY <4>1 DEF DeleteBooking, Places, TypeOK
    <3> QED BY <2>4, <3>1, <3>2, OnlyStandingTouched, NothingRevived
  <2> QED BY <2>1, <2>2, <2>3, <2>4, RevivedByPayment DEF Next
<1> QED BY <1>1, TypeCorrect, PTL DEF Spec, OnlyPaymentRevives
=============================================================================

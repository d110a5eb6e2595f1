------------------------------ MODULE Payments ------------------------------
(***************************************************************************)
(* The deposit payments of Bookings.tla with the providers in the picture: *)
(* checkout sessions that stay open after the customer left them, captures,*)
(* webhooks that arrive late, in any order and more than once, the PayPal  *)
(* return URL, refunds, and a process that dies between what it did at the *)
(* provider and its own commit.                                            *)
(*                                                                         *)
(* The booking side of each step is the action of Bookings.tla, in the     *)
(* same transaction as the webhook record, so every behaviour of this      *)
(* module is a behaviour of Bookings.  The providers are external; they    *)
(* are modelled from the calls and events the code exchanges with them.    *)
(***************************************************************************)
EXTENDS Bookings

VARIABLES
    session,    \* the provider's checkout sessions (Stripe) and orders (PayPal)
    refunded,   \* the captures the provider has refunded
    processed   \* payment_webhook_events: the events recorded as handled

providerVars == <<session, refunded, processed>>
allVars == <<now, booking, payment, blackouts, session, refunded, processed>>

\* A session, its order id and the capture it leads to share one reference.
Session == Ref \ {NoRef}

SessionState == {"unused", "open", "approved", "captured", "closed"}

SessionRow ==
    [state: SessionState, booking: BookingId, provider: OnlineProvider, at: 0..MaxTime]

Event == {"captured", "closed"} \X Session

PInit ==
    /\ Init
    /\ session = [x \in Session |->
          [state |-> "unused", booking |-> CHOOSE b \in BookingId : TRUE,
           provider |-> "STRIPE", at |-> 0]]
    /\ refunded = {}
    /\ processed = {}

BookingOf(x) == session[x].booking
ProviderOf(x) == session[x].provider

-----------------------------------------------------------------------------
(* Checkout.                                                               *)

\* create_checkout opens a session at the provider, then the row is written.
Checkout(b, p, x) ==
    /\ session[x].state = "unused"
    /\ StartCheckout(b, p, x)
    /\ session' = [session EXCEPT ![x] =
          [state |-> "open", booking |-> b, provider |-> p, at |-> 0]]
    /\ UNCHANGED <<refunded, processed>>

\* Mutant of FollowCancelUrl: nothing asks whether the booking is still unpaid.
FollowCancelUrlUnguarded(b, p) ==
    /\ Exists(b)
    /\ booking' = [booking EXCEPT ![b].payStatus = "CANCELLED"]
    /\ UNCHANGED <<now, payment, blackouts, session, refunded, processed>>

\* The customer follows the cancel URL of a booking and a provider, at any
\* time; a session stays open at the provider, and the browser's back button
\* leads to it again.
FollowCancelUrl(b, p) == CancelCheckout(b, p) /\ UNCHANGED providerVars

-----------------------------------------------------------------------------
(* The provider.                                                           *)

\* Stripe captures when the customer pays, and will send
\* checkout.session.completed with this moment as its "created".
PayStripe(x) ==
    /\ session[x].state = "open" /\ ProviderOf(x) = "STRIPE"
    /\ session' = [session EXCEPT ![x].state = "captured", ![x].at = now]
    /\ UNCHANGED <<vars, refunded, processed>>

\* PayPal only notes the approval; the capture is asked for on return.
ApprovePaypal(x) ==
    /\ session[x].state = "open" /\ ProviderOf(x) = "PAYPAL"
    /\ session' = [session EXCEPT ![x].state = "approved"]
    /\ UNCHANGED <<vars, refunded, processed>>

\* A session nobody paid ends (checkout.session.expired, CHECKOUT.ORDER.CANCELLED).
CloseSession(x) ==
    /\ session[x].state = "open"
    /\ session' = [session EXCEPT ![x].state = "closed"]
    /\ UNCHANGED <<vars, refunded, processed>>

-----------------------------------------------------------------------------
(* Webhooks and the PayPal return URL.                                     *)

Recorded(kind, x) == <<kind, x>> \in processed

\* Mutant of DeliverCapture: the payment is dated by its arrival.
DeliverCaptureOnArrival(x) ==
    /\ session[x].state = "captured"
    /\ ~Recorded("captured", x)
    /\ \/ ConfirmPayment(BookingOf(x), ProviderOf(x), x, x, now)
       \/ ~Exists(BookingOf(x)) /\ UNCHANGED vars
    /\ processed' = processed \cup {<<"captured", x>>}
    /\ UNCHANGED <<session, refunded>>

\* The event is handled and recorded in one transaction; an event already
\* recorded is ignored, and one whose handling fails is sent again.
DeliverCapture(x) ==
    /\ session[x].state = "captured"
    /\ ~Recorded("captured", x)
    /\ \/ ConfirmPayment(BookingOf(x), ProviderOf(x), x, x, session[x].at)
       \/ ~Exists(BookingOf(x)) /\ UNCHANGED vars
    /\ processed' = processed \cup {<<"captured", x>>}
    /\ UNCHANGED <<session, refunded>>

DeliverClosed(x) ==
    /\ session[x].state = "closed"
    /\ ~Recorded("closed", x)
    /\ \/ CancelCheckout(BookingOf(x), ProviderOf(x))
       \/ ~CheckoutCancellable(BookingOf(x)) /\ UNCHANGED vars
    /\ processed' = processed \cup {<<"closed", x>>}
    /\ UNCHANGED <<session, refunded>>

\* handle_paypal_return captures whatever the booking has become meanwhile,
\* unless it is already confirmed and paid.
ReturnCaptures(x) ==
    /\ session[x].state = "approved"
    /\ Exists(BookingOf(x))
    /\ ~PaidAndConfirmed(booking[BookingOf(x)])
    /\ session' = [session EXCEPT ![x].state = "captured", ![x].at = now]
    /\ UNCHANGED <<refunded, processed>>

PaypalReturn(x) ==
    /\ ReturnCaptures(x)
    /\ ConfirmPayment(BookingOf(x), "PAYPAL", x, x, now)

\* The process dies after the capture, or the confirmation fails with 409:
\* PayPal has the money and the database does not know.
PaypalReturnLost(x) == ReturnCaptures(x) /\ UNCHANGED vars

-----------------------------------------------------------------------------
(* Refunds.                                                                *)

\* The capture a refund names.
RefundReference(b) == RefundRow(b).capture

\* A provider refunds a capture in full at most once; the request carries no
\* idempotency key, so a repeated one is refused and not answered again.
AskRefund(b) ==
    /\ RefundReference(b) \notin refunded
    /\ refunded' = refunded \cup {RefundReference(b)}

RefundAccepted(b, outcome) ==
    /\ CancelWithRefund(b, outcome)
    /\ IF RefundOnRecord(b) THEN UNCHANGED refunded ELSE AskRefund(b)
    /\ UNCHANGED <<session, processed>>

RefundRefused(b) == RefundFails(b) /\ UNCHANGED providerVars

\* The refund was made, but the answer timed out: FAILED is recorded.
RefundAnswerLost(b) ==
    /\ RefundFails(b)
    /\ AskRefund(b)
    /\ UNCHANGED <<session, processed>>

\* The process dies between the refund and the commit.
CrashAfterRefund(b) ==
    /\ PublicCancellable(b) /\ RefundRequired(b) /\ RefundRow(b).exists
    /\ ~RefundOnRecord(b)
    /\ AskRefund(b)
    /\ UNCHANGED <<vars, session, processed>>

-----------------------------------------------------------------------------
\* The requests that involve no provider.
LocalStep ==
    /\ \/ \E b \in BookingId, c \in Court, s \in Slot :
             CreatePublicBooking(b, c, s) \/ CreatePlayBooking(b, c, s)
       \/ \E b \in BookingId :
             ExpireOnRead(b) \/ CancelWithoutRefund(b) \/ AdminStep(b)
       \/ \E c \in Court, s \in Period : CreateBlackout(c, s)
       \/ ExpirePendingJob
       \/ Tick
    /\ UNCHANGED providerVars

SessionStep(x) ==
    \/ \E b \in BookingId, p \in OnlineProvider : Checkout(b, p, x)
    \/ PayStripe(x) \/ ApprovePaypal(x) \/ CloseSession(x)
    \/ DeliverCapture(x) \/ DeliverClosed(x) \/ PaypalReturn(x) \/ PaypalReturnLost(x)

RefundStep(b) ==
    \/ \E outcome \in {"SUCCEEDED", "PENDING"} : RefundAccepted(b, outcome)
    \/ RefundRefused(b) \/ RefundAnswerLost(b) \/ CrashAfterRefund(b)

PNext ==
    \/ LocalStep
    \/ \E x \in Session : SessionStep(x)
    \/ \E b \in BookingId : RefundStep(b) \/ \E p \in OnlineProvider : FollowCancelUrl(b, p)

PSpec == PInit /\ [][PNext]_allVars

\* The providers repeat an event until it is acknowledged, the scheduler runs
\* the expiry job every minute on one instance, and time passes.
PFairSpec ==
    /\ PSpec
    /\ \A x \in Session : WF_allVars(DeliverCapture(x))
    /\ WF_allVars(ExpirePendingJob /\ UNCHANGED providerVars)
    /\ WF_allVars(Tick /\ UNCHANGED providerVars)

-----------------------------------------------------------------------------
(* Properties.                                                             *)

\* The provider's side and the event table have their types.
PTypeOK ==
    /\ session \in [Session -> SessionRow]
    /\ refunded \subseteq Session
    /\ processed \subseteq Event

Captured(b, x) == session[x].state = "captured" /\ BookingOf(x) = b

\* A booking counts as paid only if the provider holds money for it: the
\* capture its payment row names was made, for this booking and by the
\* provider the booking names.
PaidIsCaptured ==
    \A b \in BookingId :
        booking[b].payStatus = "PAID" =>
            /\ booking[b].provider \in OnlineProvider
            /\ LET k == payment[b][booking[b].provider].capture IN
                  k \in Session /\ Captured(b, k) /\ ProviderOf(k) = booking[b].provider

\* A refund on record was really made: some capture of this booking went back
\* to the customer.
RecordedRefundWasMade ==
    \A b \in BookingId, p \in OnlineProvider :
        payment[b][p].refund \in {"SUCCEEDED", "PENDING"} =>
            \E x \in refunded : Captured(b, x) /\ ProviderOf(x) = p

\* Money goes back only for a booking that was paid, and never for one that
\* had already been cancelled: no retry, crash or duplicate refunds a second
\* capture behind a cancellation.
RefundStepOK ==
    \A x \in refunded' \ refunded :
        /\ booking[BookingOf(x)].payStatus = "PAID"
        /\ booking[BookingOf(x)].status = "CONFIRMED"
        /\ x \in {payment[BookingOf(x)][p].capture : p \in OnlineProvider}
RefundOnlyForStandingBooking == [][RefundStepOK]_allVars

\* Only money that was paid while the hold ran confirms a booking, at whatever
\* time and in whatever order the news of it arrives.
ConfirmationStep ==
    \A b \in BookingId :
        booking[b].status \in {"PENDING_PAYMENT", "EXPIRED"}
          /\ booking[b].status' = "CONFIRMED" =>
            \E x \in Session : /\ session'[x].state = "captured" /\ BookingOf(x) = b
                               /\ session'[x].at <= booking[b].expiresAt
OnlyTimelyPaymentConfirms == [][ConfirmationStep]_allVars

\* A payment made while the hold ran is not lost: as long as the provider
\* repeats the event, the booking ends up paid, unless it was cancelled or
\* the slot went to someone else or was closed in the meantime.
PaidInTime(x) ==
    /\ session[x].state = "captured"
    /\ booking[BookingOf(x)].status = "PENDING_PAYMENT"
    /\ session[x].at <= booking[BookingOf(x)].expiresAt
PaymentAnswered(b) ==
    \/ booking[b].payStatus = "PAID"
    \/ booking[b].status \in {"CANCELLED", "DELETED"}
    \/ ~SlotAvailable(b, booking[b].court, booking[b].slot)
TimelyPaymentCounts == \A x \in Session : PaidInTime(x) ~> PaymentAnswered(BookingOf(x))

\* Sessions, captures, webhooks and refunds drive the tables only through the
\* operations of Bookings.
DrivesBookings == Spec
=============================================================================

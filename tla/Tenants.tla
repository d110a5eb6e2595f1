------------------------------ MODULE Tenants ------------------------------
(***************************************************************************)
(* The subscription of a tenant: provisioned with a trial, moved by Stripe *)
(* billing events and by the platform's operator, and looked at by every   *)
(* operational request (enforce_subscription).                             *)
(*                                                                         *)
(* Stripe is external: it changes its subscription, numbers an event for   *)
(* it and delivers that event in any order and more than once until it     *)
(* gives up.  A delivery is three steps of a worker: the event id is looked*)
(* up, its row is inserted and the effect computed from what is read, all  *)
(* is committed.  A second insertion of the same id waits for the first    *)
(* and then fails.  A worker may die at any point, which rolls it back.    *)
(***************************************************************************)
EXTENDS Naturals, FiniteSets, Sequences

CONSTANTS
    Tenant,
    ProviderSub,        \* Stripe's subscriptions, each with a customer
    CustomerOf,
    Worker,
    None,               \* NULL
    Reported,           \* the statuses Stripe reports in this instance
    MaxEvents           \* bound: events Stripe sends

SubscriptionStatus == {"TRIALING", "ACTIVE", "PAST_DUE", "SUSPENDED", "CANCELLED"}
StripeStatus == {"incomplete", "active", "trialing", "past_due", "canceled", "unpaid", "paused"}

ASSUME TenantAssumption ==
    /\ MaxEvents \in Nat
    /\ Reported \subseteq StripeStatus
    /\ None \notin Tenant \cup ProviderSub \cup SubscriptionStatus \cup StripeStatus
    /\ DOMAIN CustomerOf = ProviderSub /\ \A s \in ProviderSub : CustomerOf[s] # None

VARIABLES
    sub,        \* club_subscriptions
    stripe,     \* the status of the subscription at Stripe
    sent,       \* events by number; delivered is a choice
    log,        \* billing_webhook_events: the numbers that are recorded
    request,    \* transactions in flight
    applied,    \* history: how often an event took effect
    tidy        \* history: events were handled alone, in order and once the
                \* tenant was linked, and nobody but Stripe moved the tenant

tenantVars == <<sub, stripe, sent, log, request, applied, tidy>>

EventKind == {"created", "updated", "deleted", "paid", "failed"}
EventNo == 1..MaxEvents

Customer == {CustomerOf[s] : s \in ProviderSub}

SubRow ==
    [status: SubscriptionStatus,
     trial: {"NONE", "RUNNING", "OVER"},    \* where trial_ends_at is
     cancelled: BOOLEAN,                    \* cancelled_at is set
     provider: ProviderSub \cup {None}, customer: Customer \cup {None}]

ASSUME NullAssumption == None \notin SubRow

Event == [kind: EventKind, about: ProviderSub, status: Reported, wanted: BOOLEAN]

Request ==
    [phase: {"operator"}, tenant: Tenant, read: SubscriptionStatus, status: {"SUSPENDED", "ACTIVE"}]
    \cup [phase: {"looked up"}, event: EventNo]
    \cup [phase: {"inserted"}, event: EventNo, tenant: Tenant \cup {None}, read: SubRow \cup {None}]

TenantInit ==
    /\ sub = [t \in Tenant |-> None]
    /\ stripe = [s \in ProviderSub |-> None]
    /\ sent = <<>>
    /\ log = {}
    /\ request = [w \in Worker |-> None]
    /\ applied = [e \in EventNo |-> 0]
    /\ tidy = TRUE

-----------------------------------------------------------------------------
\* The tenant's access.
BLOCKED_STATUSES == {"PAST_DUE", "SUSPENDED", "CANCELLED"}

\* Mutant of Blocked: a payment that failed is only a warning.
BlockedUnlessPastDue(row) ==
    \/ row.status \in {"SUSPENDED", "CANCELLED"}
    \/ row.status = "TRIALING" /\ row.trial = "OVER"

\* _subscription_is_access_blocked, of a tenant that has a subscription.
Blocked(row) ==
    \/ row.status \in BLOCKED_STATUSES
    \/ row.status = "TRIALING" /\ row.trial = "OVER"

-----------------------------------------------------------------------------
\* The platform.

\* provision_tenant, and get_or_create_trial_subscription of the default club.
Provision(t, trial) ==
    /\ sub[t] = None
    /\ sub' = [sub EXCEPT ![t] =
          [status |-> IF trial THEN "TRIALING" ELSE "ACTIVE",
           trial |-> IF trial THEN "RUNNING" ELSE "NONE",
           cancelled |-> FALSE, provider |-> None, customer |-> None]]
    /\ UNCHANGED <<stripe, sent, log, request, applied, tidy>>

\* Nothing in the program writes the provider's ids of a new tenant: an
\* operator does, before Stripe's first event can find the row.
LinkToStripe(t, s) ==
    /\ sub[t] # None /\ sub[t].provider = None
    /\ \A u \in Tenant : sub[u] # None => sub[u].customer # CustomerOf[s]
    /\ sub' = [sub EXCEPT ![t].provider = s, ![t].customer = CustomerOf[s]]
    /\ tidy' = /\ tidy
               /\ \A w \in Worker : request[w] = None
               /\ \A e \in EventNo : applied[e] = 0
    /\ UNCHANGED <<stripe, sent, log, request, applied>>

\* suspend_club and reactivate_club read the row and later write its status,
\* unless it is the one they read.
OperatorReads(w, t, status) ==
    /\ request[w] = None /\ sub[t] # None
    /\ status = "ACTIVE" => sub[t].status \in {"SUSPENDED", "PAST_DUE"}
    /\ request' = [request EXCEPT ![w] =
          [phase |-> "operator", tenant |-> t, read |-> sub[t].status, status |-> status]]
    /\ tidy' = FALSE
    /\ UNCHANGED <<sub, stripe, sent, log, applied>>

SuspendReads(w, t) == OperatorReads(w, t, "SUSPENDED")
ReactivateReads(w, t) == OperatorReads(w, t, "ACTIVE")

OperatorCommits(w) ==
    /\ request[w] # None /\ request[w].phase = "operator"
    /\ sub' = [sub EXCEPT ![request[w].tenant].status =
          IF request[w].read = request[w].status THEN @ ELSE request[w].status]
    /\ request' = [request EXCEPT ![w] = None]
    /\ UNCHANGED <<stripe, sent, log, applied, tidy>>

TrialEnds(t) ==
    /\ sub[t] # None /\ sub[t].trial = "RUNNING"
    /\ sub' = [sub EXCEPT ![t].trial = "OVER"]
    /\ UNCHANGED <<stripe, sent, log, request, applied, tidy>>

-----------------------------------------------------------------------------
\* Stripe, as far as the handler depends on it.
Send(kind, s, status) ==
    /\ Len(sent) < MaxEvents
    /\ sent' = Append(sent, [kind |-> kind, about |-> s, status |-> status, wanted |-> TRUE])
    /\ stripe' = [stripe EXCEPT ![s] = status]
    /\ UNCHANGED <<sub, log, request, applied, tidy>>

StripeCreates(s, status) ==
    /\ stripe[s] = None /\ status \in {"incomplete", "active", "trialing"}
    /\ Send("created", s, status)

StripeUpdates(s, status) ==
    /\ stripe[s] \notin {None, "canceled", status}
    /\ IF status = "canceled" THEN Send("deleted", s, status) ELSE Send("updated", s, status)

StripeInvoices(s, kind) == stripe[s] # None /\ Send(kind, s, stripe[s])

Delivers(w, e) ==
    /\ request[w] # None /\ request[w].phase \in {"looked up", "inserted"}
    /\ request[w].event = e

\* It stops retrying (after days), well before the retention (180 days) ends.
StripeGivesUp(e) ==
    /\ sent[e].wanted /\ \A w \in Worker : ~Delivers(w, e)
    /\ sent' = [sent EXCEPT ![e].wanted = FALSE]
    /\ UNCHANGED <<sub, stripe, log, request, applied, tidy>>

-----------------------------------------------------------------------------
\* The webhook.

MapStripeStatus(status) ==
    CASE status = "active" -> "ACTIVE"       [] status = "trialing" -> "TRIALING"
      [] status = "past_due" -> "PAST_DUE"   [] status = "canceled" -> "CANCELLED"
      [] status = "unpaid" -> "PAST_DUE"     [] status = "paused" -> "SUSPENDED"
      [] OTHER -> None

NewStatus(ev) ==
    CASE ev.kind \in {"created", "paid"} -> "ACTIVE"
      [] ev.kind = "deleted" -> "CANCELLED"
      [] ev.kind = "failed" -> "PAST_DUE"
      [] ev.kind = "updated" -> MapStripeStatus(ev.status)

\* The subscription the event is about: by its id, else by the customer.
Found(ev) ==
    LET byId == {t \in Tenant : sub[t] # None /\ sub[t].provider = ev.about} IN
    IF byId # {} THEN byId
    ELSE {t \in Tenant : sub[t] # None /\ sub[t].customer = CustomerOf[ev.about]}

\* The columns the event changes, over what the row holds at the commit.
Effect(row, read, ev) ==
    [row EXCEPT
        !.status = IF NewStatus(ev) \in {None, read.status} THEN @ ELSE NewStatus(ev),
        !.cancelled = @ \/ NewStatus(ev) = "CANCELLED",
        !.provider = IF ev.kind \in {"created", "updated"} /\ read.provider # ev.about
                     THEN ev.about ELSE @,
        !.customer = IF ev.kind \in {"created", "updated"} /\ read.customer # CustomerOf[ev.about]
                     THEN CustomerOf[ev.about] ELSE @]

\* Handled alone, and after all that was sent before it.
InOrder(e) == (\A w \in Worker : request[w] = None) /\ \A f \in 1..(e - 1) : applied[f] > 0

WebhookLooksUp(w, e) ==
    /\ request[w] = None
    /\ sent[e].wanted /\ e \notin log
    /\ request' = [request EXCEPT ![w] = [phase |-> "looked up", event |-> e]]
    /\ tidy' = (tidy /\ InOrder(e))
    /\ UNCHANGED <<sub, stripe, sent, log, applied>>

\* Mutant of EventFree: event_id is not unique.
EventFreeAlways(e) == TRUE

\* uq event_id: nobody recorded the event or is about to.
EventFree(e) ==
    e \notin log /\ \A w \in Worker : Delivers(w, e) => request[w].phase # "inserted"

WebhookInserts(w, t) ==
    /\ request[w] # None /\ request[w].phase = "looked up"
    /\ EventFree(request[w].event)
    /\ LET ev == sent[request[w].event] IN
       /\ IF Found(ev) = {} THEN t = None ELSE t \in Found(ev)
       /\ request' = [request EXCEPT ![w] =
             [phase |-> "inserted", event |-> request[w].event, tenant |-> t,
              read |-> IF t = None THEN None ELSE sub[t]]]
    /\ UNCHANGED <<sub, stripe, sent, log, applied, tidy>>

WebhookCommits(w) ==
    /\ request[w] # None /\ request[w].phase = "inserted"
    /\ LET e == request[w].event
           t == request[w].tenant IN
       /\ log' = log \cup {e}
       /\ sub' = IF t = None THEN sub
                 ELSE [sub EXCEPT ![t] = Effect(@, request[w].read, sent[e])]
       /\ applied' = [applied EXCEPT ![e] = @ + 1]
    /\ request' = [request EXCEPT ![w] = None]
    /\ UNCHANGED <<stripe, sent, tidy>>

\* The insertion fails, the process dies, or the answer is an error.
Rollback(w) ==
    /\ request[w] # None
    /\ request' = [request EXCEPT ![w] = None]
    /\ UNCHANGED <<sub, stripe, sent, log, applied, tidy>>

\* technical_retention_job and the platform's purge: which records are past the
\* retention is open, but for those of events Stripe still sends.
Purge(old) ==
    /\ old # {} /\ \A e \in old : ~sent[e].wanted
    /\ log' = log \ old
    /\ UNCHANGED <<sub, stripe, sent, request, applied, tidy>>

TenantNext ==
    \/ \E t \in Tenant :
          \/ \E trial \in BOOLEAN : Provision(t, trial)
          \/ \E s \in ProviderSub : LinkToStripe(t, s)
          \/ TrialEnds(t)
          \/ \E w \in Worker : SuspendReads(w, t) \/ ReactivateReads(w, t)
    \/ \E s \in ProviderSub :
          \/ \E status \in Reported : StripeCreates(s, status) \/ StripeUpdates(s, status)
          \/ \E kind \in {"paid", "failed"} : StripeInvoices(s, kind)
    \/ \E e \in DOMAIN sent :
          \/ StripeGivesUp(e) \/ \E w \in Worker : WebhookLooksUp(w, e)
    \/ \E w \in Worker :
          \/ \E t \in Tenant \cup {None} : WebhookInserts(w, t)
          \/ WebhookCommits(w) \/ OperatorCommits(w) \/ Rollback(w)
    \/ \E old \in SUBSET log : Purge(old)

TenantSpec == TenantInit /\ [][TenantNext]_tenantVars
-----------------------------------------------------------------------------
\* What holds of a tenant.
TenantTypeOK ==
    /\ sub \in [Tenant -> SubRow \cup {None}]
    /\ stripe \in [ProviderSub -> Reported \cup {None}]
    /\ sent \in Seq(Event) /\ Len(sent) <= MaxEvents
    /\ log \subseteq DOMAIN sent
    /\ request \in [Worker -> Request \cup {None}]
    /\ applied \in [EventNo -> Nat] /\ tidy \in BOOLEAN

\* An event takes effect at most once, however often and to however many
\* workers at a time Stripe delivers it, whoever dies on the way, and although
\* its record is purged in the end.  (handle_billing_webhook)
EventAppliedOnce == \A e \in EventNo : applied[e] <= 1

\* All events that concern the subscription of tenant t are about the one it is
\* linked to, all have been applied, and the last one told its status.
CaughtUp(t) ==
    /\ sub[t] # None /\ sub[t].provider # None
    /\ \A e \in DOMAIN sent :
          CustomerOf[sent[e].about] = sub[t].customer =>
             /\ sent[e].about = sub[t].provider /\ applied[e] > 0
             /\ sent[e].kind \in {"paid", "failed"} => \E f \in DOMAIN sent :
                   f > e /\ sent[f].about = sent[e].about

\* When its events have been handled one after the other and in order, a tenant
\* gets in while its subscription is active and is kept out while it is not
\* paid for, whatever the subscription went through before.
\* (_process_billing_event, _subscription_is_access_blocked)
AccessFollowsSubscription ==
    \A t \in Tenant : tidy /\ CaughtUp(t) =>
        /\ stripe[sub[t].provider] = "active" => ~Blocked(sub[t])
        /\ stripe[sub[t].provider] \in {"past_due", "canceled", "unpaid", "paused"} => Blocked(sub[t])
=============================================================================

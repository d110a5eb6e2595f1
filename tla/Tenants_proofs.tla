--------------------------- MODULE Tenants_proofs ---------------------------
(***************************************************************************)
(* Theorems of Tenants for any tenants, subscriptions, workers, statuses   *)
(* and number of events.                                                   *)
(***************************************************************************)
EXTENDS Tenants, TLAPS

\* A status a billing event sets is one of the program's.
LEMMA NewStatusType ==
    ASSUME NEW ev \in Event
    PROVE  NewStatus(ev) \in SubscriptionStatus \cup {None}
<1>1. MapStripeStatus(ev.status) \in SubscriptionStatus \cup {None}
  BY DEF MapStripeStatus, SubscriptionStatus
<1> QED BY <1>1 DEF NewStatus, Event, EventKind, SubscriptionStatus

\* NULL is neither a row nor a request.
LEMMA EffectType ==
    ASSUME NEW row \in SubRow, NEW read \in SubRow, NEW ev \in Event
    PROVE  Effect(row, read, ev) \in SubRow
<1>1. NewStatus(ev) \in SubscriptionStatus \cup {None} BY NewStatusType
<1>2. ev.about \in ProviderSub /\ CustomerOf[ev.about] \in Customer BY DEF Event, Customer
<1> QED BY <1>1, <1>2 DEF Effect, SubRow

\* The new types the steps of a request go through.
LEMMA RequestTypes ==
    /\ \A t \in Tenant, read \in SubscriptionStatus, status \in {"SUSPENDED", "ACTIVE"} :
          [phase |-> "operator", tenant |-> t, read |-> read, status |-> status] \in Request
    /\ \A e \in EventNo : [phase |-> "looked up", event |-> e] \in Request
    /\ \A e \in EventNo, t \in Tenant \cup {None}, read \in SubRow \cup {None} :
          [phase |-> "inserted", event |-> e, tenant |-> t, read |-> read] \in Request
  BY DEF Request

\* What a request in flight refers to exists: the event it delivers was sent and
\* the tenant it read has a row.
InFlightOK ==
    \A w \in Worker : request[w] # None =>
        /\ request[w].phase \in {"looked up", "inserted"} => request[w].event \in DOMAIN sent
        /\ request[w].phase \in {"operator", "inserted"} /\ request[w].tenant # None =>
              sub[request[w].tenant] # None /\ request[w].read # None

Typed == TenantTypeOK /\ InFlightOK

\* Rows and events are never deleted.
Grows ==
    /\ \A t \in Tenant : sub[t] # None => sub'[t] # None
    /\ DOMAIN sent \subseteq DOMAIN sent'

\* A step that starts no request keeps what the others refer to.
LEMMA InFlightStays ==
    ASSUME Typed, Grows, NEW w \in Worker,
           request' = request \/ request' = [request EXCEPT ![w] = None]
    PROVE  InFlightOK'
<1> SUFFICES ASSUME NEW v \in Worker, request'[v] # None
             PROVE  /\ request'[v].phase \in {"looked up", "inserted"} =>
                          request'[v].event \in DOMAIN sent'
                    /\ request'[v].phase \in {"operator", "inserted"} /\ request'[v].tenant # None =>
                          sub'[request'[v].tenant] # None /\ request'[v].read # None
  BY DEF InFlightOK
<1>1. request'[v] = request[v] BY DEF Typed, TenantTypeOK
<1>2. request[v].phase \in {"operator", "inserted"} => request[v].tenant \in Tenant \cup {None}
  BY <1>1 DEF Typed, TenantTypeOK, Request
<1> QED BY <1>1, <1>2 DEF Typed, InFlightOK, Grows

\* A step that leaves the requests alone.
LEMMA InFlightQuiet ==
    ASSUME Typed, Grows, request' = request
    PROVE  InFlightOK'
<1>1. CASE Worker = {} BY <1>1 DEF InFlightOK
<1>2. CASE Worker # {} BY <1>2, InFlightStays
<1> QED BY <1>1, <1>2

\* ... and so does one that starts a request which refers to what exists.
LEMMA InFlightStarts ==
    ASSUME Typed, Grows, NEW w \in Worker, NEW r,
           request' = [request EXCEPT ![w] = r],
           r.phase \in {"looked up", "inserted"} => r.event \in DOMAIN sent,
           r.phase \in {"operator", "inserted"} /\ r.tenant # None =>
               r.tenant \in Tenant /\ sub[r.tenant] # None /\ r.read # None
    PROVE  InFlightOK'
<1> SUFFICES ASSUME NEW v \in Worker, request'[v] # None
             PROVE  /\ request'[v].phase \in {"looked up", "inserted"} =>
                          request'[v].event \in DOMAIN sent'
                    /\ request'[v].phase \in {"operator", "inserted"} /\ request'[v].tenant # None =>
                          sub'[request'[v].tenant] # None /\ request'[v].read # None
  BY DEF InFlightOK
<1>1. CASE v = w
  <2>1. request'[v] = r BY <1>1 DEF Typed, TenantTypeOK
  <2> QED BY <2>1 DEF Grows
<1>2. CASE v # w
  <2>1. request'[v] = request[v] BY <1>2 DEF Typed, TenantTypeOK
  <2>2. request[v].phase \in {"operator", "inserted"} => request[v].tenant \in Tenant \cup {None}
    BY <2>1 DEF Typed, TenantTypeOK, Request
  <2> QED BY <2>1, <2>2 DEF Typed, InFlightOK, Grows
<1> QED BY <1>1, <1>2

\* The tables and the requests of every reachable state have their types.
THEOREM TenantTypes == TenantSpec => []Typed
<1>1. TenantInit => Typed
  BY TenantAssumption DEF TenantInit, TenantTypeOK, EventNo, Typed, InFlightOK
<1>2. Typed /\ [TenantNext]_tenantVars => Typed'
  <2> SUFFICES ASSUME Typed, [TenantNext]_tenantVars PROVE Typed'
    OBVIOUS
  <2> USE DEF Typed, TenantTypeOK
  <2>1. ASSUME NEW t \in Tenant, NEW trial \in BOOLEAN, Provision(t, trial)
        PROVE  Typed'
    <3>1. TenantTypeOK' BY <2>1 DEF Provision, SubRow, SubscriptionStatus
    <3>2. Grows BY <2>1, NullAssumption DEF Provision, Grows, SubRow, SubscriptionStatus
    <3> QED BY <2>1, <3>1, <3>2, InFlightQuiet DEF Provision
  <2>2. ASSUME NEW t \in Tenant, NEW s \in ProviderSub, LinkToStripe(t, s)
        PROVE  Typed'
    <3>1. [sub[t] EXCEPT !.provider = s, !.customer = CustomerOf[s]] \in SubRow
      BY <2>2 DEF LinkToStripe, SubRow, Customer
    <3>2. TenantTypeOK' BY <2>2, <3>1 DEF LinkToStripe
    <3>3. Grows BY <2>2, <3>1, NullAssumption DEF LinkToStripe, Grows
    <3> QED BY <2>2, <3>2, <3>3, InFlightQuiet DEF LinkToStripe
  <2>3. ASSUME NEW t \in Tenant, TrialEnds(t)
        PROVE  Typed'
    <3>1. [sub[t] EXCEPT !.trial = "OVER"] \in SubRow BY <2>3 DEF TrialEnds, SubRow
    <3>2. TenantTypeOK' BY <2>3, <3>1 DEF TrialEnds
    <3>3. Grows BY <2>3, <3>1, NullAssumption DEF TrialEnds, Grows
    <3> QED BY <2>3, <3>2, <3>3, InFlightQuiet DEF TrialEnds
  <2>4. ASSUME NEW w \in Worker, NEW t \in Tenant, NEW status \in {"SUSPENDED", "ACTIVE"},
               OperatorReads(w, t, status)
        PROVE  Typed'
    <3>1. sub[t].status \in SubscriptionStatus BY <2>4 DEF OperatorReads, SubRow
    <3>2. TenantTypeOK' BY <2>4, <3>1, RequestTypes DEF OperatorReads
    <3>3. Grows BY <2>4 DEF OperatorReads, Grows
    <3>4. sub[t].status # None BY <3>1, TenantAssumption
    <3> QED BY <2>4, <3>2, <3>3, <3>4, InFlightStarts DEF OperatorReads
  <2>5. ASSUME NEW s \in ProviderSub, NEW kind \in EventKind, NEW status \in Reported,
               Send(kind, s, status)
        PROVE  Typed'
    <3>1. [kind |-> kind, about |-> s, status |-> status, wanted |-> TRUE] \in Event BY DEF Event
    <3>2. sent' \in Seq(Event) /\ Len(sent') = Len(sent) + 1 /\ DOMAIN sent \subseteq DOMAIN sent'
      BY <2>5, <3>1 DEF Send
    <3>3. TenantTypeOK' BY <2>5, <3>2, TenantAssumption DEF Send
    <3>4. Grows BY <2>5, <3>2 DEF Send, Grows
    <3> QED BY <2>5, <3>3, <3>4, InFlightQuiet DEF Send
  <2>6. ASSUME NEW e \in DOMAIN sent, StripeGivesUp(e)
        PROVE  Typed'
    <3>1. [sent[e] EXCEPT !.wanted = FALSE] \in Event
      <4>1. sent[e] \in Event OBVIOUS
      <4> QED BY <4>1 DEF Event
    <3>2. sent' \in Seq(Event) /\ Len(sent') = Len(sent) /\ DOMAIN sent' = DOMAIN sent
      BY <2>6, <3>1 DEF StripeGivesUp
    <3>3. TenantTypeOK' BY <2>6, <3>2 DEF StripeGivesUp
    <3>4. Grows BY <2>6, <3>2 DEF StripeGivesUp, Grows
    <3> QED BY <2>6, <3>3, <3>4, InFlightQuiet DEF StripeGivesUp
  <2>7. ASSUME NEW old \in SUBSET log, Purge(old)
        PROVE  Typed'
    <3>1. TenantTypeOK' BY <2>7 DEF Purge
    <3>2. Grows BY <2>7 DEF Purge, Grows
    <3> QED BY <2>7, <3>1, <3>2, InFlightQuiet DEF Purge
  <2>8. ASSUME NEW e \in DOMAIN sent, NEW w \in Worker, WebhookLooksUp(w, e)
        PROVE  Typed'
    <3>1. e \in EventNo BY TenantAssumption DEF EventNo
    <3>2. TenantTypeOK' BY <2>8, <3>1, RequestTypes DEF WebhookLooksUp
    <3>3. Grows BY <2>8 DEF WebhookLooksUp, Grows
    <3> QED BY <2>8, <3>2, <3>3, InFlightStarts DEF WebhookLooksUp
  <2>9. ASSUME NEW w \in Worker, NEW t \in Tenant \cup {None}, WebhookInserts(w, t)
        PROVE  Typed'
    <3>1. request[w].event \in EventNo BY <2>9 DEF WebhookInserts, Request
    <3>2. (IF t = None THEN None ELSE sub[t]) \in SubRow \cup {None} BY TenantAssumption
    <3>3. TenantTypeOK' BY <2>9, <3>1, <3>2, RequestTypes DEF WebhookInserts
    <3>4. Grows BY <2>9 DEF WebhookInserts, Grows
    <3>5. request[w].event \in DOMAIN sent BY <2>9 DEF WebhookInserts, InFlightOK
    <3>6. t # None => t \in Tenant /\ sub[t] # None BY <2>9 DEF WebhookInserts, Found
    <3> QED BY <2>9, <3>3, <3>4, <3>5, <3>6, InFlightStarts DEF WebhookInserts
  <2>10. ASSUME NEW w \in Worker, WebhookCommits(w)
        PROVE  Typed'
    <3> DEFINE e == request[w].event
               u == request[w].tenant
    <3>1. e \in DOMAIN sent /\ e \in EventNo /\ u \in Tenant \cup {None}
      BY <2>10 DEF WebhookCommits, Request, InFlightOK
    <3>2. ASSUME u # None
          PROVE  Effect(sub[u], request[w].read, sent[e]) \in SubRow
      <4>1. u \in Tenant /\ sub[u] # None /\ request[w].read # None
        BY <3>1, <3>2, <2>10 DEF WebhookCommits, InFlightOK
      <4>2. sub[u] \in SubRow BY <4>1
      <4>3. request[w].read \in SubRow BY <4>1, <2>10 DEF WebhookCommits, Request
      <4>4. sent[e] \in Event BY <3>1
      <4> QED BY <4>2, <4>3, <4>4, EffectType
    <3>3. sub' \in [Tenant -> SubRow \cup {None}] BY <2>10, <3>1, <3>2 DEF WebhookCommits
    <3>4. TenantTypeOK' BY <2>10, <3>1, <3>3 DEF WebhookCommits
    <3>5. \A t \in Tenant : sub[t] # None => sub'[t] # None
      BY <2>10, <3>1, <3>2, NullAssumption DEF WebhookCommits
    <3>6. Grows BY <2>10, <3>5 DEF WebhookCommits, Grows
    <3> QED BY <2>10, <3>4, <3>6, InFlightStays DEF WebhookCommits
  <2>11. ASSUME NEW w \in Worker, OperatorCommits(w)
        PROVE  Typed'
    <3> DEFINE t == request[w].tenant
    <3>1. t \in Tenant /\ sub[t] # None
      BY <2>11, TenantAssumption DEF OperatorCommits, Request, InFlightOK
    <3>2. request[w].status \in SubscriptionStatus
      BY <2>11 DEF OperatorCommits, Request, SubscriptionStatus
    <3>3. sub'[t] \in SubRow BY <2>11, <3>1, <3>2 DEF OperatorCommits, SubRow
    <3>4. sub' \in [Tenant -> SubRow \cup {None}] BY <2>11, <3>1, <3>3 DEF OperatorCommits
    <3>5. TenantTypeOK' BY <2>11, <3>4 DEF OperatorCommits
    <3>6. Grows BY <2>11, <3>1, <3>3, NullAssumption DEF OperatorCommits, Grows
    <3> QED BY <2>11, <3>5, <3>6, InFlightStays DEF OperatorCommits
  <2>12. ASSUME NEW w \in Worker, Rollback(w)
        PROVE  Typed'
    <3>1. TenantTypeOK' BY <2>12 DEF Rollback
    <3>2. Grows BY <2>12 DEF Rollback, Grows
    <3> QED BY <2>12, <3>1, <3>2, InFlightStays DEF Rollback
  <2>13. CASE UNCHANGED tenantVars
    BY <2>13 DEF tenantVars, InFlightOK
  <2> QED
    BY <2>1, <2>2, <2>3, <2>4, <2>5, <2>6, <2>7, <2>8, <2>9, <2>10, <2>11, <2>12, <2>13
    DEF TenantNext, SuspendReads, ReactivateReads, StripeCreates, StripeUpdates, StripeInvoices,
        EventKind
<1> QED BY <1>1, <1>2, PTL DEF TenantSpec

-----------------------------------------------------------------------------
(* An event takes effect once.                                             *)

Inserted(w, e) == Delivers(w, e) /\ request[w].phase = "inserted"

\* Stripe has given up on an event only when nobody delivers it any more, and
\* only then does the record of its effect go.
Once ==
    \A e \in EventNo :
       /\ applied[e] <= 1
       /\ e \in log => applied[e] = 1
       /\ applied[e] = 1 /\ e \notin log => e \in DOMAIN sent /\ ~sent[e].wanted
       /\ e \in DOMAIN sent /\ ~sent[e].wanted => \A w \in Worker : ~Delivers(w, e)
       /\ \A w \in Worker : Inserted(w, e) => e \notin log
       /\ \A w, v \in Worker : Inserted(w, e) /\ Inserted(v, e) => w = v

OnceInv == Typed /\ Once

\* Only a look-up starts a delivery, only an insertion moves one on.
LEMMA DeliveriesStay ==
    ASSUME Typed, NEW w \in Worker, NEW r,
           request' = request \/ request' = [request EXCEPT ![w] = r],
           r = None \/ r.phase = "operator"
    PROVE  \A e \in EventNo, v \in Worker :
              /\ Delivers(v, e)' => Delivers(v, e)
              /\ Inserted(v, e)' => Inserted(v, e)
<1> SUFFICES ASSUME NEW e \in EventNo, NEW v \in Worker, Delivers(v, e)'
             PROVE  request'[v] = request[v]
  BY DEF Delivers, Inserted
<1> QED BY DEF Delivers, Typed, TenantTypeOK

\* A step that records no event and starts no delivery keeps Once.
LEMMA OnceStays ==
    ASSUME OnceInv, applied' = applied, log' = log,
           DOMAIN sent \subseteq DOMAIN sent',
           \A e \in DOMAIN sent : sent'[e].wanted = sent[e].wanted,
           \A e \in DOMAIN sent' \ DOMAIN sent : sent'[e].wanted,
           \A e \in EventNo, v \in Worker :
              /\ Delivers(v, e)' => Delivers(v, e)
              /\ Inserted(v, e)' => Inserted(v, e)
    PROVE  Once'
  BY DEF OnceInv, Once, Typed, TenantTypeOK

LEMMA OnceHolds == TenantSpec => []OnceInv
<1>1. TenantInit => Once
  BY TenantAssumption DEF TenantInit, Once, EventNo, Inserted, Delivers
<1>2. OnceInv /\ [TenantNext]_tenantVars => Once'
  <2> SUFFICES ASSUME OnceInv, [TenantNext]_tenantVars PROVE Once'
    OBVIOUS
  <2>1. ASSUME NEW t \in Tenant, NEW trial \in BOOLEAN, Provision(t, trial) PROVE Once'
    BY <2>1, OnceStays DEF Provision, Delivers, Inserted
  <2>2. ASSUME NEW t \in Tenant, NEW s \in ProviderSub, LinkToStripe(t, s) PROVE Once'
    BY <2>2, OnceStays DEF LinkToStripe, Delivers, Inserted
  <2>3. ASSUME NEW t \in Tenant, TrialEnds(t) PROVE Once'
    BY <2>3, OnceStays DEF TrialEnds, Delivers, Inserted
  <2>4. ASSUME NEW w \in Worker, NEW t \in Tenant, NEW status \in {"SUSPENDED", "ACTIVE"},
               OperatorReads(w, t, status)
        PROVE  Once'
    BY <2>4, OnceStays, DeliveriesStay DEF OperatorReads, OnceInv
  <2>5. ASSUME NEW s \in ProviderSub, NEW kind \in EventKind, NEW status \in Reported,
               Send(kind, s, status)
        PROVE  Once'
    <3> DEFINE ev == [kind |-> kind, about |-> s, status |-> status, wanted |-> TRUE]
    <3>1. ev \in Event BY DEF Event
    <3>2. /\ sent \in Seq(Event) /\ sent' = Append(sent, ev) BY <2>5 DEF Send, OnceInv, Typed, TenantTypeOK
    <3>3. /\ DOMAIN sent \subseteq DOMAIN sent'
          /\ \A e \in DOMAIN sent : sent'[e] = sent[e]
          /\ \A e \in DOMAIN sent' \ DOMAIN sent : sent'[e] = ev
      BY <3>1, <3>2
    <3>4. \A e \in DOMAIN sent' \ DOMAIN sent : sent'[e].wanted BY <3>3
    <3> QED BY <2>5, <3>3, <3>4, OnceStays DEF Send, Delivers, Inserted
  <2>6. ASSUME NEW e \in DOMAIN sent, StripeGivesUp(e) PROVE Once'
    <3>1. /\ DOMAIN sent' = DOMAIN sent
          /\ \A f \in DOMAIN sent : f # e => sent'[f] = sent[f]
          /\ ~sent'[e].wanted
      <4>1. sent \in Seq(Event) /\ sent[e] \in Event BY DEF OnceInv, Typed, TenantTypeOK
      <4> QED BY <4>1, <2>6 DEF StripeGivesUp, Event
    <3>2. \A f \in EventNo, v \in Worker :
             (Delivers(v, f)' <=> Delivers(v, f)) /\ (Inserted(v, f)' <=> Inserted(v, f))
      BY <2>6 DEF StripeGivesUp, Delivers, Inserted
    <3> QED BY <2>6, <3>1, <3>2 DEF StripeGivesUp, OnceInv, Once
  <2>7. ASSUME NEW old \in SUBSET log, Purge(old) PROVE Once'
    <3>1. \A f \in EventNo, v \in Worker :
             (Delivers(v, f)' <=> Delivers(v, f)) /\ (Inserted(v, f)' <=> Inserted(v, f))
      BY <2>7 DEF Purge, Delivers, Inserted
    <3>2. log \subseteq DOMAIN sent BY DEF OnceInv, Typed, TenantTypeOK
    <3>3. /\ log' = log \ old /\ applied' = applied /\ sent' = sent
          /\ \A e \in old : ~sent[e].wanted
      BY <2>7 DEF Purge
    <3> QED BY <3>1, <3>2, <3>3 DEF OnceInv, Once
  <2>8. ASSUME NEW e \in DOMAIN sent, NEW w \in Worker, WebhookLooksUp(w, e) PROVE Once'
    <3>1. \A f \in EventNo, v \in Worker :
             /\ Delivers(v, f)' => Delivers(v, f) \/ f = e
             /\ Inserted(v, f)' => Inserted(v, f)
      BY <2>8 DEF WebhookLooksUp, Delivers, Inserted, OnceInv, Typed, TenantTypeOK
    <3> QED BY <2>8, <3>1 DEF WebhookLooksUp, OnceInv, Once
  <2>9. ASSUME NEW w \in Worker, NEW t \in Tenant \cup {None}, WebhookInserts(w, t) PROVE Once'
    <3> DEFINE e == request[w].event
    <3>1. \A f \in EventNo, v \in Worker :
             /\ Delivers(v, f)' => Delivers(v, f)
             /\ Inserted(v, f)' => Inserted(v, f) \/ (v = w /\ f = e)
      BY <2>9 DEF WebhookInserts, Delivers, Inserted, OnceInv, Typed, TenantTypeOK
    <3>2. e \notin log /\ \A v \in Worker : ~Inserted(v, e)
      BY <2>9 DEF WebhookInserts, EventFree, Inserted
    <3>3. log' = log  /\ applied' = applied /\ sent' = sent
      BY <2>9 DEF WebhookInserts
    <3>4. \A f \in EventNo : \A v, x \in Worker : Inserted(v, f)' /\ Inserted(x, f)' => v = x
      BY <3>1, <3>2 DEF OnceInv, Once
    <3>5. \A f \in EventNo, v \in Worker : Inserted(v, f)' => f \notin log'
      BY <3>1, <3>2, <3>3 DEF OnceInv, Once
    <3>6. \A f \in EventNo : f \in DOMAIN sent /\ ~sent[f].wanted =>
             \A v \in Worker : ~(Delivers(v, f)')
      BY <3>1 DEF OnceInv, Once
    <3> HIDE DEF e
    <3> QED BY <3>3, <3>4, <3>5, <3>6 DEF OnceInv, Once
  <2>10. ASSUME NEW w \in Worker, WebhookCommits(w) PROVE Once'
    <3> DEFINE e == request[w].event
    <3>1. e \in EventNo /\ e \in DOMAIN sent /\ Inserted(w, e)
      BY <2>10 DEF WebhookCommits, Inserted, Delivers, OnceInv, Typed, TenantTypeOK, InFlightOK, Request
    <3>2. e \notin log /\ applied[e] = 0 /\ sent[e].wanted
      BY <3>1 DEF OnceInv, Once, Inserted, Typed, TenantTypeOK
    <3>3. /\ log' = log \cup {e} /\ applied' = [applied EXCEPT ![e] = @ + 1]
          /\ sent' = sent 
      BY <2>10 DEF WebhookCommits
    <3>4. \A f \in EventNo, v \in Worker :
             /\ Delivers(v, f)' => Delivers(v, f) /\ v # w
             /\ Inserted(v, f)' => Inserted(v, f) /\ v # w
      BY <2>10 DEF WebhookCommits, Delivers, Inserted, OnceInv, Typed, TenantTypeOK
    <3>5. \A v \in Worker : Inserted(v, e) => v = w BY <3>1 DEF OnceInv, Once
    <3> QED BY <3>1, <3>2, <3>3, <3>4, <3>5 DEF OnceInv, Once, Typed, TenantTypeOK
  <2>11. ASSUME NEW w \in Worker, OperatorCommits(w) PROVE Once'
    BY <2>11, OnceStays, DeliveriesStay DEF OperatorCommits, OnceInv
  <2>12. ASSUME NEW w \in Worker, Rollback(w) PROVE Once'
    BY <2>12, OnceStays, DeliveriesStay DEF Rollback, OnceInv
  <2>13. CASE UNCHANGED tenantVars
    BY <2>13, OnceStays DEF tenantVars, Delivers, Inserted
  <2> QED
    BY <2>1, <2>2, <2>3, <2>4, <2>5, <2>6, <2>7, <2>8, <2>9, <2>10, <2>11, <2>12, <2>13
    DEF TenantNext, SuspendReads, ReactivateReads, StripeCreates, StripeUpdates, StripeInvoices,
        EventKind, OnceInv, Typed, TenantTypeOK
<1>3. TenantSpec => []Typed BY TenantTypes
<1> QED BY <1>1, <1>2, <1>3, PTL DEF TenantSpec, OnceInv

\* An event takes effect at most once.
THEOREM EventsApplyOnce == TenantSpec => []EventAppliedOnce
<1>1. OnceInv => EventAppliedOnce BY DEF OnceInv, Once, EventAppliedOnce
<1> QED BY <1>1, OnceHolds, PTL

-----------------------------------------------------------------------------
(* What a tenant gets follows the subscription at Stripe.                  *)

\* Two tenants never have the same customer, the customer of a tenant is the
\* one of its subscription, and an event in flight is about its tenant's.
Linked ==
    /\ \A t \in Tenant : sub[t] # None =>
          /\ sub[t].provider = None <=> sub[t].customer = None
          /\ sub[t].provider # None => sub[t].customer = CustomerOf[sub[t].provider]
          /\ \A u \in Tenant \ {t} :
                sub[u] # None /\ sub[t].customer # None => sub[u].customer # sub[t].customer
    /\ \A w \in Worker :
          request[w] # None /\ request[w].phase = "inserted" /\ request[w].tenant # None =>
             /\ sub[request[w].tenant].customer = CustomerOf[sent[request[w].event].about]
             /\ request[w].read.customer = CustomerOf[sent[request[w].event].about]

\* Stripe stands where its last event of a subscription says, and an event
\* that announces or ends a subscription has a status that goes with it.
Announced ==
    /\ \A e \in DOMAIN sent :
          /\ sent[e].kind = "created" => sent[e].status \in {"incomplete", "active", "trialing"}
          /\ sent[e].kind = "updated" => sent[e].status # "canceled"
          /\ sent[e].kind = "deleted" => sent[e].status = "canceled"
    /\ \A s \in ProviderSub : stripe[s] # None =>
          \E e \in DOMAIN sent :
             /\ sent[e].about = s /\ sent[e].status = stripe[s]
             /\ \A f \in DOMAIN sent : f > e => sent[f].about # s

\* Event e says what becomes of tenant t.
Concerns(e, t) == CustomerOf[sent[e].about] = sub[t].customer
Speaks(e, t) == Concerns(e, t) /\ NewStatus(sent[e]) # None

\* As long as events are handled alone and in order, one at a time is in
\* flight, those before it have taken effect, it was inserted for the tenant
\* it concerns as that tenant still is ...
Ordered ==
    /\ \A e, f \in EventNo : f < e /\ applied[e] > 0 => applied[f] > 0
    /\ \A w \in Worker : request[w] # None =>
          /\ request[w].phase \in {"looked up", "inserted"}
          /\ \A v \in Worker : request[v] # None => v = w
          /\ \A f \in EventNo : f < request[w].event => applied[f] > 0
          /\ request[w].phase = "inserted" =>
                \A t \in Tenant : sub[t] # None /\ Concerns(request[w].event, t) =>
                   request[w].tenant = t /\ request[w].read.status = sub[t].status

\* ... and a tenant's status is the one the last event that spoke gave it.
LastWord ==
    \A t \in Tenant : \A e \in EventNo :
       /\ sub[t] # None /\ applied[e] > 0 /\ Speaks(e, t)
       /\ \A f \in EventNo : f > e /\ applied[f] > 0 => ~Speaks(f, t)
       => sub[t].status = NewStatus(sent[e])

FollowInv == OnceInv /\ Linked /\ Announced /\ (tidy => Ordered /\ LastWord)

\* The events that were sent.
LEMMA SentTypes ==
    ASSUME Typed, NEW e \in DOMAIN sent
    PROVE  /\ e \in EventNo /\ sent[e] \in Event
           /\ sent[e].about \in ProviderSub /\ sent[e].about # None /\ CustomerOf[sent[e].about] # None
<1>1. sent[e] \in Event BY DEF Typed, TenantTypeOK
<1>2. e \in EventNo BY TenantAssumption DEF Typed, TenantTypeOK, EventNo
<1>3. sent[e].about \in ProviderSub BY <1>1 DEF Event
<1> QED BY <1>1, <1>2, <1>3, TenantAssumption

\* What a commit leaves in a row.
LEMMA EffectFields ==
    ASSUME NEW row \in SubRow, NEW read, NEW ev
    PROVE  /\ Effect(row, read, ev).status =
                 IF NewStatus(ev) \in {None, read.status} THEN row.status ELSE NewStatus(ev)
           /\ Effect(row, read, ev).provider =
                 IF ev.kind \in {"created", "updated"} /\ read.provider # ev.about
                 THEN ev.about ELSE row.provider
           /\ Effect(row, read, ev).customer =
                 IF ev.kind \in {"created", "updated"} /\ read.customer # CustomerOf[ev.about]
                 THEN CustomerOf[ev.about] ELSE row.customer
  BY DEF Effect, SubRow

\* The commit of a delivery, seen from the tables.
LEMMA CommitRow ==
    ASSUME Typed, NEW w \in Worker, WebhookCommits(w)
    PROVE  /\ request[w].event \in EventNo /\ request[w].event \in DOMAIN sent
           /\ request[w].tenant \in Tenant \cup {None}
           /\ sent[request[w].event] \in Event
           /\ request[w].tenant # None =>
                 /\ sub[request[w].tenant] \in SubRow /\ request[w].read \in SubRow
                 /\ sub'[request[w].tenant] =
                       Effect(sub[request[w].tenant], request[w].read, sent[request[w].event])
                 /\ sub'[request[w].tenant] \in SubRow
           /\ \A t \in Tenant : t # request[w].tenant => sub'[t] = sub[t]
<1> DEFINE e == request[w].event
           t == request[w].tenant
<1>1. e \in EventNo /\ e \in DOMAIN sent /\ t \in Tenant \cup {None}
  BY DEF WebhookCommits, Request, Typed, TenantTypeOK, InFlightOK
<1>2. sent[e] \in Event BY <1>1 DEF Typed, TenantTypeOK
<1>3. sub' = IF t = None THEN sub
             ELSE [sub EXCEPT ![t] = Effect(@, request[w].read, sent[e])]
  BY DEF WebhookCommits
<1>4. ASSUME t # None
      PROVE  sub[t] \in SubRow /\ request[w].read \in SubRow
  <2>1. t \in Tenant /\ sub[t] # None /\ request[w].read # None
    BY <1>1, <1>4 DEF WebhookCommits, Typed, InFlightOK
  <2> QED BY <2>1 DEF WebhookCommits, Request, Typed, TenantTypeOK
<1>5. t # None => sub'[t] = Effect(sub[t], request[w].read, sent[e])
  BY <1>1, <1>3 DEF Typed, TenantTypeOK
<1>6. \A u \in Tenant : u # t => sub'[u] = sub[u] BY <1>3 DEF Typed, TenantTypeOK
<1>7. t # None => sub'[t] \in SubRow BY <1>2, <1>4, <1>5, EffectType
<1> HIDE DEF e, t
<1>8. QED BY <1>1, <1>2, <1>4, <1>5, <1>6, <1>7 DEF e, t

\* A step that inserts no delivery and moves no tenant to another customer.
LEMMA LinkedStays ==
    ASSUME Typed, Linked, NEW w \in Worker, NEW r,
           request' = request \/ request' = [request EXCEPT ![w] = r],
           r = None \/ r.phase # "inserted",
           \A e \in DOMAIN sent : sent'[e].about = sent[e].about,
           \A t \in Tenant : sub[t] # None =>
              sub'[t] # None /\ sub'[t].provider = sub[t].provider /\ sub'[t].customer = sub[t].customer,
           \A t \in Tenant : sub[t] = None /\ sub'[t] # None =>
              sub'[t].provider = None /\ sub'[t].customer = None
    PROVE  Linked'
<1>1. ASSUME NEW v \in Worker,
             request'[v] # None /\ request'[v].phase = "inserted" /\ request'[v].tenant # None
      PROVE  /\ sub'[request'[v].tenant].customer = CustomerOf[sent'[request'[v].event].about]
             /\ request'[v].read.customer = CustomerOf[sent'[request'[v].event].about]
  <2>1. request'[v] = request[v]
    <3>1. CASE request' = [request EXCEPT ![w] = r] /\ v = w
      <4>1. request'[v] = r BY <3>1 DEF Typed, TenantTypeOK
      <4> QED BY <1>1, <4>1
    <3>2. CASE request' = [request EXCEPT ![w] = r] /\ v # w BY <3>2 DEF Typed, TenantTypeOK
    <3> QED BY <3>1, <3>2
  <2>2. request[v].event \in DOMAIN sent /\ sub[request[v].tenant] # None
    BY <1>1, <2>1 DEF Typed, InFlightOK
  <2>3. request[v].tenant \in Tenant BY <1>1, <2>1 DEF Typed, TenantTypeOK, Request
  <2> QED BY <1>1, <2>1, <2>2, <2>3 DEF Linked
<1>2. ASSUME NEW t \in Tenant, sub'[t] # None
      PROVE  /\ sub'[t].provider = None <=> sub'[t].customer = None
             /\ sub'[t].provider # None => sub'[t].customer = CustomerOf[sub'[t].provider]
  <2>1. CASE sub[t] = None BY <1>2, <2>1
  <2>2. CASE sub[t] # None BY <1>2, <2>2 DEF Linked
  <2> QED BY <2>1, <2>2
<1>3. ASSUME NEW t \in Tenant, NEW u \in Tenant \ {t},
             sub'[t] # None, sub'[u] # None, sub'[t].customer # None
      PROVE  sub'[u].customer # sub'[t].customer
  <2>1. sub[t] # None /\ sub'[t].customer = sub[t].customer BY <1>3
  <2>2. CASE sub[u] = None BY <1>3, <2>2
  <2>3. CASE sub[u] # None BY <1>3, <2>1, <2>3 DEF Linked
  <2> QED BY <2>2, <2>3
<1> QED BY <1>1, <1>2, <1>3 DEF Linked

\* ... nor touches a request.
LEMMA LinkedQuiet ==
    ASSUME Typed, Linked, request' = request,
           \A e \in DOMAIN sent : sent'[e].about = sent[e].about,
           \A t \in Tenant : sub[t] # None =>
              sub'[t] # None /\ sub'[t].provider = sub[t].provider /\ sub'[t].customer = sub[t].customer,
           \A t \in Tenant : sub[t] = None /\ sub'[t] # None =>
              sub'[t].provider = None /\ sub'[t].customer = None
    PROVE  Linked'
<1>1. ASSUME NEW w \in Worker PROVE Linked' BY LinkedStays
<1>2. ASSUME Worker = {} PROVE Linked'
  <2>1. ASSUME NEW t \in Tenant, sub'[t] # None
        PROVE  /\ sub'[t].provider = None <=> sub'[t].customer = None
               /\ sub'[t].provider # None => sub'[t].customer = CustomerOf[sub'[t].provider]
               /\ \A u \in Tenant \ {t} :
                     sub'[u] # None /\ sub'[t].customer # None => sub'[u].customer # sub'[t].customer
    <3>1. CASE sub[t] = None BY <2>1, <3>1
    <3>2. CASE sub[t] # None BY <2>1, <3>2 DEF Linked
    <3> QED BY <3>1, <3>2
  <2> QED BY <1>2, <2>1 DEF Linked
<1> QED BY <1>1, <1>2

LEMMA LinkedStep == Typed /\ Linked /\ [TenantNext]_tenantVars => Linked'
<1> SUFFICES ASSUME Typed, Linked, [TenantNext]_tenantVars PROVE Linked'
  OBVIOUS
<1>1. ASSUME NEW t \in Tenant, NEW trial \in BOOLEAN, Provision(t, trial) PROVE Linked'
  <2>1. /\ sub[t] = None /\ request' = request /\ sent' = sent
        /\ sub'[t].provider = None /\ sub'[t].customer = None
        /\ \A u \in Tenant \ {t} : sub'[u] = sub[u]
    BY <1>1 DEF Provision, Typed, TenantTypeOK
  <2> QED BY <2>1, LinkedQuiet
<1>2. ASSUME NEW t \in Tenant, NEW s \in ProviderSub, LinkToStripe(t, s) PROVE Linked'
  <2>1. sub[t] \in SubRow /\ sub[t] # None /\ sub[t].provider = None
    BY <1>2 DEF LinkToStripe, Typed, TenantTypeOK
  <2>2. /\ request' = request /\ sent' = sent
        /\ sub'[t].provider = s /\ sub'[t].customer = CustomerOf[s]
        /\ \A u \in Tenant \ {t} : sub'[u] = sub[u]
    BY <1>2, <2>1 DEF LinkToStripe, Typed, TenantTypeOK, SubRow
  <2>3. s # None /\ CustomerOf[s] # None BY TenantAssumption
  <2>4. ASSUME NEW w \in Worker, request[w] # None, request[w].phase = "inserted",
               request[w].tenant # None
        PROVE  request[w].tenant # t /\ request[w].tenant \in Tenant
    <3>1. sub[request[w].tenant].customer # None
      <4>1. request[w].event \in DOMAIN sent BY <2>4 DEF Typed, InFlightOK
      <4> QED BY <2>4, <4>1, SentTypes DEF Linked
    <3>2. request[w].tenant \in Tenant BY <2>4 DEF Typed, TenantTypeOK, Request
    <3> QED BY <2>1, <3>1, <3>2 DEF Linked
  <2>5. \A u \in Tenant : sub[u] # None => sub[u].customer # CustomerOf[s] BY <1>2 DEF LinkToStripe
  <2>6. \A u \in Tenant \ {t} : sub'[u] # None => sub'[u].customer # CustomerOf[s] BY <2>2, <2>5
  <2>7. ASSUME NEW u \in Tenant, sub'[u] # None
        PROVE  /\ sub'[u].provider = None <=> sub'[u].customer = None
               /\ sub'[u].provider # None => sub'[u].customer = CustomerOf[sub'[u].provider]
               /\ \A v \in Tenant \ {u} :
                     sub'[v] # None /\ sub'[u].customer # None => sub'[v].customer # sub'[u].customer
    <3>1. CASE u = t BY <2>2, <2>3, <2>6, <3>1
    <3>2. CASE u # t
      <4>1. sub'[u] = sub[u] BY <2>2, <3>2
      <4>2. sub'[t].customer # sub'[u].customer BY <2>2, <2>6, <2>7, <3>2
      <4> QED BY <2>2, <2>7, <4>1, <4>2 DEF Linked
    <3> QED BY <3>1, <3>2
  <2>8. ASSUME NEW w \in Worker, request'[w] # None, request'[w].phase = "inserted",
               request'[w].tenant # None
        PROVE  /\ sub'[request'[w].tenant].customer = CustomerOf[sent'[request'[w].event].about]
               /\ request'[w].read.customer = CustomerOf[sent'[request'[w].event].about]
    BY <2>2, <2>4, <2>8 DEF Linked
  <2> QED BY <2>7, <2>8 DEF Linked
<1>3. ASSUME NEW t \in Tenant, TrialEnds(t) PROVE Linked'
  <2>1. sub[t] \in SubRow BY <1>3 DEF TrialEnds, Typed, TenantTypeOK
  <2>2. /\ request' = request /\ sent' = sent
        /\ sub'[t] \in SubRow /\ sub'[t].provider = sub[t].provider /\ sub'[t].customer = sub[t].customer
        /\ \A u \in Tenant \ {t} : sub'[u] = sub[u]
    BY <1>3, <2>1 DEF TrialEnds, Typed, TenantTypeOK, SubRow
  <2>3. sub[t] # None /\ sub'[t] # None BY <1>3, <2>2, NullAssumption DEF TrialEnds
  <2> QED BY <2>2, <2>3, LinkedQuiet
<1>4. ASSUME NEW w \in Worker, NEW t \in Tenant, NEW status \in {"SUSPENDED", "ACTIVE"},
             OperatorReads(w, t, status)
      PROVE  Linked'
  <2> DEFINE r == [phase |-> "operator", tenant |-> t, read |-> sub[t].status, status |-> status]
  <2>1. r.phase # "inserted" /\ request' = [request EXCEPT ![w] = r] /\ sub' = sub /\ sent' = sent
    BY <1>4 DEF OperatorReads
  <2> HIDE DEF r
  <2> QED BY <2>1, LinkedStays
<1>5. ASSUME NEW s \in ProviderSub, NEW kind \in EventKind, NEW status \in Reported,
             Send(kind, s, status)
      PROVE  Linked'
  <2> DEFINE ev == [kind |-> kind, about |-> s, status |-> status, wanted |-> TRUE]
  <2>1. ev \in Event BY DEF Event
  <2>2. sent \in Seq(Event) /\ sent' = Append(sent, ev) BY <1>5 DEF Send, Typed, TenantTypeOK
  <2>3. \A e \in DOMAIN sent : sent'[e] = sent[e] BY <2>1, <2>2
  <2>4. request' = request /\ sub' = sub BY <1>5 DEF Send
  <2> QED BY <2>3, <2>4, LinkedQuiet
<1>6. ASSUME NEW e \in DOMAIN sent, StripeGivesUp(e) PROVE Linked'
  <2>1. \A f \in DOMAIN sent : sent'[f].about = sent[f].about
    <3>1. sent \in Seq(Event) /\ sent[e] \in Event BY DEF Typed, TenantTypeOK
    <3> QED BY <1>6, <3>1 DEF StripeGivesUp, Event
  <2>2. request' = request /\ sub' = sub BY <1>6 DEF StripeGivesUp
  <2> QED BY <2>1, <2>2, LinkedQuiet
<1>7. ASSUME UNCHANGED <<sub, sent, request>> PROVE Linked'
  BY <1>7 DEF Linked
<1>8. ASSUME NEW e \in DOMAIN sent, NEW w \in Worker, WebhookLooksUp(w, e) PROVE Linked'
  <2> DEFINE r == [phase |-> "looked up", event |-> e]
  <2>1. r.phase # "inserted" /\ request' = [request EXCEPT ![w] = r] /\ sub' = sub /\ sent' = sent
    BY <1>8 DEF WebhookLooksUp
  <2> HIDE DEF r
  <2> QED BY <2>1, LinkedStays
<1>9. ASSUME NEW w \in Worker, NEW t \in Tenant \cup {None}, WebhookInserts(w, t) PROVE Linked'
  <2> DEFINE e == request[w].event
             r == [phase |-> "inserted", event |-> e, tenant |-> t,
                   read |-> IF t = None THEN None ELSE sub[t]]
  <2>1. e \in DOMAIN sent BY <1>9 DEF WebhookInserts, Typed, InFlightOK
  <2>2. sent[e].about \in ProviderSub /\ CustomerOf[sent[e].about] # None BY <2>1, SentTypes
  <2>3. /\ request'[w] = r /\ \A v \in Worker \ {w} : request'[v] = request[v]
        /\ sub' = sub /\ sent' = sent
    BY <1>9 DEF WebhookInserts, Typed, TenantTypeOK
  <2>4. t # None => sub[t].customer = CustomerOf[sent[e].about]
    BY <1>9, <2>2, TenantAssumption DEF WebhookInserts, Found, Linked
  <2>5. r.event = e /\ r.tenant = t /\ (t # None => r.read = sub[t]) OBVIOUS
  <2> HIDE DEF r, e
  <2>6. ASSUME NEW v \in Worker, request'[v] # None, request'[v].phase = "inserted",
               request'[v].tenant # None
        PROVE  /\ sub'[request'[v].tenant].customer = CustomerOf[sent'[request'[v].event].about]
               /\ request'[v].read.customer = CustomerOf[sent'[request'[v].event].about]
    <3>1. CASE v = w BY <2>3, <2>4, <2>5, <2>6, <3>1
    <3>2. CASE v # w BY <2>3, <2>6, <3>2 DEF Linked
    <3> QED BY <3>1, <3>2
  <2> QED BY <2>3, <2>6 DEF Linked
<1>10. ASSUME NEW w \in Worker, WebhookCommits(w) PROVE Linked'
  <2> DEFINE e == request[w].event
             t == request[w].tenant
  <2>1. /\ e \in DOMAIN sent /\ t \in Tenant \cup {None} /\ sent[e] \in Event
        /\ \A u \in Tenant : u # t => sub'[u] = sub[u]
        /\ t # None => sub[t] \in SubRow /\ sub'[t] = Effect(sub[t], request[w].read, sent[e])
        /\ t # None => sub'[t] \in SubRow
    BY <1>10, CommitRow
  <2>2. request' = [request EXCEPT ![w] = None] /\ sent' = sent BY <1>10 DEF WebhookCommits
  <2>3. sent[e].about \in ProviderSub /\ sent[e].about # None /\ CustomerOf[sent[e].about] # None
    BY <2>1, SentTypes
  <2>4. ASSUME t # None
        PROVE  /\ sub[t].customer = CustomerOf[sent[e].about]
               /\ sub'[t].customer = sub[t].customer
               /\ sub'[t].provider \in {sent[e].about, sub[t].provider}
               /\ sub[t].provider # None /\ sub[t] # None /\ sub'[t] # None
    <3>1. /\ sub[t].customer = CustomerOf[sent[e].about]
          /\ request[w].read.customer = CustomerOf[sent[e].about]
      BY <1>10, <2>4 DEF WebhookCommits, Linked
    <3>2. sub[t] # None BY <1>10, <2>4 DEF WebhookCommits, Typed, InFlightOK
    <3>3. sub'[t] # None BY <2>1, <2>4, NullAssumption
    <3> HIDE DEF e, t
    <3>4. sub'[t].customer = sub[t].customer /\ sub'[t].provider \in {sent[e].about, sub[t].provider}
      BY <2>1, <2>4, <3>1, EffectFields
    <3>5. sub[t].provider # None BY <2>1, <2>3, <2>4, <3>1, <3>2 DEF Linked
    <3> QED BY <3>1, <3>2, <3>3, <3>4, <3>5
  <2> HIDE DEF e, t
  <2>5. \A u \in Tenant : /\ sub'[u] # None <=> sub[u] # None
                          /\ sub[u] # None => sub'[u].customer = sub[u].customer
    <3> TAKE u \in Tenant
    <3>1. CASE u = t
      <4>1. t # None BY <3>1, TenantAssumption
      <4> QED BY <2>4, <3>1, <4>1
    <3>2. CASE u # t BY <2>1, <3>2
    <3> QED BY <3>1, <3>2
  <2>6. ASSUME NEW u \in Tenant, sub'[u] # None
        PROVE  /\ sub'[u].provider = None <=> sub'[u].customer = None
               /\ sub'[u].provider # None => sub'[u].customer = CustomerOf[sub'[u].provider]
               /\ \A v \in Tenant \ {u} :
                     sub'[v] # None /\ sub'[u].customer # None => sub'[v].customer # sub'[u].customer
    <3>1. \A v \in Tenant \ {u} :
             sub'[v] # None /\ sub'[u].customer # None => sub'[v].customer # sub'[u].customer
      BY <2>5, <2>6 DEF Linked
    <3>2. CASE u = t
      <4>1. t # None BY <3>2, TenantAssumption
      <4>2. sub[t].provider # None /\ sub[t].customer = CustomerOf[sub[t].provider]
        BY <2>4, <3>2, <4>1 DEF Linked
      <4> QED BY <2>3, <2>4, <3>1, <3>2, <4>1, <4>2
    <3>3. CASE u # t BY <2>1, <2>6, <3>1, <3>3 DEF Linked
    <3> QED BY <3>2, <3>3
  <2>7. ASSUME NEW v \in Worker, request'[v] # None, request'[v].phase = "inserted",
               request'[v].tenant # None
        PROVE  /\ sub'[request'[v].tenant].customer = CustomerOf[sent'[request'[v].event].about]
               /\ request'[v].read.customer = CustomerOf[sent'[request'[v].event].about]
    <3>1. v # w /\ request'[v] = request[v] BY <2>2, <2>7 DEF Typed, TenantTypeOK
    <3>2. request[v].tenant \in Tenant BY <2>7, <3>1 DEF Typed, TenantTypeOK, Request
    <3>3. sub[request[v].tenant] # None BY <2>7, <3>1 DEF Typed, InFlightOK
    <3> QED BY <2>2, <2>5, <2>7, <3>1, <3>2, <3>3 DEF Linked
  <2> QED BY <2>6, <2>7 DEF Linked
<1>11. ASSUME NEW w \in Worker, OperatorCommits(w) PROVE Linked'
  <2> DEFINE t == request[w].tenant
  <2>1. t \in Tenant /\ sub[t] # None /\ sub[t] \in SubRow
    BY <1>11, TenantAssumption DEF OperatorCommits, Request, Typed, TenantTypeOK, InFlightOK
  <2>2. request' = [request EXCEPT ![w] = None] /\ sent' = sent BY <1>11 DEF OperatorCommits
  <2>3. /\ \A u \in Tenant \ {t} : sub'[u] = sub[u]
        /\ sub'[t].provider = sub[t].provider /\ sub'[t].customer = sub[t].customer
    BY <1>11, <2>1 DEF OperatorCommits, Typed, TenantTypeOK, SubRow
  <2>4. sub'[t] # None
    <3>1. request[w].status \in SubscriptionStatus
      BY <1>11 DEF OperatorCommits, Request, SubscriptionStatus, Typed, TenantTypeOK
    <3>2. sub'[t] \in SubRow BY <1>11, <2>1, <3>1 DEF OperatorCommits, SubRow, Typed, TenantTypeOK
    <3> QED BY <3>2, NullAssumption
  <2> HIDE DEF t
  <2> QED BY <2>1, <2>2, <2>3, <2>4, LinkedStays
<1>12. ASSUME NEW w \in Worker, Rollback(w) PROVE Linked'
  BY <1>12, LinkedStays DEF Rollback
<1> QED
  BY <1>1, <1>2, <1>3, <1>4, <1>5, <1>6, <1>7, <1>8, <1>9, <1>10, <1>11, <1>12
  DEF TenantNext, SuspendReads, ReactivateReads, StripeCreates, StripeUpdates, StripeInvoices,
      EventKind, Purge, tenantVars, Typed, TenantTypeOK

LEMMA AnnouncedStep == Typed /\ Announced /\ [TenantNext]_tenantVars => Announced'
<1> SUFFICES ASSUME Typed, Announced, [TenantNext]_tenantVars PROVE Announced'
  OBVIOUS
<1>1. ASSUME NEW s \in ProviderSub, NEW kind \in EventKind, NEW status \in Reported,
             Send(kind, s, status),
             kind = "created" => status \in {"incomplete", "active", "trialing"},
             kind = "updated" => status # "canceled",
             kind = "deleted" => status = "canceled"
      PROVE  Announced'
  <2> DEFINE ev == [kind |-> kind, about |-> s, status |-> status, wanted |-> TRUE]
             n == Len(sent) + 1
  <2>1. ev \in Event BY DEF Event
  <2>2. sent \in Seq(Event) /\ sent' = Append(sent, ev) BY <1>1 DEF Send, Typed, TenantTypeOK
  <2>3. /\ DOMAIN sent' = DOMAIN sent \cup {n} /\ n \notin DOMAIN sent /\ sent'[n] = ev
        /\ \A e \in DOMAIN sent : sent'[e] = sent[e] /\ e < n /\ e \in Nat
        /\ n \in Nat
    BY <2>1, <2>2
  <2>4. /\ stripe'[s] = status /\ \A u \in ProviderSub \ {s} : stripe'[u] = stripe[u]
    BY <1>1 DEF Send, Typed, TenantTypeOK
  <2>5. ev.kind = kind /\ ev.about = s /\ ev.status = status OBVIOUS
  <2> HIDE DEF ev, n
  <2>6. \A e \in DOMAIN sent' :
           /\ sent'[e].kind = "created" => sent'[e].status \in {"incomplete", "active", "trialing"}
           /\ sent'[e].kind = "updated" => sent'[e].status # "canceled"
           /\ sent'[e].kind = "deleted" => sent'[e].status = "canceled"
    BY <1>1, <2>3, <2>5 DEF Announced
  <2>7. ASSUME NEW u \in ProviderSub, stripe'[u] # None
        PROVE  \E e \in DOMAIN sent' :
                  /\ sent'[e].about = u /\ sent'[e].status = stripe'[u]
                  /\ \A f \in DOMAIN sent' : f > e => sent'[f].about # u
    <3>1. CASE u = s
      <4>1. n \in DOMAIN sent' /\ \A f \in DOMAIN sent' : ~(f > n) BY <2>3
      <4> QED BY <2>3, <2>4, <2>5, <3>1, <4>1
    <3>2. CASE u # s
      <4>1. PICK e \in DOMAIN sent :
                /\ sent[e].about = u /\ sent[e].status = stripe[u]
                /\ \A f \in DOMAIN sent : f > e => sent[f].about # u
        BY <2>4, <2>7, <3>2 DEF Announced
      <4> QED BY <2>3, <2>4, <2>5, <3>2, <4>1
    <3> QED BY <3>1, <3>2
  <2> QED BY <2>6, <2>7 DEF Announced
<1>2. ASSUME NEW e \in DOMAIN sent, StripeGivesUp(e) PROVE Announced'
  <2>1. sent \in Seq(Event) /\ sent[e] \in Event BY DEF Typed, TenantTypeOK
  <2>2. /\ DOMAIN sent' = DOMAIN sent /\ stripe' = stripe
        /\ \A f \in DOMAIN sent : /\ sent'[f].about = sent[f].about /\ sent'[f].kind = sent[f].kind
                                  /\ sent'[f].status = sent[f].status
    BY <1>2, <2>1 DEF StripeGivesUp, Event
  <2> QED BY <2>2 DEF Announced
<1>3. ASSUME UNCHANGED <<sent, stripe>> PROVE Announced'
  BY <1>3 DEF Announced
<1>4. ASSUME NEW s \in ProviderSub, NEW status \in Reported, StripeCreates(s, status)
      PROVE  Announced'
  BY <1>1, <1>4 DEF StripeCreates, EventKind
<1>5. ASSUME NEW s \in ProviderSub, NEW status \in Reported, StripeUpdates(s, status)
      PROVE  Announced'
  BY <1>1, <1>5 DEF StripeUpdates, EventKind
<1>6. ASSUME NEW s \in ProviderSub, NEW kind \in {"paid", "failed"}, StripeInvoices(s, kind)
      PROVE  Announced'
  <2>1. stripe[s] \in Reported BY <1>6 DEF StripeInvoices, Typed, TenantTypeOK
  <2> QED BY <1>1, <1>6, <2>1 DEF StripeInvoices, EventKind
<1> QED
  BY <1>2, <1>3, <1>4, <1>5, <1>6
  DEF TenantNext, SuspendReads, ReactivateReads, tenantVars, Provision, LinkToStripe, TrialEnds,
      OperatorReads, WebhookLooksUp, WebhookInserts, WebhookCommits, OperatorCommits, Rollback, Purge

\* What an event says does not change.
SameEvents ==
    \A e \in DOMAIN sent : e \in DOMAIN sent' /\ sent'[e].about = sent[e].about
                           /\ sent'[e].kind = sent[e].kind /\ sent'[e].status = sent[e].status

LEMMA SaysTheSame ==
    ASSUME SameEvents, NEW e \in DOMAIN sent
    PROVE  NewStatus(sent'[e]) = NewStatus(sent[e])
  BY DEF SameEvents, NewStatus

\* Only events that were sent have taken effect.
LEMMA AppliedWasSent ==
    ASSUME OnceInv, NEW e \in EventNo, applied[e] > 0
    PROVE  e \in DOMAIN sent
<1>1. applied[e] = 1 BY DEF OnceInv, Once, Typed, TenantTypeOK
<1> QED BY <1>1 DEF OnceInv, Once, Typed, TenantTypeOK

\* A step that applies no event, inserts no delivery and changes no status.
LEMMA OrderedStays ==
    ASSUME OnceInv, Ordered, LastWord, SameEvents,
           \A w \in Worker : request'[w] \in {request[w], None},
           applied' = applied,
           \A t \in Tenant : sub[t] # None =>
              sub'[t] # None /\ sub'[t].status = sub[t].status /\ sub'[t].customer = sub[t].customer,
           \A t \in Tenant : sub[t] = None /\ sub'[t] # None => sub'[t].customer = None
    PROVE  Ordered' /\ LastWord'
<1>1. \A v \in Worker : request'[v] # None => request'[v] = request[v]
  OBVIOUS
<1>2. ASSUME NEW e \in DOMAIN sent, NEW t \in Tenant, sub'[t] # None
      PROVE  /\ Concerns(e, t)' => sub[t] # None
             /\ sub[t] # None => (Concerns(e, t)' <=> Concerns(e, t)) /\ (Speaks(e, t)' <=> Speaks(e, t))
  <2>1. sent[e].about \in ProviderSub /\ CustomerOf[sent[e].about] # None /\ sent'[e].about = sent[e].about
    BY SentTypes DEF OnceInv, SameEvents
  <2>2. NewStatus(sent'[e]) = NewStatus(sent[e]) BY SaysTheSame
  <2> QED BY <1>2, <2>1, <2>2 DEF Concerns, Speaks
<1>3. ASSUME NEW v \in Worker, request'[v] # None
      PROVE  /\ request'[v].phase \in {"looked up", "inserted"}
             /\ \A x \in Worker : request'[x] # None => x = v
             /\ \A f \in EventNo : f < request'[v].event => applied'[f] > 0
             /\ request'[v].phase = "inserted" =>
                   \A t \in Tenant :
                      sub'[t] # None /\ CustomerOf[sent'[request'[v].event].about] = sub'[t].customer =>
                      request'[v].tenant = t /\ request'[v].read.status = sub'[t].status
  <2>1. request'[v] = request[v] /\ request[v].phase \in {"looked up", "inserted"}
    BY <1>1, <1>3 DEF Ordered
  <2>2. PICK e \in DOMAIN sent : e = request[v].event
    BY <1>3, <2>1 DEF OnceInv, Typed, InFlightOK
  <2>3. \A t \in Tenant : sub'[t] # None /\ Concerns(e, t)' =>
           sub[t] # None /\ Concerns(e, t) /\ sub'[t].status = sub[t].status
    BY <1>2
  <2>4. \A t \in Tenant :
           CustomerOf[sent'[request'[v].event].about] = sub'[t].customer => Concerns(e, t)'
    BY <2>1, <2>2 DEF Concerns
  <2>5. request[v].phase = "inserted" =>
           \A t \in Tenant : sub[t] # None /\ Concerns(e, t) =>
              request[v].tenant = t /\ request[v].read.status = sub[t].status
    BY <1>3, <2>1, <2>2 DEF Ordered
  <2>6. \A x \in Worker : request'[x] # None => x = v BY <1>1, <1>3, <2>1 DEF Ordered
  <2>7. \A f \in EventNo : f < request'[v].event => applied'[f] > 0 BY <1>3, <2>1 DEF Ordered
  <2>8. ASSUME request[v].phase = "inserted", NEW t \in Tenant, sub'[t] # None,
               CustomerOf[sent'[request'[v].event].about] = sub'[t].customer
        PROVE  request'[v].tenant = t /\ request'[v].read.status = sub'[t].status
    <3>1. sub[t] # None /\ Concerns(e, t) /\ sub'[t].status = sub[t].status BY <2>3, <2>4, <2>8
    <3> QED BY <2>1, <2>5, <2>8, <3>1
  <2> QED BY <2>1, <2>6, <2>7, <2>8
<1>4. Ordered'
  <2>1. \A e, f \in EventNo : f < e /\ applied'[e] > 0 => applied'[f] > 0 BY DEF Ordered
  <2> QED BY <1>3, <2>1 DEF Ordered, Concerns
<1>6. ASSUME NEW t \in Tenant, NEW e \in EventNo, sub'[t] # None, applied'[e] > 0, Speaks(e, t)',
             \A f \in EventNo : f > e /\ applied'[f] > 0 => ~(Speaks(f, t)')
      PROVE  sub'[t].status = NewStatus(sent'[e])
  <2>1. e \in DOMAIN sent BY <1>6, AppliedWasSent
  <2>2. sub[t] # None /\ Speaks(e, t) BY <1>2, <1>6, <2>1 DEF Speaks
  <2>3. \A f \in EventNo : f > e /\ applied[f] > 0 => ~Speaks(f, t)
    BY <1>2, <1>6, <2>2, AppliedWasSent
  <2>4. sub[t].status = NewStatus(sent[e]) BY <1>6, <2>2, <2>3 DEF LastWord
  <2> QED BY <2>1, <2>2, <2>4, SaysTheSame
<1>7. LastWord' BY <1>6 DEF LastWord
<1> QED BY <1>4, <1>7

\* The insertion of a delivery finds the tenant that the event concerns.
LEMMA OrderedInserts ==
    ASSUME OnceInv, Linked, Ordered, LastWord,
           NEW w \in Worker, NEW t \in Tenant \cup {None}, WebhookInserts(w, t)
    PROVE  Ordered' /\ LastWord'
<1> DEFINE e == request[w].event
           r == [phase |-> "inserted", event |-> e, tenant |-> t,
                 read |-> IF t = None THEN None ELSE sub[t]]
<1>1. e \in DOMAIN sent BY DEF WebhookInserts, OnceInv, Typed, InFlightOK
<1>2. /\ request'[w] = r /\ \A v \in Worker \ {w} : request'[v] = request[v]
      /\ UNCHANGED <<sub, sent, applied>>
  BY DEF WebhookInserts, OnceInv, Typed, TenantTypeOK
<1>3. sent[e].about \in ProviderSub /\ sent[e].about # None /\ CustomerOf[sent[e].about] # None
  BY <1>1, SentTypes DEF OnceInv
<1>4. ASSUME NEW u \in Tenant, sub[u] # None, sub[u].customer = CustomerOf[sent[e].about]
      PROVE  t = u
  <2>1. IF Found(sent[e]) = {} THEN t = None ELSE t \in Found(sent[e]) BY DEF WebhookInserts
  <2>2. ASSUME NEW x \in Tenant, sub[x] # None, sub[x].customer = CustomerOf[sent[e].about]
        PROVE  x = u
    BY <1>3, <1>4, <2>2 DEF Linked
  <2>3. ASSUME NEW x \in Tenant, sub[x] # None, sub[x].provider = sent[e].about PROVE x = u
    BY <1>3, <2>2, <2>3 DEF Linked
  <2>4. Found(sent[e]) # {} /\ \A x \in Found(sent[e]) : x = u
    BY <1>4, <2>2, <2>3 DEF Found
  <2> QED BY <2>1, <2>4
<1>5. request[w] # None BY DEF WebhookInserts
<1>6. /\ r.event = e /\ r.tenant = t /\ r.phase = "inserted" /\ (t # None => r.read = sub[t])
  OBVIOUS
<1> HIDE DEF r
<1>7. ASSUME NEW v \in Worker, request'[v] # None
      PROVE  v = w
  BY <1>2, <1>5, <1>7 DEF Ordered
<1>8. \A f \in EventNo : f < e => applied[f] > 0 BY <1>5 DEF Ordered
<1>9. ASSUME NEW u \in Tenant, sub[u] # None, sub[u].customer = CustomerOf[sent[e].about]
      PROVE  r.tenant = u /\ r.read.status = sub[u].status
  <2>1. t = u /\ t # None BY <1>4, <1>9, TenantAssumption
  <2> QED BY <1>6, <2>1
<1>10. \A x, f \in EventNo : f < x /\ applied'[x] > 0 => applied'[f] > 0 BY <1>2 DEF Ordered
<1> HIDE DEF e
<1>11. ASSUME NEW v \in Worker, request'[v] # None
       PROVE  /\ request'[v].phase \in {"looked up", "inserted"}
              /\ \A x \in Worker : request'[x] # None => x = v
              /\ \A f \in EventNo : f < request'[v].event => applied'[f] > 0
              /\ \A u \in Tenant :
                    sub'[u] # None /\ CustomerOf[sent'[request'[v].event].about] = sub'[u].customer =>
                       request'[v].tenant = u /\ request'[v].read.status = sub'[u].status
  <2>1. v = w /\ request'[v] = r BY <1>2, <1>7, <1>11
  <2> QED BY <1>2, <1>6, <1>7, <1>8, <1>9, <2>1
<1>12. Ordered' BY <1>10, <1>11 DEF Ordered, Concerns
<1>13. LastWord' BY <1>2 DEF LastWord, Speaks, Concerns
<1> QED BY <1>12, <1>13

\* The commit of a delivery has the last word.
LEMMA OrderedCommits ==
    ASSUME OnceInv, Linked, Ordered, LastWord, NEW w \in Worker, WebhookCommits(w)
    PROVE  Ordered' /\ LastWord'
<1> DEFINE e == request[w].event
           t == request[w].tenant
<1>1. /\ e \in EventNo /\ e \in DOMAIN sent /\ t \in Tenant \cup {None} /\ sent[e] \in Event
      /\ \A u \in Tenant : u # t => sub'[u] = sub[u]
      /\ t # None => sub[t] \in SubRow /\ sub'[t] = Effect(sub[t], request[w].read, sent[e])
      /\ t # None => sub'[t] \in SubRow
  BY CommitRow DEF OnceInv
<1>2. /\ request' = [request EXCEPT ![w] = None] /\ sent' = sent
      /\ applied' = [applied EXCEPT ![e] = @ + 1]
      /\ request[w] # None /\ request[w].phase = "inserted"
  BY DEF WebhookCommits
<1>3. Inserted(w, e) BY <1>1, <1>2 DEF Inserted, Delivers
<1>4. applied[e] = 0 /\ applied'[e] = 1 /\ \A f \in EventNo \ {e} : applied'[f] = applied[f]
  <2>1. applied \in [EventNo -> Nat] BY DEF OnceInv, Typed, TenantTypeOK
  <2>2. e \notin log /\ applied[e] <= 1 /\ (applied[e] = 1 => ~sent[e].wanted)
    BY <1>1, <1>3 DEF OnceInv, Once
  <2>3. sent[e].wanted BY <1>1, <1>3 DEF OnceInv, Once, Inserted
  <2>4. applied[e] \in Nat BY <1>1, <2>1
  <2>5. applied[e] = 0 BY <2>2, <2>3, <2>4
  <2> QED BY <1>1, <1>2, <2>1, <2>5
<1>5. \A f \in EventNo : f < e => applied[f] > 0 BY <1>2 DEF Ordered
<1>6. \A f \in EventNo : f > e => applied[f] = 0
  <2> TAKE f \in EventNo
  <2>1. applied[f] \in Nat /\ f \in Nat /\ e \in Nat
    BY <1>1 DEF OnceInv, Typed, TenantTypeOK, EventNo
  <2>2. e < f /\ applied[f] > 0 => applied[e] > 0 BY <1>1 DEF Ordered
  <2> QED BY <1>4, <2>1, <2>2
<1>7. \A v \in Worker : request'[v] = None
  BY <1>2 DEF Ordered, OnceInv, Typed, TenantTypeOK
<1>8. t # None => sub[t] # None /\ sub'[t] # None
  BY <1>1, <1>2, NullAssumption DEF OnceInv, Typed, InFlightOK
<1>9. t # None => /\ sub[t].customer = CustomerOf[sent[e].about]
                  /\ request[w].read.customer = CustomerOf[sent[e].about]
  BY <1>2 DEF Linked
<1>10. \A u \in Tenant : sub[u] # None /\ Concerns(e, u) =>
          t = u /\ request[w].read.status = sub[u].status
  BY <1>2 DEF Ordered
<1>11. CustomerOf[sent[e].about] # None BY <1>1, SentTypes DEF OnceInv
<1> HIDE DEF e, t
<1>12. t # None => sub'[t].customer = sub[t].customer BY <1>1, <1>9, EffectFields
<1>13. ASSUME NEW u \in Tenant, sub'[u] # None
       PROVE  sub[u] # None /\ sub'[u].customer = sub[u].customer
  <2>1. CASE u = t
    <3>1. t # None BY <2>1, TenantAssumption
    <3> QED BY <1>8, <1>12, <2>1, <3>1
  <2>2. CASE u # t BY <1>1, <1>13, <2>2
  <2> QED BY <2>1, <2>2
<1>14. Ordered'
  <2>1. ASSUME NEW x \in EventNo, NEW f \in EventNo, f < x, applied'[x] > 0
        PROVE  applied'[f] > 0
    <3>1. x <= e
      <4>1. x \in Nat /\ e \in Nat BY <1>1 DEF EventNo
      <4>2. x > e => applied'[x] = 0 BY <1>4, <1>6, <4>1
      <4> QED BY <2>1, <4>1, <4>2
    <3>2. f \in Nat /\ x \in Nat /\ e \in Nat BY <1>1 DEF EventNo
    <3>3. f < e BY <2>1, <3>1, <3>2
    <3> QED BY <1>4, <1>5, <3>2, <3>3
  <2> QED BY <1>7, <2>1 DEF Ordered
<1>15. LastWord'
  <2> SUFFICES ASSUME NEW u \in Tenant, NEW x \in EventNo, sub'[u] # None, applied'[x] > 0,
                      Speaks(x, u)', \A f \in EventNo : f > x /\ applied'[f] > 0 => ~(Speaks(f, u)')
               PROVE  sub'[u].status = NewStatus(sent'[x])
    BY DEF LastWord
  <2>1. \A f \in EventNo : (Speaks(f, u)' <=> Speaks(f, u))
    BY <1>2, <1>13 DEF Speaks, Concerns
  <2>2. sub[u] # None /\ Speaks(x, u) BY <1>13, <2>1
  <2>3. x \in Nat /\ e \in Nat BY <1>1 DEF EventNo
  <2>4. x <= e
    <3>1. x > e => applied'[x] = 0 BY <1>4, <1>6, <2>3
    <3> QED BY <2>3, <3>1
  <2>5. CASE Speaks(e, u)
    <3>1. x = e BY <1>1, <1>4, <2>1, <2>3, <2>4, <2>5
    <3>2. t = u /\ t # None /\ request[w].read.status = sub[u].status
      BY <1>10, <2>2, <2>5, TenantAssumption DEF Speaks
    <3>3. sub'[t].status = NewStatus(sent[e]) BY <1>1, <2>5, <3>2, EffectFields DEF Speaks
    <3> QED BY <1>2, <3>1, <3>2, <3>3
  <2>6. CASE ~Speaks(e, u)
    <3>1. x # e /\ applied[x] > 0 BY <1>1, <1>4, <2>2, <2>6
    <3>2. \A f \in EventNo : f > x /\ applied[f] > 0 => ~Speaks(f, u)
      BY <1>4, <2>1, <2>6
    <3>3. sub[u].status = NewStatus(sent[x]) BY <2>2, <3>1, <3>2 DEF LastWord
    <3>4. sub'[u].status = sub[u].status
      <4>1. CASE u = t
        <5>1. t # None BY <4>1, TenantAssumption
        <5>2. NewStatus(sent[e]) = None BY <1>9, <2>6, <4>1, <5>1 DEF Speaks, Concerns
        <5> QED BY <1>1, <4>1, <5>1, <5>2, EffectFields
      <4>2. CASE u # t BY <1>1, <4>2
      <4> QED BY <4>1, <4>2
    <3> QED BY <1>2, <3>3, <3>4
  <2> QED BY <2>5, <2>6
<1> QED BY <1>14, <1>15

LEMMA LookedUp ==
    ASSUME NEW e, NEW r, r = [phase |-> "looked up", event |-> e]
    PROVE  r.phase = "looked up" /\ r.event = e
OBVIOUS

LEMMA OrderedStep ==
    ASSUME OnceInv, Linked, tidy => Ordered /\ LastWord, [TenantNext]_tenantVars, tidy'
    PROVE  Ordered' /\ LastWord'
<1> USE DEF OnceInv, Typed, TenantTypeOK
<1>0. ASSUME tidy PROVE Ordered /\ LastWord BY <1>0
<1>1. ASSUME NEW t \in Tenant, NEW trial \in BOOLEAN, Provision(t, trial)
      PROVE  Ordered' /\ LastWord'
  <2>1. /\ sub[t] = None /\ sub'[t].customer = None /\ \A u \in Tenant \ {t} : sub'[u] = sub[u]
        /\ UNCHANGED <<sent, request, applied>> /\ tidy
    BY <1>1 DEF Provision
  <2> QED BY <1>0, <2>1, OrderedStays DEF SameEvents
<1>2. ASSUME NEW t \in Tenant, NEW s \in ProviderSub, LinkToStripe(t, s)
      PROVE  Ordered' /\ LastWord'
  <2>1. /\ \A w \in Worker : request[w] = None
        /\ \A e \in EventNo : applied[e] = 0
    BY <1>2, Zenon DEF LinkToStripe
  <2>2. UNCHANGED <<request, applied>> BY <1>2 DEF LinkToStripe
  <2>3. \A e \in EventNo : ~(applied[e] > 0) BY <2>1
  <2> QED BY <2>1, <2>2, <2>3 DEF Ordered, LastWord
<1>3. ASSUME NEW t \in Tenant, TrialEnds(t) PROVE Ordered' /\ LastWord'
  <2>1. sub[t] \in SubRow BY <1>3 DEF TrialEnds
  <2>2. /\ sub'[t] \in SubRow /\ sub'[t].status = sub[t].status /\ sub'[t].customer = sub[t].customer
        /\ \A u \in Tenant \ {t} : sub'[u] = sub[u]
        /\ UNCHANGED <<sent, request, applied>> /\ tidy
    BY <1>3, <2>1 DEF TrialEnds, SubRow
  <2>3. sub[t] # None /\ sub'[t] # None BY <1>3, <2>2, NullAssumption DEF TrialEnds
  <2> QED BY <1>0, <2>2, <2>3, OrderedStays DEF SameEvents
<1>4. ASSUME NEW w \in Worker, NEW t \in Tenant, NEW status, OperatorReads(w, t, status)
      PROVE  FALSE
  BY <1>4 DEF OperatorReads
<1>5. ASSUME NEW s \in ProviderSub, NEW kind \in EventKind, NEW status \in Reported,
             Send(kind, s, status)
      PROVE  Ordered' /\ LastWord'
  <2> DEFINE ev == [kind |-> kind, about |-> s, status |-> status, wanted |-> TRUE]
  <2>1. ev \in Event BY DEF Event
  <2>2. sent \in Seq(Event) /\ sent' = Append(sent, ev) BY <1>5 DEF Send
  <2>3. \A e \in DOMAIN sent : e \in DOMAIN sent' /\ sent'[e] = sent[e] BY <2>1, <2>2
  <2>4. UNCHANGED <<sub, request, applied>> /\ tidy BY <1>5 DEF Send
  <2> QED BY <1>0, <2>3, <2>4, OrderedStays DEF SameEvents
<1>6. ASSUME NEW e \in DOMAIN sent, StripeGivesUp(e) PROVE Ordered' /\ LastWord'
  <2>1. sent \in Seq(Event) /\ sent[e] \in Event OBVIOUS
  <2>2. /\ SameEvents BY <1>6, <2>1 DEF StripeGivesUp, Event, SameEvents
  <2>3. UNCHANGED <<sub, request, applied>> /\ tidy BY <1>6 DEF StripeGivesUp
  <2> QED BY <1>0, <2>2, <2>3, OrderedStays
<1>7. ASSUME UNCHANGED <<sub, sent, request, applied, tidy>> PROVE Ordered' /\ LastWord'
  BY <1>0, <1>7, OrderedStays DEF SameEvents
<1>8. ASSUME NEW e \in DOMAIN sent, NEW w \in Worker, WebhookLooksUp(w, e)
      PROVE  Ordered' /\ LastWord'
  <2>1. tidy /\ InOrder(e) BY <1>8 DEF WebhookLooksUp
  <2>2. /\ request'[w] = [phase |-> "looked up", event |-> e]
        /\ \A v \in Worker \ {w} : request'[v] = None
        /\ UNCHANGED <<sub, sent, applied>>
    BY <1>8, <2>1 DEF WebhookLooksUp, InOrder
  <2>3. \A f \in EventNo : f < e => applied[f] > 0
    <3>1. e \in EventNo BY SentTypes
    <3>2. \A f \in EventNo : f < e => f \in 1..(e - 1) BY <3>1, TenantAssumption DEF EventNo
    <3>3. \A f \in 1..(e - 1) : applied[f] > 0 BY <2>1, Zenon DEF InOrder
    <3> QED BY <3>2, <3>3
  <2>4. request'[w].phase = "looked up" /\ request'[w].event = e
    <3>1. request'[w] = [phase |-> "looked up", event |-> e] BY <2>2
    <3> QED BY <3>1, LookedUp
  <2>5. Ordered' BY <1>0, <2>1, <2>2, <2>3, <2>4 DEF Ordered
  <2>6. LastWord' BY <1>0, <2>1, <2>2 DEF LastWord, Speaks, Concerns
  <2> QED BY <2>5, <2>6
<1>9. ASSUME NEW w \in Worker, NEW t \in Tenant \cup {None}, WebhookInserts(w, t)
      PROVE  Ordered' /\ LastWord'
  <2>1. tidy BY <1>9 DEF WebhookInserts
  <2> QED BY <1>0, <1>9, <2>1, OrderedInserts
<1>10. ASSUME NEW w \in Worker, WebhookCommits(w) PROVE Ordered' /\ LastWord'
  <2>1. tidy BY <1>10 DEF WebhookCommits
  <2> QED BY <1>0, <1>10, <2>1, OrderedCommits
<1>11. ASSUME NEW w \in Worker, OperatorCommits(w) PROVE FALSE
  <2>1. tidy /\ request[w] # None /\ request[w].phase = "operator" BY <1>11 DEF OperatorCommits
  <2> QED BY <1>0, <2>1 DEF Ordered
<1>12. ASSUME NEW w \in Worker, Rollback(w) PROVE Ordered' /\ LastWord'
  <2>1. tidy /\ request' = [request EXCEPT ![w] = None] /\ UNCHANGED <<sub, sent, applied>>
    BY <1>12 DEF Rollback
  <2> QED BY <1>0, <2>1, OrderedStays DEF SameEvents
<1> QED
  BY <1>1, <1>2, <1>3, <1>4, <1>5, <1>6, <1>7, <1>8, <1>9, <1>10, <1>11, <1>12
  DEF TenantNext, SuspendReads, ReactivateReads, StripeCreates, StripeUpdates, StripeInvoices,
      EventKind, Purge, tenantVars

LEMMA FollowHolds == TenantSpec => []FollowInv
<1>1. TenantInit => Linked /\ Announced /\ Ordered /\ LastWord
  BY DEF TenantInit, Linked, Announced, Ordered, LastWord
<1>2. FollowInv /\ OnceInv' /\ [TenantNext]_tenantVars => FollowInv'
  BY LinkedStep, AnnouncedStep, OrderedStep DEF FollowInv, OnceInv
<1>3. TenantSpec => []OnceInv BY OnceHolds
<1>4. TenantInit /\ OnceInv => FollowInv BY <1>1 DEF FollowInv
<1> QED BY <1>2, <1>3, <1>4, PTL DEF TenantSpec

\* When the events of a tenant were handled in order and all of them have been,
\* it gets in while its subscription is active and is kept out while it is not
\* paid for.  (_process_billing_event, _subscription_is_access_blocked)
THEOREM AccessIsPaidFor == TenantSpec => []AccessFollowsSubscription
<1>1. FollowInv => AccessFollowsSubscription
  <2> SUFFICES ASSUME FollowInv, tidy, NEW t \in Tenant, CaughtUp(t)
               PROVE  /\ stripe[sub[t].provider] = "active" => ~Blocked(sub[t])
                      /\ stripe[sub[t].provider] \in {"past_due", "canceled", "unpaid", "paused"} =>
                            Blocked(sub[t])
    BY DEF AccessFollowsSubscription
  <2> DEFINE s == sub[t].provider
  <2>1. sub[t] # None /\ s # None /\ s \in ProviderSub /\ sub[t].customer = CustomerOf[s]
    <3>1. sub[t] # None /\ s # None BY DEF CaughtUp
    <3>2. sub[t] \in SubRow BY <3>1 DEF FollowInv, OnceInv, Typed, TenantTypeOK
    <3> QED BY <3>1, <3>2 DEF FollowInv, Linked, SubRow
  <2> HIDE DEF s
  <2> SUFFICES ASSUME stripe[s] \in {"active", "past_due", "canceled", "unpaid", "paused"}
               PROVE  IF stripe[s] = "active" THEN ~Blocked(sub[t]) ELSE Blocked(sub[t])
    BY DEF s
  <2>2. stripe[s] # None
    BY TenantAssumption DEF StripeStatus
  <2>3. PICK e \in DOMAIN sent : /\ sent[e].about = s /\ sent[e].status = stripe[s]
                                 /\ \A f \in DOMAIN sent : f > e => sent[f].about # s
    BY <2>1, <2>2 DEF FollowInv, Announced
  <2>4. /\ applied[e] > 0 /\ sent[e].kind \notin {"paid", "failed"}
        /\ \A f \in DOMAIN sent : f > e => ~Concerns(f, t)
    BY <2>1, <2>3 DEF CaughtUp, Concerns, s
  <2>5. e \in EventNo /\ sent[e] \in Event BY SentTypes DEF FollowInv, OnceInv
  <2>6. sent[e].kind \in {"created", "deleted", "updated"} BY <2>4, <2>5 DEF Event, EventKind
  <2>7. NewStatus(sent[e]) # None /\ (IF stripe[s] = "active" THEN NewStatus(sent[e]) = "ACTIVE"
                                      ELSE NewStatus(sent[e]) \in BLOCKED_STATUSES)
    <3>1. CASE sent[e].kind = "created"
      BY <2>3, <3>1, TenantAssumption DEF NewStatus, FollowInv, Announced, SubscriptionStatus
    <3>2. CASE sent[e].kind = "deleted"
      BY <2>3, <3>2, TenantAssumption
      DEF NewStatus, FollowInv, Announced, SubscriptionStatus, BLOCKED_STATUSES
    <3>3. CASE sent[e].kind = "updated"
      BY <2>3, <3>3, TenantAssumption
      DEF NewStatus, MapStripeStatus, FollowInv, Announced, SubscriptionStatus, BLOCKED_STATUSES
    <3> QED BY <2>6, <3>1, <3>2, <3>3
  <2>8. Speaks(e, t) BY <2>1, <2>3, <2>7 DEF Speaks, Concerns
  <2>9. \A f \in EventNo : f > e /\ applied[f] > 0 => ~Speaks(f, t)
    BY <2>4, AppliedWasSent DEF Speaks, FollowInv
  <2>10. sub[t].status = NewStatus(sent[e])
    BY <2>1, <2>4, <2>5, <2>8, <2>9 DEF FollowInv, LastWord
  <2> QED BY <2>7, <2>10 DEF Blocked, BLOCKED_STATUSES
<1> QED BY <1>1, FollowHolds, PTL
=============================================================================

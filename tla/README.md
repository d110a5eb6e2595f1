# Padly: verification of the booking system

Padly is a multi-club padel booking service: a FastAPI application over
PostgreSQL (`backend/app`), a scheduler inside the same process, two payment
providers (Stripe and PayPal), and a React front end. This directory holds TLA+
models of the parts that move courts and money, let players in, tell them what
happens, and decide which clubs and requests are served; the TLC runs that check
them on small instances; and theorems that TLAPS proves for every instance.

All paths below are relative to `backend/app` unless they say otherwise.

## 1. Inventory

| Part | State it keeps | Operations | What is hard | What makes it correct |
|---|---|---|---|---|
| Booking calendar: `services/booking_service.py`, `api/routers/{public,admin_bookings,admin_ops}.py` | `bookings` (status, court, slot, payment_status, expires_at, outcome), `blackout_periods` | create (public, admin), expire, move, set outcome, settle balance, cancel, delete, close a court | holds that lapse while a payment is on its way; an expired booking that a late payment revives; moves and blackouts against both | no two standing bookings of a court overlap; nothing comes onto a closed court; a customer's booking stands only when paid |
| Payments: `services/payment_service.py`, `api/routers/payments.py` | `booking_payments` (one row per booking and provider), `payment_webhook_events`; sessions, orders, captures and refunds at the providers | start and reuse a checkout, leave it, webhooks, PayPal return, refund | webhooks late, repeated and reordered; captures the database does not know; a refund made and not recorded | paid means captured; a refund on record was made; money goes back at most for one standing booking |
| Locking: `acquire_single_court_lock`, migration `backend/alembic/versions/20260421_0003_tenant_foundation.py` | a process mutex and a PostgreSQL advisory lock, global or per court; the exclusion constraint `no_overlapping_bookings` | lock, check, write, commit | routes that take different locks | what was checked still holds at the commit; nobody waits for ever |
| Scheduler: `core/scheduler.py` | none of its own | expire holds (1 min), reminders (15 min), retention, notifications, digests | runs between any two requests | every hold is decided |
| Community play, matches: `services/play_service.py` | `matches`, `match_players` | create, join, complete at the fourth player, leave, cancel, update, share links, checkout | only the court's lock; players checked across courts; a booking that ends after its match is full | a match has at most four players, a full one has a booking |
| Community play, access: `services/play_service.py` 90-860, 1727-2070 | invites, group links, one-time-code challenges, profiles, player tokens | issue, start, verify, resend, revoke, identify | no lock at all: what was read may have changed at the commit; attempts, expiry and resend in any order; counters written as read plus one | an email on a profile was proved; a spent code stays spent; a link admits its uses |
| Play notifications: `services/play_notification_service.py` | preferences, push subscriptions, `notification_logs`, play profiles | a campaign for each change of a match, by the job, by a search; creator and participant notices; purge | the job has no lock and one long transaction; a push cannot be taken back | caps hold, nobody is told twice, a notice never fails the request it goes with |
| Public discovery: `services/public_discovery_service.py` | subscribers, watch lists, notifications | identify, preferences, follow, match alerts, digest; searches | alerts are looked up and then inserted, in the transaction of the match | a watcher is told once per match and day |
| Tenant billing: `services/billing_service.py`, `api/routers/{billing,platform}.py` | `club_subscriptions`, `billing_webhook_events` | provision, suspend, reactivate, provider events, the gate on operational requests, purge | events repeated, late and out of order, beside the operator | an event takes effect once; access follows the subscription |
| Rate limiting: `core/rate_limit.py` | a log per process, or counters per key and window | count, refuse, purge | windows shared by processes; first insertions collide | at most the limit per window |
| Slot arithmetic and deposits: `booking_service.py` 81-310, 420-640, `settings_service.py`, `court_service.py` | settings, active courts, deposit amounts | local time to UTC, the availability page, deposits | clock changes; rounding; one query for a whole day | the page offers what a request would get; a hold owes money |
| Recurring series: `booking_service.py` 1163-1666 | series and their bookings | preview, create, update, cancel, delete | some occurrences conflict, some were moved or are being played | an update ends up with exactly the valid dates; nothing that stands is deleted |
| Reminders, administrator accounts, data governance, operations, reports, schemas, front end | rows edited one at a time, or nothing | | | |

How the parts meet: a public request enters a router, which takes the **global
lock** (mutex and advisory lock 424242), calls the service, commits, and only
then releases the mutex; services that insert a booking also take the **court's
lock**. Play routes that create and join matches take the court's lock only, in the service,
and commit in the router. Providers are called while the lock is held; they
answer with webhooks and redirects, which are requests like the others. The
scheduler calls the same services under the global lock.

## 2. Modules

| Module | What it is |
|---|---|
| `BookingRules` | statuses, the administrator's transition table, overlap, and what creation, expiry, cancellation, payment and outcome do to one row |
| `Bookings` | the tables of one club and every request that writes them, each one atomic |
| `CourtCalendar` | the abstract promise: reservations and closed courts |
| `Payments` | `Bookings` with the providers' sessions, captures, refunds, webhook records, and crashes |
| `SlotRaces` | requests as transactions: lock, check, write, commit, in any interleaving |
| `PlayMatches` | `Bookings` with matches and players under the lock of one court, and the match list that takes none |
| `Recurring` | the administrator's weekly series among the other bookings, on the tables of `Bookings` |
| `LocalTime` | a zone whose clock changes once: local times, candidates, day boundaries, page starts |
| `Desk` | `Bookings` behind the request form: date, time, slot_id, court, settings, deposits, and the availability page |
| `PlayAccess` | invites, links, one-time codes, profiles and sessions, by transactions without locks |
| `Tenants` | a club's subscription between Stripe, the operator and the gate |
| `Discovery` | subscribers, watches and their alerts: the state and the operations |
| `Notices` | `Discovery` and the notices of players, as part of requests about matches and as jobs |
| `RateLimit` | both backends of the limiter for one key |
| `MC...` | the instances TLC checks |
| `Bookings_proofs`, `Payments_proofs`, `Races_proofs` (of `SlotRaces` and `RateLimit`), `PlayMatches_proofs`, `PlayAccess_proofs`, `Notices_proofs`, `Desk_proofs` (of `Desk` and `Recurring`), `Tenants_proofs` | the theorems |

`SlotRaces` is why `Bookings` may treat a request as one step: the run and its theorems show that
every request under the global lock changes the calendar as if it ran alone, and
that the requests without it (match completions) still cannot make two committed
bookings overlap. `Payments`, `PlayMatches` and `Desk` EXTEND `Bookings`, and every step of theirs is a
step of `Bookings` or leaves the tables alone (`DrivesBookings`, `MatchesDriveBookings`, `DeskImplementsBookings`, all three
theorems), so what is proved of `Bookings` holds with the providers, with matches and at the desk. `Bookings` implements
`CourtCalendar` under the mapping `Reservations`: the reservations are the bookings whose status
occupies the court.

### Bookings, action by action

| Action | Code |
|---|---|
| `CreatePublicBooking` | `create_public_booking`, `POST /bookings` |
| `CreateAdminBooking` | `create_admin_booking` |
| `CreatePlayBooking` | `_complete_match_booking` |
| `ExpirePendingJob`, `ExpireOnRead` | `expire_pending_bookings` by the scheduler; `expire_pending_booking_if_needed` in the checkout, status and cancellation routes and in the match list |
| `StartCheckout` | `start_payment_for_booking`, with `_reuse_initiated_checkout` as the case that changes nothing |
| `CancelCheckout` | `mark_checkout_cancelled` |
| `ConfirmPayment` | `_confirm_payment` with `mark_booking_paid` in it: cancelled, too late, expired with the slot gone, confirmed |
| `CancelWithoutRefund`, `CancelWithRefund`, `RefundFails` | `cancel_public_booking` with `refund_booking_payment` and `cancel_booking`; a refused refund commits FAILED and nothing else |
| `AdminUpdate`, `AdminCancel`, `AdminSetOutcome`, `MarkBalancePaid`, `DeleteBooking` | `update_booking_by_admin`, `update_booking_status_by_admin`, `mark_balance_paid_at_field`, `delete_booking_permanently` |
| `CreateBlackout` | `create_blackout` |
| `Tick` | the clock |

Abstractions: time is a count of ticks; amounts are "a deposit was asked for"; a
row that was deleted stays as `DELETED` and is never seen again; customers, notes,
references and event logs are left out. `booking_payments` is a function of
booking and provider, because `_ensure_booking_payment` reuses the newest row of the
pair and so never makes a second. A payment report in `Bookings` alone may carry any
reference and any past time; `Payments` narrows this to what sessions allow.

### Payments, action by action

| Action | Code |
|---|---|
| `Checkout` | `create_checkout` of a gateway, then `StartCheckout` |
| `FollowCancelUrl` | `stripe_cancel`, `paypal_cancel`: the URL names the booking, and is followed at any time, also when the session is over or there is none; the booking's state alone decides |
| `PayStripe`, `ApprovePaypal`, `CloseSession` | the providers, external |
| `DeliverCapture`, `DeliverClosed` | `handle_stripe_webhook`, `handle_paypal_webhook`; the record of the event is in the same transaction, so an event whose handling failed is handled again |
| `PaypalReturn`, `PaypalReturnLost` | `handle_paypal_return`, with its capture lost to a crash or to a 409 |
| `RefundAccepted`, `RefundRefused`, `RefundAnswerLost`, `CrashAfterRefund` | the refund of `cancel_public_booking`, and the places it can break |

A provider refunds a capture in full once and refuses to do it again. A Stripe
capture bears the time at which the customer paid; a PayPal one the time of the
return.

### SlotRaces

A request is of one of four kinds, by the locks it takes: `create` (global, then
court), `revise` (global: administrator's move, payment of an expired booking),
`complete` (court), `close` (global, no check). A check reads committed rows only. A write
waits for an uncommitted row of another request that the exclusion constraint
compares with its own, and is rejected when such a row is committed. The
constraint compares the club and the time and not the court.

### PlayMatches, action by action

| Action | Code |
|---|---|
| `CreateReads`, `CreateCommits` | `create_play_match` under the court's lock: what it checks, and the commit of `post_play_match` |
| `JoinReads`, `JoinCommits` | `join_play_match` up to its checks; the commit of `post_play_match_join` while places are left |
| `CompletionCommits` | the join that takes the last place: `_complete_match_booking` (as `CreatePlayBooking`), FULL and `booking_id`, in the same commit |
| `RollsBack` | a completion whose slot is gone, any exception before the commit |
| `Leave`, `CancelMatch` | `leave_play_match`, `cancel_play_match` |
| `AdminCancelsBooking` | `update_booking_status_by_admin` with `_cancel_linked_play_match_for_booking` |
| `InsertStep`, `PaymentStep`, `DeskStep`, `ClubStep` | the requests of `Bookings`; insertions wait for the court's lock |
| `ListReads`, `ListCommits` (`ListSpec` only) | `_serialize_pending_play_payment`, and the commit of `get_play_matches` |

A creation and a join are two steps because requests on other courts, and those that hold the
global lock only, come in between. PostgreSQL keeps the court's lock until the commit
(`pg_advisory_xact_lock`), so the requests of one court do not interleave. Players keep the order in
which they joined: the next creator is the one who has been there longest.

### Recurring, action by action

| Action | Code |
|---|---|
| `CreateSeries` | `create_recurring_series`: the dates `preview_recurring_occurrences` finds available are booked, the others skipped |
| `UpdateSeries` | `update_recurring_series`: refused when no date is available; otherwise what is to come is cancelled and the new dates are booked, in one transaction |
| `CancelOccurrences`, `CancelSeries` | `cancel_recurring_occurrences`, `cancel_recurring_series_future_occurrences` |
| `DeleteSeries`, `DeleteOccurrence` | `delete_recurring_series_permanently`; `delete_booking_permanently`, which takes the series along with its last occurrence |
| `OtherStep`, `CalendarStep` | the administrator's bookings, moves, cancellations, outcomes and blackouts, and the clock |

A date is a week number; weekday, label and calendar year are data. `Accepted` is the exclusion constraint, which
looks at every inserted date: an update leaves all of the series' own bookings out of its check, and the constraint
is what stops it when one of them is being played and is not cancelled. SQLAlchemy sends the cancellations before
the insertions. A customer's booking takes its slot and gives it back as the administrator's does, so
the module has only the latter.

### Desk and LocalTime

| Action or operator | Code |
|---|---|
| `local_time_candidates`, `resolve_local_slot_start`, `resolve_slot_window`, `iter_local_slot_starts` | the functions of these names: both folds of a local time, the ones that come back, the choice by slot_id |
| `BookAtDesk`, `MoveBooking` | `POST /bookings`, `POST` and `PUT /admin/bookings`: `resolve_court`, the window, then the operation of `Bookings`; a move keeps the deposit |
| `CompleteMatch` | the deposit of a match at its fourth player, `_resolve_play_community_deposit_terms` |
| `UpdateSettings`, `AddCourt` | `update_tenant_settings` and the validation of its schema, `create_court` |
| `build_daily_slots`, `Page` | the availability page, with its one query `load_daily_court_block_windows` for the whole day |

Amounts in the settings are floating-point numbers: the model counts them in mills, and `_money` rounds half to even
as `Decimal.quantize` does. The clock of a zone changes once in an instance. No request takes a court out of service,
so courts are only added. Deposits are decided once, at insertion.

### PlayAccess, action by action

| Action | Code |
|---|---|
| `CreateInvite`, `CreateLink`, `RevokeInvite`, `RevokeLink` | the administrator's requests |
| `StartInvite`, `StartGroup`, `StartDirect`, `StartRecovery`, `StartCommits` | `start_player_access_challenge`: what it reads, then the challenge that supersedes the earlier ones |
| `GuessReads`, `GuessCommits` | a wrong code: attempts written as read plus one, the challenge spent at the last |
| `VerifyReads`, `VerifyCommits` | `verify_player_access_challenge` with profile, session, and use of the link |
| `ResendReads`, `ResendCommits` | `resend_player_access_challenge` |
| `IdentifyReads`, `IdentifyCommits` | `POST /play/identify`, `identify_player`: name and phone, no code |
| `Rollback` | a unique constraint, an email that is not sent, a process that dies |
| `CodeLapses`, `InviteLapses`, `LinkLapses` | time, told by what has lapsed |

SQLAlchemy writes the columns whose value differs from the one read (`Written`), so two overlapping requests may
both succeed and lose one another's change. The history flag `overlap` says that two requests have overlapped.

### Tenants, action by action

| Action | Code |
|---|---|
| `Provision`, `LinkToStripe` | `provision_tenant`; the subscription id the operator or a checkout enters |
| `SuspendReads`, `ReactivateReads`, `OperatorCommits` | `suspend_club`, `reactivate_club` and their commit |
| `StripeCreates`, `StripeUpdates`, `StripeInvoices`, `StripeGivesUp` | Stripe, external |
| `WebhookLooksUp`, `WebhookInserts`, `WebhookCommits` | `handle_billing_webhook` with `_process_stripe_billing_event`: the id is looked up; its row is flushed and the effect computed; `stripe_billing_webhook` commits |
| `Blocked` | `_subscription_is_access_blocked`, `enforce_subscription` |
| `Purge` | `purge_technical_retention_data`; which records are past the retention is left open |
| `Rollback`, `TrialEnds` | a worker dies or meets the unique event id; time |

### Notices and Discovery, action by action

| Action | Code |
|---|---|
| `CreateMatch`, `JoinMatch`, `LeaveMatch`, `UpdateMatch`, `SearchPlayers`, `CancelMatch` | the play requests, as far as they send notices: they pick whom to tell under the lock of the court |
| `PlayNotificationJob`, `JobDispatches` | `dispatch_play_notifications_for_club`: a list read once, then match by match in one transaction |
| `Deliver`, `Record`, `Commit` | the in-app row in a savepoint; the push and then its row; the commit, which writes what the request assigned and not the hour of the match |
| `ChoosePreference`, `RegisterPush`, `RevokePush` | the player's preferences and browsers |
| `Identify`, `UpdatePreferences`, `Follow`, `Unfollow` (as `DiscoveryRequest`), `DigestJob` | `public_discovery_service.py` |
| `MatchNears`, `SearchCoolsDown`, `DayPasses`, `Purge` | time and retention |

### RateLimit, action by action

| Action | Code |
|---|---|
| `Arrive`, `Clean`, `Look`, `Insert`, `Count` | the shared backend: `_cleanup_expired_counters`, the locked row, the insertion that may collide and is tried once more |
| `AllowLocally` | the sliding log of one process: what is too old is popped from its front |
| `Tick`, `Restart` | time; a process that comes back without its memory |

## 3. Runs

| Run | Instance | What it shows |
|---|---|---|
| `calendar` | 2 bookings, 2 courts, 2 overlapping slots and a closing period that meets only the later one, Stripe, bookings with and without a deposit, 4 instants | the safety properties of the tables, and the refinement of `CourtCalendar` |
| `sessions` | 1 booking, 2 sessions of either provider, 5 instants | paid means captured, refunds are real and single, timely payments count, every hold is decided |
| `interleavings` | 3 requests of any of 4 kinds, 2 courts, 2 overlapping slots | no committed overlap, checks that hold until the commit, serial behaviour under the global lock, no endless waiting |
| `matches` | 2 matches of 3 places, 4 players, 1 court, 2 overlapping slots, 1 booking, 4 instants | matches stay whole under any order of joins, departures and completions; a match and its booking share their fate; nobody plays twice at once on a court |
| `series` | 1 series, 4 bookings, 1 court, 2 schedules of two weeks whose dates overlap, a closing period, 4 instants | updates over moved, cancelled and ongoing occurrences; series and occurrences are deleted together |
| `desk` | 1 booking, 2 courts, 4 zones whose clock moves by one tick by day or at midnight, 3 settings, 4 instants | the page lists the local day and offers what a request would get; a hold owes money |
| `access` | 2 players, 2 addresses, 2 challenges, 1 invite, 1 link of one use, 2 workers, 5 requests | proved emails, spent codes, no more tokens of a player than requests at once; as long as no two requests overlap, limits of links, one token per player, and emails that are kept once verified |
| `tenants` | 1 tenant, 2 subscriptions of one customer, 2 workers, 3 events | an event takes effect once; events handled in order leave the access they should |
| `notices` | 2 players, 1 match, 1 subscriber, 1 browser, 2 workers, daily cap 1, 4 requests or jobs | the cap as long as no two transactions overlap; an alert that exists never fails a request |
| `limits` | 3 processes, limit 2, windows of 2 ticks, 6 instants, either backend | the limit of a window, of any stretch on one process, and no refusal before it |
| `listing`, `pushes` | the smallest that shows it | the disagreements of section 6 |

Bounds. Two bookings are enough for every property of a pair, and the theorems
remove the bound for most of them. Two sessions are enough for one checkout to be
left and another paid, and for both to be paid. `MaxTime` leaves room for a
hold made at 0 or 1 to lapse, for the news of its payment to come later, and for one game to
start and end; `HoldFits` keeps a hold from being made so late that the clock stops before it lapses.
Three requests let one interfere between the steps of another that itself waits for a third.
`HoldTicks` is 1, so that a payment at the last valid instant and one just after it
both occur; `CancelWindow` 2 puts both sides of the cutoff within reach.
Slots overlap and never touch in `calendar`; they touch in `desk`, and that half-open slots may touch is part of the
theorem `BookingsImplementCalendar`.
`matches` sets `PLAY_MATCH_SIZE` to 3, where the code has 4: a match still has a first, a middle and a last
player to join, and four players leave one outside. `listing` needs two players only.
`series` has four rows, two for the first dates of a series and two for its update or for others; at instant 1 the long game is being played
while the short one is still to come. Another court would only add that the constraint rejects what overlaps there.
`Period` holds the times at which the club may close a court; in each of these runs one: in `calendar` and `matches` a
period that meets the later of the two slots, goes on after it and leaves the earlier one free, in `sessions` the slot itself.
In `desk` a tick is half an hour and a day has three; there are two dates, durations of one tick and of a whole day, and the zones put the change inside a day, and up to and from a midnight, in both directions.
In `access` five requests are an invitation, a start, a resend, a wrong code and a verification, or two whole sign-ups that race;
a resend is a request that comes after the 60 seconds of waiting, which are over long before a code lapses.
Two workers are enough for every race of a pair of transactions; a third would only repeat one of the two. Three events are a creation, a change and a payment,
in any order and each of them again. `notices` makes one campaign reach a player by the job, by a search and by a join, on one match;
several matches and days differ only in the counts that the cap of 1 already reaches. `limits` has two full windows and the start of a third.

Symmetry: bookings and courts in `calendar`, players, matches, courts and bookings in `matches`, bookings in `series`,
and the interchangeable sets that the `Symmetry` of `MCPlayAccess`, `MCTenants`, `MCNotices` and `MCRateLimit` names; none of these runs has a liveness property.
The other runs use no symmetry. The type invariants are not among the invariants of the runs: they are
proved (section 4), that of `Payments` as far as the other proofs need it (`SessionsOK`).

Deadlock checking is on for `SlotRaces` and off elsewhere: at the end of the clock, or when the
bounded requests are used up, nothing may be left to do.

Fairness. `PFairSpec` of `Payments`: weak fairness of the expiry job, which
APScheduler starts every minute on the one instance README.md (365-372) requires, of the
clock, and of the delivery of each capture event, since a
provider repeats an event until it is acknowledged; the PayPal customer who never
returns is not assumed to. `FairSpec` of `SlotRaces`: each transaction goes on when it can;
PostgreSQL queues those that wait for a lock.

Properties that hold only while no two requests overlap say so (`~overlap`): `LinkAdmitsItsUses`,
`VerifiedEmailIsKept` and `DailyCapHeld` do fail without it, since no lock covers these reads: two verifications may
use the last place of a link, and the job may exceed a cap a search has just reached. What they show is that the
code alone, retries, resends, jobs and lapses included, keeps the limits. `ReopensOnlyWithNewCode`,
`EventAppliedOnce`, `AlertsNeverClash` and the limits of `RateLimit` hold under every overlap. `EmailsAreProved` has a part of
either kind: under every overlap the email of a profile was entered with a code sent to it; that it was entered by that very player
needs `~overlap`, because two requests that enter one code at once both succeed, and the second names another player in the
challenge after a phone has moved between two profiles. `SessionsAreBounded` has two parts as well: a sign-in revokes the tokens it
sees, so that one is left while no two overlap, and sign-ins that do not see each other leave as many as overlapped, never more than
there are workers. `AccessFollowsSubscription` speaks
of events handled in the order in which Stripe sent them, which nothing ensures: the code compares no times, so that an
old event handled late undoes a newer one or an operator's suspension.
`WindowHeld` counts what is admitted while a window lasts: a request that began in it and comes late may find its counter
purged, and start a new one for a window that is over.

## 4. Theorems

All of them hold for every value of the constants that meets the named assumptions of the modules.

`Bookings_proofs`: any sets of courts, slots, bookings and providers,
any deposit policy and any times (slots and
closing periods are non-empty intervals of natural numbers, there is a court and a slot, times
are naturals).

* `TypeCorrect`: `Spec => []TypeOK`. `TypeOK` is inductive; one lemma per action.
* `DoubleBookingExcluded`: `Spec => []NoDoubleBooking`, by the invariant
  `IInv == TypeOK /\ NoDoubleBooking`. The argument is not made action by action.
  The lemma `StepShape` says that every step of the whole system does one of three
  things to the calendar: it only gives courts back (`ReleasesOnly`), it puts one
  booking on a court and slot that are free for it and leaves the others alone
  (`Places`), or it closes a court (`Closes`). The type invariant is needed for
  that, since an update of a row means something only for rows that have their fields.
* `ClosedCourtsKeptFree`: `Spec => BlackoutKeptFree`, from `StepShape`.
* `BookingsImplementCalendar`: `Spec => ImplementsCalendar`. The three shapes are
  `Release`, `Reserve` and `Close` of `CourtCalendar`.
* `DepositsArePaid`: `Spec => []ConfirmedOnlyWhenPaid`, by `TypeOK` and the property
  itself, row by row (`Honest`).
* `OutcomesComeAfterTheFact`: `Spec => []OutcomeAfterTheFact`, inductive with `TypeOK`, row by row (`Timely`). What makes it
  inductive is that a move and a cancellation by the customer are refused once the game has started, so that a balance never travels to a slot still to come.
* `RefundsAreFinal`: `Spec => []RefundMeansCancelled`, inductive with `TypeOK`, row by row (`Over`): a request either leaves every
  refund alone and brings nothing back from CANCELLED, or cancels.
* `PaymentAloneRevives`: `Spec => OnlyPaymentRevives`, from the shapes of steps: the requests of customers and
  administrators leave a booking that gave its court back as it is, or delete it.

`Races_proofs`, of `SlotRaces`: any number of requests, courts and slots. The invariant `RaceInv` has four parts: types; a lock has one holder;
the constraint lets no two rows that it compares get past their INSERT; what was checked still holds (`CheckHolds`).

* `CommittedNeverOverlap`: `Spec => []NoCommittedOverlap`, from the constraint alone, whatever locks are taken.
* `ChecksOfCreationsHold`: `Spec => []CreationCheckHolds`. A creation holds both locks, and whoever commits holds one of the two.
* `CommitsAreSerial`: `Spec => SerialAsOne`, from `CheckHolds` for the case that all requests take the global lock.

`Payments_proofs`: any bookings, sessions and times, from the assumptions of `Bookings`.

* `PaymentsDriveBookings`: `PSpec => DrivesBookings`. `SessionsOK` is needed: a capture bears a time that has come, and an approved
  order is PayPal's. With it the theorems of `Bookings` become facts about `PSpec`, which the next ones use.
* `PaidMeansCaptured`, `RefundsWereMade`: `PSpec => []PaidIsCaptured` and `=> []RecordedRefundWasMade`, by `MoneyInv`. It adds to
  the two that a refund that FAILED was asked for a booking that is still paid, so that the next attempt names a capture again.
  Most steps are `Quiet`: they pay nothing and seek no refund. What is left are reports of captures (`ReportMoney`) and refunds (`RefundMoney`).
* `RefundsAreForStandingBookings`, `TimelyMoneyConfirms`: `PSpec => RefundOnlyForStandingBooking` and `=> OnlyTimelyPaymentConfirms`, from
  the same steps; the first also from `DepositsArePaid`, since a hold that is not paid is not refunded.

`PlayMatches_proofs`: any players, matches and courts.

* `PlayDrivesBookings`: `PlaySpec => MatchesDriveBookings`.
* `OneMatchPerSlot`: `PlaySpec => []SlotMatchedOnce`, by `PlayInv`: a creation under way holds the lock of a court on which no match has its slot,
  and a join under way holds the lock of its match's court, and the match is still open.
* `BookedMatchIsFrozen`: `PlaySpec => CompletedMatchIsFrozen`, from `PlayInv`: a match that is joined or created has no booking.
* `MatchAndBookingShareTheirFate`: `PlaySpec => []BookingFollowsMatch`, by `FollowInv`. Every request of `Bookings` but the administrator's
  cancellation leaves a match's booking as cancelled as it was (`Followed`).
* `MatchesStayWhole`, `OneMatchAtATime`: `PlaySpec => []MatchesAreWhole` and `=> []PlayerOncePerCourt`, by `WholeInv`: what a request has read of
  its player and of its match holds until it commits (`RequestsWhole`), since every other request that adds a player to a match of the
  court waits for the lock, and those that take one away disturb neither.
* `PlayTypesHold`: `PlaySpec => []PlayTypeOK`.

`PlayAccess_proofs`: any players, addresses, invites, links, challenges and requests, and any limits of attempts, resends and uses; the null value
is none of them and no row, an invite is not a link, and there are finitely many workers (`AccessAssumption`, `NullAssumption`).

* `AccessTypes`: `AccessSpec => []AccessTypeOK`, by `AccessInv`. It adds what a request in flight has read (`Sound`: rows are never deleted, a
  challenge keeps what it is about) and that tokens in flight are not issued yet (`TokensCounted`).
* `CodesStayShut`: `AccessSpec => ReopensOnlyWithNewCode`, under every overlap, from `AccessInv`: the commits that write a challenge never write
  back an open one over one that was shut, because they write only what differs from what they read.
* `EmailsProved`: `AccessSpec => []EmailsAreProved`; `LinksAreLimited`: `=> []LinkAdmitsItsUses`;
  `EmailsNeverChange`: `=> VerifiedEmailIsKept`. All by `AloneInv`. Its part under every overlap is `EmailsEntered`. The others hold while no two
  requests have overlapped (`Undisturbed`): one is in flight, what it has read is still so, the players a link let in were counted
  (`LinksCounted`), the verified challenge of an email names its player (`EmailsTied`), a token is a known player's only one (`OneToken`).
* `SessionsBounded`: `AccessSpec => []SessionsAreBounded`. Without overlap it is `OneToken`. Under every overlap it is `TokensAttributed`: the tokens of a
  player in force go to workers of their own, each to the one that issued it, and a worker that is about to sign the player in has issued
  none but those it has seen and will revoke. So a new token finds its worker free, and there are no more tokens than workers.

`Notices_proofs`: any players, matches, subscribers, browsers and transactions in flight, any cap and limits of recipients. No two players have
one place in the order of scores (`NoticeAssumption`).

* `NoticesTypes`: `NoticesSpec => []NoticesTypeOK`. Needs that an open match has a place left (`MatchesFit`), for the matches and for what requests in flight will
  write to them.
* `NoRequestFailsOnAnAlert`: `NoticesSpec => []AlertsNeverClash`, by `Serial`: requests in flight are about different matches, each has alerts
  about its match only, none of which exists, and digests are another kind of alert.
* `NobodyIsInvitedTooOften`: `NoticesSpec => []DailyCapHeld`, by `Capped`: while no two transactions overlapped, the cap bounds what a player was
  invited to together with what is not committed and what is about to be sent. The log alone is not inductive: a campaign is chosen long before
  its rows are there.

`Desk_proofs`: any zones, dates, durations and settings. The arithmetic of zones comes first: `CandidatesExact` (the
two folds that come back are exactly the instants that show the local time), `MidnightDivides` and `PageDay` (the
midnights of a date divide the instants as the dates do), `SlotIdIsExact` (a slot_id of the page means that instant).

* `DeskImplementsBookings`: `DeskSpec => Spec`. A window comes from `WindowAssumption`, a deposit from the
  policy; so the theorems of `Bookings` hold at the desk.
* `DepositsAreOwed`: `DeskSpec => []HoldsOweMoney`. Rounded money is a natural, a deposit that is asked for is not nothing,
  and moves change neither side.
* `PageTellsTheTruth`: `DeskSpec => []PageIsTrue`. Needs `MidnightAssumption`: no clock steps over a midnight, which is so of every zone in use;
  where one did, the page would list a wrong day. `SpanSuffices` is the reason why the one query of the day, which
  looks a duration past its end, misses nothing.

`Desk_proofs`, of `Recurring`: any series, schedules, courts and bookings; there is a schedule, its game is no longer than a week
and its dates are slots (`ScheduleAssumption`).

* `SeriesTypes`: the types, and that no occurrence has a deposit. `SeriesNeverOverlap`: `RecurringSpec => []NoDoubleBooking`, where `StepShape` of `Bookings`
  does not apply, since an update cancels and inserts many rows at once. Two dates of a schedule never overlap (`WeeksApart`), and the others were
  free after the cancellations.
* `StandingBookingsStay`: `RecurringSpec => StandingIsNeverDeleted`. `UpdatesTakeWhatIsFree`: `RecurringSpec => UpdateTakesWhatIsFree`.

  All four by `RowsInv`: types, a row that is not in the table belongs to no series (otherwise the row an update inserts could be one of its own
  past occurrences), outcomes after the fact (so that what is to come can be cancelled), and no two bookings that overlap.

`Tenants_proofs`: any tenants, subscriptions, workers and events; the null value is none of them (`TenantAssumption`, `NullAssumption`).

* `TenantTypes`: `TenantSpec => []Typed`.
* `EventsApplyOnce`: `TenantSpec => []EventAppliedOnce`, by the invariant that an event which took effect is in the log or
  no longer wanted by Stripe, that a request which inserted it is the only one, and that it has not been applied before.
* `AccessIsPaidFor`: `TenantSpec => []AccessFollowsSubscription`, by `FollowInv`. `Linked` finds the tenant of an event: no two tenants
  have one customer. `Announced` ties the status at Stripe to the last event about the subscription. As long as events came in order,
  those before the one in flight have taken effect and what it has read of its tenant is still so (`Ordered`), and a tenant
  stands where the last event that had something to say left it (`LastWord`); most events say nothing.

`Races_proofs`, of `RateLimit`: any limit, window and processes, both backends.

* `WindowNeverExceeded`, `RefusedOnlyAtLimit`: `RateSpec => []WindowHeld` and `=> []NoHastyRefusal`, by an invariant that relates the
  row of the current window, the processes that hold its lock and what they have read.
* `NoBurstSlipsThrough`: `RateSpec => []SlidingWindowHeld`, of the local backend: in any stretch as long as the window, not only from one
  boundary to the next. The invariant (`Slides`) says that the log holds the last admissions, that those it lost are too old to
  count, and that each admission comes more than a window after the one `Limit` places before it. So those of a stretch lie
  fewer than `Limit` places apart (`SlidesLimits`). What makes it inductive is that a restart, which forgets, also ends the process's
  history.
* `RateTypes`: `RateSpec => []RateTypeOK`, of both backends.

Model-checked only: liveness (`TimelyPaymentCounts`, `HoldIsDecided`, `EveryRequestEnds`), since fairness and ENABLED are out of
the prover's reach. Every safety and action property of a passing run is a theorem. None of them needs an induction over data: the
models remove a player from a sequence and pop a log with the operators of the sequences library, whose facts are known, and pick recipients by
their place in an order.

## 5. Not modelled

* Reminders: sending is I/O, and its flag is written once, after it and under the global lock; a crash between the
  two sends the reminder again.
* Amount and currency checks and signature verification refuse a
  request before anything is written. The mock payment of development installations is a provider like the two that are modelled.
* Of matches: edits of level and note (but for the notices they send), share links and their rotation, the suggestion of compatible matches.
  None of them changes who plays where.
* Of access: `accept_community_invite` (`play_service.py` 717), which no route calls any more: an invitation is accepted with a code.
* Of notices: the scores that learn from a player's past are a constant order of players and a set that passes the threshold; reading a notice; a
  browser that answers that it is gone.
* Of discovery: searches, distances, contact requests, which compute from rows.
* Of tenants: plans, the end of the paid period, the audit trail.
* Administrator accounts, names of courts and clubs, exports, anonymisation, reports, schemas, migrations other than the exclusion constraint, and the front
  end edit single rows, or compute from them, and have no interaction worth a model.

## 6. Where the code and the documents disagree

Two are runs that TLC finds violated.

* `listing` (play_5.md:58, `play_service.py` 901): the match list commits the expiry of a hold it read without a lock,
  over the payment that confirmed the booking in the meantime.
* `pushes` (STATO_PLAY_4.md:115, `play_notification_service.py` 1263): a push goes out before the row whose unique key is to prevent the second one, so
  that the job and a request tell one player twice of the same campaign.

The others are known from the code; the models behave as the code does.

* patch.md:250, `booking_service.py` 1041: the webhook that follows a PayPal return confirms the
  booking once more, also when it is already COMPLETED or NO_SHOW.
* README.md:111, `payment_service.py` 126: after a refund whose answer was lost, the provider
  refuses every retry and the link never cancels the booking.
* README.md:112, `payment_service.py` 551: a refund that failed before the cutoff is asked
  for again after it, because the attempt on record decides first.
* `payment_service.py` 588 and 374: the page of a paid booking cancelled by the
  administrator announces a refund that nobody asked for.
* play.md:835, `play_service.py` 1669: a blackout or a move commits between the slot check of a
  match completion and its commit.
* PROMPT_MULTI_CAMPI.md:104, `20260421_0003_tenant_foundation.py` 216: the exclusion constraint rejects bookings
  that overlap on different courts.
* README.md:123 says that dates in conflict are skipped; an update of a series whose game is being played fails as a whole when a new date overlaps
  that game (`Accepted` in `Recurring`).
* otp.md:88 wants access and recovery by a code sent to the email, and otp.md:90 that every new access settles the email, while `POST /play/identify`
  (`play.py` 106, `play_service.py` 398), as in play.md:182, takes a name and a phone for an identity. It finds the player by the phone alone,
  writes the given name over the player's, revokes the player's tokens and signs the caller in, also when the profile has a verified email and with no overlap.
  `IdentifyReads` and `IdentifyCommits` do that; `VerifiedEmailIsKept` says that the email survives it, not that the profile stays with its owner.
* otp.md:224 says that a challenge that has expired or been spent cannot be used again. A resend (`play_service.py` 692) reopens, with a new code, one that has lapsed, was superseded or was
  spent by wrong guesses; only a verified one stays shut. `ReopensOnlyWithNewCode` says what is left: the old code never serves again.
* STATO_PLAY_1.md:64 says that an identification revokes the active tokens. One that overlaps another leaves the other's in force
  (the bound of `SessionsAreBounded` is one per worker, not one).
* play_4.md:40 allows a player three notifications a day, STATO_PLAY_4.md:114 three campaigns. The code counts campaigns, and the notices of participants and creators do
  not count.
* STATO_PLAY_4.md:105-108: the limit of recipients per match is one of each dispatch, and two dispatches reach more.
* STATO_PLAY_4.md:112, play.md:615: no threshold of five useful events is in the code.
* STATO_PLAY_4.md:114: two transactions that overlap exceed the daily cap (`~overlap` in `DailyCapHeld`).

## 7. Plan

Done: the modules of section 2 and the theorems of section 4. Left, in the order of what it would add:

1. The deposit and the page together with payments: `Desk` composed with `Payments`, so that a checkout charges what is owed.
2. `PlayMatches` with share links and their rotation, and with the players `PlayAccess` lets in.
3. Reminders, as soon as they are sent more than once per booking.

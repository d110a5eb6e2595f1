------------------------------- MODULE Notices -------------------------------
(***************************************************************************)
(* What the players of a club are told about its open matches, in app and  *)
(* by web push, and the discovery alerts that go out with it.              *)
(*                                                                         *)
(* A request about a match runs under the lock of its court until it       *)
(* commits: it changes the match, tells the creator who joined, picks the  *)
(* players to invite (a campaign), and alerts those who watch the club.    *)
(* play_notification_job does the same for every open match, in one        *)
(* transaction and without a lock, from the list it read at first.         *)
(*                                                                         *)
(* A transaction is: what it does to the match and whom it decides to tell *)
(* (its reads), one step per notice, and the commit.  The row of a notice  *)
(* has a unique key: a second insertion waits for the transaction of the   *)
(* first and is then skipped.  A push is out at once, whatever becomes of  *)
(* the transaction.                                                        *)
(*                                                                         *)
(* Guests stand for the players who refuse every notice.  Profiles, scores *)
(* and push endpoints that are gone are left out: Rank is the order of the *)
(* scores, Keen the players whose score passes the threshold of 105.       *)
(***************************************************************************)
EXTENDS Discovery

CONSTANTS
    Player,
    Rank,               \* the place of a player in the order of the scores
    Keen,
    Compatible,         \* the pairs <<p, m>> whose levels are compatible
    Guest,              \* a player nobody can notify
    Endpoint,           \* browsers
    Preference,         \* the preferences players may choose
    Start,              \* when a match starts
    Worker,
    PLAY_NOTIFICATION_DAILY_CAP,
    RecipientLimit,     \* recipients of one campaign, by kind
    MaxRequests         \* bound: requests and jobs

CAPPED_KINDS == {"ONE", "TWO", "THREE"}
Kind == CAPPED_KINDS \cup {"COMPLETED", "CANCELLED"}

ASSUME NoticeAssumption ==
    /\ PLAY_NOTIFICATION_DAILY_CAP \in Nat /\ MaxRequests \in Nat
    /\ RecipientLimit \in [CAPPED_KINDS -> Nat]
    /\ Rank \in [Player -> Nat] /\ \A p, q \in Player : Rank[p] = Rank[q] => p = q
    /\ Start \in [Match -> Nat]
    /\ Preference \subseteq [inApp: BOOLEAN, push: BOOLEAN, kinds: SUBSET CAPPED_KINDS]
    /\ None \notin Player \cup Match \cup {Guest} /\ Guest \notin Player

VARIABLES
    match,      \* matches, with who is in
    preference, \* player_notification_preferences; None is the default row
    device,     \* player_push_subscriptions that are not revoked: their player
    log,        \* notification_logs
    twice,      \* history: a push of a campaign followed one that is recorded or will be
    tx,         \* transactions in flight
    made,       \* how many there were
    overlap,    \* history: two transactions were in flight at once
    clash       \* history: an alert failed, and a request with it

noticeVars == <<match, preference, device, log, twice, tx, made, overlap, clash>>
vars == <<noticeVars, discoveryVars>>

PLAY_MATCH_SIZE == 4

MatchRow ==
    [in: SUBSET Player, guests: 0..PLAY_MATCH_SIZE, creator: Player \cup {Guest},
     status: {"OPEN", "FULL", "CANCELLED"},
     soon: BOOLEAN,         \* it starts within 24 hours
     future: BOOLEAN,
     searched: BOOLEAN]     \* players were searched less than 15 minutes ago

LogRow ==
    [to: Player, match: Match, channel: {"IN_APP", "WEB_PUSH"}, kind: Kind,
     campaign: BOOLEAN,     \* notification_scope is not creator_match_update
     today: BOOLEAN]

Notice ==
    [to: Player, match: Match, kind: Kind, campaign: BOOLEAN,
     inApp: BOOLEAN, push: BOOLEAN,     \* the channels it still has to go by
     sent: BOOLEAN]                     \* the push is out and not recorded yet

\* A transaction in flight.
Transaction ==
    [match: Match \cup {None},      \* the match it changes; None is the job's
     row: MatchRow \cup {None},     \* what it writes to it
     todo: SUBSET Notice, alerts: SUBSET Alert,
     rest: SUBSET Match,            \* the matches the job has still to tell of
     rows: SUBSET LogRow]           \* what it has added to the log

\* The matches other players made before.
NoticesInit ==
    /\ DiscoveryInit
    /\ match \in [Match -> {None} \cup
          [in: {{}}, guests: 1..3, creator: {Guest}, status: {"OPEN"}, soon: BOOLEAN,
           future: {TRUE}, searched: {FALSE}]]
    /\ preference = [p \in Player |-> None]
    /\ device = [e \in Endpoint |-> None]
    /\ log = {} /\ twice = FALSE
    /\ tx = [w \in Worker |-> None]
    /\ made = 0 /\ overlap = FALSE /\ clash = FALSE

-----------------------------------------------------------------------------
\* Whom to tell.

Size(row) == Cardinality(row.in) + row.guests

\* _notification_kind_for_match
NotificationKind(row, manual) ==
    CASE Size(row) >= 3 -> "THREE"
      [] Size(row) = 2 -> "TWO"
      [] Size(row) = 1 /\ (manual \/ row.soon) -> "ONE"
      [] OTHER -> None

InApp(p) == preference[p] = None \/ preference[p].inApp

\* ... and there is a browser to push to.
Push(p) ==
    /\ preference[p] = None \/ preference[p].push
    /\ \E e \in Endpoint : device[e] = p

\* _kind_enabled
KindEnabled(p, kind, manual) ==
    \/ manual /\ kind = "ONE"
    \/ preference[p] = None /\ kind # "ONE"
    \/ preference[p] # None /\ kind \in preference[p].kinds

Key(r) == <<r.to, r.match, r.channel, r.kind>>

\* _campaign_keys_for_player_day
CampaignKeys(rows, p) ==
    {<<r.match, r.kind>> : r \in {r \in rows : r.to = p /\ r.today /\ r.campaign
                                              /\ r.kind \in CAPPED_KINDS}}

\* Mutant of UnderCap: the cap is counted with the campaign to come.
UnderCapOneMore(rows, p) == Cardinality(CampaignKeys(rows, p)) <= PLAY_NOTIFICATION_DAILY_CAP

UnderCap(rows, p) == Cardinality(CampaignKeys(rows, p)) < PLAY_NOTIFICATION_DAILY_CAP

LevelSuits(p, m) == <<p, m>> \in Compatible

\* _match_notification_score: a match of one is for the keen.
ScoreSuffices(p, kind) == kind = "ONE" => p \in Keen

\* dispatch_play_notifications_for_match: the players it picks, seeing rows.
Candidates(m, row, kind, manual, rows) ==
    {p \in Player \ row.in :
        /\ KindEnabled(p, kind, manual)
        /\ preference[p] # None => preference[p].inApp \/ preference[p].push
        /\ LevelSuits(p, m)
        /\ \A r \in rows : ~(r.to = p /\ r.match = m /\ r.kind = kind)
        /\ UnderCap(rows, p)
        /\ ScoreSuffices(p, kind)}

NewNotice(p, m, kind, campaign) ==
    [to |-> p, match |-> m, kind |-> kind, campaign |-> campaign,
     inApp |-> InApp(p), push |-> Push(p), sent |-> FALSE]

\* The first n of S by score.
ByScore(S, n) == {p \in S : Cardinality({q \in S : Rank[q] < Rank[p]}) < n}

Campaign(m, row, manual, rows) ==
    LET kind == NotificationKind(row, manual) IN
    IF kind = None THEN {}
    ELSE {NewNotice(p, m, kind, TRUE) :
             p \in ByScore(Candidates(m, row, kind, manual, rows), RecipientLimit[kind])}

\* dispatch_match_creator_join_notification
ToCreator(m, row, joined) ==
    LET kind == CASE Size(row) >= 4 -> "COMPLETED" [] Size(row) = 3 -> "THREE"
                  [] Size(row) = 2 -> "TWO" [] OTHER -> None
    IN  IF row.creator \in {Guest, joined} \/ kind = None THEN {}
        ELSE {NewNotice(row.creator, m, kind, FALSE)}

\* dispatch_match_cancellation_notifications
ToParticipants(m, row) ==
    {NewNotice(p, m, "CANCELLED", FALSE) : p \in row.in \ {row.creator}}

\* No channel, no notice.
Told(todo) == {n \in todo : n.inApp \/ n.push}

-----------------------------------------------------------------------------
\* Requests about a match, under the lock of its court.

InFlight == {w \in Worker : tx[w] # None}

Counted == made < MaxRequests /\ made' = made + 1

Begin(w, t) ==
    /\ tx[w] = None /\ Counted
    /\ tx' = [tx EXCEPT ![w] = t]
    /\ overlap' = (overlap \/ InFlight # {})
    /\ UNCHANGED <<match, preference, device, log, twice, clash, discoveryVars>>

\* Mutant of CourtFree: requests about a match are not serialised.
CourtFreeAlways(m) == TRUE

CourtFree(m) == \A w \in InFlight : tx[w].match # m

\* The request leaves the match as row, and tells todo and alerts of it.
Request(w, m, row, todo, alerts) ==
    /\ CourtFree(m)
    /\ Begin(w, [match |-> m, row |-> row, todo |-> Told(todo), alerts |-> alerts,
                 rest |-> {}, rows |-> {}])

CreateMatch(w, m, p, soon) ==
    /\ match[m] = None
    /\ LET row == [in |-> {p} \ {Guest}, guests |-> IF p = Guest THEN 1 ELSE 0, creator |-> p,
                   status |-> "OPEN", soon |-> soon, future |-> TRUE, searched |-> FALSE] IN
       Request(w, m, row, Campaign(m, row, FALSE, log), WatchAlerts(m, Size(row)))

Open(m) == match[m] # None /\ match[m].status = "OPEN" /\ match[m].future

In(row, p) == IF p = Guest THEN row.guests > 0 ELSE p \in row.in

JoinMatch(w, m, p) ==
    /\ Open(m) /\ (p # Guest => ~In(match[m], p))
    /\ LET old == match[m]
           more == [old EXCEPT !.in = @ \cup ({p} \ {Guest}),
                               !.guests = IF p = Guest THEN @ + 1 ELSE @]
           row == [more EXCEPT !.status = IF Size(more) = PLAY_MATCH_SIZE THEN "FULL" ELSE "OPEN"]
       IN  IF row.status = "FULL" THEN Request(w, m, row, ToCreator(m, row, p), {})
           ELSE Request(w, m, row, ToCreator(m, row, p) \cup Campaign(m, row, FALSE, log),
                        WatchAlerts(m, Size(row)))

\* The first of those who stay becomes the creator; the last one closes it.
LeaveMatch(w, m, p, heir) ==
    /\ Open(m) /\ In(match[m], p)
    /\ LET less == [match[m] EXCEPT !.in = @ \ {p}, !.guests = IF p = Guest THEN @ - 1 ELSE @] IN
       IF Size(less) = 0
       THEN heir = Guest /\ Request(w, m, [less EXCEPT !.status = "CANCELLED"], {}, {})
       ELSE /\ In(less, heir)
            /\ match[m].creator # p => heir = match[m].creator
            /\ LET row == [less EXCEPT !.creator = heir] IN
               Request(w, m, row, Campaign(m, row, FALSE, log), WatchAlerts(m, Size(row)))

UpdateMatch(w, m) ==
    /\ Open(m)
    /\ Request(w, m, match[m], {}, WatchAlerts(m, Size(match[m])))

SearchPlayers(w, m) ==
    /\ Open(m) /\ ~match[m].searched
    /\ LET row == [match[m] EXCEPT !.searched = TRUE] IN
       Request(w, m, row, Campaign(m, row, TRUE, log), {})

CancelMatch(w, m) ==
    /\ Open(m)
    /\ Request(w, m, [match[m] EXCEPT !.status = "CANCELLED"], ToParticipants(m, match[m]), {})

-----------------------------------------------------------------------------
\* The job.

PlayNotificationJob(w) ==
    Begin(w, [match |-> None, row |-> None, todo |-> {}, alerts |-> {},
              rest |-> {m \in Match : Open(m)}, rows |-> {}])

\* The next match of its list.  Its status is the one of the list (the session
\* keeps the row it has read); who is in, and the hour, are read now.
JobDispatches(w) ==
    /\ w \in InFlight /\ tx[w].todo = {}
    /\ \E m \in tx[w].rest :
          /\ \A o \in tx[w].rest : Start[m] <= Start[o]
          /\ tx' = [tx EXCEPT ![w].rest = @ \ {m},
                 ![w].todo = IF match[m].future
                             THEN Told(Campaign(m, match[m], FALSE, log \cup tx[w].rows))
                             ELSE {}]
    /\ UNCHANGED <<match, preference, device, log, twice, made, overlap, clash, discoveryVars>>

-----------------------------------------------------------------------------
\* One notice.

Row(n, channel) ==
    [to |-> n.to, match |-> n.match, channel |-> channel, kind |-> n.kind,
     campaign |-> n.campaign, today |-> TRUE]

\* The creator first, then the others by score.
Comes(n, todo) ==
    \A o \in todo : IF n.campaign = o.campaign THEN Rank[n.to] <= Rank[o.to] ELSE o.campaign

\* The row that is inserted next for a notice.
NextRow(n) ==
    CASE n.sent -> {Row(n, "WEB_PUSH")} [] ~n.sent /\ n.inApp -> {Row(n, "IN_APP")} [] OTHER -> {}

Waits(w, n) ==
    \E v \in InFlight \ {w} : \E r \in NextRow(n), q \in tx[v].rows : Key(r) = Key(q)

\* _create_notification_log_if_absent
Inserted(w, n) ==
    tx[w].rows \cup {r \in NextRow(n) : \A q \in log \cup tx[w].rows : Key(q) # Key(r)}

\* A transaction that has not been rolled back pushed this campaign to n.to.
PushedAlready(n) ==
    \/ \E r \in log \cup UNION {tx[v].rows : v \in InFlight} :
          r.channel = "WEB_PUSH" /\ r.campaign /\ <<r.to, r.match, r.kind>> = <<n.to, n.match, n.kind>>
    \/ \E v \in InFlight : \E h \in tx[v].todo :
          h.sent /\ h.campaign /\ <<h.to, h.match, h.kind>> = <<n.to, n.match, n.kind>>

\* In app first; then the push goes out.
Deliver(w, n) ==
    /\ ~n.sent /\ Comes(n, tx[w].todo) /\ ~Waits(w, n)
    /\ tx' = [tx EXCEPT ![w].rows = Inserted(w, n),
           ![w].todo = (@ \ {n}) \cup IF n.push THEN {[n EXCEPT !.sent = TRUE]} ELSE {}]
    /\ twice' = (twice \/ (n.push /\ n.campaign /\ PushedAlready(n)))
    /\ UNCHANGED <<match, preference, device, log, made, overlap, clash, discoveryVars>>

\* The push is recorded after it was sent.
Record(w, n) ==
    /\ n.sent /\ Comes(n, tx[w].todo) /\ ~Waits(w, n)
    /\ tx' = [tx EXCEPT ![w].rows = Inserted(w, n), ![w].todo = @ \ {n}]
    /\ UNCHANGED <<match, preference, device, log, twice, made, overlap, clash, discoveryVars>>

\* A request writes nothing about the hour of a match that is there.
Written(m, row) ==
    IF match[m] = None THEN row
    ELSE [row EXCEPT !.soon = match[m].soon, !.future = match[m].future]

\* A clash with the unique key of an alert fails the request.
Commit(w) ==
    /\ w \in InFlight /\ tx[w].todo = {} /\ tx[w].rest = {}
    /\ LET done == tx[w].alerts \cap alert = {} IN
       /\ match' = IF done /\ tx[w].match # None
                   THEN [match EXCEPT ![tx[w].match] = Written(tx[w].match, tx[w].row)]
                   ELSE match
       /\ log' = IF done THEN log \cup tx[w].rows ELSE log
       /\ alert' = IF done THEN alert \cup tx[w].alerts ELSE alert
       /\ clash' = (clash \/ ~done)
    /\ tx' = [tx EXCEPT ![w] = None]
    /\ UNCHANGED <<preference, device, twice, made, overlap, subscriber>>

\* The process dies.
Dies(w) ==
    /\ w \in InFlight
    /\ tx' = [tx EXCEPT ![w] = None]
    /\ UNCHANGED <<match, preference, device, log, twice, made, overlap, clash, discoveryVars>>

-----------------------------------------------------------------------------
\* Preferences and browsers.

Default == [inApp |-> TRUE, push |-> TRUE, kinds |-> {"TWO", "THREE"}]
Chosen(p) == IF preference[p] = None THEN Default ELSE preference[p]

Short == Counted /\ UNCHANGED <<match, log, twice, tx, overlap, clash>>

ChoosePreference(p, choice) ==
    /\ preference' = [preference EXCEPT ![p] = choice]
    /\ Short /\ UNCHANGED <<device, discoveryVars>>

\* register_push_subscription: a browser has one player.
RegisterPush(p, e) ==
    /\ device' = [device EXCEPT ![e] = p]
    /\ preference' = [preference EXCEPT ![p] = [Chosen(p) EXCEPT !.push = TRUE]]
    /\ Short /\ UNCHANGED discoveryVars

\* revoke_push_subscription
RevokePush(p, gone) ==
    /\ gone # {} /\ \A e \in gone : device[e] = p
    /\ device' = [e \in Endpoint |-> IF e \in gone THEN None ELSE device[e]]
    /\ preference' = [preference EXCEPT ![p] =
          [Chosen(p) EXCEPT !.push = @ /\ \E e \in Endpoint \ gone : device[e] = p]]
    /\ Short /\ UNCHANGED discoveryVars

\* What discovery does on its own.
DiscoveryRequest(s) ==
    /\ \/ \E digest, located \in BOOLEAN : Identify(s, digest, located)
       \/ \E digest, located \in BOOLEAN : UpdatePreferences(s, digest, located)
       \/ Follow(s) \/ Unfollow(s) \/ SessionEnds(s)
    /\ Short /\ UNCHANGED <<preference, device>>

DigestJob ==
    /\ Digest({m \in Match : Open(m)})
    /\ Short /\ UNCHANGED <<preference, device>>

-----------------------------------------------------------------------------
\* Time.

Later == UNCHANGED <<preference, device, twice, tx, made, overlap, clash>>

MatchNears(m) ==
    /\ match[m] # None /\ match[m].future
    /\ match' = [match EXCEPT ![m] = IF @.soon THEN [@ EXCEPT !.future = FALSE]
                                     ELSE [@ EXCEPT !.soon = TRUE]]
    /\ Later /\ UNCHANGED <<log, discoveryVars>>

SearchCoolsDown(m) ==
    /\ match[m] # None /\ match[m].searched
    /\ match' = [match EXCEPT ![m].searched = FALSE]
    /\ Later /\ UNCHANGED <<log, discoveryVars>>

\* No transaction lasts beyond midnight.
DayPasses ==
    /\ InFlight = {}
    /\ log' = {[r EXCEPT !.today = FALSE] : r \in log}
    /\ DiscoveryDayPasses
    /\ Later /\ UNCHANGED match

\* play_retention_job: what is older than 90 days.
Purge(rows) ==
    /\ rows # {} /\ \A r \in rows : ~r.today /\ ~match[r.match].future
    /\ log' = log \ rows
    /\ Later /\ UNCHANGED <<match, discoveryVars>>

NoticesNext ==
    \/ \E w \in Worker :
          \/ \E m \in Match :
                \/ \E p \in Player \cup {Guest} :
                      \/ \E soon \in BOOLEAN : CreateMatch(w, m, p, soon)
                      \/ JoinMatch(w, m, p)
                      \/ \E heir \in Player \cup {Guest} : LeaveMatch(w, m, p, heir)
                \/ UpdateMatch(w, m) \/ SearchPlayers(w, m) \/ CancelMatch(w, m)
          \/ PlayNotificationJob(w) \/ JobDispatches(w)
          \/ w \in InFlight /\ \E n \in tx[w].todo : Deliver(w, n) \/ Record(w, n)
          \/ Commit(w) \/ Dies(w)
    \/ \E p \in Player :
          \/ \E choice \in Preference : ChoosePreference(p, choice)
          \/ \E e \in Endpoint : RegisterPush(p, e)
          \/ \E gone \in SUBSET Endpoint : RevokePush(p, gone)
    \/ \E s \in Subscriber : DiscoveryRequest(s)
    \/ DigestJob \/ DayPasses
    \/ \E m \in Match : MatchNears(m) \/ SearchCoolsDown(m) \/ Purge({r \in log : r.match = m})

NoticesSpec == NoticesInit /\ [][NoticesNext]_vars
-----------------------------------------------------------------------------
\* What holds of the notices.
NoticesTypeOK ==
    /\ DiscoveryTypeOK
    /\ match \in [Match -> MatchRow \cup {None}]
    /\ preference \in [Player -> [inApp: BOOLEAN, push: BOOLEAN, kinds: SUBSET CAPPED_KINDS] \cup {None}]
    /\ device \in [Endpoint -> Player \cup {None}]
    /\ log \subseteq LogRow
    /\ tx \in [Worker -> Transaction \cup {None}]
    /\ made \in Nat /\ overlap \in BOOLEAN /\ twice \in BOOLEAN /\ clash \in BOOLEAN

\* As long as no two transactions overlap, no player is invited to more
\* campaigns in a day than the cap, by jobs, searches and the comings and
\* goings of others together.  (_campaign_keys_for_player_day)
DailyCapHeld ==
    ~overlap => \A p \in Player :
        Cardinality(CampaignKeys(log, p)) <= PLAY_NOTIFICATION_DAILY_CAP

\* No request about a match fails because an alert of it exists already: two
\* requests never alert a subscriber of the same thing, since the lock of the
\* court spans lookup, insertion and commit.
\* (_create_public_discovery_notification, acquire_single_court_lock)
AlertsNeverClash == ~clash

\* STATO_PLAY_4.md: a player gets no more than one web push of the same match
\* and campaign, even under a race.
OnePushPerCampaign == ~twice
=============================================================================

--------------------------- MODULE Notices_proofs ---------------------------
(***************************************************************************)
(* Theorems of the notices for any players, matches, subscribers and       *)
(* transactions in flight.  Two requests never alert of the same thing     *)
(* because alerts are about the match whose court is locked; and what a    *)
(* player is invited to is counted with what is about to be sent.          *)
(***************************************************************************)
EXTENDS Notices, FiniteSetTheorems, TLAPS

-----------------------------------------------------------------------------
(* Whom the operators choose.                                              *)

PreferencesTyped ==
    preference \in [Player -> [inApp: BOOLEAN, push: BOOLEAN, kinds: SUBSET CAPPED_KINDS] \cup {None}]

LEMMA NoticeIsNotice ==
    ASSUME PreferencesTyped, NEW p \in Player, NEW m \in Match, NEW kind \in Kind,
           NEW campaign \in BOOLEAN
    PROVE  NewNotice(p, m, kind, campaign) \in Notice
<1>1. InApp(p) \in BOOLEAN
  BY DEF InApp, PreferencesTyped
<1>2. Push(p) \in BOOLEAN
  BY DEF Push, PreferencesTyped
<1> QED BY <1>1, <1>2 DEF NewNotice, Notice

LEMMA KindOfMatch ==
    ASSUME NEW row, NEW manual
    PROVE  NotificationKind(row, manual) \in CAPPED_KINDS \cup {None}
BY DEF NotificationKind, CAPPED_KINDS

\* A campaign is of players who are below the cap, one notice for each, all of
\* one kind.
LEMMA CampaignIsCapped ==
    ASSUME PreferencesTyped, NEW m \in Match, NEW row, NEW manual, NEW rows
    PROVE  /\ Campaign(m, row, manual, rows) \subseteq Notice
           /\ \E kind \in CAPPED_KINDS : \A n \in Campaign(m, row, manual, rows) :
                 /\ n.match = m /\ n.kind = kind /\ n.campaign
                 /\ UnderCap(rows, n.to)
<1> DEFINE kind == NotificationKind(row, manual)
<1>1. CASE kind = None
  BY <1>1 DEF Campaign, CAPPED_KINDS
<1>2. CASE kind # None
  <2>1. kind \in CAPPED_KINDS /\ kind \in Kind BY <1>2, KindOfMatch DEF Kind
  <2>2. ASSUME NEW n \in Campaign(m, row, manual, rows)
        PROVE  n \in Notice /\ n.match = m /\ n.kind = kind /\ n.campaign /\ UnderCap(rows, n.to)
    <3> HIDE DEF kind
    <3>1. PICK p \in Candidates(m, row, kind, manual, rows) : n = NewNotice(p, m, kind, TRUE)
      BY <2>2, <1>2 DEF Campaign, ByScore, kind
    <3>2. p \in Player /\ UnderCap(rows, p) BY <3>1 DEF Candidates
    <3>3. n \in Notice BY <3>1, <3>2, <2>1, NoticeIsNotice
    <3>4. n.match = m /\ n.kind = kind /\ n.campaign /\ n.to = p BY <3>1 DEF NewNotice
    <3> QED BY <3>2, <3>3, <3>4
  <2> QED BY <2>1, <2>2
<1> QED BY <1>1, <1>2

LEMMA CreatorIsTold ==
    ASSUME PreferencesTyped, NEW m \in Match, NEW row, NEW joined,
           row.creator \in Player \cup {Guest}
    PROVE  /\ ToCreator(m, row, joined) \subseteq Notice
           /\ \A n \in ToCreator(m, row, joined) : ~n.campaign
<1> DEFINE kind == CASE Size(row) >= 4 -> "COMPLETED" [] Size(row) = 3 -> "THREE"
                     [] Size(row) = 2 -> "TWO" [] OTHER -> None
<1>1. CASE row.creator \in {Guest, joined} \/ kind = None
  BY <1>1 DEF ToCreator
<1>2. CASE ~(row.creator \in {Guest, joined} \/ kind = None)
  <2>1. kind \in Kind BY <1>2 DEF Kind, CAPPED_KINDS
  <2> HIDE DEF kind
  <2>2. ToCreator(m, row, joined) = {NewNotice(row.creator, m, kind, FALSE)}
    BY <1>2 DEF ToCreator, kind
  <2>3. NewNotice(row.creator, m, kind, FALSE) \in Notice BY <1>2, <2>1, NoticeIsNotice
  <2>4. ~NewNotice(row.creator, m, kind, FALSE).campaign BY DEF NewNotice
  <2> QED BY <2>2, <2>3, <2>4
<1> QED BY <1>1, <1>2

LEMMA ParticipantsAreTold ==
    ASSUME PreferencesTyped, NEW m \in Match, NEW row, row.in \subseteq Player
    PROVE  /\ ToParticipants(m, row) \subseteq Notice
           /\ \A n \in ToParticipants(m, row) : ~n.campaign
<1> SUFFICES ASSUME NEW n \in ToParticipants(m, row) PROVE n \in Notice /\ ~n.campaign OBVIOUS
<1>1. PICK p \in Player : n = NewNotice(p, m, "CANCELLED", FALSE) BY DEF ToParticipants
<1>2. "CANCELLED" \in Kind BY DEF Kind
<1> QED BY <1>1, <1>2, NoticeIsNotice DEF NewNotice

\* The alerts of a match are about it and new.
LEMMA AlertsAreNew ==
    ASSUME NEW m \in Match, NEW size
    PROVE  /\ WatchAlerts(m, size) \subseteq Alert
           /\ WatchAlerts(m, size) \cap alert = {}
           /\ \A a \in WatchAlerts(m, size) : a.about = m /\ a.kind # "DIGEST"
<1> SUFFICES ASSUME NEW a \in WatchAlerts(m, size)
             PROVE  a \in Alert /\ a \notin alert /\ a.about = m /\ a.kind # "DIGEST"
  OBVIOUS
<1>1. PICK s \in Subscriber :
          a = [to |-> s, kind |-> IF size = 3 THEN "THREE" ELSE "TWO", about |-> m]
  BY DEF WatchAlerts
<1>2. a \notin alert BY DEF WatchAlerts
<1> QED BY <1>1, <1>2 DEF Alert

-----------------------------------------------------------------------------
(* The types: an open match has a place left, so its rows count players    *)
(* and guests up to the four of a match.                                   *)

Fits(row) == IsFiniteSet(row.in) /\ (row.status = "OPEN" => Size(row) < PLAY_MATCH_SIZE)

MatchesFit ==
    /\ \A m \in Match : match[m] # None => Fits(match[m])
    /\ \A w \in InFlight :
          tx[w].match # None => tx[w].row \in MatchRow /\ Fits(tx[w].row)

Typed == NoticesTypeOK /\ MatchesFit

LEMMA SizeIsNat ==
    ASSUME NEW row \in MatchRow, IsFiniteSet(row.in)
    PROVE  Size(row) \in Nat /\ Cardinality(row.in) \in Nat /\ row.guests \in Nat
<1>1. Cardinality(row.in) \in Nat BY FS_CardinalityType
<1>2. row.guests \in Nat BY DEF MatchRow, PLAY_MATCH_SIZE
<1> QED BY <1>1, <1>2 DEF Size

LEMMA NewMatchFits ==
    ASSUME NEW p \in Player \cup {Guest}, NEW soon \in BOOLEAN, NEW row,
           row = [in |-> {p} \ {Guest}, guests |-> IF p = Guest THEN 1 ELSE 0, creator |-> p,
                  status |-> "OPEN", soon |-> soon, future |-> TRUE, searched |-> FALSE]
    PROVE  row \in MatchRow /\ Fits(row)
<1>1. row \in MatchRow BY NoticeAssumption DEF MatchRow, PLAY_MATCH_SIZE
<1>2. CASE p = Guest
  <2>1. row.in = {} /\ row.guests = 1 BY <1>2
  <2> QED BY <2>1, <1>1, FS_EmptySet DEF Fits, Size, PLAY_MATCH_SIZE
<1>3. CASE p # Guest
  <2>1. row.in = {p} /\ row.guests = 0 BY <1>3
  <2>2. IsFiniteSet({p}) /\ Cardinality({p}) = 1 BY FS_Singleton
  <2> QED BY <2>1, <2>2, <1>1 DEF Fits, Size, PLAY_MATCH_SIZE
<1> QED BY <1>2, <1>3

LEMMA JoinFits ==
    ASSUME NEW old \in MatchRow, Fits(old), old.status = "OPEN",
           NEW p \in Player \cup {Guest}, p # Guest => p \notin old.in,
           NEW more, more = [old EXCEPT !.in = @ \cup ({p} \ {Guest}),
                                        !.guests = IF p = Guest THEN @ + 1 ELSE @],
           NEW row, row = [more EXCEPT !.status = IF Size(more) = PLAY_MATCH_SIZE
                                                 THEN "FULL" ELSE "OPEN"]
    PROVE  row \in MatchRow /\ Fits(row)
<1>1. IsFiniteSet(old.in) /\ Cardinality(old.in) \in Nat /\ old.guests \in Nat
      /\ Cardinality(old.in) + old.guests < 4
  BY SizeIsNat DEF Fits, Size, PLAY_MATCH_SIZE
<1>2. more.in = old.in \cup ({p} \ {Guest}) /\ row.in = more.in /\ row.guests = more.guests
      /\ more.guests = IF p = Guest THEN old.guests + 1 ELSE old.guests
  BY DEF MatchRow
<1>3. IsFiniteSet(more.in) /\ Cardinality(more.in) \in Nat /\ more.guests \in Nat
      /\ Cardinality(more.in) + more.guests <= 4
  <2>1. CASE p = Guest
    <3>1. more.in = old.in /\ more.guests = old.guests + 1 BY <2>1, <1>2
    <3> QED BY ONLY <3>1, <1>1
  <2>2. CASE p # Guest
    <3>1. more.in = old.in \cup {p} /\ more.guests = old.guests BY <2>2, <1>2
    <3>2. IsFiniteSet(old.in \cup {p}) /\ Cardinality(old.in \cup {p}) = Cardinality(old.in) + 1
      BY <1>1, <2>2, FS_AddElement
    <3> QED BY <3>1, <3>2, <1>1
  <2> QED BY <2>1, <2>2
<1>4. row \in MatchRow
  <2>1. more.guests \in 0..4 BY <1>3
  <2>2. more.in \subseteq Player BY <1>2 DEF MatchRow
  <2>3. more \in MatchRow BY <2>1, <2>2, <1>2 DEF MatchRow, PLAY_MATCH_SIZE
  <2> QED BY <2>3 DEF MatchRow
<1>5. row.status = IF Size(more) = 4 THEN "FULL" ELSE "OPEN"
  BY DEF MatchRow, PLAY_MATCH_SIZE
<1>6. Size(row) = Size(more) /\ Size(more) = Cardinality(more.in) + more.guests BY <1>2 DEF Size
<1>7. IsFiniteSet(row.in) BY <1>2, <1>3
<1>8. row.status = "OPEN" => Size(row) < 4 BY ONLY <1>3, <1>5, <1>6
<1> QED BY <1>4, <1>7, <1>8 DEF Fits, PLAY_MATCH_SIZE

LEMMA LeaveFits ==
    ASSUME NEW old \in MatchRow, Fits(old), old.status = "OPEN",
           NEW p \in Player \cup {Guest}, In(old, p),
           NEW less, less = [old EXCEPT !.in = @ \ {p}, !.guests = IF p = Guest THEN @ - 1 ELSE @]
    PROVE  less \in MatchRow /\ Fits(less)
<1>1. IsFiniteSet(old.in) /\ Cardinality(old.in) \in Nat /\ old.guests \in Nat
      /\ Cardinality(old.in) + old.guests < 4 /\ old.guests \in 0..4
  BY SizeIsNat DEF Fits, Size, PLAY_MATCH_SIZE, MatchRow
<1>2. less.in = old.in \ {p} /\ less.status = "OPEN"
      /\ less.guests = IF p = Guest THEN old.guests - 1 ELSE old.guests
  BY DEF MatchRow
<1>3. less.guests \in 0..4 /\ less.guests <= old.guests
  <2>1. CASE p = Guest BY <2>1, <1>1, <1>2 DEF In
  <2>2. CASE p # Guest BY <2>2, <1>1, <1>2
  <2> QED BY <2>1, <2>2
<1>4. IsFiniteSet(less.in) /\ Cardinality(less.in) <= Cardinality(old.in)
      /\ Cardinality(less.in) \in Nat
  <2>1. old.in \ {p} \subseteq old.in OBVIOUS
  <2> QED BY <2>1, <1>1, <1>2, FS_Subset, FS_CardinalityType
<1>5. less \in MatchRow
  <2>1. less.in \subseteq Player BY <1>2 DEF MatchRow
  <2> QED BY <1>3, <2>1, <1>2 DEF MatchRow, PLAY_MATCH_SIZE
<1> QED BY <1>1, <1>2, <1>3, <1>4, <1>5 DEF Fits, Size, PLAY_MATCH_SIZE

\* A request that begins.
LEMMA RequestTyped ==
    ASSUME Typed, NEW w \in Worker, NEW m \in Match, NEW row \in MatchRow, Fits(row),
           NEW todo \in SUBSET Notice, NEW alerts \in SUBSET Alert,
           Request(w, m, row, todo, alerts)
    PROVE  Typed'
<1> DEFINE t == [match |-> m, row |-> row, todo |-> Told(todo), alerts |-> alerts,
                 rest |-> {}, rows |-> {}]
<1>1. m # None BY NoticeAssumption
<1>2. t \in Transaction BY DEF Transaction, Told
<1>3. /\ tx' = [tx EXCEPT ![w] = t]
      /\ overlap' = (overlap \/ InFlight # {}) /\ made' = made + 1
      /\ UNCHANGED <<match, preference, device, log, twice, clash, subscriber, alert>>
  BY DEF Request, Begin, Counted, discoveryVars
<1> HIDE DEF t
<1>4. NoticesTypeOK'
  <2>1. tx' \in [Worker -> Transaction \cup {None}] BY <1>2, <1>3 DEF Typed, NoticesTypeOK
  <2>2. overlap' \in BOOLEAN BY <1>3
  <2>3. made' \in Nat BY <1>3 DEF Typed, NoticesTypeOK
  <2> QED BY <1>3, <2>1, <2>2, <2>3 DEF Typed, NoticesTypeOK, DiscoveryTypeOK
<1>5. MatchesFit'
  <2>1. ASSUME NEW v \in InFlight', tx'[v].match # None
        PROVE  tx'[v].row \in MatchRow /\ Fits(tx'[v].row)
    <3>1. v \in Worker /\ tx'[v] # None BY <2>1 DEF InFlight
    <3>2. CASE v = w
      <4>1. tx'[v] = t BY <3>1, <3>2, <1>3 DEF Typed, NoticesTypeOK
      <4> QED BY <4>1 DEF t
    <3>3. CASE v # w
      <4>1. tx'[v] = tx[v] BY <3>1, <3>3, <1>3 DEF Typed, NoticesTypeOK
      <4> QED BY <4>1, <2>1, <3>1 DEF Typed, MatchesFit, InFlight
    <3> QED BY <3>2, <3>3
  <2>2. \A n \in Match : match'[n] # None => Fits(match'[n]) BY <1>3 DEF Typed, MatchesFit
  <2> QED BY <2>1, <2>2 DEF MatchesFit
<1> QED BY <1>4, <1>5 DEF Typed

\* A transaction that goes on, or ends.
LEMMA StepOfOne ==
    ASSUME Typed, NEW w \in Worker, NEW t \in Transaction \cup {None},
           t = None \/ t.match = None \/ (t.row \in MatchRow /\ Fits(t.row)),
           tx' = [tx EXCEPT ![w] = t]
    PROVE  /\ tx' \in [Worker -> Transaction \cup {None}]
           /\ \A v \in InFlight' :
                 tx'[v].match # None => tx'[v].row \in MatchRow /\ Fits(tx'[v].row)
<1>1. tx \in [Worker -> Transaction \cup {None}] BY DEF Typed, NoticesTypeOK
<1>2. ASSUME NEW v \in InFlight', tx'[v].match # None
      PROVE  tx'[v].row \in MatchRow /\ Fits(tx'[v].row)
  <2>1. v \in Worker /\ tx'[v] # None BY <1>2 DEF InFlight
  <2>2. CASE v = w
    <3>1. tx'[v] = t BY <2>1, <2>2, <1>1
    <3> QED BY <3>1, <2>1, <1>2
  <2>3. CASE v # w
    <3>1. tx'[v] = tx[v] BY <2>1, <2>3, <1>1
    <3> QED BY <3>1, <1>2, <2>1 DEF Typed, MatchesFit, InFlight
  <2> QED BY <2>2, <2>3
<1> QED BY <1>1, <1>2

\* What a transaction adds to the log are rows of the notice at hand.
LEMMA InsertedRows ==
    ASSUME NEW w, NEW n \in Notice, NEW r \in Inserted(w, n)
    PROVE  r \in tx[w].rows
           \/ (r \in LogRow /\ r.to = n.to /\ r.match = n.match /\ r.kind = n.kind
               /\ r.campaign = n.campaign)
<1>1. CASE r \in NextRow(n)
  <2>1. r = Row(n, "WEB_PUSH") \/ r = Row(n, "IN_APP") BY <1>1 DEF NextRow
  <2>2. /\ n.to \in Player /\ n.match \in Match /\ n.kind \in Kind
        /\ n.campaign \in BOOLEAN
    BY DEF Notice
  <2>3. PICK channel \in {"IN_APP", "WEB_PUSH"} : r = Row(n, channel) BY <2>1
  <2>4. r \in LogRow BY <2>2, <2>3 DEF Row, LogRow
  <2>5. r.to = n.to /\ r.match = n.match /\ r.kind = n.kind BY <2>3 DEF Row
  <2>6. r.campaign = n.campaign BY <2>3 DEF Row
  <2> QED BY <2>4, <2>5, <2>6
<1> QED BY <1>1 DEF Inserted

LEMMA TypedStep == Typed /\ [NoticesNext]_vars => Typed'
<1> SUFFICES ASSUME Typed, [NoticesNext]_vars PROVE Typed' OBVIOUS
<1> USE DEF Typed
<1>a. PreferencesTyped BY DEF NoticesTypeOK, PreferencesTyped
<1>b. tx \in [Worker -> Transaction \cup {None}] /\ match \in [Match -> MatchRow \cup {None}]
  BY DEF NoticesTypeOK
<1>c. \A w \in InFlight : w \in Worker /\ tx[w] \in Transaction BY <1>b DEF InFlight
<1>d. ASSUME NEW m \in Match, Open(m)
      PROVE  match[m] \in MatchRow /\ Fits(match[m]) /\ match[m].status = "OPEN"
             /\ match[m].in \subseteq Player /\ match[m].creator \in Player \cup {Guest}
  BY <1>b, <1>d DEF Open, MatchesFit, MatchRow
<1>e. \A m \in Match : WatchAlerts(m, 1) \subseteq Alert BY AlertsAreNew
<1>1. ASSUME NEW w \in Worker, NEW m \in Match, NEW p \in Player \cup {Guest}, NEW soon \in BOOLEAN,
             CreateMatch(w, m, p, soon)
      PROVE  Typed'
  <2>1. PICK row : row = [in |-> {p} \ {Guest}, guests |-> IF p = Guest THEN 1 ELSE 0,
                          creator |-> p, status |-> "OPEN", soon |-> soon, future |-> TRUE,
                          searched |-> FALSE]
    OBVIOUS
  <2>2. row \in MatchRow /\ Fits(row) BY <2>1, NewMatchFits
  <2>3. Request(w, m, row, Campaign(m, row, FALSE, log), WatchAlerts(m, Size(row)))
    BY <1>1, <2>1 DEF CreateMatch
  <2>4. Campaign(m, row, FALSE, log) \in SUBSET Notice BY <1>a, CampaignIsCapped
  <2>5. WatchAlerts(m, Size(row)) \in SUBSET Alert BY AlertsAreNew
  <2> QED BY <2>2, <2>3, <2>4, <2>5, RequestTyped
<1>2. ASSUME NEW w \in Worker, NEW m \in Match, NEW p \in Player \cup {Guest}, JoinMatch(w, m, p)
      PROVE  Typed'
  <2>1. PICK old : old = match[m] OBVIOUS
  <2>2. PICK more : more = [old EXCEPT !.in = @ \cup ({p} \ {Guest}),
                                       !.guests = IF p = Guest THEN @ + 1 ELSE @]
    OBVIOUS
  <2>3. PICK row : row = [more EXCEPT !.status = IF Size(more) = PLAY_MATCH_SIZE
                                                 THEN "FULL" ELSE "OPEN"]
    OBVIOUS
  <2>4. Open(m) /\ (p # Guest => p \notin old.in) BY <1>2, <2>1 DEF JoinMatch, In
  <2>5. row \in MatchRow /\ Fits(row) BY <2>1, <2>2, <2>3, <2>4, <1>d, JoinFits
  <2>6. row.creator \in Player \cup {Guest} BY <2>5 DEF MatchRow
  <2>7. /\ ToCreator(m, row, p) \in SUBSET Notice
        /\ Campaign(m, row, FALSE, log) \in SUBSET Notice
        /\ ToCreator(m, row, p) \cup Campaign(m, row, FALSE, log) \in SUBSET Notice
    BY <2>6, <1>a, CampaignIsCapped, CreatorIsTold
  <2>8. WatchAlerts(m, Size(row)) \in SUBSET Alert /\ {} \in SUBSET Alert BY AlertsAreNew
  <2>9. \/ Request(w, m, row, ToCreator(m, row, p), {})
        \/ Request(w, m, row, ToCreator(m, row, p) \cup Campaign(m, row, FALSE, log),
                   WatchAlerts(m, Size(row)))
    BY <1>2, <2>1, <2>2, <2>3 DEF JoinMatch
  <2> QED BY <2>5, <2>7, <2>8, <2>9, RequestTyped
<1>3. ASSUME NEW w \in Worker, NEW m \in Match, NEW p \in Player \cup {Guest},
             NEW heir \in Player \cup {Guest}, LeaveMatch(w, m, p, heir)
      PROVE  Typed'
  <2>1. PICK less : less = [match[m] EXCEPT !.in = @ \ {p},
                                            !.guests = IF p = Guest THEN @ - 1 ELSE @]
    OBVIOUS
  <2>2. Open(m) /\ In(match[m], p) BY <1>3 DEF LeaveMatch
  <2>3. less \in MatchRow /\ Fits(less) BY <2>1, <2>2, <1>d, LeaveFits
  <2>4. \/ Request(w, m, [less EXCEPT !.status = "CANCELLED"], {}, {})
        \/ Request(w, m, [less EXCEPT !.creator = heir],
                   Campaign(m, [less EXCEPT !.creator = heir], FALSE, log),
                   WatchAlerts(m, Size([less EXCEPT !.creator = heir])))
    BY <1>3, <2>1 DEF LeaveMatch
  <2>5. CASE Request(w, m, [less EXCEPT !.status = "CANCELLED"], {}, {})
    <3>1. PICK row : row = [less EXCEPT !.status = "CANCELLED"] OBVIOUS
    <3>2. row \in MatchRow /\ row.in = less.in /\ row.status = "CANCELLED" BY <3>1, <2>3 DEF MatchRow
    <3>3. Fits(row) BY <3>2, <2>3 DEF Fits
    <3>4. {} \in SUBSET Notice /\ {} \in SUBSET Alert OBVIOUS
    <3> QED BY <3>1, <3>2, <3>3, <3>4, <2>5, RequestTyped
  <2>6. CASE Request(w, m, [less EXCEPT !.creator = heir],
                     Campaign(m, [less EXCEPT !.creator = heir], FALSE, log),
                     WatchAlerts(m, Size([less EXCEPT !.creator = heir])))
    <3>1. PICK row : row = [less EXCEPT !.creator = heir] OBVIOUS
    <3>2. row \in MatchRow /\ row.in = less.in /\ row.status = less.status
          /\ row.guests = less.guests
      BY <3>1, <2>3 DEF MatchRow
    <3>3. Fits(row) BY <3>2, <2>3 DEF Fits, Size
    <3>4. Campaign(m, row, FALSE, log) \in SUBSET Notice BY <1>a, CampaignIsCapped
    <3>5. WatchAlerts(m, Size(row)) \in SUBSET Alert BY AlertsAreNew
    <3>6. Request(w, m, row, Campaign(m, row, FALSE, log), WatchAlerts(m, Size(row)))
      BY <2>6, <3>1
    <3> QED BY <3>2, <3>3, <3>4, <3>5, <3>6, RequestTyped
  <2> QED BY <2>4, <2>5, <2>6
<1>4. ASSUME NEW w \in Worker, NEW m \in Match, UpdateMatch(w, m) PROVE Typed'
  <2>1. Open(m) /\ Request(w, m, match[m], {}, WatchAlerts(m, Size(match[m])))
    BY <1>4 DEF UpdateMatch
  <2>2. WatchAlerts(m, Size(match[m])) \in SUBSET Alert /\ {} \in SUBSET Notice BY AlertsAreNew
  <2> QED BY <2>1, <2>2, <1>d, RequestTyped
<1>5. ASSUME NEW w \in Worker, NEW m \in Match, SearchPlayers(w, m) PROVE Typed'
  <2>1. PICK row : row = [match[m] EXCEPT !.searched = TRUE] OBVIOUS
  <2>2. Open(m) /\ Request(w, m, row, Campaign(m, row, TRUE, log), {})
    BY <1>5, <2>1 DEF SearchPlayers
  <2>3. row \in MatchRow /\ Fits(row)
    <3>1. row \in MatchRow /\ row.in = match[m].in /\ row.status = match[m].status
          /\ row.guests = match[m].guests
      BY <2>1, <2>2, <1>d DEF MatchRow
    <3> QED BY <3>1, <2>2, <1>d DEF Fits, Size
  <2>4. Campaign(m, row, TRUE, log) \in SUBSET Notice /\ {} \in SUBSET Alert
    BY <1>a, CampaignIsCapped
  <2> QED BY <2>2, <2>3, <2>4, RequestTyped
<1>6. ASSUME NEW w \in Worker, NEW m \in Match, CancelMatch(w, m) PROVE Typed'
  <2>1. PICK row : row = [match[m] EXCEPT !.status = "CANCELLED"] OBVIOUS
  <2>2. Open(m) /\ Request(w, m, row, ToParticipants(m, match[m]), {})
    BY <1>6, <2>1 DEF CancelMatch
  <2>3. row \in MatchRow /\ Fits(row)
    <3>1. row \in MatchRow /\ row.in = match[m].in /\ row.status = "CANCELLED"
      BY <2>1, <2>2, <1>d DEF MatchRow
    <3> QED BY <3>1, <2>2, <1>d DEF Fits
  <2>4. ToParticipants(m, match[m]) \in SUBSET Notice /\ {} \in SUBSET Alert
    BY <1>a, <1>d, <2>2, ParticipantsAreTold
  <2> QED BY <2>2, <2>3, <2>4, RequestTyped
<1>7. ASSUME NEW w \in Worker, PlayNotificationJob(w) PROVE Typed'
  <2> DEFINE t == [match |-> None, row |-> None, todo |-> {}, alerts |-> {},
                   rest |-> {m \in Match : Open(m)}, rows |-> {}]
  <2>1. t \in Transaction /\ t.match = None BY DEF Transaction
  <2>2. /\ tx' = [tx EXCEPT ![w] = t] /\ made' = made + 1
        /\ overlap' = (overlap \/ InFlight # {})
        /\ UNCHANGED <<match, preference, device, log, twice, clash, subscriber, alert>>
    BY <1>7 DEF PlayNotificationJob, Begin, Counted, discoveryVars
  <2> HIDE DEF t
  <2>3. overlap' \in BOOLEAN /\ made' \in Nat BY <2>2 DEF NoticesTypeOK
  <2> QED BY <2>1, <2>2, <2>3, StepOfOne DEF NoticesTypeOK, DiscoveryTypeOK, MatchesFit
<1>8. ASSUME NEW w \in Worker, JobDispatches(w) PROVE Typed'
  <2>1. w \in InFlight /\ tx[w] \in Transaction BY <1>8, <1>c DEF JobDispatches
  <2>2. PICK m \in tx[w].rest :
            tx' = [tx EXCEPT ![w].rest = @ \ {m},
                      ![w].todo = IF match[m].future
                                  THEN Told(Campaign(m, match[m], FALSE, log \cup tx[w].rows))
                                  ELSE {}]
    BY <1>8 DEF JobDispatches
  <2>3. PICK todo : todo = IF match[m].future
                           THEN Told(Campaign(m, match[m], FALSE, log \cup tx[w].rows))
                           ELSE {}
    OBVIOUS
  <2>4. PICK t : t = [tx[w] EXCEPT !.rest = @ \ {m}, !.todo = todo] OBVIOUS
  <2>5. tx' = [tx EXCEPT ![w] = t] BY <2>2, <2>3, <2>4, <1>b
  <2>6. m \in Match BY <2>1 DEF Transaction
  <2>7. todo \in SUBSET Notice
    <3>1. Campaign(m, match[m], FALSE, log \cup tx[w].rows) \subseteq Notice
      BY <2>6, <1>a, CampaignIsCapped
    <3> QED BY <3>1, <2>3 DEF Told
  <2>8. t \in Transaction /\ t.match = tx[w].match /\ t.row = tx[w].row
    BY <2>1, <2>4, <2>7 DEF Transaction
  <2>9. t.match = None \/ (t.row \in MatchRow /\ Fits(t.row)) BY <2>1, <2>8 DEF MatchesFit
  <2>10. UNCHANGED <<match, preference, device, log, twice, made, overlap, clash,
                     subscriber, alert>>
    BY <1>8 DEF JobDispatches, discoveryVars
  <2> QED BY <2>1, <2>5, <2>8, <2>9, <2>10, <1>c, StepOfOne DEF NoticesTypeOK, DiscoveryTypeOK, MatchesFit
<1>9. ASSUME NEW w \in InFlight, NEW n \in tx[w].todo, Deliver(w, n) \/ Record(w, n) PROVE Typed'
  <2>1. w \in Worker /\ tx[w] \in Transaction BY <1>c
  <2>2. n \in Notice BY <2>1 DEF Transaction
  <2>3. PICK todo \in SUBSET Notice :
            tx' = [tx EXCEPT ![w].rows = Inserted(w, n), ![w].todo = todo]
    <3>1. CASE Deliver(w, n)
      <4>1. [n EXCEPT !.sent = TRUE] \in Notice BY <2>2 DEF Notice
      <4>2. PICK todo : todo = (tx[w].todo \ {n})
                                 \cup IF n.push THEN {[n EXCEPT !.sent = TRUE]} ELSE {}
        OBVIOUS
      <4>3. todo \in SUBSET Notice BY <4>1, <4>2, <2>1 DEF Transaction
      <4>4. tx' = [tx EXCEPT ![w].rows = Inserted(w, n), ![w].todo = todo]
        BY <3>1, <4>2, <2>1, <1>b DEF Deliver
      <4> QED BY <4>3, <4>4
    <3>2. CASE Record(w, n)
      <4>1. PICK todo : todo = tx[w].todo \ {n} OBVIOUS
      <4>2. todo \in SUBSET Notice BY <4>1, <2>1 DEF Transaction
      <4>3. tx' = [tx EXCEPT ![w].rows = Inserted(w, n), ![w].todo = todo]
        BY <3>2, <4>1, <2>1, <1>b DEF Record
      <4> QED BY <4>2, <4>3
    <3> QED BY <1>9, <3>1, <3>2
  <2>4. PICK t : t = [tx[w] EXCEPT !.rows = Inserted(w, n), !.todo = todo] OBVIOUS
  <2>5. tx' = [tx EXCEPT ![w] = t] BY <2>3, <2>4, <2>1, <1>b
  <2>6. Inserted(w, n) \in SUBSET LogRow
    <3>1. tx[w].rows \subseteq LogRow BY <2>1 DEF Transaction
    <3> QED BY <3>1, <2>2, InsertedRows
  <2>7. t \in Transaction /\ t.match = tx[w].match /\ t.row = tx[w].row
    BY <2>1, <2>4, <2>6 DEF Transaction
  <2>8. t.match = None \/ (t.row \in MatchRow /\ Fits(t.row)) BY <2>7 DEF MatchesFit
  <2>9. UNCHANGED <<match, preference, device, log, made, overlap, clash, subscriber, alert>>
    BY <1>9 DEF Deliver, Record, discoveryVars
  <2>10. twice' \in BOOLEAN
    <3>1. twice' = twice \/ twice' = (twice \/ (n.push /\ n.campaign /\ PushedAlready(n)))
      BY <1>9 DEF Deliver, Record
    <3>2. twice \in BOOLEAN BY DEF NoticesTypeOK
    <3> QED BY <3>1, <3>2
  <2> QED BY <2>1, <2>5, <2>7, <2>8, <2>9, <2>10, StepOfOne DEF NoticesTypeOK, DiscoveryTypeOK, MatchesFit
<1>10. ASSUME NEW w \in Worker, Commit(w) PROVE Typed'
  <2>1. w \in InFlight /\ tx[w] \in Transaction BY <1>10, <1>c DEF Commit
  <2>2. tx' = [tx EXCEPT ![w] = None] /\ UNCHANGED <<preference, device, twice, made, overlap, subscriber>>
    BY <1>10 DEF Commit
  <2>3. /\ log' = log \/ log' = log \cup tx[w].rows
        /\ alert' = alert \/ alert' = alert \cup tx[w].alerts
    BY <1>10 DEF Commit
  <2>4. log' \subseteq LogRow /\ alert' \subseteq Alert
    BY <2>1, <2>3 DEF Transaction, NoticesTypeOK, DiscoveryTypeOK
  <2>5. clash' \in BOOLEAN
    <3>1. clash' = (clash \/ ~(tx[w].alerts \cap alert = {})) BY <1>10 DEF Commit
    <3> QED BY <3>1
  <2>6. \/ match' = match
        \/ /\ tx[w].match # None
           /\ match' = [match EXCEPT ![tx[w].match] = Written(tx[w].match, tx[w].row)]
    BY <1>10 DEF Commit
  <2>7. match' \in [Match -> MatchRow \cup {None}] /\ \A m \in Match : match'[m] # None => Fits(match'[m])
    <3>1. CASE match' = match BY <3>1, <1>b DEF MatchesFit
    <3>2. CASE tx[w].match # None /\ match' = [match EXCEPT ![tx[w].match] = Written(tx[w].match, tx[w].row)]
      <4>1. PICK m \in Match : m = tx[w].match BY <2>1, <3>2 DEF Transaction
      <4>2. PICK row \in MatchRow : row = tx[w].row /\ Fits(row) BY <2>1, <3>2 DEF MatchesFit
      <4>3. PICK new : new = Written(m, row) OBVIOUS
      <4>4. new \in MatchRow /\ new.in = row.in /\ new.guests = row.guests /\ new.status = row.status
        <5>1. CASE match[m] = None BY <5>1, <4>3 DEF Written
        <5>2. CASE match[m] # None
          <6>1. match[m].soon \in BOOLEAN /\ match[m].future \in BOOLEAN
            BY <5>2, <1>b DEF MatchRow
          <6>2. new = [row EXCEPT !.soon = match[m].soon, !.future = match[m].future]
            BY <5>2, <4>3 DEF Written
          <6> QED BY <6>1, <6>2 DEF MatchRow
        <5> QED BY <5>1, <5>2
      <4>5. Fits(new) BY <4>2, <4>4 DEF Fits, Size
      <4>6. match' = [match EXCEPT ![m] = new] BY <3>2, <4>1, <4>2, <4>3
      <4> QED BY <4>4, <4>5, <4>6, <1>b DEF MatchesFit
    <3> QED BY <2>6, <3>1, <3>2
  <2> QED BY <2>1, <2>2, <2>4, <2>5, <2>7, <1>c, StepOfOne DEF NoticesTypeOK, DiscoveryTypeOK, MatchesFit
<1>11. ASSUME NEW w \in Worker, Dies(w) PROVE Typed'
  <2>1. tx' = [tx EXCEPT ![w] = None]
        /\ UNCHANGED <<match, preference, device, log, twice, made, overlap, clash, subscriber, alert>>
    BY <1>11 DEF Dies, discoveryVars
  <2> QED BY <2>1, StepOfOne DEF NoticesTypeOK, DiscoveryTypeOK, MatchesFit
<1>12. ASSUME Short, preference' \in [Player -> [inApp: BOOLEAN, push: BOOLEAN,
                                                 kinds: SUBSET CAPPED_KINDS] \cup {None}],
              device' \in [Endpoint -> Player \cup {None}], DiscoveryTypeOK'
       PROVE  Typed'
  <2>1. made' \in Nat /\ UNCHANGED <<match, log, twice, tx, overlap, clash>>
    BY <1>12 DEF Short, Counted, NoticesTypeOK
  <2> QED BY <1>12, <2>1 DEF NoticesTypeOK, MatchesFit, InFlight
<1>13. ASSUME NEW p \in Player, NEW choice \in Preference, ChoosePreference(p, choice) PROVE Typed'
  BY <1>12, <1>13, NoticeAssumption DEF ChoosePreference, NoticesTypeOK, DiscoveryTypeOK, discoveryVars
<1>14. \A p \in Player : Chosen(p) \in [inApp: BOOLEAN, push: BOOLEAN, kinds: SUBSET CAPPED_KINDS]
  BY DEF Chosen, Default, CAPPED_KINDS, NoticesTypeOK
<1>15. ASSUME NEW p \in Player, NEW e \in Endpoint, RegisterPush(p, e) PROVE Typed'
  <2>1. PICK choice : choice = [Chosen(p) EXCEPT !.push = TRUE] OBVIOUS
  <2>2. choice \in [inApp: BOOLEAN, push: BOOLEAN, kinds: SUBSET CAPPED_KINDS] BY <2>1, <1>14
  <2>3. preference' = [preference EXCEPT ![p] = choice] /\ device' = [device EXCEPT ![e] = p]
        /\ Short /\ UNCHANGED <<subscriber, alert>>
    BY <1>15, <2>1 DEF RegisterPush, discoveryVars
  <2> QED BY <1>12, <2>2, <2>3 DEF NoticesTypeOK, DiscoveryTypeOK
<1>16. ASSUME NEW p \in Player, NEW gone \in SUBSET Endpoint, RevokePush(p, gone) PROVE Typed'
  <2>1. PICK left \in BOOLEAN : left = (\E e \in Endpoint \ gone : device[e] = p) OBVIOUS
  <2>2. PICK choice : choice = [Chosen(p) EXCEPT !.push = @ /\ left] OBVIOUS
  <2>3. choice \in [inApp: BOOLEAN, push: BOOLEAN, kinds: SUBSET CAPPED_KINDS] BY <2>2, <1>14
  <2>4. preference' = [preference EXCEPT ![p] = choice]
        /\ device' = [e \in Endpoint |-> IF e \in gone THEN None ELSE device[e]]
        /\ Short /\ UNCHANGED <<subscriber, alert>>
    BY <1>16, <2>1, <2>2 DEF RevokePush, discoveryVars
  <2> QED BY <1>12, <2>3, <2>4 DEF NoticesTypeOK, DiscoveryTypeOK
<1>17. ASSUME NEW s \in Subscriber, DiscoveryRequest(s) PROVE Typed'
  <2>1. DiscoveryTypeOK BY DEF NoticesTypeOK
  <2>2. ASSUME NEW digest \in BOOLEAN, NEW located \in BOOLEAN, Identify(s, digest, located)
        PROVE  DiscoveryTypeOK'
    BY <2>1, <2>2 DEF Identify, DiscoveryTypeOK, SubscriberRow
  <2>3. ASSUME InSession(s) PROVE subscriber[s] \in SubscriberRow
    BY <2>1, <2>3 DEF InSession, DiscoveryTypeOK
  <2>4. ASSUME NEW digest \in BOOLEAN, NEW located \in BOOLEAN, UpdatePreferences(s, digest, located)
        PROVE  DiscoveryTypeOK'
    <3>1. PICK new : new = [subscriber[s] EXCEPT !.digest = digest, !.located = located] OBVIOUS
    <3>2. new \in SubscriberRow BY <2>3, <2>4, <3>1 DEF UpdatePreferences, SubscriberRow
    <3>3. subscriber' = [subscriber EXCEPT ![s] = new] /\ alert' = alert
      BY <2>1, <2>4, <3>1 DEF UpdatePreferences, DiscoveryTypeOK
    <3> QED BY <2>1, <3>2, <3>3 DEF DiscoveryTypeOK
  <2>5. ASSUME Follow(s) \/ Unfollow(s) \/ SessionEnds(s) PROVE DiscoveryTypeOK'
    <3>1. subscriber[s] \in SubscriberRow BY <2>3, <2>5 DEF Follow, Unfollow, SessionEnds
    <3>2. PICK new \in SubscriberRow : subscriber' = [subscriber EXCEPT ![s] = new] /\ alert' = alert
      <4>1. CASE Follow(s)
        <5>1. PICK new : new = [subscriber[s] EXCEPT !.watching = TRUE] OBVIOUS
        <5> QED BY <2>1, <3>1, <4>1, <5>1 DEF Follow, SubscriberRow, DiscoveryTypeOK
      <4>2. CASE Unfollow(s)
        <5>1. PICK new : new = [subscriber[s] EXCEPT !.watching = FALSE] OBVIOUS
        <5> QED BY <2>1, <3>1, <4>2, <5>1 DEF Unfollow, SubscriberRow, DiscoveryTypeOK
      <4>3. CASE SessionEnds(s)
        <5>1. PICK new : new = [subscriber[s] EXCEPT !.session = FALSE] OBVIOUS
        <5> QED BY <2>1, <3>1, <4>3, <5>1 DEF SessionEnds, SubscriberRow, DiscoveryTypeOK
      <4> QED BY <2>5, <4>1, <4>2, <4>3
    <3> QED BY <2>1, <3>2 DEF DiscoveryTypeOK
  <2>6. Short /\ UNCHANGED <<preference, device>> BY <1>17 DEF DiscoveryRequest
  <2>7. DiscoveryTypeOK' BY <1>17, <2>2, <2>4, <2>5 DEF DiscoveryRequest
  <2> QED BY <1>12, <2>6, <2>7 DEF NoticesTypeOK
<1>18. ASSUME DigestJob PROVE Typed'
  <2>1. subscriber' = subscriber /\ Short /\ UNCHANGED <<preference, device>>
    BY <1>18 DEF DigestJob, Digest
  <2>2. \A a \in alert' : a \in alert \/ a \in [to: Subscriber, kind: {"DIGEST"}, about: {None}]
    BY <1>18 DEF DigestJob, Digest
  <2>3. DiscoveryTypeOK' BY <2>1, <2>2 DEF NoticesTypeOK, DiscoveryTypeOK, Alert
  <2> QED BY <1>12, <2>1, <2>3 DEF NoticesTypeOK
<1>19. ASSUME NEW m \in Match, MatchNears(m) \/ SearchCoolsDown(m) PROVE Typed'
  <2>1. match[m] \in MatchRow /\ Fits(match[m]) BY <1>19, <1>b DEF MatchNears, SearchCoolsDown, MatchesFit
  <2>2. PICK new : /\ match' = [match EXCEPT ![m] = new]
                   /\ \/ new = [match[m] EXCEPT !.future = FALSE]
                      \/ new = [match[m] EXCEPT !.soon = TRUE]
                      \/ new = [match[m] EXCEPT !.searched = FALSE]
    BY <1>19, <1>b DEF MatchNears, SearchCoolsDown
  <2>3. new \in MatchRow /\ new.in = match[m].in /\ new.guests = match[m].guests
        /\ new.status = match[m].status
    BY <2>1, <2>2 DEF MatchRow
  <2>4. Fits(new) BY <2>1, <2>3 DEF Fits, Size
  <2>5. UNCHANGED <<preference, device, log, twice, tx, made, overlap, clash, subscriber, alert>>
    BY <1>19 DEF MatchNears, SearchCoolsDown, Later, discoveryVars
  <2> QED BY <2>2, <2>3, <2>4, <2>5, <1>b DEF NoticesTypeOK, DiscoveryTypeOK, MatchesFit, InFlight
<1>20. ASSUME DayPasses PROVE Typed'
  <2>1. alert' \subseteq alert /\ subscriber' = subscriber
        /\ UNCHANGED <<match, preference, device, twice, tx, made, overlap, clash>>
    BY <1>20 DEF DayPasses, DiscoveryDayPasses, Later
  <2>2. log' \subseteq LogRow
    <3>1. \A r \in log : [r EXCEPT !.today = FALSE] \in LogRow BY DEF NoticesTypeOK, LogRow
    <3> QED BY <1>20, <3>1 DEF DayPasses
  <2> QED BY <2>1, <2>2 DEF NoticesTypeOK, DiscoveryTypeOK, MatchesFit, InFlight
<1>21. ASSUME NEW rows, Purge(rows) PROVE Typed'
  BY <1>21 DEF Purge, Later, discoveryVars, NoticesTypeOK, DiscoveryTypeOK, MatchesFit, InFlight
<1>22. ASSUME UNCHANGED vars PROVE Typed'
  BY <1>22 DEF vars, noticeVars, discoveryVars, NoticesTypeOK, DiscoveryTypeOK, MatchesFit, InFlight
<1> QED
  BY <1>1, <1>2, <1>3, <1>4, <1>5, <1>6, <1>7, <1>8, <1>9, <1>10, <1>11, <1>13, <1>15, <1>16,
     <1>17, <1>18, <1>19, <1>20, <1>21, <1>22
  DEF NoticesNext

LEMMA TypedAtFirst == NoticesInit => Typed
<1> SUFFICES ASSUME NoticesInit PROVE Typed OBVIOUS
<1>1. NoticesTypeOK
  <2>1. match \in [Match -> MatchRow \cup {None}]
    <3>1. 1..3 \subseteq 0..4 OBVIOUS
    <3>2. match \in [Match -> {None} \cup
             [in: {{}}, guests: 1..3, creator: {Guest}, status: {"OPEN"}, soon: BOOLEAN,
              future: {TRUE}, searched: {FALSE}]]
      BY DEF NoticesInit
    <3>3. ASSUME NEW row \in [in: {{}}, guests: 1..3, creator: {Guest}, status: {"OPEN"},
                              soon: BOOLEAN, future: {TRUE}, searched: {FALSE}]
          PROVE  row \in MatchRow
      BY <3>1, <3>3 DEF MatchRow, PLAY_MATCH_SIZE
    <3> QED BY <3>2, <3>3
  <2>2. tx \in [Worker -> Transaction \cup {None}] BY DEF NoticesInit
  <2>3. DiscoveryTypeOK BY DEF NoticesInit, DiscoveryInit, DiscoveryTypeOK
  <2> QED BY <2>1, <2>2, <2>3 DEF NoticesInit, NoticesTypeOK
<1>2. InFlight = {} BY DEF NoticesInit, InFlight
<1>3. ASSUME NEW m \in Match, match[m] # None PROVE Fits(match[m])
  <2>1. match[m].in = {} /\ match[m].guests \in 1..3 BY <1>3 DEF NoticesInit
  <2> QED BY <2>1, FS_EmptySet DEF Fits, Size, PLAY_MATCH_SIZE
<1> QED BY <1>1, <1>2, <1>3 DEF Typed, MatchesFit

\* Every row, every notice in flight and every transaction has its type.
THEOREM NoticesTypes == NoticesSpec => []NoticesTypeOK
<1>1. Typed => NoticesTypeOK BY DEF Typed
<1> QED BY <1>1, TypedAtFirst, TypedStep, PTL DEF NoticesSpec

-----------------------------------------------------------------------------
(* The alerts.                                                             *)

\* What t alerts of is about its match, and nobody was alerted of it.
Alerting(t) ==
    /\ t.match = None => t.alerts = {}
    /\ \A a \in t.alerts : a.about = t.match /\ a.kind # "DIGEST"

\* Requests in flight are about different matches.
Serial ==
    /\ ~clash
    /\ \A w \in InFlight : Alerting(tx[w]) /\ tx[w].alerts \cap alert = {}
    /\ \A v, w \in InFlight : v # w => tx[v].match # tx[w].match \/ tx[v].match = None

LEMMA SerialIf ==
    ASSUME Typed, Serial, ~clash', NEW w \in Worker, NEW t, tx' = [tx EXCEPT ![w] = t],
           \/ t = None
           \/ /\ Alerting(t) /\ t.alerts \cap alert' = {}
              /\ \A v \in InFlight : v # w => tx[v].match # t.match \/ t.match = None,
           \A v \in InFlight : v # w => tx[v].alerts \cap alert' = {}
    PROVE  Serial'
<1>1. tx \in [Worker -> Transaction \cup {None}] BY DEF Typed, NoticesTypeOK
<1>2. ASSUME NEW v \in InFlight'
      PROVE  \/ v = w /\ t # None /\ tx'[v] = t
             \/ v # w /\ v \in InFlight /\ tx'[v] = tx[v]
  BY <1>1, <1>2 DEF InFlight
<1>3. ASSUME NEW v \in InFlight' PROVE Alerting(tx'[v]) /\ tx'[v].alerts \cap alert' = {}
  BY <1>2, <1>3 DEF Serial
<1>4. ASSUME NEW u \in InFlight', NEW v \in InFlight', u # v
      PROVE  tx'[u].match # tx'[v].match \/ tx'[u].match = None
  BY <1>2, <1>4 DEF Serial
<1>5. \A v \in InFlight' : Alerting(tx[v])' <=> Alerting(tx'[v]) BY DEF Alerting
<1> QED BY <1>3, <1>4, <1>5 DEF Serial

\* A request begins under the lock of its court, and alerts of its match only.
LEMMA RequestIsSerial ==
    ASSUME Typed, Serial, NEW w \in Worker, NEW m \in Match, NEW row, NEW todo, NEW alerts,
           Request(w, m, row, todo, alerts),
           \/ alerts = {}
           \/ \E size : alerts = WatchAlerts(m, size)
    PROVE  Serial'
<1> DEFINE t == [match |-> m, row |-> row, todo |-> Told(todo), alerts |-> alerts,
                 rest |-> {}, rows |-> {}]
<1>1. tx' = [tx EXCEPT ![w] = t] /\ alert' = alert /\ clash' = clash /\ CourtFree(m)
  BY DEF Request, Begin, discoveryVars
<1>2. m # None BY NoticeAssumption
<1>3. Alerting(t) /\ t.alerts \cap alert = {}
  BY <1>2, AlertsAreNew DEF Alerting
<1>4. \A v \in InFlight : tx[v].match # t.match BY <1>1 DEF CourtFree
<1> HIDE DEF t
<1>5. ~clash' BY <1>1 DEF Serial
<1>6. \A v \in InFlight : tx[v].alerts \cap alert' = {} BY <1>1 DEF Serial
<1> QED BY <1>1, <1>3, <1>4, <1>5, <1>6, SerialIf

\* What else happens to a transaction leaves its match and its alerts alone.
LEMMA SerialGoesOn ==
    ASSUME Typed, Serial, NEW w \in InFlight, NEW t, tx' = [tx EXCEPT ![w] = t],
           t.match = tx[w].match, t.alerts = tx[w].alerts, alert' = alert, clash' = clash
    PROVE  Serial'
<1>1. w \in Worker BY DEF InFlight
<1>2. Alerting(t) /\ t.alerts \cap alert' = {} BY DEF Serial, Alerting
<1>3. \A v \in InFlight : v # w => tx[v].match # t.match \/ t.match = None BY DEF Serial
<1>4. ~clash' /\ \A v \in InFlight : v # w => tx[v].alerts \cap alert' = {} BY DEF Serial
<1> QED BY <1>1, <1>2, <1>3, <1>4, SerialIf

LEMMA SerialStep == Typed /\ Serial /\ [NoticesNext]_vars => Serial'
<1> SUFFICES ASSUME Typed, Serial, [NoticesNext]_vars PROVE Serial' OBVIOUS
<1>a. tx \in [Worker -> Transaction \cup {None}] BY DEF Typed, NoticesTypeOK
<1>b. \A w \in InFlight : w \in Worker /\ tx[w] \in Transaction BY <1>a DEF InFlight
<1>1. ASSUME NEW w \in Worker, NEW m \in Match, NEW p \in Player \cup {Guest}, NEW soon \in BOOLEAN,
             CreateMatch(w, m, p, soon)
      PROVE  Serial'
  BY <1>1, RequestIsSerial DEF CreateMatch
<1>2. ASSUME NEW w \in Worker, NEW m \in Match, NEW p \in Player \cup {Guest}, JoinMatch(w, m, p)
      PROVE  Serial'
  BY <1>2, RequestIsSerial DEF JoinMatch
<1>3. ASSUME NEW w \in Worker, NEW m \in Match, NEW p \in Player \cup {Guest},
             NEW heir \in Player \cup {Guest}, LeaveMatch(w, m, p, heir)
      PROVE  Serial'
  BY <1>3, RequestIsSerial DEF LeaveMatch
<1>4. ASSUME NEW w \in Worker, NEW m \in Match,
             UpdateMatch(w, m) \/ SearchPlayers(w, m) \/ CancelMatch(w, m)
      PROVE  Serial'
  BY <1>4, RequestIsSerial DEF UpdateMatch, SearchPlayers, CancelMatch
<1>5. ASSUME NEW w \in Worker, PlayNotificationJob(w) PROVE Serial'
  <2> DEFINE t == [match |-> None, row |-> None, todo |-> {}, alerts |-> {},
                   rest |-> {m \in Match : Open(m)}, rows |-> {}]
  <2>1. tx' = [tx EXCEPT ![w] = t] /\ alert' = alert /\ clash' = clash
    BY <1>5 DEF PlayNotificationJob, Begin, discoveryVars
  <2>2. Alerting(t) /\ t.alerts \cap alert = {} /\ t.match = None BY DEF Alerting
  <2> HIDE DEF t
  <2>3. ~clash' /\ \A v \in InFlight : tx[v].alerts \cap alert' = {} BY <2>1 DEF Serial
  <2> QED BY <2>1, <2>2, <2>3, SerialIf
<1>6. ASSUME NEW w \in Worker, JobDispatches(w) PROVE Serial'
  <2>1. w \in InFlight /\ alert' = alert /\ clash' = clash BY <1>6 DEF JobDispatches, discoveryVars
  <2>2. PICK rest, todo : tx' = [tx EXCEPT ![w].rest = rest, ![w].todo = todo]
    BY <1>6 DEF JobDispatches
  <2>3. PICK t : t = [tx[w] EXCEPT !.rest = rest, !.todo = todo] OBVIOUS
  <2>4. tx' = [tx EXCEPT ![w] = t] BY <2>1, <2>2, <2>3, <1>a, <1>b
  <2>5. t.match = tx[w].match /\ t.alerts = tx[w].alerts BY <2>1, <2>3, <1>b DEF Transaction
  <2> QED BY <2>1, <2>4, <2>5, SerialGoesOn
<1>7. ASSUME NEW w \in InFlight, NEW n \in tx[w].todo, Deliver(w, n) \/ Record(w, n) PROVE Serial'
  <2>1. alert' = alert /\ clash' = clash BY <1>7 DEF Deliver, Record, discoveryVars
  <2>2. PICK rows, todo : tx' = [tx EXCEPT ![w].rows = rows, ![w].todo = todo]
    BY <1>7 DEF Deliver, Record
  <2>3. PICK t : t = [tx[w] EXCEPT !.rows = rows, !.todo = todo] OBVIOUS
  <2>4. tx' = [tx EXCEPT ![w] = t] BY <2>2, <2>3, <1>a, <1>b
  <2>5. t.match = tx[w].match /\ t.alerts = tx[w].alerts BY <2>3, <1>b DEF Transaction
  <2> QED BY <2>1, <2>4, <2>5, SerialGoesOn
<1>8. ASSUME NEW w \in Worker, Commit(w) PROVE Serial'
  <2>1. w \in InFlight /\ tx[w].alerts \cap alert = {} BY <1>8 DEF Commit, Serial
  <2>2. tx' = [tx EXCEPT ![w] = None] /\ alert' = alert \cup tx[w].alerts /\ clash' = clash
    <3>1. clash' = (clash \/ ~(tx[w].alerts \cap alert = {})) BY <1>8 DEF Commit
    <3>2. clash \in BOOLEAN BY DEF Typed, NoticesTypeOK
    <3>3. clash' = clash BY <3>1, <3>2, <2>1
    <3> QED BY <1>8, <2>1, <3>3 DEF Commit
  <2>3. ASSUME NEW v \in InFlight, v # w PROVE tx[v].alerts \cap alert' = {}
    <3>1. SUFFICES ASSUME NEW a \in tx[v].alerts, a \in tx[w].alerts PROVE FALSE
      BY <2>2, <2>3 DEF Serial
    <3>2. a.about = tx[v].match /\ a.about = tx[w].match BY <2>1, <3>1 DEF Serial, Alerting
    <3>3. tx[v].match = None BY <2>1, <2>3, <3>2 DEF Serial
    <3> QED BY <3>1, <3>3 DEF Serial, Alerting
  <2>4. ~clash' BY <2>2 DEF Serial
  <2> QED BY <2>2, <2>3, <2>4, SerialIf
<1>9. ASSUME NEW w \in Worker, Dies(w) PROVE Serial'
  <2>1. tx' = [tx EXCEPT ![w] = None] /\ alert' = alert /\ clash' = clash
    BY <1>9 DEF Dies, discoveryVars
  <2>2. ~clash' /\ \A v \in InFlight : tx[v].alerts \cap alert' = {} BY <2>1 DEF Serial
  <2> QED BY <2>1, <2>2, SerialIf
<1>10. ASSUME tx' = tx, clash' = clash, \A a \in alert' : a \in alert \/ a.kind = "DIGEST"
       PROVE  Serial'
  <2>1. \A w \in InFlight : tx[w].alerts \cap alert' = {} BY <1>10 DEF Serial, Alerting
  <2> QED BY <1>10, <2>1 DEF Serial, Alerting, InFlight
<1>11. ASSUME NEW p \in Player,
              \/ \E choice \in Preference : ChoosePreference(p, choice)
              \/ \E e \in Endpoint : RegisterPush(p, e)
              \/ \E gone \in SUBSET Endpoint : RevokePush(p, gone)
       PROVE  Serial'
  <2>1. tx' = tx /\ clash' = clash /\ alert' = alert
    BY <1>11 DEF ChoosePreference, RegisterPush, RevokePush, Short, discoveryVars
  <2> QED BY <1>10, <2>1
<1>12. ASSUME NEW s \in Subscriber, DiscoveryRequest(s) PROVE Serial'
  <2>1. tx' = tx /\ clash' = clash BY <1>12 DEF DiscoveryRequest, Short
  <2>2. alert' = alert
    BY <1>12 DEF DiscoveryRequest, Identify, UpdatePreferences, Follow, Unfollow, SessionEnds
  <2> QED BY <1>10, <2>1, <2>2
<1>13. ASSUME DigestJob PROVE Serial'
  <2>1. tx' = tx /\ clash' = clash BY <1>13 DEF DigestJob, Short
  <2>2. \A a \in alert' : a \in alert \/ a.kind = "DIGEST" BY <1>13 DEF DigestJob, Digest
  <2> QED BY <1>10, <2>1, <2>2
<1>14. ASSUME DayPasses PROVE Serial'
  <2>1. tx' = tx /\ clash' = clash BY <1>14 DEF DayPasses, Later
  <2>2. alert' \subseteq alert BY <1>14 DEF DayPasses, DiscoveryDayPasses
  <2> QED BY <1>10, <2>1, <2>2
<1>15. ASSUME NEW m \in Match, MatchNears(m) \/ SearchCoolsDown(m) \/ Purge({r \in log : r.match = m})
       PROVE  Serial'
  <2>1. tx' = tx /\ clash' = clash /\ alert' = alert
    BY <1>15 DEF MatchNears, SearchCoolsDown, Purge, Later, discoveryVars
  <2> QED BY <1>10, <2>1
<1>16. ASSUME UNCHANGED vars PROVE Serial'
  BY <1>10, <1>16 DEF vars, noticeVars, discoveryVars
<1> QED
  BY <1>1, <1>2, <1>3, <1>4, <1>5, <1>6, <1>7, <1>8, <1>9, <1>11, <1>12, <1>13, <1>14, <1>15, <1>16
  DEF NoticesNext

\* Two requests never alert a subscriber of the same thing: one is rolled back
\* for that reason in no state.  (_create_public_discovery_notification,
\* acquire_single_court_lock)
THEOREM NoRequestFailsOnAnAlert == NoticesSpec => []AlertsNeverClash
<1>1. NoticesInit => Typed /\ Serial
  <2>1. NoticesInit => Typed BY TypedAtFirst
  <2>2. NoticesInit => Serial BY DEF NoticesInit, Serial, InFlight
  <2> QED BY <2>1, <2>2
<1>2. Typed /\ Serial /\ [NoticesNext]_vars => Typed' /\ Serial' BY TypedStep, SerialStep
<1>3. Serial => AlertsNeverClash BY DEF Serial, AlertsNeverClash
<1> QED BY <1>1, <1>2, <1>3, PTL DEF NoticesSpec

-----------------------------------------------------------------------------
(* The cap: the campaigns a player was invited to today, those of the rows *)
(* not committed and those about to be sent included.                      *)

Invited(w, p) == {<<n.match, n.kind>> : n \in {n \in tx[w].todo : n.to = p /\ n.campaign}}

Invitations(p) ==
    CampaignKeys(log, p)
    \cup UNION {CampaignKeys(tx[w].rows, p) \cup Invited(w, p) : w \in InFlight}

WithinCap(S) == IsFiniteSet(S) /\ Cardinality(S) <= PLAY_NOTIFICATION_DAILY_CAP

Capped ==
    ~overlap => /\ \A v, w \in InFlight : v = w
                /\ \A p \in Player : WithinCap(Invitations(p))

LEMMA FewerWithinCap ==
    ASSUME NEW S, NEW T \in SUBSET S, WithinCap(S)
    PROVE  WithinCap(T)
<1>1. IsFiniteSet(S) /\ Cardinality(S) <= PLAY_NOTIFICATION_DAILY_CAP BY DEF WithinCap
<1>2. IsFiniteSet(T) /\ Cardinality(T) <= Cardinality(S) BY <1>1, FS_Subset
<1>3. Cardinality(T) \in Nat /\ Cardinality(S) \in Nat BY <1>1, <1>2, FS_CardinalityType
<1>4. PLAY_NOTIFICATION_DAILY_CAP \in Nat BY NoticeAssumption
<1> QED BY <1>1, <1>2, <1>3, <1>4 DEF WithinCap

\* A campaign adds one invitation to those of a player who is below the cap.
LEMMA CampaignWithinCap ==
    ASSUME NEW p, NEW rows, WithinCap(CampaignKeys(rows, p)),
           NEW todo, NEW kind, NEW m,
           \A n \in todo : n.campaign => n.match = m /\ n.kind = kind /\ UnderCap(rows, n.to),
           NEW S, \A k \in S : \/ k \in CampaignKeys(rows, p)
                              \/ \E n \in todo : n.to = p /\ n.campaign /\ k = <<n.match, n.kind>>
    PROVE  WithinCap(S)
<1>1. CASE S \subseteq CampaignKeys(rows, p) BY <1>1, FewerWithinCap
<1>2. CASE ~(S \subseteq CampaignKeys(rows, p))
  <2> DEFINE K == CampaignKeys(rows, p)
  <2>1. S \subseteq K \cup {<<m, kind>>} OBVIOUS
  <2>2. UnderCap(rows, p) BY <1>2
  <2>3. IsFiniteSet(K) /\ Cardinality(K) < PLAY_NOTIFICATION_DAILY_CAP
    BY <2>2 DEF UnderCap, WithinCap
  <2> HIDE DEF K
  <2>4. Cardinality(K) \in Nat /\ PLAY_NOTIFICATION_DAILY_CAP \in Nat
    BY <2>3, FS_CardinalityType, NoticeAssumption
  <2>5. /\ IsFiniteSet(K \cup {<<m, kind>>})
        /\ Cardinality(K \cup {<<m, kind>>}) = Cardinality(K)
           \/ Cardinality(K \cup {<<m, kind>>}) = Cardinality(K) + 1
    BY <2>3, FS_AddElement
  <2>6. Cardinality(K \cup {<<m, kind>>}) <= PLAY_NOTIFICATION_DAILY_CAP BY <2>3, <2>4, <2>5
  <2>7. WithinCap(K \cup {<<m, kind>>}) BY <2>5, <2>6 DEF WithinCap
  <2> QED BY <2>1, <2>7, FewerWithinCap
<1> QED BY <1>1, <1>2

\* Nobody is invited to more.
LEMMA CappedIf ==
    ASSUME Capped, overlap' = overlap, InFlight' \subseteq InFlight,
           \A p \in Player : Invitations(p)' \subseteq Invitations(p)
    PROVE  Capped'
<1> SUFFICES ASSUME ~overlap
             PROVE  /\ \A v, w \in InFlight' : v = w
                    /\ \A p \in Player : WithinCap(Invitations(p)')
  BY DEF Capped, WithinCap
<1>1. \A p \in Player : WithinCap(Invitations(p)) BY DEF Capped
<1>2. \A p \in Player : WithinCap(Invitations(p)') BY <1>1, FewerWithinCap
<1> QED BY <1>2 DEF Capped

\* A transaction that begins when no other is in flight.
LEMMA BeginIsCapped ==
    ASSUME Typed, Capped, NEW w \in Worker, NEW t, Begin(w, t), t.rows = {},
           NEW kind, NEW m,
           \A n \in t.todo : n.campaign => n.match = m /\ n.kind = kind /\ UnderCap(log, n.to)
    PROVE  Capped'
<1> SUFFICES ASSUME ~overlap'
             PROVE  /\ \A u, v \in InFlight' : u = v
                    /\ \A p \in Player : WithinCap(Invitations(p)')
  BY DEF Capped, WithinCap
<1>1. tx' = [tx EXCEPT ![w] = t] /\ log' = log /\ InFlight = {} /\ ~overlap
  BY DEF Begin
<1>2. \A v \in InFlight' : v = w /\ tx'[v] = t
  BY <1>1 DEF Typed, NoticesTypeOK, InFlight
<1>3. ASSUME NEW p \in Player PROVE WithinCap(Invitations(p)')
  <2>1. WithinCap(CampaignKeys(log, p))
    <3>1. CampaignKeys(log, p) \in SUBSET Invitations(p) /\ WithinCap(Invitations(p))
      BY <1>1 DEF Capped, Invitations
    <3> QED BY <3>1, FewerWithinCap
  <2>2. PICK S : S = Invitations(p)' OBVIOUS
  <2>3. ASSUME NEW k \in S
        PROVE  \/ k \in CampaignKeys(log, p)
               \/ \E n \in t.todo : n.to = p /\ n.campaign /\ k = <<n.match, n.kind>>
    <3>1. k \in CampaignKeys(log, p)
          \/ \E v \in InFlight' : k \in CampaignKeys(tx'[v].rows, p) \/ k \in Invited(v, p)'
      BY <1>1, <2>2 DEF Invitations, CampaignKeys
    <3>2. \A v \in InFlight' : k \notin CampaignKeys(tx'[v].rows, p) BY <1>2 DEF CampaignKeys
    <3>3. ASSUME NEW v \in InFlight', k \in Invited(v, p)'
          PROVE  \E n \in t.todo : n.to = p /\ n.campaign /\ k = <<n.match, n.kind>>
      BY <1>2, <3>3 DEF Invited
    <3> QED BY <3>1, <3>2, <3>3
  <2>4. PICK todo : todo = t.todo OBVIOUS
  <2>5. /\ \A n \in todo : n.campaign => n.match = m /\ n.kind = kind /\ UnderCap(log, n.to)
        /\ \A k \in S : \/ k \in CampaignKeys(log, p)
                       \/ \E n \in todo : n.to = p /\ n.campaign /\ k = <<n.match, n.kind>>
    BY <2>3, <2>4
  <2>6. WithinCap(S) BY ONLY <2>1, <2>5, CampaignWithinCap
  <2> QED BY <2>2, <2>6
<1> QED BY <1>2, <1>3

LEMMA RequestIsCapped ==
    ASSUME Typed, Capped, NEW w \in Worker, NEW m \in Match, NEW row, NEW todo, NEW alerts,
           Request(w, m, row, todo, alerts),
           NEW kind,
           \A n \in todo : n.campaign => n.match = m /\ n.kind = kind /\ UnderCap(log, n.to)
    PROVE  Capped'
<1>1. PICK t : t = [match |-> m, row |-> row, todo |-> Told(todo), alerts |-> alerts,
                    rest |-> {}, rows |-> {}]
  OBVIOUS
<1>2. Begin(w, t) BY <1>1 DEF Request
<1>3. t.rows = {} /\ t.todo \subseteq todo BY <1>1 DEF Told
<1>4. \A n \in t.todo : n.campaign => n.match = m /\ n.kind = kind /\ UnderCap(log, n.to)
  BY <1>3
<1> QED BY <1>2, <1>3, <1>4, BeginIsCapped

\* What a campaign tells, with notices that are of no campaign.
LEMMA CampaignRequestIsCapped ==
    ASSUME Typed, Capped, NEW w \in Worker, NEW m \in Match, NEW row, NEW manual,
           NEW others, \A n \in others : ~n.campaign, NEW alerts,
           Request(w, m, row, others \cup Campaign(m, row, manual, log), alerts)
    PROVE  Capped'
<1>1. PreferencesTyped BY DEF Typed, NoticesTypeOK, PreferencesTyped
<1>2. PICK kind \in CAPPED_KINDS : \A n \in Campaign(m, row, manual, log) :
          n.match = m /\ n.kind = kind /\ n.campaign /\ UnderCap(log, n.to)
  BY <1>1, CampaignIsCapped
<1>3. PICK todo : todo = others \cup Campaign(m, row, manual, log) OBVIOUS
<1>4. \A n \in todo : n.campaign => n.match = m /\ n.kind = kind /\ UnderCap(log, n.to)
  BY <1>2, <1>3
<1>5. Request(w, m, row, todo, alerts) BY <1>3
<1> QED BY <1>4, <1>5, RequestIsCapped

\* A request that invites nobody.
LEMMA QuietRequestIsCapped ==
    ASSUME Typed, Capped, NEW w \in Worker, NEW m \in Match, NEW row, NEW todo,
           \A n \in todo : ~n.campaign, NEW alerts, Request(w, m, row, todo, alerts)
    PROVE  Capped'
<1>1. \A n \in todo : n.campaign => n.match = m /\ n.kind = None /\ UnderCap(log, n.to)
  OBVIOUS
<1> QED BY <1>1, RequestIsCapped

\* What a transaction still invites to stays within what it did.
LEMMA GoesOnCapped ==
    ASSUME Typed, Capped, NEW w \in InFlight, NEW t, tx' = [tx EXCEPT ![w] = t],
           log' = log, overlap' = overlap,
           \A r \in t.rows : r.campaign =>
              \/ r \in tx[w].rows
              \/ \E n \in tx[w].todo : n.campaign /\ n.to = r.to /\ n.match = r.match /\ n.kind = r.kind,
           \A n \in t.todo : n.campaign =>
              \E o \in tx[w].todo : o.campaign /\ o.to = n.to /\ o.match = n.match /\ o.kind = n.kind
    PROVE  Capped'
<1>1. tx \in [Worker -> Transaction \cup {None}] BY DEF Typed, NoticesTypeOK
<1>2. \A v \in InFlight' : (v = w /\ tx'[v] = t) \/ (v # w /\ v \in InFlight /\ tx'[v] = tx[v])
  BY <1>1 DEF InFlight
<1>3. InFlight' \subseteq InFlight BY <1>2
<1>4. ASSUME NEW p \in Player, NEW k \in Invitations(p)' PROVE k \in Invitations(p)
  <2>1. k \in CampaignKeys(log, p)
        \/ \E v \in InFlight' : k \in CampaignKeys(tx'[v].rows, p) \/ k \in Invited(v, p)'
    BY <1>4 DEF Invitations, CampaignKeys
  <2>2. CASE k \in CampaignKeys(log, p) BY <2>2 DEF Invitations
  <2>3. ASSUME NEW v \in InFlight', k \in CampaignKeys(tx'[v].rows, p) PROVE k \in Invitations(p)
    <3>1. CASE v # w
      <4>1. k \in CampaignKeys(tx[v].rows, p) /\ v \in InFlight BY <2>3, <3>1, <1>2
      <4> QED BY <4>1 DEF Invitations
    <3>2. CASE v = w
      <4>1. PICK r \in t.rows : r.to = p /\ r.today /\ r.campaign /\ r.kind \in CAPPED_KINDS
                                /\ k = <<r.match, r.kind>>
        BY <2>3, <3>2, <1>2 DEF CampaignKeys
      <4>2. CASE r \in tx[w].rows
        <5>1. k \in CampaignKeys(tx[w].rows, p) BY <4>1, <4>2 DEF CampaignKeys
        <5> QED BY <5>1 DEF Invitations
      <4>3. CASE r \notin tx[w].rows
        <5>1. k \in Invited(w, p) BY <4>1, <4>3 DEF Invited
        <5> QED BY <5>1 DEF Invitations
      <4> QED BY <4>2, <4>3
    <3> QED BY <3>1, <3>2
  <2>4. ASSUME NEW v \in InFlight', k \in Invited(v, p)' PROVE k \in Invitations(p)
    <3>1. PICK n \in tx'[v].todo : n.to = p /\ n.campaign /\ k = <<n.match, n.kind>>
      BY <2>4 DEF Invited
    <3>2. CASE v # w
      <4>1. k \in Invited(v, p) /\ v \in InFlight BY <3>1, <3>2, <1>2 DEF Invited
      <4> QED BY <4>1 DEF Invitations
    <3>3. CASE v = w
      <4>1. k \in Invited(w, p) BY <3>1, <3>3, <1>2 DEF Invited
      <4> QED BY <4>1 DEF Invitations
    <3> QED BY <3>2, <3>3
  <2> QED BY <2>1, <2>2, <2>3, <2>4
<1>5. \A p \in Player : Invitations(p)' \subseteq Invitations(p) BY <1>4
<1> QED BY <1>3, <1>5, CappedIf

\* ... and so does one that ends.
LEMMA EndsCapped ==
    ASSUME Typed, Capped, NEW w \in InFlight, tx' = [tx EXCEPT ![w] = None],
           overlap' = overlap, log' = log \/ log' = log \cup tx[w].rows
    PROVE  Capped'
<1>1. tx \in [Worker -> Transaction \cup {None}] BY DEF Typed, NoticesTypeOK
<1>2. \A v \in InFlight' : v \in InFlight /\ tx'[v] = tx[v]
  BY <1>1 DEF InFlight
<1>3. InFlight' \subseteq InFlight BY <1>2
<1>4. ASSUME NEW p \in Player, NEW k \in Invitations(p)' PROVE k \in Invitations(p)
  <2>1. \/ \E r \in log \cup tx[w].rows : /\ r.to = p /\ r.today /\ r.campaign
                                          /\ r.kind \in CAPPED_KINDS /\ k = <<r.match, r.kind>>
        \/ \E v \in InFlight' : k \in CampaignKeys(tx'[v].rows, p) \/ k \in Invited(v, p)'
    BY <1>4 DEF Invitations, CampaignKeys
  <2>2. CASE \E r \in log \cup tx[w].rows : /\ r.to = p /\ r.today /\ r.campaign
                                           /\ r.kind \in CAPPED_KINDS /\ k = <<r.match, r.kind>>
    <3>1. k \in CampaignKeys(log, p) \/ k \in CampaignKeys(tx[w].rows, p) BY <2>2 DEF CampaignKeys
    <3> QED BY <3>1 DEF Invitations
  <2>3. ASSUME NEW v \in InFlight', k \in CampaignKeys(tx'[v].rows, p) \/ k \in Invited(v, p)'
        PROVE  k \in Invitations(p)
    <3>1. k \in CampaignKeys(tx[v].rows, p) \/ k \in Invited(v, p) BY <2>3, <1>2 DEF Invited
    <3> QED BY <3>1, <1>2 DEF Invitations
  <2> QED BY <2>1, <2>2, <2>3
<1>5. \A p \in Player : Invitations(p)' \subseteq Invitations(p) BY <1>4
<1> QED BY <1>3, <1>5, CappedIf

LEMMA CappedStep == Typed /\ Capped /\ [NoticesNext]_vars => Capped'
<1> SUFFICES ASSUME Typed, Capped, [NoticesNext]_vars PROVE Capped' OBVIOUS
<1>a. tx \in [Worker -> Transaction \cup {None}] BY DEF Typed, NoticesTypeOK
<1>b. \A w \in InFlight : w \in Worker /\ tx[w] \in Transaction BY <1>a DEF InFlight
<1>c. PreferencesTyped BY DEF Typed, NoticesTypeOK, PreferencesTyped
<1>1. ASSUME NEW w \in Worker, NEW m \in Match, NEW p \in Player \cup {Guest}, NEW soon \in BOOLEAN,
             CreateMatch(w, m, p, soon)
      PROVE  Capped'
  <2>1. PICK row : Request(w, m, row, {} \cup Campaign(m, row, FALSE, log), WatchAlerts(m, Size(row)))
    BY <1>1 DEF CreateMatch
  <2> QED BY <2>1, CampaignRequestIsCapped
<1>2. ASSUME NEW w \in Worker, NEW m \in Match, NEW p \in Player \cup {Guest}, JoinMatch(w, m, p)
      PROVE  Capped'
  <2>1. PICK row : /\ row.creator = match[m].creator
                   /\ \/ Request(w, m, row, ToCreator(m, row, p), {})
                      \/ Request(w, m, row, ToCreator(m, row, p) \cup Campaign(m, row, FALSE, log),
                                 WatchAlerts(m, Size(row)))
    <3>1. match[m] \in MatchRow BY <1>2 DEF JoinMatch, Open, Typed, NoticesTypeOK
    <3>2. PICK more : more = [match[m] EXCEPT !.in = @ \cup ({p} \ {Guest}),
                                              !.guests = IF p = Guest THEN @ + 1 ELSE @]
      OBVIOUS
    <3>3. PICK row : row = [more EXCEPT !.status = IF Size(more) = PLAY_MATCH_SIZE
                                                   THEN "FULL" ELSE "OPEN"]
      OBVIOUS
    <3>4. more.creator = match[m].creator BY <3>1, <3>2 DEF MatchRow
    <3>5. row.creator = match[m].creator BY <3>3, <3>4
    <3> QED BY <1>2, <3>2, <3>3, <3>5 DEF JoinMatch
  <2>2. row.creator \in Player \cup {Guest}
    BY <1>2, <2>1 DEF JoinMatch, Open, Typed, NoticesTypeOK, MatchRow
  <2>3. \A n \in ToCreator(m, row, p) : ~n.campaign BY <2>2, <1>c, CreatorIsTold
  <2> QED BY <2>1, <2>3, CampaignRequestIsCapped, QuietRequestIsCapped
<1>3. ASSUME NEW w \in Worker, NEW m \in Match, NEW p \in Player \cup {Guest},
             NEW heir \in Player \cup {Guest}, LeaveMatch(w, m, p, heir)
      PROVE  Capped'
  <2>1. PICK row : \/ Request(w, m, row, {}, {})
                   \/ Request(w, m, row, {} \cup Campaign(m, row, FALSE, log),
                              WatchAlerts(m, Size(row)))
    BY <1>3 DEF LeaveMatch
  <2> QED BY <2>1, CampaignRequestIsCapped, QuietRequestIsCapped
<1>4. ASSUME NEW w \in Worker, NEW m \in Match, UpdateMatch(w, m) PROVE Capped'
  BY <1>4, QuietRequestIsCapped DEF UpdateMatch
<1>5. ASSUME NEW w \in Worker, NEW m \in Match, SearchPlayers(w, m) PROVE Capped'
  <2>1. PICK row : Request(w, m, row, {} \cup Campaign(m, row, TRUE, log), {})
    BY <1>5 DEF SearchPlayers
  <2> QED BY <2>1, CampaignRequestIsCapped
<1>6. ASSUME NEW w \in Worker, NEW m \in Match, CancelMatch(w, m) PROVE Capped'
  <2>1. match[m].in \subseteq Player
    BY <1>6 DEF CancelMatch, Open, Typed, NoticesTypeOK, MatchRow
  <2>2. \A n \in ToParticipants(m, match[m]) : ~n.campaign BY <2>1, <1>c, ParticipantsAreTold
  <2> QED BY <1>6, <2>2, QuietRequestIsCapped DEF CancelMatch
<1>7. ASSUME NEW w \in Worker, PlayNotificationJob(w) PROVE Capped'
  <2>1. PICK t : Begin(w, t) /\ t.rows = {} /\ t.todo = {} BY <1>7 DEF PlayNotificationJob
  <2>2. \A n \in t.todo : n.campaign => n.match = None /\ n.kind = None /\ UnderCap(log, n.to)
    BY <2>1
  <2> QED BY <2>1, <2>2, BeginIsCapped
<1>8. ASSUME NEW w \in Worker, JobDispatches(w) PROVE Capped'
  <2>1. w \in InFlight /\ tx[w] \in Transaction /\ log' = log /\ overlap' = overlap
    BY <1>8, <1>b DEF JobDispatches
  <2>2. PICK m \in tx[w].rest :
            tx' = [tx EXCEPT ![w].rest = @ \ {m},
                      ![w].todo = IF match[m].future
                                  THEN Told(Campaign(m, match[m], FALSE, log \cup tx[w].rows))
                                  ELSE {}]
    BY <1>8 DEF JobDispatches
  <2>3. PICK rows : rows = log \cup tx[w].rows OBVIOUS
  <2>4. PICK todo : todo = IF match[m].future THEN Told(Campaign(m, match[m], FALSE, rows)) ELSE {}
    OBVIOUS
  <2>5. m \in Match BY <2>1 DEF Transaction
  <2>6. PICK kind \in CAPPED_KINDS : \A n \in todo :
            n.match = m /\ n.kind = kind /\ n.campaign /\ UnderCap(rows, n.to)
    <3>1. PICK kind \in CAPPED_KINDS : \A n \in Campaign(m, match[m], FALSE, rows) :
              n.match = m /\ n.kind = kind /\ n.campaign /\ UnderCap(rows, n.to)
      BY <1>c, <2>5, CampaignIsCapped
    <3> QED BY <3>1, <2>4 DEF Told
  <2>7. PICK t : t = [tx[w] EXCEPT !.rest = @ \ {m}, !.todo = todo] OBVIOUS
  <2>8. tx' = [tx EXCEPT ![w] = t] BY <2>1, <2>2, <2>3, <2>4, <2>7, <1>a
  <2>9. t.rows = tx[w].rows /\ t.todo = todo
    BY <2>1, <2>7 DEF Transaction
  <2>10. SUFFICES ASSUME ~overlap
                  PROVE  /\ \A u, v \in InFlight' : u = v
                         /\ \A p \in Player : WithinCap(Invitations(p)')
    BY <2>1 DEF Capped, WithinCap
  <2>11. \A v \in InFlight : v = w BY <2>1, <2>10 DEF Capped
  <2>12. \A v \in InFlight' : v = w /\ tx'[v] = t /\ t # None BY <2>8, <2>11, <1>a DEF InFlight
  <2>13. ASSUME NEW p \in Player PROVE WithinCap(Invitations(p)')
    <3>1. CampaignKeys(rows, p) \in SUBSET Invitations(p)
      BY <2>1, <2>3 DEF Invitations, CampaignKeys
    <3>2. WithinCap(CampaignKeys(rows, p)) BY <3>1, <2>10, FewerWithinCap DEF Capped
    <3>3. PICK S : S = Invitations(p)' OBVIOUS
    <3>4. ASSUME NEW k \in S
          PROVE  \/ k \in CampaignKeys(rows, p)
                 \/ \E n \in todo : n.to = p /\ n.campaign /\ k = <<n.match, n.kind>>
      <4>1. k \in CampaignKeys(log, p)
            \/ \E v \in InFlight' : k \in CampaignKeys(tx'[v].rows, p) \/ k \in Invited(v, p)'
        BY <2>1, <3>3 DEF Invitations, CampaignKeys
      <4>2. CASE k \in CampaignKeys(log, p) BY <4>2, <2>3 DEF CampaignKeys
      <4>3. ASSUME NEW v \in InFlight', k \in CampaignKeys(tx'[v].rows, p)
            PROVE  k \in CampaignKeys(rows, p)
        BY <4>3, <2>3, <2>9, <2>12 DEF CampaignKeys
      <4>4. ASSUME NEW v \in InFlight', k \in Invited(v, p)'
            PROVE  \E n \in todo : n.to = p /\ n.campaign /\ k = <<n.match, n.kind>>
        BY <4>4, <2>9, <2>12 DEF Invited
      <4> QED BY <4>1, <4>2, <4>3, <4>4
    <3>5. \A n \in todo : n.campaign => n.match = m /\ n.kind = kind /\ UnderCap(rows, n.to)
      BY <2>6
    <3>6. WithinCap(S) BY ONLY <3>2, <3>4, <3>5, CampaignWithinCap
    <3> QED BY <3>3, <3>6
  <2> QED BY <2>12, <2>13
<1>9. ASSUME NEW w \in InFlight, NEW n \in tx[w].todo, Deliver(w, n) \/ Record(w, n) PROVE Capped'
  <2>1. w \in Worker /\ tx[w] \in Transaction /\ n \in Notice BY <1>b DEF Transaction
  <2>2. log' = log /\ overlap' = overlap BY <1>9 DEF Deliver, Record
  <2>3. PICK todo : /\ tx' = [tx EXCEPT ![w].rows = Inserted(w, n), ![w].todo = todo]
                    /\ todo \subseteq tx[w].todo \cup {[n EXCEPT !.sent = TRUE]}
    <3>1. CASE Deliver(w, n)
      <4>1. PICK todo : todo = (tx[w].todo \ {n})
                                 \cup IF n.push THEN {[n EXCEPT !.sent = TRUE]} ELSE {}
        OBVIOUS
      <4> QED BY <3>1, <4>1, <2>1, <1>a DEF Deliver
    <3>2. CASE Record(w, n)
      <4>1. PICK todo : todo = tx[w].todo \ {n} OBVIOUS
      <4> QED BY <3>2, <4>1, <2>1, <1>a DEF Record
    <3> QED BY <1>9, <3>1, <3>2
  <2>4. PICK t : t = [tx[w] EXCEPT !.rows = Inserted(w, n), !.todo = todo] OBVIOUS
  <2>5. tx' = [tx EXCEPT ![w] = t] BY <2>1, <2>3, <2>4, <1>a
  <2>6. t.rows = Inserted(w, n) /\ t.todo = todo BY <2>1, <2>4 DEF Transaction
  <2>7. ASSUME NEW r \in t.rows, r.campaign
        PROVE  \/ r \in tx[w].rows
               \/ \E o \in tx[w].todo : o.campaign /\ o.to = r.to /\ o.match = r.match /\ o.kind = r.kind
    BY <2>1, <2>6, <2>7, InsertedRows
  <2>8. ASSUME NEW o \in t.todo, o.campaign
        PROVE  \E q \in tx[w].todo : q.campaign /\ q.to = o.to /\ q.match = o.match /\ q.kind = o.kind
    <3>1. CASE o = [n EXCEPT !.sent = TRUE]
      <4>1. n.campaign /\ n.to = o.to /\ n.match = o.match /\ n.kind = o.kind
        BY <3>1, <2>1, <2>8 DEF Notice
      <4> QED BY <4>1
    <3>2. CASE o \in tx[w].todo BY <3>2, <2>8
    <3> QED BY <3>1, <3>2, <2>3, <2>6
  <2> QED BY <2>2, <2>5, <2>7, <2>8, GoesOnCapped
<1>10. ASSUME NEW w \in Worker, Commit(w) \/ Dies(w) PROVE Capped'
  <2>1. w \in InFlight /\ tx' = [tx EXCEPT ![w] = None] /\ overlap' = overlap
        /\ (log' = log \/ log' = log \cup tx[w].rows)
    BY <1>10 DEF Commit, Dies
  <2> QED BY <2>1, EndsCapped
<1>11. ASSUME tx' = tx, overlap' = overlap, log' \subseteq log PROVE Capped'
  <2>1. InFlight' \subseteq InFlight BY <1>11 DEF InFlight
  <2>2. \A p \in Player : Invitations(p)' \subseteq Invitations(p)
    BY <1>11 DEF Invitations, CampaignKeys, Invited, InFlight
  <2> QED BY <1>11, <2>1, <2>2, CappedIf
<1>12. ASSUME NEW p \in Player,
              \/ \E choice \in Preference : ChoosePreference(p, choice)
              \/ \E e \in Endpoint : RegisterPush(p, e)
              \/ \E gone \in SUBSET Endpoint : RevokePush(p, gone)
       PROVE  Capped'
  <2>1. tx' = tx /\ overlap' = overlap /\ log' = log
    BY <1>12 DEF ChoosePreference, RegisterPush, RevokePush, Short
  <2> QED BY <1>11, <2>1
<1>13. ASSUME DigestJob \/ \E s \in Subscriber : DiscoveryRequest(s) PROVE Capped'
  <2>1. tx' = tx /\ overlap' = overlap /\ log' = log BY <1>13 DEF DigestJob, DiscoveryRequest, Short
  <2> QED BY <1>11, <2>1
<1>14. ASSUME DayPasses PROVE Capped'
  <2>1. tx' = tx /\ overlap' = overlap /\ InFlight = {} /\ log' = {[r EXCEPT !.today = FALSE] : r \in log}
    BY <1>14 DEF DayPasses, Later
  <2>2. \A r \in log' : ~r.today BY <2>1 DEF Typed, NoticesTypeOK, LogRow
  <2>3. \A p \in Player : Invitations(p)' \subseteq Invitations(p)
    BY <2>1, <2>2 DEF Invitations, CampaignKeys, InFlight
  <2>4. InFlight' \subseteq InFlight BY <2>1 DEF InFlight
  <2> QED BY <2>1, <2>3, <2>4, CappedIf
<1>15. ASSUME NEW m \in Match, MatchNears(m) \/ SearchCoolsDown(m) \/ Purge({r \in log : r.match = m})
       PROVE  Capped'
  <2>1. tx' = tx /\ overlap' = overlap /\ log' \subseteq log
    BY <1>15 DEF MatchNears, SearchCoolsDown, Purge, Later
  <2> QED BY <1>11, <2>1
<1>16. ASSUME UNCHANGED vars PROVE Capped'
  BY <1>11, <1>16 DEF vars, noticeVars
<1> QED
  BY <1>1, <1>2, <1>3, <1>4, <1>5, <1>6, <1>7, <1>8, <1>9, <1>10, <1>12, <1>13, <1>14, <1>15, <1>16
  DEF NoticesNext

\* As long as no two transactions overlap, no player is invited to more
\* campaigns in a day than the cap.  (_campaign_keys_for_player_day)
THEOREM NobodyIsInvitedTooOften == NoticesSpec => []DailyCapHeld
<1>1. NoticesInit => Capped
  <2> SUFFICES ASSUME NoticesInit PROVE Capped OBVIOUS
  <2>1. InFlight = {} /\ log = {} BY DEF NoticesInit, InFlight
  <2>2. \A p \in Player : Invitations(p) = {} BY <2>1 DEF Invitations, CampaignKeys
  <2>3. WithinCap({}) BY FS_EmptySet, NoticeAssumption DEF WithinCap
  <2> QED BY <2>1, <2>2, <2>3 DEF Capped
<1>2. Capped => DailyCapHeld
  <2> SUFFICES ASSUME Capped, ~overlap, NEW p \in Player
               PROVE  Cardinality(CampaignKeys(log, p)) <= PLAY_NOTIFICATION_DAILY_CAP
    BY DEF DailyCapHeld
  <2>1. CampaignKeys(log, p) \in SUBSET Invitations(p) /\ WithinCap(Invitations(p))
    BY DEF Capped, Invitations
  <2>2. WithinCap(CampaignKeys(log, p)) BY <2>1, FewerWithinCap
  <2> QED BY <2>2 DEF WithinCap
<1>3. NoticesInit => Typed /\ Capped BY <1>1, TypedAtFirst
<1>4. Typed /\ Capped /\ [NoticesNext]_vars => Typed' /\ Capped' BY TypedStep, CappedStep
<1> QED BY <1>2, <1>3, <1>4, PTL DEF NoticesSpec

=============================================================================

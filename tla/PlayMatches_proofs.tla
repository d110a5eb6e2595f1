------------------------- MODULE PlayMatches_proofs -------------------------
(***************************************************************************)
(* Matches and the lock of a court, for every value of the constants: the  *)
(* tables change through the operations of Bookings only, no two matches   *)
(* compete for a slot, and a match that is a booking is left alone.        *)
(***************************************************************************)
EXTENDS PlayMatches, Bookings_proofs, SequenceTheorems

-----------------------------------------------------------------------------
(* What rows and requests look like.                                       *)

MatchFields == {"status", "court", "slot", "creator", "players", "booking"}

\* A match, whoever plays in it.  Before it is full it has no booking.
MatchSound(row) ==
    /\ DOMAIN row = MatchFields /\ row = [f \in MatchFields |-> row[f]]
    /\ row.court \in Court /\ row.slot \in Slot
    /\ row.booking \in BookingId \cup {NoId}
    /\ row.status \in {"ABSENT", "OPEN"} => row.booking = NoId

MatchesSound ==
    /\ match \in [MatchId -> {match[m] : m \in MatchId}]
    /\ \A m \in MatchId : MatchSound(match[m])

\* Whoever joins holds the lock of the match's court, and the match is open.
JoinSound(c, r) ==
    /\ r.match \in MatchId /\ match[r.match].court = c
    /\ match[r.match].status = "OPEN"

\* Whoever creates holds the lock of the court, and no match has the slot.
CreateSound(c, r) == r.slot \in Slot /\ ~SameSlotMatch(c, r.slot)

RequestsSound ==
    /\ request \in [Court -> {request[c] : c \in Court}]
    /\ \A c \in Court :
          /\ request[c].kind = "join" => JoinSound(c, request[c])
          /\ request[c].kind = "create" => CreateSound(c, request[c])

PlayInv == MatchesSound /\ RequestsSound /\ SlotMatchedOnce

-----------------------------------------------------------------------------
(* The tables.                                                             *)

\* Every step is one of Bookings, or leaves the tables alone.
LEMMA PlayDrivenStep ==
    ASSUME MatchesSound, RequestsSound, [PlayNext]_playVars
    PROVE  [Next]_vars
<1>1. ASSUME NEW m \in MatchId, MatchStep(m) PROVE UNCHANGED vars
  BY <1>1 DEF MatchStep, CreateCommits, JoinReads, Leave, CancelMatch, Lock
<1>2. ASSUME NEW c \in Court, CourtStep(c) PROVE [Next]_vars
  <2>1. ASSUME NEW b \in BookingId, CompletionCommits(c, b) PROVE Next
    <3>1. match[request[c].match].slot \in Slot
      BY <2>1 DEF CompletionCommits, MatchesSound, RequestsSound, JoinSound, MatchSound
    <3> QED BY <2>1, <3>1 DEF CompletionCommits, Next, CustomerStep
  <2> QED BY <1>2, <2>1 DEF CourtStep, CreateReads, JoinCommits, RollsBack, Lock
<1>3. ASSUME NEW b \in BookingId, AdminCancelsBooking(b) \/ DeskStep(b) PROVE Next
  <2>1. AdminStep(b) BY <1>3 DEF AdminCancelsBooking, DeskStep, AdminStep
  <2> QED BY <2>1 DEF Next
<1>4. ASSUME NEW b \in BookingId, InsertStep(b) PROVE Next
  <2>1. PICK c \in Court, s \in Slot : CreatePublicBooking(b, c, s) \/ CreateAdminBooking(b, c, s)
    BY <1>4 DEF InsertStep
  <2>2. CustomerStep(b) \/ AdminStep(b) BY <2>1 DEF CustomerStep, AdminStep
  <2> QED BY <2>2 DEF Next
<1>5. ASSUME NEW b \in BookingId, PaymentStep(b) PROVE Next
  <2>1. CustomerStep(b) \/ ProviderStep(b) BY <1>5 DEF PaymentStep, CustomerStep
  <2> QED BY <2>1 DEF Next
<1>6. CASE ClubStep
  <2>1. ASSUME NEW b \in BookingId, ExpireOnRead(b) PROVE Next
    BY <2>1 DEF Next, CustomerStep
  <2> QED BY <1>6, <2>1 DEF ClubStep, Next
<1>7. CASE UNCHANGED playVars BY <1>7 DEF playVars, vars
<1> QED BY <1>1, <1>2, <1>3, <1>4, <1>5, <1>6, <1>7 DEF PlayNext

-----------------------------------------------------------------------------
(* One match changes.                                                      *)

\* A match stays where it is, and does not come to life again.
StaysPut(row, next) ==
    /\ MatchSound(next)
    /\ next.court = row.court /\ next.slot = row.slot
    /\ next.status \in {"OPEN", "FULL"} => row.status \in {"OPEN", "FULL"}

\* What the requests about a match do to its row.
LEMMA RowsStayPut ==
    ASSUME NEW row, MatchSound(row), NEW players, NEW p, NEW b
    PROVE  /\ StaysPut(row, [row EXCEPT !.players = players])
           /\ row.status = "OPEN" /\ b \in BookingId => StaysPut(row, CompletedRow(row, players, b))
           /\ row.status \in {"OPEN", "FULL"} /\ row.booking = NoId => StaysPut(row, LeftRow(row, p))
           /\ StaysPut(row, [row EXCEPT !.status = "CANCELLED"])
<1>1. ASSUME NEW status, NEW booked \in BookingId \cup {NoId}, NEW creator, NEW who,
             status \in {"ABSENT", "OPEN"} => booked = NoId,
             status \in {"OPEN", "FULL"} => row.status \in {"OPEN", "FULL"},
             NEW next, next = [status |-> status, court |-> row.court, slot |-> row.slot,
                               creator |-> creator, players |-> who, booking |-> booked]
      PROVE  StaysPut(row, next)
  BY <1>1 DEF StaysPut, MatchSound, MatchFields
<1>2. row = [status |-> row.status, court |-> row.court, slot |-> row.slot,
             creator |-> row.creator, players |-> row.players, booking |-> row.booking]
  BY DEF MatchSound, MatchFields
<1>3. row.booking \in BookingId \cup {NoId} /\ (row.status \in {"ABSENT", "OPEN"} => row.booking = NoId)
  BY DEF MatchSound
<1>4. StaysPut(row, [row EXCEPT !.players = players])
  <2>1. [row EXCEPT !.players = players] =
           [status |-> row.status, court |-> row.court, slot |-> row.slot,
            creator |-> row.creator, players |-> players, booking |-> row.booking]
    BY <1>2
  <2> QED BY <1>1, <1>3, <2>1
<1>5. ASSUME row.status = "OPEN", b \in BookingId PROVE StaysPut(row, CompletedRow(row, players, b))
  <2>1. CompletedRow(row, players, b) =
           [status |-> "FULL", court |-> row.court, slot |-> row.slot,
            creator |-> row.creator, players |-> players, booking |-> b]
    <3>1. CompletedRow(row, players, b) = [row EXCEPT !.players = players, !.status = "FULL", !.booking = b]
      BY DEF CompletedRow
    <3> QED BY <1>2, <3>1
  <2> QED BY <1>1, <1>5, <2>1
<1>6. ASSUME row.status \in {"OPEN", "FULL"}, row.booking = NoId PROVE StaysPut(row, LeftRow(row, p))
  <2> DEFINE rest == RemoveAt(row.players, CHOOSE i \in DOMAIN row.players : row.players[i] = p)
  <2> HIDE DEF rest
  <2>1. \E status \in {"OPEN", "CANCELLED"} : \E creator :
           LeftRow(row, p) = [status |-> status, court |-> row.court, slot |-> row.slot,
                              creator |-> creator, players |-> rest, booking |-> row.booking]
    <3>1. CASE rest = <<>>
      <4>1. LeftRow(row, p) = [row EXCEPT !.players = rest, !.status = "CANCELLED"]
        BY <3>1 DEF LeftRow, rest
      <4>2. LeftRow(row, p) = [status |-> "CANCELLED", court |-> row.court, slot |-> row.slot,
                               creator |-> row.creator, players |-> rest, booking |-> row.booking]
        BY <1>2, <4>1
      <4> QED BY <4>2
    <3>2. CASE rest # <<>>
      <4> DEFINE heir == IF row.creator = p THEN Head(rest) ELSE row.creator
      <4>1. LeftRow(row, p) = [row EXCEPT !.players = rest, !.status = "OPEN", !.creator = heir]
        BY <3>2 DEF LeftRow, rest
      <4> HIDE DEF heir
      <4>2. LeftRow(row, p) = [status |-> "OPEN", court |-> row.court, slot |-> row.slot,
                               creator |-> heir, players |-> rest, booking |-> row.booking]
        BY <1>2, <4>1
      <4> QED BY <4>2
    <3> QED BY <3>1, <3>2
  <2>2. PICK status \in {"OPEN", "CANCELLED"} : \E creator :
           LeftRow(row, p) = [status |-> status, court |-> row.court, slot |-> row.slot,
                              creator |-> creator, players |-> rest, booking |-> row.booking]
    BY <2>1
  <2>3. PICK creator :
           LeftRow(row, p) = [status |-> status, court |-> row.court, slot |-> row.slot,
                              creator |-> creator, players |-> rest, booking |-> row.booking]
    BY <2>2
  <2>4. row.booking \in BookingId \cup {NoId} BY <1>6
  <2> QED BY <1>1, <1>6, <2>3, <2>4
<1>7. StaysPut(row, [row EXCEPT !.status = "CANCELLED"])
  <2>1. [row EXCEPT !.status = "CANCELLED"] =
           [status |-> "CANCELLED", court |-> row.court, slot |-> row.slot,
            creator |-> row.creator, players |-> row.players, booking |-> row.booking]
    BY <1>2
  <2> QED BY <1>1, <1>3, <2>1
<1> QED BY <1>4, <1>5, <1>6, <1>7

\* Matches that stay put take no slot that was not theirs.
LEMMA NoSlotTaken ==
    ASSUME MatchesSound, SlotMatchedOnce, match' \in [MatchId -> {match'[m] : m \in MatchId}],
           \A m \in MatchId : StaysPut(match[m], match'[m])
    PROVE  /\ MatchesSound' /\ SlotMatchedOnce'
           /\ \A c, s : SameSlotMatch(c, s)' => SameSlotMatch(c, s)
<1>1. \A m \in MatchId : /\ Active(m)' => Active(m)
                         /\ match'[m].court = match[m].court /\ match'[m].slot = match[m].slot
                         /\ MatchSound(match'[m])
  BY DEF StaysPut, Active
<1>2. MatchesSound' BY <1>1 DEF MatchesSound, MatchSound
<1>3. SlotMatchedOnce' BY <1>1 DEF SlotMatchedOnce
<1> QED BY <1>1, <1>2, <1>3 DEF SameSlotMatch

\* The same when one match is rewritten.
LEMMA MatchUpdate ==
    ASSUME MatchesSound, SlotMatchedOnce, NEW m \in MatchId, NEW row, StaysPut(match[m], row),
           match' = [match EXCEPT ![m] = row]
    PROVE  /\ MatchesSound' /\ SlotMatchedOnce'
           /\ \A c, s : SameSlotMatch(c, s)' => SameSlotMatch(c, s)
           /\ match'[m] = row /\ \A o \in MatchId \ {m} : match'[o] = match[o]
<1>1. /\ match'[m] = row /\ \A o \in MatchId \ {m} : match'[o] = match[o]
      /\ match' \in [MatchId -> {match'[o] : o \in MatchId}]
  BY DEF MatchesSound
<1>2. \A o \in MatchId : StaysPut(match[o], match'[o]) BY <1>1 DEF StaysPut, MatchesSound
<1> QED BY <1>1, <1>2, NoSlotTaken

-----------------------------------------------------------------------------
(* The lock of a court.                                                    *)

\* The requests on other courts are safe from what happens on this one.
LEMMA OtherCourts ==
    ASSUME RequestsSound, NEW c \in Court, NEW r,
           request' = [request EXCEPT ![c] = r],
           r.kind = "join" => JoinSound(c, r)',
           r.kind = "create" => CreateSound(c, r)',
           \A m \in MatchId : match[m].court # c /\ match[m].status = "OPEN" =>
              match'[m].court = match[m].court /\ match'[m].status = "OPEN",
           \A o \in Court \ {c} : \A s : SameSlotMatch(o, s)' => SameSlotMatch(o, s)
    PROVE  RequestsSound'
<1>1. /\ request'[c] = r /\ \A o \in Court \ {c} : request'[o] = request[o]
      /\ request' \in [Court -> {request'[o] : o \in Court}]
  BY DEF RequestsSound
<1>2. ASSUME NEW o \in Court \ {c}
      PROVE  /\ request'[o].kind = "join" => JoinSound(o, request[o])'
             /\ request'[o].kind = "create" => CreateSound(o, request[o])'
  <2>1. request'[o] = request[o] BY <1>1
  <2>2. ASSUME request[o].kind = "join" PROVE JoinSound(o, request[o])'
    BY <2>1, <2>2 DEF RequestsSound, JoinSound
  <2>3. ASSUME request[o].kind = "create" PROVE CreateSound(o, request[o])'
    BY <2>1, <2>3 DEF RequestsSound, CreateSound
  <2> QED BY <2>1, <2>2, <2>3
<1>3. /\ request'[c].kind = "join" => JoinSound(c, request[c])'
      /\ request'[c].kind = "create" => CreateSound(c, request[c])'
  BY <1>1 DEF JoinSound, CreateSound
<1> QED BY <1>1, <1>2, <1>3 DEF RequestsSound

\* Requests that take no lock leave the matches of locked courts alone.
LEMMA SameRequests ==
    ASSUME RequestsSound, UNCHANGED request,
           \A m \in MatchId :
              match[m].status = "OPEN" /\ request[match[m].court] # Idle =>
                 match'[m].court = match[m].court /\ match'[m].status = "OPEN",
           \A c, s : SameSlotMatch(c, s)' => SameSlotMatch(c, s)
    PROVE  RequestsSound'
<1>1. \A c \in Court : request'[c] = request[c] /\ (request[c].kind = "join" => request[c] # Idle)
  BY DEF Idle
<1>2. ASSUME NEW c \in Court, request[c].kind = "join" PROVE JoinSound(c, request[c])'
  BY <1>1, <1>2 DEF RequestsSound, JoinSound
<1>3. ASSUME NEW c \in Court, request[c].kind = "create" PROVE CreateSound(c, request[c])'
  BY <1>1, <1>3 DEF RequestsSound, CreateSound
<1> QED BY <1>1, <1>2, <1>3 DEF RequestsSound

\* The requests of players.
LEMMA PlayerSteps ==
    ASSUME PlayInv, (\E m \in MatchId : MatchStep(m)) \/ (\E c \in Court : CourtStep(c))
    PROVE  PlayInv'
<1>0. \A m \in MatchId : MatchSound(match[m]) BY DEF PlayInv, MatchesSound
<1>1. ASSUME UNCHANGED match
      PROVE  /\ MatchesSound' /\ SlotMatchedOnce'
             /\ \A c, s : SameSlotMatch(c, s)' <=> SameSlotMatch(c, s)
  BY <1>1 DEF PlayInv, MatchesSound, MatchSound, SlotMatchedOnce, Active, SameSlotMatch
<1>2. ASSUME NEW p \in Player, NEW c \in Court, NEW s \in Slot, CreateReads(p, c, s) PROVE PlayInv'
  <2> DEFINE r == [kind |-> "create", player |-> p, slot |-> s]
  <2>1. UNCHANGED match /\ request' = [request EXCEPT ![c] = r] /\ ~SameSlotMatch(c, s)
    BY <1>2 DEF CreateReads, Lock
  <2>2. r.kind = "create" /\ r.slot = s OBVIOUS
  <2> HIDE DEF r
  <2>3. CreateSound(c, r)' BY <1>1, <2>1, <2>2 DEF CreateSound
  <2>4. RequestsSound' BY <1>1, <2>1, <2>2, <2>3, OtherCourts DEF PlayInv
  <2> QED BY <1>1, <2>1, <2>4 DEF PlayInv
<1>3. ASSUME NEW p \in Player, NEW m \in MatchId, JoinReads(p, m) PROVE PlayInv'
  <2> DEFINE r == [kind |-> "join", player |-> p, match |-> m]
  <2>1. PICK c \in Court : c = match[m].court BY <1>0 DEF MatchSound
  <2>2. UNCHANGED match /\ request' = [request EXCEPT ![c] = r] /\ match[m].status = "OPEN"
    BY <1>3, <2>1 DEF JoinReads, Lock, Modifiable, Active
  <2>3. r.kind = "join" /\ r.match = m OBVIOUS
  <2> HIDE DEF r
  <2>4. JoinSound(c, r)' BY <2>1, <2>2, <2>3 DEF JoinSound
  <2>5. RequestsSound' BY <1>1, <2>2, <2>3, <2>4, OtherCourts DEF PlayInv
  <2> QED BY <1>1, <2>2, <2>5 DEF PlayInv
<1>4. ASSUME NEW c \in Court, request' = [request EXCEPT ![c] = Idle],
             \A m \in MatchId : match[m].court # c /\ match[m].status = "OPEN" =>
                match'[m].court = match[m].court /\ match'[m].status = "OPEN",
             \A o \in Court \ {c} : \A s : SameSlotMatch(o, s)' => SameSlotMatch(o, s)
      PROVE  RequestsSound'
  BY <1>4, OtherCourts DEF PlayInv, Idle
<1>5. ASSUME NEW c \in Court, NEW m \in MatchId, CreateCommits(c, m) PROVE PlayInv'
  <2>1. PICK s \in Slot : s = request[c].slot /\ ~SameSlotMatch(c, s)
    BY <1>5 DEF CreateCommits, PlayInv, RequestsSound, CreateSound
  <2>2. PICK row : /\ row = [status |-> "OPEN", court |-> c, slot |-> s,
                             creator |-> request[c].player, players |-> <<request[c].player>>,
                             booking |-> NoId]
                   /\ match' = [match EXCEPT ![m] = row]
    BY <1>5, <2>1 DEF CreateCommits
  <2>3. MatchSound(row) BY <2>2 DEF MatchSound, MatchFields
  <2>4. /\ match'[m] = row /\ row.court = c /\ row.slot = s /\ row.status = "OPEN"
        /\ \A o \in MatchId \ {m} : match'[o] = match[o]
        /\ match[m].status = "ABSENT" /\ request' = [request EXCEPT ![c] = Idle]
        /\ match' \in [MatchId -> {match'[o] : o \in MatchId}]
    BY <1>5, <2>2 DEF CreateCommits, PlayInv, MatchesSound
  <2>5. MatchesSound' BY <1>0, <2>3, <2>4 DEF MatchesSound, MatchSound
  <2>6. SlotMatchedOnce'
    <3> SUFFICES ASSUME NEW q \in MatchId, NEW o \in MatchId, q # o, Active(q)', Active(o)',
                        match'[q].court = match'[o].court
                 PROVE  match'[q].slot # match'[o].slot
      BY DEF SlotMatchedOnce
    <3>1. ASSUME NEW k \in MatchId \ {m}, Active(k)', match'[k].court = c PROVE match'[k].slot # s
      BY <2>1, <2>4, <3>1 DEF SameSlotMatch, Active
    <3> QED BY <2>4, <3>1 DEF PlayInv, SlotMatchedOnce, Active
  <2>7. \A o \in Court \ {c} : \A t : SameSlotMatch(o, t)' => SameSlotMatch(o, t)
    BY <2>4 DEF SameSlotMatch, Active
  <2>8. RequestsSound' BY <1>4, <2>4, <2>7
  <2> QED BY <2>5, <2>6, <2>8 DEF PlayInv
<1>6. ASSUME NEW c \in Court, NEW m \in MatchId, m = request[c].match, request[c].kind = "join",
             request' = [request EXCEPT ![c] = Idle],
             NEW row, StaysPut(match[m], row), match' = [match EXCEPT ![m] = row]
      PROVE  PlayInv'
  <2>1. /\ MatchesSound' /\ SlotMatchedOnce'
        /\ \A o, s : SameSlotMatch(o, s)' => SameSlotMatch(o, s)
        /\ \A o \in MatchId \ {m} : match'[o] = match[o]
    BY <1>6, MatchUpdate DEF PlayInv
  <2>2. match[m].court = c BY <1>6 DEF PlayInv, RequestsSound, JoinSound
  <2>3. RequestsSound' BY <1>4, <1>6, <2>1, <2>2
  <2> QED BY <2>1, <2>3 DEF PlayInv
<1>7. ASSUME NEW c \in Court, JoinCommits(c) PROVE PlayInv'
  <2>1. PICK m \in MatchId : m = request[c].match
    BY <1>7 DEF JoinCommits, PlayInv, RequestsSound, JoinSound
  <2> DEFINE row == [match[m] EXCEPT !.players = Joined(c)]
  <2>2. StaysPut(match[m], row) BY <1>0, RowsStayPut
  <2>3. /\ match' = [match EXCEPT ![m] = row] /\ request' = [request EXCEPT ![c] = Idle]
        /\ request[c].kind = "join"
    BY <1>7, <2>1 DEF JoinCommits
  <2> HIDE DEF row
  <2> QED BY <1>6, <2>1, <2>2, <2>3
<1>8. ASSUME NEW c \in Court, NEW b \in BookingId, CompletionCommits(c, b) PROVE PlayInv'
  <2>1. PICK m \in MatchId : m = request[c].match /\ match[m].status = "OPEN"
    BY <1>8 DEF CompletionCommits, PlayInv, RequestsSound, JoinSound
  <2> DEFINE row == CompletedRow(match[m], Joined(c), b)
  <2>2. StaysPut(match[m], row) BY <1>0, <2>1, RowsStayPut
  <2>3. /\ match' = [match EXCEPT ![m] = row] /\ request' = [request EXCEPT ![c] = Idle]
        /\ request[c].kind = "join"
    BY <1>8, <2>1 DEF CompletionCommits
  <2> HIDE DEF row
  <2> QED BY <1>6, <2>1, <2>2, <2>3
<1>9. ASSUME NEW c \in Court, RollsBack(c) PROVE PlayInv'
  <2>1. UNCHANGED match /\ request' = [request EXCEPT ![c] = Idle] BY <1>9 DEF RollsBack
  <2>2. RequestsSound' BY <1>1, <1>4, <2>1
  <2> QED BY <1>1, <2>1, <2>2 DEF PlayInv
<1>10. ASSUME NEW m \in MatchId, request[match[m].court] = Idle, UNCHANGED request,
              NEW row, StaysPut(match[m], row), match' = [match EXCEPT ![m] = row]
       PROVE  PlayInv'
  <2>1. /\ MatchesSound' /\ SlotMatchedOnce'
        /\ \A o, s : SameSlotMatch(o, s)' => SameSlotMatch(o, s)
        /\ \A o \in MatchId \ {m} : match'[o] = match[o]
    BY <1>10, MatchUpdate DEF PlayInv
  <2>2. RequestsSound' BY <1>10, <2>1, SameRequests DEF PlayInv
  <2> QED BY <2>1, <2>2 DEF PlayInv
<1>11. ASSUME NEW p \in Player, NEW m \in MatchId, Leave(p, m) PROVE PlayInv'
  <2> DEFINE row == LeftRow(match[m], p)
  <2>1. /\ match' = [match EXCEPT ![m] = row] /\ UNCHANGED request
        /\ request[match[m].court] = Idle
        /\ match[m].status \in {"OPEN", "FULL"} /\ match[m].booking = NoId
    BY <1>11 DEF Leave, Modifiable, Active
  <2>2. StaysPut(match[m], row) BY <1>0, <2>1, RowsStayPut
  <2> HIDE DEF row
  <2> QED BY <1>10, <2>1, <2>2
<1>12. ASSUME NEW p \in Player, NEW m \in MatchId, CancelMatch(p, m) PROVE PlayInv'
  <2> DEFINE row == [match[m] EXCEPT !.status = "CANCELLED"]
  <2>1. /\ match' = [match EXCEPT ![m] = row] /\ UNCHANGED request
        /\ request[match[m].court] = Idle
    BY <1>12 DEF CancelMatch, PlayInv, MatchesSound
  <2>2. StaysPut(match[m], row) BY <1>0, RowsStayPut
  <2> HIDE DEF row
  <2> QED BY <1>10, <2>1, <2>2
<1> QED BY <1>2, <1>3, <1>5, <1>7, <1>8, <1>9, <1>11, <1>12 DEF MatchStep, CourtStep

\* Cancelling a booking cancels the match it came from, which no request on its
\* court is about.
LEMMA CancelledMatches ==
    ASSUME PlayInv, NEW b \in BookingId, AdminCancelsBooking(b)
    PROVE  /\ PlayInv'
           /\ \A m \in MatchId :
                 match'[m] = IF match[m].booking = b THEN [match[m] EXCEPT !.status = "CANCELLED"]
                             ELSE match[m]
<1>1. /\ UNCHANGED request /\ match' \in [MatchId -> {match'[m] : m \in MatchId}]
      /\ \A m \in MatchId :
            match'[m] = IF match[m].booking = b THEN [match[m] EXCEPT !.status = "CANCELLED"]
                        ELSE match[m]
  BY DEF AdminCancelsBooking, LinkedMatchCancelled
<1>2. ASSUME NEW m \in MatchId
      PROVE  /\ StaysPut(match[m], match'[m])
             /\ match[m].status = "OPEN" => match'[m] = match[m]
  <2>1. MatchSound(match[m]) BY DEF PlayInv, MatchesSound
  <2>2. StaysPut(match[m], match[m]) BY <2>1 DEF StaysPut
  <2>3. StaysPut(match[m], [match[m] EXCEPT !.status = "CANCELLED"]) BY <2>1, RowsStayPut
  <2>4. match[m].status = "OPEN" => match[m].booking # b BY <2>1, NoIdAssumption DEF MatchSound
  <2> QED BY <1>1, <2>2, <2>3, <2>4
<1>3. /\ MatchesSound' /\ SlotMatchedOnce'
      /\ \A c, s : SameSlotMatch(c, s)' => SameSlotMatch(c, s)
  BY <1>1, <1>2, NoSlotTaken DEF PlayInv
<1>4. RequestsSound' BY <1>1, <1>2, <1>3, SameRequests DEF PlayInv
<1> QED BY <1>1, <1>3, <1>4 DEF PlayInv

LEMMA PlaySame == PlayInv /\ UNCHANGED <<match, request>> => PlayInv'
  BY DEF PlayInv, MatchesSound, MatchSound, RequestsSound, JoinSound, CreateSound, SameSlotMatch,
         SlotMatchedOnce, Active

LEMMA PlayInvariant == PlayInv /\ [PlayNext]_playVars => PlayInv'
<1>1. ASSUME PlayInv, NEW b \in BookingId, InsertStep(b) \/ PaymentStep(b) \/ DeskStep(b)
      PROVE  PlayInv'
  BY <1>1, PlaySame DEF InsertStep, PaymentStep, DeskStep, matchVars
<1>2. ASSUME PlayInv, ClubStep \/ UNCHANGED playVars PROVE PlayInv'
  BY <1>2, PlaySame DEF ClubStep, matchVars, playVars
<1> QED BY <1>1, <1>2, PlayerSteps, CancelledMatches DEF PlayNext

LEMMA InitPlay == PlayInit => PlayInv
<1> SUFFICES ASSUME PlayInit PROVE PlayInv OBVIOUS
<1>1. MatchSound(NoMatch)
  <2>1. (CHOOSE c \in Court : TRUE) \in Court /\ (CHOOSE s \in Slot : TRUE) \in Slot
    BY NonEmptyAssumption
  <2> QED BY <2>1 DEF NoMatch, MatchSound, MatchFields
<1>2. match = [m \in MatchId |-> NoMatch] /\ request = [c \in Court |-> Idle] BY DEF PlayInit
<1>3. NoMatch.status = "ABSENT" BY DEF NoMatch
<1> HIDE DEF NoMatch
<1>4. MatchesSound BY <1>1, <1>2 DEF MatchesSound
<1>5. SlotMatchedOnce BY <1>2, <1>3 DEF SlotMatchedOnce, Active
<1>6. RequestsSound BY <1>2 DEF RequestsSound, Idle
<1> QED BY <1>4, <1>5, <1>6 DEF PlayInv

LEMMA PlayCorrect == PlaySpec => [](TypeOK /\ PlayInv)
<1>1. PlayInit => TypeOK /\ PlayInv BY InitType, InitPlay DEF PlayInit
<1>2. TypeOK /\ PlayInv /\ [PlayNext]_playVars => (TypeOK /\ PlayInv)'
  BY PlayDrivenStep, PlayInvariant, NextType DEF PlayInv
<1> QED BY <1>1, <1>2, PTL DEF PlaySpec

-----------------------------------------------------------------------------
(* What follows of it.                                                     *)

\* Matches reach the tables only through the operations of Bookings, so that
\* its theorems hold with matches too.  (_complete_match_booking)
THEOREM PlayDrivesBookings == PlaySpec => MatchesDriveBookings
<1>1. PlayInit => Init BY DEF PlayInit
<1>2. PlayInv /\ [PlayNext]_playVars => [Next]_vars BY PlayDrivenStep DEF PlayInv
<1> QED BY <1>1, <1>2, PlayCorrect, PTL DEF PlaySpec, Spec, MatchesDriveBookings

\* The lock of a court is enough for one match per court and slot, although
\* what a request has read is committed later.  (_find_same_slot_match)
THEOREM OneMatchPerSlot == PlaySpec => []SlotMatchedOnce
  BY PlayCorrect, PTL DEF PlayInv

\* The requests of players leave a match alone that is a booking.
LEMMA PlayersLeaveIt ==
    ASSUME PlayInv, (\E m \in MatchId : MatchStep(m)) \/ (\E c \in Court : CourtStep(c)),
           NEW m \in MatchId, match[m].booking # NoId
    PROVE  match'[m] = match[m]
<1>1. match[m].status \notin {"ABSENT", "OPEN"} BY DEF PlayInv, MatchesSound, MatchSound
<1>2. ASSUME NEW c \in Court, JoinCommits(c) \/ \E b \in BookingId : CompletionCommits(c, b)
      PROVE  match'[m] = match[m]
  <2>1. match[request[c].match].status = "OPEN" /\ request[c].match \in MatchId
    BY <1>2 DEF JoinCommits, CompletionCommits, PlayInv, RequestsSound, JoinSound
  <2> QED BY <1>1, <1>2, <2>1 DEF JoinCommits, CompletionCommits, PlayInv, MatchesSound
<1>3. ASSUME NEW c \in Court, NEW o \in MatchId, CreateCommits(c, o) PROVE match'[m] = match[m]
  BY <1>1, <1>3 DEF CreateCommits, PlayInv, MatchesSound
<1>4. ASSUME NEW p \in Player, NEW o \in MatchId, Leave(p, o) \/ CancelMatch(p, o)
      PROVE  match'[m] = match[m]
  BY <1>4 DEF Leave, CancelMatch, PlayInv, MatchesSound
<1> QED BY <1>2, <1>3, <1>4 DEF MatchStep, CourtStep, JoinReads, CreateReads, RollsBack, Lock

\* Once a match is a booking, only the cancellation of the booking changes it.
\* (_cancel_linked_play_match_for_booking)
THEOREM BookedMatchIsFrozen == PlaySpec => CompletedMatchIsFrozen
<1>1. TypeOK /\ PlayInv /\ [PlayNext]_playVars => [FrozenStep]_playVars
  <2> SUFFICES ASSUME TypeOK, PlayInv, PlayNext PROVE FrozenStep OBVIOUS
  <2> SUFFICES ASSUME NEW m \in MatchId, match[m].booking # NoId, match'[m] # match[m]
               PROVE  /\ match'[m] = [match[m] EXCEPT !.status = "CANCELLED"]
                      /\ booking[match[m].booking].status # "CANCELLED"
                      /\ booking'[match[m].booking].status = "CANCELLED"
    BY DEF FrozenStep
  <2>1. PICK b \in BookingId : AdminCancelsBooking(b)
    BY PlayersLeaveIt DEF PlayNext, InsertStep, PaymentStep, DeskStep, ClubStep, matchVars
  <2>2. match'[m] = [match[m] EXCEPT !.status = "CANCELLED"] /\ match[m].booking = b
    BY <2>1, CancelledMatches
  <2>3. booking[b].status # "CANCELLED" /\ booking'[b].status = "CANCELLED"
    <3>1. booking[b] \in Row BY RowOf
    <3>2. booking' = [booking EXCEPT ![b] = [CancelRow(booking[b]) EXCEPT
                         !.completed = FALSE, !.noShow = FALSE, !.balance = FALSE]]
          /\ booking[b].status # "CANCELLED"
      BY <2>1 DEF AdminCancelsBooking, AdminCancel, MayMoveTo, ADMIN_ALLOWED_STATUS_TRANSITIONS
    <3>3. [CancelRow(booking[b]) EXCEPT !.completed = FALSE, !.noShow = FALSE, !.balance = FALSE].status
             = "CANCELLED"
      BY <3>1 DEF CancelRow, Row, BookingRow
    <3> QED BY <3>2, <3>3 DEF TypeOK
  <2> QED BY <2>2, <2>3
<1> QED BY <1>1, PlayCorrect, PTL DEF PlaySpec, CompletedMatchIsFrozen

-----------------------------------------------------------------------------
(* A booking and its match share their fate.                               *)

\* A place without a booking was made by nobody's match, and a match that has a
\* booking is full or cancelled.
FollowInv ==
    /\ \A b \in BookingId : ~Exists(b) => booking[b].origin # "play"
    /\ \A m \in MatchId : match[m].booking # NoId =>
          booking[match[m].booking].origin = "play" /\ match[m].status \in {"FULL", "CANCELLED"}
    /\ BookingFollowsMatch

\* A row that is a match's booking stays one, as cancelled as it was.
RowFollows(row, next) ==
    /\ next.origin = "play" <=> row.origin = "play"
    /\ row.origin = "play" => (next.status = "CANCELLED" <=> row.status = "CANCELLED")
    /\ row.status \notin Gone => next.status \notin Gone \/ row.origin # "play"

Followed == \A b \in BookingId : RowFollows(booking[b], booking'[b])

LEMMA FollowUpdate ==
    ASSUME TypeOK, NEW b \in BookingId, NEW row, RowFollows(booking[b], row),
           booking' = [booking EXCEPT ![b] = row]
    PROVE  Followed
  BY DEF TypeOK, Followed, RowFollows

LEMMA FollowSame == UNCHANGED booking => Followed
  BY DEF Followed, RowFollows

\* What expiry, payment and cancellation do to a row.
LEMMA FollowRows ==
    ASSUME NEW row \in Row, NEW t, NEW p
    PROVE  /\ HoldLapsed(row, t) => RowFollows(row, ExpireRow(row))
           /\ row.status # "CANCELLED" => RowFollows(row, PayRow(row, p))
           /\ row.origin # "play" => RowFollows(row, CancelRow(row))
<1>1. HoldLapsed(row, t) => RowFollows(row, ExpireRow(row))
  BY DEF RowFollows, HoldLapsed, ExpireRow, Gone, Row, BookingRow
<1>2. row.status # "CANCELLED" => RowFollows(row, PayRow(row, p))
  BY DEF RowFollows, PayRow, Gone, Row, BookingRow
<1>3. row.origin # "play" => RowFollows(row, CancelRow(row))
  BY DEF RowFollows, CancelRow, Gone, Row, BookingRow
<1> QED BY <1>1, <1>2, <1>3

LEMMA FollowExpire ==
    ASSUME TypeOK, NEW B, NEW t, Expire(B, t)
    PROVE  Followed
<1> SUFFICES ASSUME NEW o \in BookingId PROVE RowFollows(booking[o], booking'[o]) BY DEF Followed
<1>1. \/ booking'[o] = booking[o]
      \/ HoldLapsed(booking[o], t) /\ booking'[o] = ExpireRow(booking[o])
  BY DEF Expire
<1> QED BY <1>1, RowOf, FollowRows DEF RowFollows

\* The requests about payments keep to it.
LEMMA FollowPayments ==
    ASSUME TypeOK, NEW b \in BookingId, PaymentStep(b)
    PROVE  Followed
<1>1. booking[b] \in Row BY RowOf
<1>2. ASSUME NEW p \in OnlineProvider, NEW o, StartCheckout(b, p, o) PROVE Followed
  <2>1. booking' = [booking EXCEPT ![b] = [booking[b] EXCEPT !.provider = p, !.payStatus = "INITIATED"]]
    BY <1>2 DEF StartCheckout, TypeOK
  <2>2. RowFollows(booking[b], [booking[b] EXCEPT !.provider = p, !.payStatus = "INITIATED"])
    BY <1>1 DEF RowFollows, Row, BookingRow
  <2> QED BY <2>1, <2>2, FollowUpdate
<1>3. ASSUME NEW p \in OnlineProvider, CancelCheckout(b, p) PROVE Followed
  <2>1. CASE HoldLapsed(booking[b], now) BY <1>3, <2>1, FollowExpire DEF CancelCheckout
  <2>2. CASE ~HoldLapsed(booking[b], now)
    <3>1. booking' = [booking EXCEPT ![b] = [booking[b] EXCEPT !.provider = p, !.payStatus = "CANCELLED"]]
      BY <1>3, <2>2 DEF CancelCheckout, TypeOK
    <3>2. RowFollows(booking[b], [booking[b] EXCEPT !.provider = p, !.payStatus = "CANCELLED"])
      BY <1>1 DEF RowFollows, Row, BookingRow
    <3> QED BY <3>1, <3>2, FollowUpdate
  <2> QED BY <2>1, <2>2
<1>4. ASSUME ProviderStep(b) PROVE Followed
  <2>1. PICK p \in OnlineProvider, o \in Ref, k \in Ref, t \in 0..now : ConfirmPayment(b, p, o, k, t)
    BY <1>4 DEF ProviderStep
  <2>2. \/ UNCHANGED booking
        \/ HoldLapsed(booking[b], t) /\ booking' = [booking EXCEPT ![b] = ExpireRow(booking[b])]
        \/ /\ booking[b].status # "CANCELLED"
           /\ booking' = [booking EXCEPT ![b] = PayRow(booking[b], p)]
    BY <2>1 DEF ConfirmPayment, TypeOK
  <2> QED BY <1>1, <2>2, FollowSame, FollowRows, FollowUpdate
<1>5. ASSUME CancelWithoutRefund(b) \/ \E outcome : CancelWithRefund(b, outcome) PROVE Followed
  <2>1. booking[b].origin # "play" /\ booking' = [booking EXCEPT ![b] = CancelRow(booking[b])]
    BY <1>5 DEF CancelWithoutRefund, CancelWithRefund, PublicCancellable
  <2> QED BY <1>1, <2>1, FollowRows, FollowUpdate
<1>6. ASSUME RefundFails(b) PROVE Followed BY <1>6, FollowSame DEF RefundFails
<1> QED BY <1>2, <1>3, <1>4, <1>5, <1>6 DEF PaymentStep

\* So do insertions by others, and the administrator short of a cancellation.
LEMMA FollowDesk ==
    ASSUME TypeOK, FollowInv, NEW b \in BookingId, InsertStep(b) \/ DeskStep(b)
    PROVE  Followed
<1>1. booking[b] \in Row BY RowOf
<1>2. ASSUME InsertStep(b) PROVE Followed
  <2>1. booking[b].status = "ABSENT" /\ booking[b].origin # "play"
    BY <1>2 DEF InsertStep, CreatePublicBooking, CreateAdminBooking, Insert, FollowInv, Exists, Gone
  <2>2. PICK row : /\ booking' = [booking EXCEPT ![b] = row]
                   /\ row.origin # "play"
    <3> DEFINE New(row) == row.origin # "play"
    <3>1. \A status, c, s, deposit, p, e :
             /\ New(NewBooking(status, c, s, deposit, p, e, "public"))
             /\ New(NewBooking(status, c, s, deposit, p, e, "admin"))
      BY DEF NewBooking
    <3> HIDE DEF New
    <3>2. \E row : booking' = [booking EXCEPT ![b] = row] /\ New(row)
      BY <1>2, <3>1 DEF InsertStep, CreatePublicBooking, CreateAdminBooking, Insert
    <3> QED BY <3>2 DEF New
  <2>3. RowFollows(booking[b], row) BY <2>1, <2>2 DEF RowFollows
  <2> QED BY <2>2, <2>3, FollowUpdate
<1>3. ASSUME NEW c \in Court, NEW s \in Slot, AdminUpdate(b, c, s) PROVE Followed
  <2>1. booking' = [booking EXCEPT ![b] = [booking[b] EXCEPT !.court = c, !.slot = s]]
    BY <1>3 DEF AdminUpdate, TypeOK
  <2>2. RowFollows(booking[b], [booking[b] EXCEPT !.court = c, !.slot = s])
    BY <1>1 DEF RowFollows, Row, BookingRow
  <2> QED BY <2>1, <2>2, FollowUpdate
<1>4. ASSUME NEW target \in BookingStatus, AdminSetOutcome(b, target) PROVE Followed
  <2>1. /\ target \in {"CONFIRMED", "COMPLETED", "NO_SHOW"}
        /\ booking[b].status \in {"CONFIRMED", "COMPLETED", "NO_SHOW"}
        /\ booking' = [booking EXCEPT ![b] = OutcomeRow(booking[b], target)]
    BY <1>4 DEF AdminSetOutcome, MayMoveTo, ADMIN_ALLOWED_STATUS_TRANSITIONS
  <2>2. RowFollows(booking[b], OutcomeRow(booking[b], target))
    BY <1>1, <2>1 DEF OutcomeRow, RowFollows, Gone, Row, BookingRow
  <2> QED BY <2>1, <2>2, FollowUpdate
<1>5. ASSUME MarkBalancePaid(b) PROVE Followed
  <2>1. booking' = [booking EXCEPT ![b] = [booking[b] EXCEPT !.balance = TRUE]]
    BY <1>5 DEF MarkBalancePaid, TypeOK
  <2>2. RowFollows(booking[b], [booking[b] EXCEPT !.balance = TRUE])
    BY <1>1 DEF RowFollows, Row, BookingRow
  <2> QED BY <2>1, <2>2, FollowUpdate
<1>6. ASSUME DeleteBooking(b) PROVE Followed
  <2>1. RowFollows(booking[b], NoBooking("DELETED"))
    BY <1>6 DEF DeleteBooking, RowFollows, NoBooking, NewBooking
  <2> QED BY <1>6, <2>1, FollowUpdate DEF DeleteBooking
<1> QED BY <1>2, <1>3, <1>4, <1>5, <1>6 DEF DeskStep

\* Matches that keep their bookings, over bookings that follow, stay together.
LEMMA FollowKept ==
    ASSUME TypeOK, PlayInv, FollowInv, Followed,
           \A m \in MatchId : /\ match'[m].booking = match[m].booking
                              /\ match[m].booking # NoId => match'[m] = match[m]
    PROVE  FollowInv'
<1>1. \A m \in MatchId : match[m].booking \in BookingId \cup {NoId}
  BY DEF PlayInv, MatchesSound, MatchSound
<1>2. \A m \in MatchId : match'[m].booking # NoId =>
         booking'[match'[m].booking].origin = "play" /\ match'[m].status \in {"FULL", "CANCELLED"}
  BY <1>1 DEF FollowInv, Followed, RowFollows
<1>3. ASSUME NEW b \in BookingId, booking'[b].origin = "play"
      PROVE  \E m \in MatchId :
                /\ {o \in MatchId : match'[o].booking = b} = {m}
                /\ match'[m].status = "CANCELLED" <=> booking'[b].status = "CANCELLED"
                /\ match'[m].status # "CANCELLED" => match'[m].status = "FULL"
  <2>1. booking[b].origin = "play" /\ (booking'[b].status = "CANCELLED" <=> booking[b].status = "CANCELLED")
    BY <1>3 DEF Followed, RowFollows
  <2>2. PICK m \in MatchId :
           /\ {o \in MatchId : match[o].booking = b} = {m}
           /\ match[m].status = "CANCELLED" <=> booking[b].status = "CANCELLED"
           /\ match[m].status # "CANCELLED" => match[m].status = "FULL"
    BY <2>1 DEF FollowInv, BookingFollowsMatch
  <2>3. match'[m] = match[m] BY <2>2, NoIdAssumption
  <2>4. {o \in MatchId : match'[o].booking = b} = {m} BY <2>2
  <2> QED BY <2>1, <2>2, <2>3, <2>4
<1>4. \A b \in BookingId : booking'[b].status \in Gone => booking'[b].origin # "play"
  BY DEF FollowInv, Followed, RowFollows, Exists
<1> QED BY <1>2, <1>3, <1>4 DEF FollowInv, BookingFollowsMatch, Exists

\* The last player's booking is the match's own.
LEMMA FollowCompletion ==
    ASSUME TypeOK, PlayInv, FollowInv, NEW c \in Court, NEW b \in BookingId, CompletionCommits(c, b)
    PROVE  FollowInv'
<1>1. PICK m \in MatchId : m = request[c].match /\ match[m].status = "OPEN"
  BY DEF CompletionCommits, PlayInv, RequestsSound, JoinSound
<1> DEFINE row == CompletedRow(match[m], Joined(c), b)
<1>2. match[m].booking = NoId BY <1>1 DEF PlayInv, MatchesSound, MatchSound
<1>3. row.booking = b /\ row.status = "FULL"
  <2>1. DOMAIN match[m] = MatchFields BY DEF PlayInv, MatchesSound, MatchSound
  <2> QED BY <2>1 DEF CompletedRow, MatchFields
<1>4. match'[m] = row /\ \A o \in MatchId \ {m} : match'[o] = match[o]
  BY <1>1 DEF CompletionCommits, PlayInv, MatchesSound
<1> HIDE DEF row
<1>5. PICK next : /\ booking' = [booking EXCEPT ![b] = next]
                  /\ next.origin = "play" /\ next.status \in {"PENDING_PAYMENT", "CONFIRMED"}
                  /\ booking[b].status = "ABSENT"
  <2> DEFINE New(next) == next.origin = "play" /\ next.status \in {"PENDING_PAYMENT", "CONFIRMED"}
  <2>1. \A court, s, deposit, p, e :
           /\ New(NewBooking("PENDING_PAYMENT", court, s, deposit, p, e, "play"))
           /\ New(NewBooking("CONFIRMED", court, s, deposit, p, e, "play"))
    BY DEF NewBooking
  <2> HIDE DEF New
  <2>2. \E next : /\ booking' = [booking EXCEPT ![b] = next] /\ New(next)
                  /\ booking[b].status = "ABSENT"
    <3>1. PICK s : CreatePlayBooking(b, c, s) BY DEF CompletionCommits
    <3>2. \/ \E p : Insert(b, NewBooking("PENDING_PAYMENT", c, s, TRUE, p, now + HoldTicks, "play"))
          \/ Insert(b, NewBooking("CONFIRMED", c, s, FALSE, "NONE", NoTime, "play"))
      BY <3>1, Zenon DEF CreatePlayBooking
    <3>3. \E next : Insert(b, next) /\ New(next) BY <2>1, <3>2
    <3> QED BY <3>3 DEF Insert
  <2> QED BY <2>2 DEF New
<1>6. booking'[b] = next /\ \A o \in BookingId \ {b} : booking'[o] = booking[o]
  BY <1>5 DEF TypeOK
<1>7. \A o \in MatchId : match[o].booking # b
  <2>1. booking[b].origin # "play" BY <1>5 DEF FollowInv, Exists, Gone
  <2> QED BY <2>1, NoIdAssumption DEF FollowInv
<1>8. \A o \in MatchId : match[o].booking \in BookingId \cup {NoId}
  BY DEF PlayInv, MatchesSound, MatchSound
<1>9. ASSUME NEW o \in MatchId, match'[o].booking # NoId
      PROVE  /\ booking'[match'[o].booking].origin = "play"
             /\ match'[o].status \in {"FULL", "CANCELLED"}
  <2>1. CASE o = m BY <1>3, <1>4, <1>5, <1>6, <2>1
  <2>2. CASE o # m BY <1>4, <1>6, <1>7, <1>8, <1>9, <2>2 DEF FollowInv
  <2> QED BY <2>1, <2>2
<1>10. ASSUME NEW k \in BookingId, booking'[k].origin = "play"
       PROVE  \E o \in MatchId :
                 /\ {q \in MatchId : match'[q].booking = k} = {o}
                 /\ match'[o].status = "CANCELLED" <=> booking'[k].status = "CANCELLED"
                 /\ match'[o].status # "CANCELLED" => match'[o].status = "FULL"
  <2>1. CASE k = b
    <3>1. {q \in MatchId : match'[q].booking = b} = {m} BY <1>3, <1>4, <1>7
    <3> QED BY <1>3, <1>4, <1>5, <1>6, <2>1, <3>1
  <2>2. CASE k # b
    <3>1. PICK o \in MatchId :
             /\ {q \in MatchId : match[q].booking = k} = {o}
             /\ match[o].status = "CANCELLED" <=> booking[k].status = "CANCELLED"
             /\ match[o].status # "CANCELLED" => match[o].status = "FULL"
      BY <1>6, <1>10, <2>2 DEF FollowInv, BookingFollowsMatch
    <3>2. o # m BY <1>2, <3>1, NoIdAssumption
    <3>3. {q \in MatchId : match'[q].booking = k} = {o} BY <1>2, <1>3, <1>4, <2>2, <3>1, NoIdAssumption
    <3> QED BY <1>4, <1>6, <2>2, <3>1, <3>2, <3>3
  <2> QED BY <2>1, <2>2
<1>11. ASSUME NEW k \in BookingId, booking'[k].status \in Gone PROVE booking'[k].origin # "play"
  BY <1>5, <1>6, <1>11 DEF FollowInv, Exists, Gone
<1> QED BY <1>9, <1>10, <1>11 DEF FollowInv, BookingFollowsMatch, Exists

\* Administrator, booking and match.
LEMMA FollowCancel ==
    ASSUME TypeOK, PlayInv, FollowInv, NEW b \in BookingId, AdminCancelsBooking(b)
    PROVE  FollowInv'
<1>1. ASSUME NEW m \in MatchId
      PROVE  /\ match'[m].booking = match[m].booking
             /\ match'[m].status = IF match[m].booking = b THEN "CANCELLED" ELSE match[m].status
  <2>1. DOMAIN match[m] = MatchFields BY DEF PlayInv, MatchesSound, MatchSound
  <2> QED BY <2>1, CancelledMatches DEF MatchFields
<1>2. /\ booking'[b].origin = booking[b].origin /\ booking'[b].status = "CANCELLED"
      /\ Exists(b) /\ \A o \in BookingId \ {b} : booking'[o] = booking[o]
  <2>1. booking[b] \in Row BY RowOf
  <2> DEFINE row == [CancelRow(booking[b]) EXCEPT !.completed = FALSE, !.noShow = FALSE, !.balance = FALSE]
  <2>2. row.origin = booking[b].origin /\ row.status = "CANCELLED"
    BY <2>1 DEF CancelRow, Row, BookingRow
  <2>3. booking' = [booking EXCEPT ![b] = row] /\ booking[b].status \notin Gone
    BY DEF AdminCancelsBooking, AdminCancel, MayMoveTo, ADMIN_ALLOWED_STATUS_TRANSITIONS, Gone
  <2> HIDE DEF row
  <2> QED BY <2>2, <2>3 DEF TypeOK, Exists
<1>3. \A m \in MatchId : match[m].booking \in BookingId \cup {NoId}
  BY DEF PlayInv, MatchesSound, MatchSound
<1>4. \A m \in MatchId : match'[m].booking # NoId =>
         booking'[match'[m].booking].origin = "play" /\ match'[m].status \in {"FULL", "CANCELLED"}
  BY <1>1, <1>2, <1>3 DEF FollowInv
<1>5. ASSUME NEW k \in BookingId, booking'[k].origin = "play"
      PROVE  \E m \in MatchId :
                /\ {o \in MatchId : match'[o].booking = k} = {m}
                /\ match'[m].status = "CANCELLED" <=> booking'[k].status = "CANCELLED"
                /\ match'[m].status # "CANCELLED" => match'[m].status = "FULL"
  <2>1. booking[k].origin = "play" BY <1>2, <1>5
  <2>2. PICK m \in MatchId :
           /\ {o \in MatchId : match[o].booking = k} = {m}
           /\ match[m].status = "CANCELLED" <=> booking[k].status = "CANCELLED"
           /\ match[m].status # "CANCELLED" => match[m].status = "FULL"
    BY <2>1 DEF FollowInv, BookingFollowsMatch
  <2>3. {o \in MatchId : match'[o].booking = k} = {m} BY <1>1, <2>2
  <2>4. match[m].booking = k BY <2>2
  <2> QED BY <1>1, <1>2, <2>2, <2>3, <2>4
<1>6. ASSUME NEW k \in BookingId, booking'[k].status \in Gone PROVE booking'[k].origin # "play"
  BY <1>2, <1>6 DEF FollowInv, Exists, Gone
<1> QED BY <1>4, <1>5, <1>6 DEF FollowInv, BookingFollowsMatch, Exists

\* The requests of players that complete no match give no match a booking.
LEMMA PlayersBookNothing ==
    ASSUME PlayInv, (\E m \in MatchId : MatchStep(m)) \/ (\E c \in Court : CourtStep(c)),
           ~\E c \in Court, b \in BookingId : CompletionCommits(c, b), NEW m \in MatchId
    PROVE  UNCHANGED booking /\ match'[m].booking = match[m].booking
<1>1. MatchSound(match[m]) /\ DOMAIN match[m] = MatchFields
  BY DEF PlayInv, MatchesSound, MatchSound
<1>2. UNCHANGED booking
  BY DEF MatchStep, CreateCommits, JoinReads, Leave, CancelMatch, CourtStep, CreateReads,
         JoinCommits, RollsBack, Lock, vars
<1>3. ASSUME NEW c \in Court, JoinCommits(c) PROVE match'[m].booking = match[m].booking
  <2>1. match'[m] = match[m] \/ match'[m] = [match[m] EXCEPT !.players = Joined(c)]
    BY <1>3 DEF JoinCommits, PlayInv, MatchesSound
  <2> QED BY <1>1, <2>1 DEF MatchFields
<1>4. ASSUME NEW c \in Court, NEW o \in MatchId, CreateCommits(c, o)
      PROVE  match'[m].booking = match[m].booking
  <2>1. CASE o = m
    <3>1. match'[m].booking = NoId BY <1>4, <2>1 DEF CreateCommits, PlayInv, MatchesSound
    <3>2. match[m].booking = NoId BY <1>1, <1>4, <2>1 DEF CreateCommits, MatchSound
    <3> QED BY <3>1, <3>2
  <2>2. CASE o # m BY <1>4, <2>2 DEF CreateCommits, PlayInv, MatchesSound
  <2> QED BY <2>1, <2>2
<1>5. ASSUME NEW p \in Player, NEW o \in MatchId, Leave(p, o)
      PROVE  match'[m].booking = match[m].booking
  <2>1. match'[m] = match[m] \/ match'[m] = LeftRow(match[m], p)
    BY <1>5 DEF Leave, PlayInv, MatchesSound
  <2>2. LeftRow(match[m], p).booking = match[m].booking
    <3> DEFINE rest == RemoveAt(match[m].players, CHOOSE i \in DOMAIN match[m].players : match[m].players[i] = p)
    <3> HIDE DEF rest
    <3>1. \/ LeftRow(match[m], p) = [match[m] EXCEPT !.players = rest, !.status = "CANCELLED"]
          \/ \E heir : LeftRow(match[m], p) =
                [match[m] EXCEPT !.players = rest, !.status = "OPEN", !.creator = heir]
      BY DEF LeftRow, rest
    <3> QED BY <1>1, <3>1 DEF MatchFields
  <2> QED BY <2>1, <2>2
<1>6. ASSUME NEW p \in Player, NEW o \in MatchId, CancelMatch(p, o)
      PROVE  match'[m].booking = match[m].booking
  <2>1. match'[m] = match[m] \/ match'[m] = [match[m] EXCEPT !.status = "CANCELLED"]
    BY <1>6 DEF CancelMatch, PlayInv, MatchesSound
  <2> QED BY <1>1, <2>1 DEF MatchFields
<1> QED BY <1>2, <1>3, <1>4, <1>5, <1>6
        DEF MatchStep, CourtStep, JoinReads, CreateReads, RollsBack, Lock

LEMMA FollowStep == TypeOK /\ PlayInv /\ FollowInv /\ [PlayNext]_playVars => FollowInv'
<1> SUFFICES ASSUME TypeOK, PlayInv, FollowInv, [PlayNext]_playVars PROVE FollowInv' OBVIOUS
<1>1. ASSUME (\E m \in MatchId : MatchStep(m)) \/ (\E c \in Court : CourtStep(c)) PROVE FollowInv'
  <2>1. CASE \E c \in Court, b \in BookingId : CompletionCommits(c, b) BY <2>1, FollowCompletion
  <2>2. CASE ~\E c \in Court, b \in BookingId : CompletionCommits(c, b)
    <3>1. \A m \in MatchId : /\ match'[m].booking = match[m].booking
                             /\ match[m].booking # NoId => match'[m] = match[m]
      BY <1>1, <2>2, PlayersBookNothing, PlayersLeaveIt
    <3>2. Followed
      <4>1. CASE MatchId = {} BY <1>1, <2>2, <4>1, FollowSame
                              DEF CourtStep, CreateReads, JoinCommits, RollsBack, Lock, vars
      <4>2. CASE MatchId # {} BY <1>1, <2>2, <4>2, PlayersBookNothing, FollowSame
      <4> QED BY <4>1, <4>2
    <3> QED BY <3>1, <3>2, FollowKept
  <2> QED BY <2>1, <2>2
<1>2. ASSUME NEW b \in BookingId, InsertStep(b) \/ PaymentStep(b) \/ DeskStep(b) PROVE FollowInv'
  <2>1. Followed BY <1>2, FollowPayments, FollowDesk
  <2>2. match' = match BY <1>2 DEF InsertStep, PaymentStep, DeskStep, matchVars
  <2> QED BY <2>1, <2>2, FollowKept
<1>3. CASE ClubStep \/ UNCHANGED playVars
  <2>1. match' = match BY <1>3 DEF ClubStep, matchVars, playVars
  <2>2. Followed
    BY <1>3, FollowSame, FollowExpire
       DEF ClubStep, CreateBlackout, ExpirePendingJob, ExpireOnRead, Tick, playVars
  <2> QED BY <2>1, <2>2, FollowKept
<1> QED BY <1>1, <1>2, <1>3, FollowCancel DEF PlayNext

LEMMA FollowHolds == PlaySpec => []FollowInv
<1>1. PlayInit => FollowInv
  BY DEF PlayInit, Init, NoMatch, NoBooking, NewBooking, FollowInv, BookingFollowsMatch
<1>2. TypeOK /\ PlayInv /\ FollowInv /\ [PlayNext]_playVars => FollowInv' BY FollowStep
<1> QED BY <1>1, <1>2, PlayCorrect, PTL DEF PlaySpec

\* A booking made by a match belongs to that one match, which is full as long as
\* the booking may be confirmed, and the two are cancelled together.
\* (_complete_match_booking, _cancel_linked_play_match_for_booking)
THEOREM MatchAndBookingShareTheirFate == PlaySpec => []BookingFollowsMatch
  BY FollowHolds, PTL DEF FollowInv

-----------------------------------------------------------------------------
(* Who plays in a match.                                                   *)

\* A sequence without the element at one place.
LEMMA WithoutPlace ==
    ASSUME NEW S, NEW s \in Seq(S), NEW i \in 1..Len(s)
    PROVE  /\ RemoveAt(s, i) \in Seq(S) /\ Len(RemoveAt(s, i)) = Len(s) - 1
           /\ \A j \in 1..Len(s) - 1 : RemoveAt(s, i)[j] = IF j < i THEN s[j] ELSE s[j + 1]
<1> DEFINE before == SubSeq(s, 1, i - 1)
           after == SubSeq(s, i + 1, Len(s))
<1>1. Len(s) \in Nat /\ i \in 1..Len(s) /\ \A j \in 1..Len(s) : s[j] \in S OBVIOUS
<1>2. /\ before \in Seq(S) /\ Len(before) = i - 1
      /\ \A j \in 1..i - 1 : before[j] = s[j]
  <2>1. /\ before \in Seq(S) /\ Len(before) = IF 1 <= i - 1 THEN (i - 1) - 1 + 1 ELSE 0
        /\ \A j \in 1..(i - 1) - 1 + 1 : before[j] = s[1 + j - 1]
    BY <1>1, SubSeqProperties
  <2> HIDE DEF before
  <2>2. \A j \in 1..i - 1 : j \in 1..(i - 1) - 1 + 1 /\ 1 + j - 1 = j BY <1>1
  <2> QED BY <1>1, <2>1, <2>2
<1>3. /\ after \in Seq(S) /\ Len(after) = Len(s) - i
      /\ \A j \in 1..Len(s) - i : after[j] = s[i + j]
  <2>1. /\ after \in Seq(S) /\ Len(after) = IF i + 1 <= Len(s) THEN Len(s) - (i + 1) + 1 ELSE 0
        /\ \A j \in 1..Len(s) - (i + 1) + 1 : after[j] = s[i + 1 + j - 1]
    BY <1>1, SubSeqProperties
  <2> HIDE DEF after
  <2>2. \A j \in 1..Len(s) - i : j \in 1..Len(s) - (i + 1) + 1 /\ i + 1 + j - 1 = i + j BY <1>1
  <2> QED BY <1>1, <2>1, <2>2
<1>4. RemoveAt(s, i) = before \o after BY DEF RemoveAt
<1> HIDE DEF before, after
<1>5. /\ before \o after \in Seq(S) /\ Len(before \o after) = Len(before) + Len(after)
      /\ \A j \in 1..Len(before) + Len(after) : (before \o after)[j] =
            IF j <= Len(before) THEN before[j] ELSE after[j - Len(before)]
  BY <1>2, <1>3, ConcatProperties
<1>6. Len(before) + Len(after) = Len(s) - 1 BY <1>1, <1>2, <1>3
<1>7. ASSUME NEW j \in 1..Len(s) - 1
      PROVE  RemoveAt(s, i)[j] = IF j < i THEN s[j] ELSE s[j + 1]
  <2>1. RemoveAt(s, i)[j] = IF j <= i - 1 THEN before[j] ELSE after[j - (i - 1)]
    BY <1>2, <1>4, <1>5, <1>6, <1>7
  <2>2. CASE j < i
    <3>1. j \in 1..i - 1 /\ j <= i - 1 BY <1>1, <1>7, <2>2
    <3> QED BY <1>2, <2>1, <2>2, <3>1
  <2>3. CASE ~(j < i)
    <3>1. j - (i - 1) \in 1..Len(s) - i /\ i + (j - (i - 1)) = j + 1 /\ ~(j <= i - 1)
      BY <1>1, <1>7, <2>3
    <3> QED BY <1>3, <2>1, <2>3, <3>1
  <2> QED BY <2>2, <2>3
<1> QED BY <1>4, <1>5, <1>6, <1>7

\* When one of several players leaves, the others stay, each once.
LEMMA PlayerRemoved ==
    ASSUME NEW S, NEW s \in Seq(S), NEW i \in 1..Len(s), IsInjective(s)
    PROVE  /\ IsInjective(RemoveAt(s, i))
           /\ \A p : p \in ToSet(RemoveAt(s, i)) <=> p \in ToSet(s) /\ p # s[i]
<1> DEFINE r == RemoveAt(s, i)
<1>1. /\ r \in Seq(S) /\ Len(r) = Len(s) - 1
      /\ \A j \in 1..Len(s) - 1 : r[j] = IF j < i THEN s[j] ELSE s[j + 1]
  BY WithoutPlace
<1> HIDE DEF r
<1>2. /\ DOMAIN r = 1..Len(s) - 1 /\ DOMAIN s = 1..Len(s) /\ Len(s) \in Nat /\ i \in 1..Len(s)
  BY <1>1
<1>3. \A j, k \in 1..Len(s) : s[j] = s[k] => j = k BY <1>2 DEF IsInjective
<1>4. IsInjective(r)
  <2> SUFFICES ASSUME NEW j \in 1..Len(s) - 1, NEW k \in 1..Len(s) - 1, r[j] = r[k] PROVE j = k
    BY <1>2 DEF IsInjective
  <2> DEFINE from(q) == IF q < i THEN q ELSE q + 1
  <2>1. from(j) \in 1..Len(s) /\ from(k) \in 1..Len(s) BY <1>2
  <2>2. s[from(j)] = s[from(k)] BY <1>1
  <2>3. from(j) = from(k) BY <1>3, <2>1, <2>2
  <2> QED BY <1>2, <2>3
<1>5. ASSUME NEW p, p \in ToSet(r) PROVE p \in ToSet(s) /\ p # s[i]
  <2>1. PICK j \in 1..Len(s) - 1 : p = r[j] BY <1>2, <1>5 DEF ToSet
  <2> DEFINE k == IF j < i THEN j ELSE j + 1
  <2>2. k \in 1..Len(s) /\ k # i BY <1>2
  <2>3. p = s[k] BY <1>1, <2>1
  <2> HIDE DEF k
  <2> QED BY <1>2, <1>3, <2>2, <2>3 DEF ToSet
<1>6. ASSUME NEW p, p \in ToSet(s), p # s[i] PROVE p \in ToSet(r)
  <2>1. PICK k \in 1..Len(s) : p = s[k] BY <1>2, <1>6 DEF ToSet
  <2> DEFINE j == IF k < i THEN k ELSE k - 1
  <2>2. k # i BY <1>6, <2>1
  <2>3. j \in 1..Len(s) - 1 /\ k = IF j < i THEN j ELSE j + 1 BY <1>2, <2>2
  <2> HIDE DEF j
  <2>4. p = r[j] BY <1>1, <2>1, <2>3
  <2> QED BY <1>2, <2>3, <2>4 DEF ToSet
<1> QED BY <1>4, <1>5, <1>6 DEF r

\* A player who was not there joins at the end.
LEMMA PlayerAppended ==
    ASSUME NEW S, NEW s \in Seq(S), NEW e \in S, IsInjective(s), e \notin ToSet(s)
    PROVE  /\ Append(s, e) \in Seq(S) /\ Len(Append(s, e)) = Len(s) + 1
           /\ IsInjective(Append(s, e))
           /\ \A p : p \in ToSet(Append(s, e)) <=> p \in ToSet(s) \/ p = e
<1> DEFINE r == Append(s, e)
<1>1. /\ r \in Seq(S) /\ Len(r) = Len(s) + 1
      /\ \A i \in 1..Len(s) : r[i] = s[i]
      /\ r[Len(s) + 1] = e
  BY AppendProperties
<1> HIDE DEF r
<1>2. DOMAIN r = 1..Len(s) + 1 /\ DOMAIN s = 1..Len(s) /\ Len(s) \in Nat BY <1>1
<1>3. \A i \in 1..Len(s) : s[i] # e BY <1>2 DEF ToSet
<1>4. IsInjective(r)
  <2> SUFFICES ASSUME NEW j \in 1..Len(s) + 1, NEW k \in 1..Len(s) + 1, r[j] = r[k] PROVE j = k
    BY <1>2 DEF IsInjective
  <2> QED BY <1>1, <1>2, <1>3 DEF IsInjective
<1>5. \A p : p \in ToSet(r) <=> p \in ToSet(s) \/ p = e
  <2>1. ASSUME NEW p, p \in ToSet(r) PROVE p \in ToSet(s) \/ p = e
    BY <1>1, <1>2, <2>1 DEF ToSet
  <2>2. ASSUME NEW p, p \in ToSet(s) PROVE p \in ToSet(r)
    BY <1>1, <1>2, <2>2 DEF ToSet
  <2>3. e \in ToSet(r)
    <3>1. Len(s) + 1 \in DOMAIN r BY <1>2
    <3> QED BY <1>1, <3>1 DEF ToSet
  <2> QED BY <2>1, <2>2, <2>3
<1> QED BY <1>1, <1>4, <1>5 DEF r

\* A match, as to its players.
Whole(row) ==
    /\ row.players \in Seq(Player) /\ IsInjective(row.players)
    /\ row.status \in {"ABSENT", "OPEN", "FULL", "CANCELLED"} /\ row.creator \in Player \cup {NoId}
    /\ row.status = "OPEN" =>
          /\ Len(row.players) \in 1..PLAY_MATCH_SIZE - 1
          /\ row.creator \in ToSet(row.players)
    /\ row.status = "FULL" => Len(row.players) = PLAY_MATCH_SIZE /\ row.booking # NoId

\* No match on the court but those excluded has the player at the time.
Alone(c, p, s, excluded) ==
    \A o \in MatchId \ excluded :
        Active(o) /\ match[o].court = c /\ Overlaps(match[o].slot, s) => p \notin Participants(o)

\* What a request has read of the player and of the match holds until it commits.
JoinWhole(c, r) ==
    /\ r.player \in Player /\ r.player \notin Participants(r.match)
    /\ Len(match[r.match].players) < PLAY_MATCH_SIZE
    /\ Alone(c, r.player, match[r.match].slot, {r.match})

CreateWhole(c, r) == r.player \in Player /\ Alone(c, r.player, r.slot, {})

RequestsWhole ==
    \A c \in Court : /\ request[c] \in CourtRequest
                     /\ request[c].kind = "join" => JoinWhole(c, request[c])
                     /\ request[c].kind = "create" => CreateWhole(c, request[c])

WholeInv == (\A m \in MatchId : Whole(match[m])) /\ PlayerOncePerCourt /\ RequestsWhole

\* A match's row, field by field.
LEMMA RowRewritten ==
    ASSUME NEW row, MatchSound(row), NEW players, NEW creator, NEW b
    PROVE  /\ [row EXCEPT !.players = players] =
                 [status |-> row.status, court |-> row.court, slot |-> row.slot,
                  creator |-> row.creator, players |-> players, booking |-> row.booking]
           /\ [row EXCEPT !.players = players, !.status = "CANCELLED"] =
                 [status |-> "CANCELLED", court |-> row.court, slot |-> row.slot,
                  creator |-> row.creator, players |-> players, booking |-> row.booking]
           /\ [row EXCEPT !.players = players, !.status = "OPEN", !.creator = creator] =
                 [status |-> "OPEN", court |-> row.court, slot |-> row.slot,
                  creator |-> creator, players |-> players, booking |-> row.booking]
           /\ [row EXCEPT !.players = players, !.status = "FULL", !.booking = b] =
                 [status |-> "FULL", court |-> row.court, slot |-> row.slot,
                  creator |-> row.creator, players |-> players, booking |-> b]
<1>1. row = [status |-> row.status, court |-> row.court, slot |-> row.slot,
             creator |-> row.creator, players |-> row.players, booking |-> row.booking]
  BY DEF MatchSound, MatchFields
<1>2. [row EXCEPT !.players = players] =
         [status |-> row.status, court |-> row.court, slot |-> row.slot,
          creator |-> row.creator, players |-> players, booking |-> row.booking]
  BY <1>1
<1>3. [row EXCEPT !.players = players, !.status = "CANCELLED"] =
         [status |-> "CANCELLED", court |-> row.court, slot |-> row.slot,
          creator |-> row.creator, players |-> players, booking |-> row.booking]
  <2>1. ASSUME NEW next, next = [row EXCEPT !.players = players, !.status = "CANCELLED"]
        PROVE  next = [status |-> "CANCELLED", court |-> row.court, slot |-> row.slot,
                   creator |-> row.creator, players |-> players, booking |-> row.booking]
    BY <1>1, <2>1
  <2> QED BY <2>1
<1>4. [row EXCEPT !.players = players, !.status = "OPEN", !.creator = creator] =
         [status |-> "OPEN", court |-> row.court, slot |-> row.slot,
          creator |-> creator, players |-> players, booking |-> row.booking]
  <2>1. ASSUME NEW next, next = [row EXCEPT !.players = players, !.status = "OPEN", !.creator = creator]
        PROVE  next = [status |-> "OPEN", court |-> row.court, slot |-> row.slot,
                   creator |-> creator, players |-> players, booking |-> row.booking]
    BY <1>1, <2>1
  <2> QED BY <2>1
<1>5. [row EXCEPT !.players = players, !.status = "FULL", !.booking = b] =
         [status |-> "FULL", court |-> row.court, slot |-> row.slot,
          creator |-> row.creator, players |-> players, booking |-> b]
  <2>1. ASSUME NEW next, next = [row EXCEPT !.players = players, !.status = "FULL", !.booking = b]
        PROVE  next = [status |-> "FULL", court |-> row.court, slot |-> row.slot,
                   creator |-> row.creator, players |-> players, booking |-> b]
    BY <1>1, <2>1
  <2> QED BY <2>1
<1> QED BY <1>2, <1>3, <1>4, <1>5

\* The rows that the requests about a match write.
LEMMA RowsStayWhole ==
    ASSUME NEW row, MatchSound(row), Whole(row), row.status = "OPEN"
    PROVE  /\ \A p \in Player : p \notin ToSet(row.players) =>
                 LET players == Append(row.players, p) IN
                 /\ \A q : q \in ToSet(players) <=> q \in ToSet(row.players) \/ q = p
                 /\ Len(players) < PLAY_MATCH_SIZE => Whole([row EXCEPT !.players = players])
                 /\ \A b \in BookingId :
                       Len(players) = PLAY_MATCH_SIZE => Whole(CompletedRow(row, players, b))
           /\ \A p \in ToSet(row.players) :
                 /\ Whole(LeftRow(row, p))
                 /\ ToSet(LeftRow(row, p).players) \subseteq ToSet(row.players)
<1> DEFINE Made(status, creator, players, booked) ==
             [status |-> status, court |-> row.court, slot |-> row.slot,
              creator |-> creator, players |-> players, booking |-> booked]
<1>1. \A status, creator, players, booked :
         /\ Made(status, creator, players, booked).status = status
         /\ Made(status, creator, players, booked).creator = creator
         /\ Made(status, creator, players, booked).players = players
         /\ Made(status, creator, players, booked).booking = booked
  OBVIOUS
<1>2. row = Made(row.status, row.creator, row.players, row.booking)
  BY DEF MatchSound, MatchFields
<1>3. ASSUME NEW players, NEW creator, NEW b
      PROVE  /\ [row EXCEPT !.players = players] =
                   Made(row.status, row.creator, players, row.booking)
             /\ [row EXCEPT !.players = players, !.status = "CANCELLED"] =
                   Made("CANCELLED", row.creator, players, row.booking)
             /\ [row EXCEPT !.players = players, !.status = "OPEN", !.creator = creator] =
                   Made("OPEN", creator, players, row.booking)
             /\ [row EXCEPT !.players = players, !.status = "FULL", !.booking = b] =
                   Made("FULL", row.creator, players, b)
  BY RowRewritten
<1> HIDE DEF Made
<1>4. /\ row.players \in Seq(Player) /\ IsInjective(row.players)
      /\ Len(row.players) \in 1..PLAY_MATCH_SIZE - 1 /\ row.creator \in ToSet(row.players)
      /\ row.creator \in Player \cup {NoId}
  BY DEF Whole
<1>5. PLAY_MATCH_SIZE \in Nat /\ Len(row.players) \in Nat BY <1>4, MatchAssumption
<1>6. ASSUME NEW p \in Player, p \notin ToSet(row.players), NEW players,
             players = Append(row.players, p)
      PROVE  /\ \A q : q \in ToSet(players) <=> q \in ToSet(row.players) \/ q = p
             /\ Len(players) < PLAY_MATCH_SIZE => Whole([row EXCEPT !.players = players])
             /\ \A b \in BookingId :
                   Len(players) = PLAY_MATCH_SIZE => Whole(CompletedRow(row, players, b))
  <2>1. /\ players \in Seq(Player) /\ Len(players) = Len(row.players) + 1 /\ IsInjective(players)
        /\ \A q : q \in ToSet(players) <=> q \in ToSet(row.players) \/ q = p
    BY <1>4, <1>6, PlayerAppended
  <2>2. ASSUME Len(players) < PLAY_MATCH_SIZE PROVE Whole([row EXCEPT !.players = players])
    <3>1. [row EXCEPT !.players = players] = Made("OPEN", row.creator, players, row.booking) BY <1>3
    <3>2. Len(players) \in 1..PLAY_MATCH_SIZE - 1 BY <1>4, <1>5, <2>1, <2>2
    <3> QED BY <1>1, <1>4, <2>1, <3>1, <3>2 DEF Whole
  <2>3. ASSUME NEW b \in BookingId, Len(players) = PLAY_MATCH_SIZE
        PROVE  Whole(CompletedRow(row, players, b))
    <3>1. CompletedRow(row, players, b) = Made("FULL", row.creator, players, b)
      BY <1>3 DEF CompletedRow
    <3> QED BY <1>1, <2>1, <2>3, <3>1, NoIdAssumption DEF Whole
  <2> QED BY <2>1, <2>2, <2>3
<1>7. ASSUME NEW p \in ToSet(row.players)
      PROVE  /\ Whole(LeftRow(row, p)) /\ ToSet(LeftRow(row, p).players) \subseteq ToSet(row.players)
  <2> DEFINE place == CHOOSE i \in DOMAIN row.players : row.players[i] = p
             rest == RemoveAt(row.players, place)
  <2>1. place \in DOMAIN row.players /\ row.players[place] = p BY DEF ToSet
  <2>2. place \in 1..Len(row.players) BY <1>4, <2>1
  <2> HIDE DEF place
  <2>3. /\ rest \in Seq(Player) /\ Len(rest) = Len(row.players) - 1 /\ IsInjective(rest)
        /\ \A q : q \in ToSet(rest) <=> q \in ToSet(row.players) /\ q # p
    BY <1>4, <2>1, <2>2, WithoutPlace, PlayerRemoved
  <2>4. LeftRow(row, p) =
           IF rest = <<>> THEN [row EXCEPT !.players = rest, !.status = "CANCELLED"]
           ELSE [row EXCEPT !.players = rest, !.status = "OPEN",
                            !.creator = IF row.creator = p THEN Head(rest) ELSE row.creator]
    BY Zenon DEF LeftRow, rest, place
  <2> HIDE DEF rest
  <2>5. CASE rest = <<>>
    <3>1. LeftRow(row, p) = Made("CANCELLED", row.creator, rest, row.booking) BY <1>3, <2>4, <2>5
    <3> QED BY <1>1, <2>3, <3>1 DEF Whole
  <2>6. CASE rest # <<>>
    <3> DEFINE heir == IF row.creator = p THEN Head(rest) ELSE row.creator
    <3>1. LeftRow(row, p) = Made("OPEN", heir, rest, row.booking) BY <1>3, <2>4, <2>6
    <3>2. Head(rest) \in ToSet(rest)
      <4>1. Head(rest) = rest[1] /\ 1 \in DOMAIN rest BY <2>3, <2>6
      <4> QED BY <4>1 DEF ToSet
    <3>3. heir \in ToSet(rest) /\ heir \in Player
      <4>1. heir \in ToSet(rest) BY <1>4, <2>3, <3>2
      <4>2. \A q \in ToSet(rest) : q \in Player BY <2>3 DEF ToSet
      <4> QED BY <4>1, <4>2
    <3> HIDE DEF heir
    <3>4. Len(rest) \in 1..PLAY_MATCH_SIZE - 1
      <4>1. rest \in Seq(Player) /\ Len(rest) = Len(row.players) - 1 BY <2>3
      <4>2. Len(rest) \in Nat \ {0} BY <2>6, <4>1, EmptySeq
      <4>3. Len(row.players) \in Nat /\ Len(row.players) <= PLAY_MATCH_SIZE - 1 BY <1>4, <1>5
      <4>4. Len(rest) <= PLAY_MATCH_SIZE - 1 BY <1>5, <4>1, <4>2, <4>3
      <4> QED BY <1>5, <4>2, <4>4
    <3> QED BY <1>1, <2>3, <3>1, <3>3, <3>4 DEF Whole
  <2> QED BY <2>5, <2>6
<1> QED BY <1>6, <1>7

\* Matches that move nowhere and gain no player keep everybody's other matches
\* as far away as they were.
LEMMA FewerPlayers ==
    ASSUME PlayerOncePerCourt,
           \A m \in MatchId :
              /\ match'[m].court = match[m].court /\ match'[m].slot = match[m].slot
              /\ Active(m)' => Active(m)
              /\ ToSet(match'[m].players) \subseteq ToSet(match[m].players)
    PROVE  /\ PlayerOncePerCourt'
           /\ \A c, p, s, ex : Alone(c, p, s, ex) => Alone(c, p, s, ex)'
<1>1. PlayerOncePerCourt'
  <2> SUFFICES ASSUME NEW m \in MatchId, NEW o \in MatchId, m # o, Active(m)', Active(o)',
                      match'[m].court = match'[o].court, Overlaps(match'[m].slot, match'[o].slot)
               PROVE  Participants(m)' \cap Participants(o)' = {}
    BY DEF PlayerOncePerCourt
  <2>1. Participants(m) \cap Participants(o) = {} BY DEF PlayerOncePerCourt
  <2> QED BY <2>1 DEF Participants
<1> QED BY <1>1 DEF Alone, Participants

\* A player comes to a match, which may be new, with no other match then.
LEMMA PlayerAdded ==
    ASSUME PlayerOncePerCourt, NEW c \in Court, NEW m \in MatchId, NEW p,
           \A o \in MatchId \ {m} : match'[o] = match[o],
           match'[m].court = c, Alone(c, p, match'[m].slot, {m}),
           Active(m) => match[m].court = c /\ match[m].slot = match'[m].slot,
           \A q \in ToSet(match'[m].players) : q = p \/ (Active(m) /\ q \in ToSet(match[m].players)),
           \A o \in MatchId : match'[o].slot \in Slot
    PROVE  /\ PlayerOncePerCourt'
           /\ \A d \in Court \ {c} : \A q, s, ex : Alone(d, q, s, ex) => Alone(d, q, s, ex)'
<1>1. ASSUME NEW o \in MatchId \ {m}, Active(o)', match'[o].court = c,
             Overlaps(match'[m].slot, match'[o].slot) \/ Overlaps(match'[o].slot, match'[m].slot)
      PROVE  Participants(m)' \cap Participants(o)' = {}
  <2>1. Active(o) /\ match[o].court = c /\ match'[o] = match[o] BY <1>1 DEF Active
  <2>2. Overlaps(match[o].slot, match'[m].slot) BY <1>1, <2>1 DEF Overlaps
  <2>3. p \notin Participants(o) BY <2>1, <2>2 DEF Alone
  <2>4. Active(m) => Participants(m) \cap Participants(o) = {}
    <3>1. Active(m) => Overlaps(match[o].slot, match[m].slot) BY <2>2
    <3> QED BY <2>1, <3>1 DEF PlayerOncePerCourt
  <2> QED BY <2>1, <2>3, <2>4 DEF Participants
<1>2. PlayerOncePerCourt'
  <2> SUFFICES ASSUME NEW k \in MatchId, NEW o \in MatchId, k # o, Active(k)', Active(o)',
                      match'[k].court = match'[o].court, Overlaps(match'[k].slot, match'[o].slot)
               PROVE  Participants(k)' \cap Participants(o)' = {}
    BY DEF PlayerOncePerCourt
  <2>1. CASE k = m BY <1>1, <2>1
  <2>2. CASE o = m BY <1>1, <2>2
  <2>3. CASE k # m /\ o # m
    <3>1. /\ match'[k] = match[k] /\ match'[o] = match[o] BY <2>3
    <3>2. Participants(k) \cap Participants(o) = {} BY <3>1 DEF PlayerOncePerCourt, Active
    <3> QED BY <3>1, <3>2 DEF Participants
  <2> QED BY <2>1, <2>2, <2>3
<1>3. ASSUME NEW d \in Court \ {c}, NEW q, NEW s, NEW ex, Alone(d, q, s, ex)
      PROVE  Alone(d, q, s, ex)'
  <2> SUFFICES ASSUME NEW o \in MatchId \ ex, Active(o)', match'[o].court = d,
                      Overlaps(match'[o].slot, s)
               PROVE  q \notin Participants(o)'
    BY DEF Alone
  <2>1. match'[o] = match[o] BY <1>3
  <2> QED BY <1>3, <2>1 DEF Alone, Active, Participants
<1> QED BY <1>2, <1>3

\* What requests have read holds on as long as nothing on their courts changes.
LEMMA RequestsStayWhole ==
    ASSUME RequestsSound, RequestsWhole,
           \A c \in Court :
              \/ request'[c] = Idle
              \/ /\ request'[c] = request[c]
                 /\ \A p, s, ex : Alone(c, p, s, ex) => Alone(c, p, s, ex)'
                 /\ request[c].kind = "join" =>
                       LET m == request[c].match IN
                       /\ match'[m].players = match[m].players /\ match'[m].slot = match[m].slot
    PROVE  RequestsWhole'
<1>0. Idle \in CourtRequest /\ Idle.kind = "none" BY DEF CourtRequest, Idle
<1> SUFFICES ASSUME NEW c \in Court, request'[c] # Idle
             PROVE  /\ request'[c] \in CourtRequest
                    /\ request'[c].kind = "join" => JoinWhole(c, request[c])'
                    /\ request'[c].kind = "create" => CreateWhole(c, request[c])'
  BY <1>0 DEF RequestsWhole
<1>1. request'[c] = request[c] /\ \A p, s, ex : Alone(c, p, s, ex) => Alone(c, p, s, ex)'
  OBVIOUS
<1>2. ASSUME request[c].kind = "join" PROVE JoinWhole(c, request[c])'
  <2>1. PICK r : r = request[c] OBVIOUS
  <2>2. JoinWhole(c, r) BY <1>2, <2>1 DEF RequestsWhole
  <2>3. match'[r.match].players = match[r.match].players /\ match'[r.match].slot = match[r.match].slot
    BY <1>2, <2>1
  <2>4. Alone(c, r.player, match[r.match].slot, {r.match}) BY <2>2 DEF JoinWhole
  <2>5. PICK p, s, ex : p = r.player /\ s = match[r.match].slot /\ ex = {r.match} OBVIOUS
  <2>6. Alone(c, p, s, ex)' BY <1>1, <2>4, <2>5
  <2>7. Alone(c, r.player, match[r.match].slot, {r.match})' BY <2>3, <2>5, <2>6
  <2>8. JoinWhole(c, r)' BY <2>2, <2>3, <2>7 DEF JoinWhole, Participants
  <2> QED BY <1>1, <2>1, <2>8
<1>3. ASSUME request[c].kind = "create" PROVE CreateWhole(c, request[c])'
  <2>1. PICK r : r = request[c] OBVIOUS
  <2>2. CreateWhole(c, r) BY <1>3, <2>1 DEF RequestsWhole
  <2>3. PICK p, s, ex : p = r.player /\ s = r.slot /\ ex = {} OBVIOUS
  <2>4. Alone(c, p, s, ex)' BY <1>1, <2>2, <2>3 DEF CreateWhole
  <2>5. CreateWhole(c, r)' BY <2>2, <2>3, <2>4 DEF CreateWhole
  <2> QED BY <1>1, <2>1, <2>5
<1>4. request[c] \in CourtRequest BY DEF RequestsWhole
<1> QED BY <1>1, <1>2, <1>3, <1>4

\* One match loses players or is cancelled, and no request is about it.
LEMMA OneMatchShrinks ==
    ASSUME PlayInv, WholeInv, NEW m \in MatchId, NEW row,
           match' = [match EXCEPT ![m] = row], UNCHANGED request,
           StaysPut(match[m], row), Whole(row), ToSet(row.players) \subseteq ToSet(match[m].players),
           request[match[m].court] = Idle
    PROVE  WholeInv'
<1>1. /\ match'[m] = row /\ \A o \in MatchId \ {m} : match'[o] = match[o]
  BY DEF PlayInv, MatchesSound
<1>2. \A o \in MatchId :
         /\ match'[o].court = match[o].court /\ match'[o].slot = match[o].slot
         /\ Active(o)' => Active(o)
         /\ ToSet(match'[o].players) \subseteq ToSet(match[o].players)
  BY <1>1 DEF StaysPut, Active
<1>3. /\ PlayerOncePerCourt'
      /\ \A c, p, s, ex : Alone(c, p, s, ex) => Alone(c, p, s, ex)'
  BY <1>2, FewerPlayers DEF WholeInv
<1>4. \A c \in Court : request[c].kind = "join" => request[c].match \in MatchId \ {m}
  BY DEF PlayInv, RequestsSound, JoinSound, Idle
<1>5. RequestsWhole' BY <1>1, <1>3, <1>4, RequestsStayWhole DEF PlayInv, WholeInv
<1>6. \A o \in MatchId : Whole(match'[o]) BY <1>1 DEF WholeInv
<1> QED BY <1>3, <1>5, <1>6 DEF WholeInv

\* A player joins a match, and the request is over.
LEMMA OneMatchGrows ==
    ASSUME PlayInv, WholeInv, MatchesSound', NEW c \in Court, NEW m \in MatchId, NEW p, NEW row,
           match' = [match EXCEPT ![m] = row], request' = [request EXCEPT ![c] = Idle],
           Whole(row), row.court = c, match[m].court = c \/ match[m].status = "ABSENT",
           Alone(c, p, row.slot, {m}), Active(m) => match[m].court = c /\ match[m].slot = row.slot,
           \A q \in ToSet(row.players) : q = p \/ (Active(m) /\ q \in ToSet(match[m].players))
    PROVE  WholeInv'
<1>1. /\ match'[m] = row /\ \A o \in MatchId \ {m} : match'[o] = match[o]
      /\ request'[c] = Idle /\ \A d \in Court \ {c} : request'[d] = request[d]
  BY DEF PlayInv, MatchesSound, RequestsSound
<1>2. \A o \in MatchId : match'[o].slot \in Slot BY DEF MatchesSound, MatchSound
<1>3. /\ PlayerOncePerCourt'
      /\ \A d \in Court \ {c} : \A q, s, ex : Alone(d, q, s, ex) => Alone(d, q, s, ex)'
  <2>1. PlayerOncePerCourt BY DEF WholeInv
  <2>2. /\ match'[m].court = c /\ Alone(c, p, match'[m].slot, {m})
        /\ Active(m) => match[m].court = c /\ match[m].slot = match'[m].slot
        /\ \A q \in ToSet(match'[m].players) : q = p \/ (Active(m) /\ q \in ToSet(match[m].players))
    BY <1>1
  <2> QED BY <1>1, <1>2, <2>1, <2>2, PlayerAdded
<1>4. \A d \in Court \ {c} : request[d].kind = "join" => request[d].match \in MatchId \ {m}
  BY DEF PlayInv, RequestsSound, JoinSound
<1>5. RequestsWhole' BY <1>1, <1>3, <1>4, RequestsStayWhole DEF PlayInv, WholeInv
<1>6. \A o \in MatchId : Whole(match'[o]) BY <1>1 DEF WholeInv
<1> QED BY <1>3, <1>5, <1>6 DEF WholeInv

\* The requests of players keep matches whole.
LEMMA WholePlayers ==
    ASSUME PlayInv, PlayInv', WholeInv,
           (\E m \in MatchId : MatchStep(m)) \/ (\E c \in Court : CourtStep(c))
    PROVE  WholeInv'
<1>0. \A m \in MatchId : MatchSound(match[m]) /\ Whole(match[m]) BY DEF PlayInv, MatchesSound, WholeInv
<1>1. ASSUME UNCHANGED match
      PROVE  /\ PlayerOncePerCourt' /\ \A m \in MatchId : Whole(match'[m])
             /\ \A c, p, s, ex : Alone(c, p, s, ex) <=> Alone(c, p, s, ex)'
  <2>1. \A m \in MatchId : (Active(m)' <=> Active(m)) /\ Participants(m)' = Participants(m)
    BY <1>1 DEF Active, Participants
  <2> QED BY <1>1, <2>1 DEF WholeInv, PlayerOncePerCourt, Alone
<1>2. ASSUME NEW c \in Court, NEW r, UNCHANGED match, request' = [request EXCEPT ![c] = r],
             r \in CourtRequest, r.kind = "join" => JoinWhole(c, r), r.kind = "create" => CreateWhole(c, r)
      PROVE  WholeInv'
  <2>1. request'[c] = r /\ \A d \in Court \ {c} : request'[d] = request[d]
    BY <1>2 DEF PlayInv, RequestsSound
  <2>2. ASSUME NEW d \in Court, NEW q, q = request'[d],
               q.kind = "join" => JoinWhole(d, q), q.kind = "create" => CreateWhole(d, q)
        PROVE  /\ request'[d].kind = "join" => JoinWhole(d, request[d])'
               /\ request'[d].kind = "create" => CreateWhole(d, request[d])'
    BY <1>1, <1>2, <2>2 DEF JoinWhole, CreateWhole, Participants, Alone, Active
  <2>3. RequestsWhole'
    <3> SUFFICES ASSUME NEW d \in Court
                 PROVE  /\ request'[d] \in CourtRequest
                        /\ request'[d].kind = "join" => JoinWhole(d, request[d])'
                        /\ request'[d].kind = "create" => CreateWhole(d, request[d])'
      BY DEF RequestsWhole
    <3>1. CASE d = c BY <1>2, <2>1, <2>2, <3>1
    <3>2. CASE d # c
      <4>1. PICK q : q = request[d] OBVIOUS
      <4>2. q.kind = "join" => JoinWhole(d, q) BY <4>1 DEF WholeInv, RequestsWhole
      <4>3. (q.kind = "create" => CreateWhole(d, q)) /\ q \in CourtRequest
        BY <4>1 DEF WholeInv, RequestsWhole
      <4> QED BY <2>1, <2>2, <3>2, <4>1, <4>2, <4>3
    <3> QED BY <3>1, <3>2
  <2> QED BY <1>1, <1>2, <2>3 DEF WholeInv
<1>3. ASSUME NEW p \in Player, NEW c \in Court, NEW s \in Slot, CreateReads(p, c, s) PROVE WholeInv'
  <2> DEFINE r == [kind |-> "create", player |-> p, slot |-> s]
  <2>1. UNCHANGED match /\ request' = [request EXCEPT ![c] = r] /\ ~Busy(p, s, {})
    BY <1>3 DEF CreateReads, Lock
  <2>2. Alone(c, p, s, {}) BY <2>1 DEF Alone, Busy
  <2>3. r \in CourtRequest /\ r.kind = "create" /\ r.player = p /\ r.slot = s BY DEF CourtRequest
  <2> HIDE DEF r
  <2>4. CreateWhole(c, r) BY <2>2, <2>3 DEF CreateWhole
  <2> QED BY <1>2, <2>1, <2>3, <2>4
<1>4. ASSUME NEW p \in Player, NEW m \in MatchId, JoinReads(p, m) PROVE WholeInv'
  <2> DEFINE r == [kind |-> "join", player |-> p, match |-> m]
  <2>1. PICK c \in Court : c = match[m].court BY <1>0 DEF MatchSound
  <2>2. /\ UNCHANGED match /\ request' = [request EXCEPT ![c] = r]
        /\ p \notin Participants(m) /\ Len(match[m].players) < PLAY_MATCH_SIZE
        /\ ~Busy(p, match[m].slot, {m})
    BY <1>4, <2>1 DEF JoinReads, Lock
  <2>3. Alone(c, p, match[m].slot, {m}) BY <2>2 DEF Alone, Busy
  <2>4. r \in CourtRequest /\ r.kind = "join" /\ r.player = p /\ r.match = m BY DEF CourtRequest
  <2> HIDE DEF r
  <2>5. JoinWhole(c, r) BY <2>2, <2>3, <2>4 DEF JoinWhole
  <2> QED BY <1>2, <2>2, <2>4, <2>5
<1>5. ASSUME NEW c \in Court, RollsBack(c) PROVE WholeInv'
  <2>1. UNCHANGED match /\ request' = [request EXCEPT ![c] = Idle] BY <1>5 DEF RollsBack
  <2>2. Idle \in CourtRequest /\ Idle.kind = "none" BY DEF CourtRequest, Idle
  <2> QED BY <1>2, <2>1, <2>2
<1>6. ASSUME NEW c \in Court, NEW m \in MatchId, CreateCommits(c, m) PROVE WholeInv'
  <2>1. PICK r : r = request[c] OBVIOUS
  <2>2. /\ r.player \in Player /\ Alone(c, r.player, r.slot, {})
    BY <1>6, <2>1 DEF CreateCommits, WholeInv, RequestsWhole, CreateWhole
  <2> DEFINE row == [status |-> "OPEN", court |-> c, slot |-> r.slot, creator |-> r.player,
                     players |-> <<r.player>>, booking |-> NoId]
  <2>3. /\ match' = [match EXCEPT ![m] = row] /\ request' = [request EXCEPT ![c] = Idle]
        /\ match[m].status = "ABSENT"
    BY <1>6, <2>1 DEF CreateCommits
  <2>4. /\ row.court = c /\ row.slot = r.slot /\ row.players = <<r.player>>
        /\ row.status = "OPEN" /\ row.creator = r.player /\ r.player \in Player
    BY <2>2
  <2> HIDE DEF row
  <2>5. /\ <<r.player>> \in Seq(Player) /\ IsInjective(<<r.player>>) /\ Len(<<r.player>>) = 1
        /\ ToSet(<<r.player>>) = {r.player}
    BY <2>2 DEF IsInjective, ToSet
  <2>6. 1 \in 1..PLAY_MATCH_SIZE - 1 BY MatchAssumption
  <2>7. Whole(row) BY <2>4, <2>5, <2>6 DEF Whole
  <2>8. ~Active(m) BY <2>3 DEF Active
  <2>9. Alone(c, r.player, row.slot, {m}) BY <2>2, <2>4 DEF Alone
  <2>10. MatchesSound' BY DEF PlayInv
  <2>11. \A q \in ToSet(row.players) : q = r.player BY <2>4, <2>5
  <2> QED BY <2>3, <2>4, <2>7, <2>8, <2>9, <2>10, <2>11, OneMatchGrows
<1>7. ASSUME NEW c \in Court, request[c].kind = "join",
             request' = [request EXCEPT ![c] = Idle], NEW row,
             match' = [match EXCEPT ![request[c].match] = row],
             Whole(row), StaysPut(match[request[c].match], row),
             \A q \in ToSet(row.players) :
                q \in ToSet(match[request[c].match].players) \/ q = request[c].player
      PROVE  WholeInv'
  <2>1. PICK m, p : m = request[c].match /\ p = request[c].player OBVIOUS
  <2>2. m \in MatchId /\ match[m].court = c /\ match[m].status = "OPEN"
    BY <1>7, <2>1 DEF PlayInv, RequestsSound, JoinSound
  <2>3. Alone(c, p, match[m].slot, {m}) BY <1>7, <2>1 DEF WholeInv, RequestsWhole, JoinWhole
  <2>4. row.court = c /\ row.slot = match[m].slot BY <1>7, <2>1, <2>2 DEF StaysPut
  <2>5. MatchesSound' /\ Active(m) BY <2>2 DEF PlayInv, Active
  <2> QED BY <1>7, <2>1, <2>2, <2>3, <2>4, <2>5, OneMatchGrows
<1>8. ASSUME NEW c \in Court, request[c].kind = "join"
      PROVE  LET m == request[c].match IN
             /\ m \in MatchId /\ match[m].status = "OPEN"
             /\ \A q : q \in ToSet(Joined(c)) <=> q \in ToSet(match[m].players) \/ q = request[c].player
             /\ Len(Joined(c)) < PLAY_MATCH_SIZE => Whole([match[m] EXCEPT !.players = Joined(c)])
             /\ \A b \in BookingId :
                   Len(Joined(c)) = PLAY_MATCH_SIZE => Whole(CompletedRow(match[m], Joined(c), b))
  <2>1. PICK m, p : m = request[c].match /\ p = request[c].player OBVIOUS
  <2>2. m \in MatchId /\ match[m].status = "OPEN"
    BY <1>8, <2>1 DEF PlayInv, RequestsSound, JoinSound
  <2>3. p \in Player /\ p \notin ToSet(match[m].players)
    BY <1>8, <2>1 DEF WholeInv, RequestsWhole, JoinWhole, Participants
  <2>4. Joined(c) = Append(match[m].players, p) BY <2>1 DEF Joined
  <2>5. PICK row : row = match[m] OBVIOUS
  <2>6. MatchSound(row) /\ Whole(row) BY <1>0, <2>2, <2>5
  <2>7. PICK players : players = Append(row.players, p) OBVIOUS
  <2>8. /\ \A q : q \in ToSet(players) <=> q \in ToSet(row.players) \/ q = p
        /\ Len(players) < PLAY_MATCH_SIZE => Whole([row EXCEPT !.players = players])
        /\ \A b \in BookingId :
              Len(players) = PLAY_MATCH_SIZE => Whole(CompletedRow(row, players, b))
    BY <2>2, <2>3, <2>5, <2>6, <2>7, RowsStayWhole
  <2>9. Joined(c) = players BY <2>4, <2>5, <2>7
  <2> QED BY <2>1, <2>2, <2>5, <2>8, <2>9
<1>9. ASSUME NEW c \in Court, JoinCommits(c) PROVE WholeInv'
  <2> DEFINE row == [match[request[c].match] EXCEPT !.players = Joined(c)]
  <2>1. /\ request[c].kind = "join" /\ request' = [request EXCEPT ![c] = Idle]
        /\ match' = [match EXCEPT ![request[c].match] = row] /\ Len(Joined(c)) < PLAY_MATCH_SIZE
    BY <1>9 DEF JoinCommits
  <2>2. request[c].match \in MatchId BY <1>8, <2>1
  <2>3. Whole(row) /\ StaysPut(match[request[c].match], row) BY <1>0, <1>8, <2>1, <2>2, RowsStayPut
  <2>4. row.players = Joined(c) BY <1>0, <2>2 DEF MatchSound, MatchFields
  <2> HIDE DEF row
  <2> QED BY <1>7, <1>8, <2>1, <2>3, <2>4
<1>10. ASSUME NEW c \in Court, NEW b \in BookingId, CompletionCommits(c, b) PROVE WholeInv'
  <2> DEFINE row == CompletedRow(match[request[c].match], Joined(c), b)
  <2>1. /\ request[c].kind = "join" /\ request' = [request EXCEPT ![c] = Idle]
        /\ match' = [match EXCEPT ![request[c].match] = row] /\ Len(Joined(c)) = PLAY_MATCH_SIZE
    BY <1>10 DEF CompletionCommits
  <2>2. request[c].match \in MatchId /\ match[request[c].match].status = "OPEN" BY <1>8, <2>1
  <2>3. Whole(row) /\ StaysPut(match[request[c].match], row) BY <1>0, <1>8, <2>1, <2>2, RowsStayPut
  <2>4. row.players = Joined(c) BY <1>0, <2>2 DEF MatchSound, MatchFields, CompletedRow
  <2> HIDE DEF row
  <2> QED BY <1>7, <1>8, <2>1, <2>3, <2>4
<1>11. ASSUME NEW m \in MatchId, Modifiable(m), match[m].booking = NoId PROVE match[m].status = "OPEN"
  BY <1>0, <1>11 DEF Modifiable, Active, Whole
<1>12. ASSUME NEW p \in Player, NEW m \in MatchId, Leave(p, m) PROVE WholeInv'
  <2> DEFINE row == LeftRow(match[m], p)
  <2>1. /\ match' = [match EXCEPT ![m] = row] /\ UNCHANGED request
        /\ request[match[m].court] = Idle /\ match[m].booking = NoId
        /\ match[m].status = "OPEN" /\ p \in ToSet(match[m].players)
    BY <1>11, <1>12 DEF Leave, Participants
  <2>2. StaysPut(match[m], row) BY <1>0, <2>1, RowsStayPut
  <2>3. Whole(row) /\ ToSet(row.players) \subseteq ToSet(match[m].players) BY <1>0, <2>1, RowsStayWhole
  <2> HIDE DEF row
  <2> QED BY <2>1, <2>2, <2>3, OneMatchShrinks
<1>13. ASSUME NEW p \in Player, NEW m \in MatchId, CancelMatch(p, m) PROVE WholeInv'
  <2> DEFINE row == [match[m] EXCEPT !.status = "CANCELLED"]
  <2>1. /\ match' = [match EXCEPT ![m] = row] /\ UNCHANGED request
        /\ request[match[m].court] = Idle
    BY <1>13 DEF CancelMatch, PlayInv, MatchesSound
  <2>2. StaysPut(match[m], row) BY <1>0, RowsStayPut
  <2>3. /\ row.status = "CANCELLED" /\ row.players = match[m].players
        /\ row.creator = match[m].creator
    BY <1>0 DEF MatchSound, MatchFields
  <2> HIDE DEF row
  <2>4. Whole(row) BY <1>0, <2>3 DEF Whole
  <2> QED BY <2>1, <2>2, <2>3, <2>4, OneMatchShrinks
<1> QED BY <1>3, <1>4, <1>5, <1>6, <1>9, <1>10, <1>12, <1>13 DEF MatchStep, CourtStep

\* A booking that is cancelled takes its match along, and nothing else happens.
LEMMA WholeCancel ==
    ASSUME PlayInv, WholeInv, NEW b \in BookingId, AdminCancelsBooking(b)
    PROVE  WholeInv'
<1>1. /\ UNCHANGED request
      /\ \A m \in MatchId :
            match'[m] = IF match[m].booking = b THEN [match[m] EXCEPT !.status = "CANCELLED"]
                        ELSE match[m]
  BY CancelledMatches DEF AdminCancelsBooking
<1>2. ASSUME NEW m \in MatchId
      PROVE  /\ match'[m].court = match[m].court /\ match'[m].slot = match[m].slot
             /\ match'[m].players = match[m].players /\ Whole(match'[m]) /\ (Active(m)' => Active(m))
  <2>1. MatchSound(match[m]) /\ Whole(match[m]) BY DEF PlayInv, MatchesSound, WholeInv
  <2>2. CASE match'[m] = match[m] BY <2>1, <2>2 DEF Active
  <2>3. CASE match'[m] = [match[m] EXCEPT !.status = "CANCELLED"]
    <3>1. /\ match'[m].court = match[m].court /\ match'[m].slot = match[m].slot
          /\ match'[m].players = match[m].players /\ match'[m].status = "CANCELLED"
          /\ match'[m].creator = match[m].creator
      BY <2>1, <2>3 DEF MatchSound, MatchFields
    <3> QED BY <2>1, <3>1 DEF Whole, Active
  <2> QED BY <1>1, <2>2, <2>3
<1>3. /\ PlayerOncePerCourt'
      /\ \A c, p, s, ex : Alone(c, p, s, ex) => Alone(c, p, s, ex)'
  BY <1>2, FewerPlayers DEF WholeInv
<1>4. \A c \in Court : request[c].kind = "join" => request[c].match \in MatchId
  BY DEF PlayInv, RequestsSound, JoinSound
<1>5. RequestsWhole' BY <1>1, <1>2, <1>3, <1>4, RequestsStayWhole DEF PlayInv, WholeInv
<1> QED BY <1>2, <1>3, <1>5 DEF WholeInv

LEMMA WholeStep ==
    ASSUME PlayInv, PlayInv', WholeInv, [PlayNext]_playVars
    PROVE  WholeInv'
<1>1. ASSUME UNCHANGED <<match, request>> PROVE WholeInv'
  <2>1. \A m \in MatchId :
           /\ match'[m].court = match[m].court /\ match'[m].slot = match[m].slot
           /\ match'[m].players = match[m].players /\ Whole(match'[m]) /\ (Active(m)' => Active(m))
    BY <1>1 DEF WholeInv, Active
  <2>2. /\ PlayerOncePerCourt'
        /\ \A c, p, s, ex : Alone(c, p, s, ex) => Alone(c, p, s, ex)'
    BY <2>1, FewerPlayers DEF WholeInv
  <2>3. RequestsWhole' BY <1>1, <2>2, RequestsStayWhole DEF PlayInv, WholeInv
  <2> QED BY <2>1, <2>2, <2>3 DEF WholeInv
<1>2. ASSUME NEW b \in BookingId, InsertStep(b) \/ PaymentStep(b) \/ DeskStep(b) PROVE WholeInv'
  BY <1>1, <1>2 DEF InsertStep, PaymentStep, DeskStep, matchVars
<1>3. ASSUME ClubStep \/ UNCHANGED playVars PROVE WholeInv'
  BY <1>1, <1>3 DEF ClubStep, matchVars, playVars
<1> QED BY <1>2, <1>3, WholePlayers, WholeCancel DEF PlayNext

LEMMA WholeHolds == PlaySpec => []WholeInv
<1>1. PlayInit => WholeInv
  <2> SUFFICES ASSUME PlayInit PROVE WholeInv OBVIOUS
  <2>1. \A m \in MatchId : match[m].status = "ABSENT" /\ match[m].players = <<>>
    BY DEF PlayInit, NoMatch
  <2>4. \A m \in MatchId : match[m].creator = NoId BY DEF PlayInit, NoMatch
  <2>2. \A c \in Court : request[c] \in CourtRequest /\ request[c].kind = "none"
    BY DEF PlayInit, Idle, CourtRequest
  <2>3. <<>> \in Seq(Player) /\ IsInjective(<<>>) BY DEF IsInjective
  <2> QED BY <2>1, <2>2, <2>3, <2>4 DEF WholeInv, Whole, PlayerOncePerCourt, RequestsWhole, Active
<1>2. PlayInv /\ PlayInv' /\ WholeInv /\ [PlayNext]_playVars => WholeInv' BY WholeStep
<1> QED BY <1>1, <1>2, PlayCorrect, PTL DEF PlaySpec

\* A player is in at most one match of a court at a time: what a request has
\* read of the player holds until it commits, as far as the court's lock goes.
\* (_assert_player_available_for_match)
THEOREM OneMatchAtATime == PlaySpec => []PlayerOncePerCourt
  BY WholeHolds, PTL DEF WholeInv

\* An open match has room and a creator who plays in it, a full one has all its
\* players and its booking, and nobody has two places.
\* (join_play_match, leave_play_match, _complete_match_booking)
THEOREM MatchesStayWhole == PlaySpec => []MatchesAreWhole
<1>1. PlayInv /\ WholeInv /\ FollowInv => MatchesAreWhole
  BY DEF PlayInv, MatchesSound, MatchSound, WholeInv, Whole, FollowInv, MatchesAreWhole, Participants
<1> QED BY <1>1, PlayCorrect, WholeHolds, FollowHolds, PTL

\* Matches and the requests on courts have their types.
THEOREM PlayTypesHold == PlaySpec => []PlayTypeOK
<1>1. PlayInit => listing = {} BY DEF PlayInit
<1>2. listing = {} /\ [PlayNext]_playVars => (listing = {})'
  BY DEF PlayNext, MatchStep, CreateCommits, JoinReads, Leave, CancelMatch, Lock, CourtStep,
         CreateReads, JoinCommits, CompletionCommits, RollsBack, AdminCancelsBooking, InsertStep,
         PaymentStep, DeskStep, ClubStep, matchVars, playVars
<1>3. PlayInv /\ WholeInv /\ listing = {} => PlayTypeOK
  <2> SUFFICES ASSUME PlayInv, WholeInv, listing = {} PROVE PlayTypeOK OBVIOUS
  <2>1. ASSUME NEW m \in MatchId PROVE match[m] \in MatchRow
    <3>1. MatchSound(match[m]) /\ Whole(match[m]) BY DEF PlayInv, MatchesSound, WholeInv
    <3> QED BY <3>1 DEF MatchSound, Whole, MatchFields, MatchRow
  <2>2. match \in [MatchId -> MatchRow] BY <2>1 DEF PlayInv, MatchesSound
  <2>3. request \in [Court -> CourtRequest] BY DEF PlayInv, RequestsSound, WholeInv, RequestsWhole
  <2> QED BY <2>2, <2>3 DEF PlayTypeOK
<1> QED BY <1>1, <1>2, <1>3, PlayCorrect, WholeHolds, PTL DEF PlaySpec
=============================================================================

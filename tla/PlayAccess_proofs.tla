-------------------------- MODULE PlayAccess_proofs --------------------------
(***************************************************************************)
(* Access without locks, for every number of players, challenges and       *)
(* workers: whatever overlaps, an email in a profile was proved and a code *)
(* that is no longer good stays so; and as long as nothing overlaps what a *)
(* request has read still holds when it commits.                           *)
(***************************************************************************)
EXTENDS PlayAccess, FiniteSetTheorems, TLAPS

-----------------------------------------------------------------------------
(* Rows that are there, and what requests hold of them.                    *)

\* A challenge, stored or about to be.
ChallengeSound(ch) ==
    /\ ch.purpose = "INVITE" => ch.source \in Invite /\ invite[ch.source] # None
    /\ ch.purpose = "GROUP" => ch.source \in Link /\ link[ch.source] # None
    /\ ch.purpose \in {"DIRECT", "RECOVERY"} => ch.source = None
    /\ ch.purpose # "RECOVERY" => ch.profile \in Profile
    /\ ch.player # None => Known(ch.player)

\* A verification writes the email of its challenge, another sign-in none.
RequestSound(r) ==
    /\ r.kind = "start" =>
          /\ ChallengeSound(r.new) /\ ~r.new.verified
          /\ \A d \in r.open : challenge[d] # None
    /\ r.kind \in {"guess", "resend", "verify"} => challenge[r.challenge] # None
    /\ r.kind \in {"verify", "identify"} /\ r.sign.player # None =>
          Known(r.sign.player) /\ r.sign.read # None
    /\ r.kind = "verify" => r.sign.new.email = challenge[r.challenge].email
    /\ r.kind = "identify" => r.sign.new.email = None

Sound ==
    /\ \A c \in Challenge : challenge[c] # None => ChallengeSound(challenge[c])
    /\ \A w \in Worker : request[w] # None => RequestSound(request[w])

\* Every token was issued by a request that is over.
TokensCounted == IsFiniteSet(InFlight) /\ issued + Cardinality(InFlight) <= made

AccessInv == AccessTypeOK /\ Sound /\ TokensCounted

-----------------------------------------------------------------------------
(* What a step may do to the rows.                                         *)

Entered == \E w \in Worker, p \in Player : VerifyCommits(w, p)

\* A challenge keeps what it is about, and who it is for until it is entered.
Successor(ch, next) ==
    /\ next \in ChallengeRow
    /\ next.purpose = ch.purpose /\ next.email = ch.email /\ next.profile = ch.profile
    /\ next.source = ch.source
    /\ \/ next.player = ch.player /\ next.verified = ch.verified
       \/ Entered /\ next.verified /\ member'[next.player] # None

\* Nothing disappears.
Kept ==
    /\ \A p \in Player : Known(p) => Known(p)'
    /\ \A i \in Invite : invite[i] # None => invite'[i] # None
    /\ \A l \in Link : link[l] # None => link'[l] # None
    /\ \A c \in Challenge : challenge[c] # None =>
          challenge'[c] # None /\ Successor(challenge[c], challenge'[c])

LEMMA KeptChallenge ==
    ASSUME Kept, NEW ch \in ChallengeRow, ChallengeSound(ch), NEW next, Successor(ch, next)
    PROVE  ChallengeSound(next)'
<1>1. ChallengeSound(next)' <=>
         /\ next.purpose = "INVITE" => next.source \in Invite /\ invite'[next.source] # None
         /\ next.purpose = "GROUP" => next.source \in Link /\ link'[next.source] # None
         /\ next.purpose \in {"DIRECT", "RECOVERY"} => next.source = None
         /\ next.purpose # "RECOVERY" => next.profile \in Profile
         /\ next.player # None => Known(next.player)'
  BY DEF ChallengeSound, Known
<1>2. ch.player \in Player \cup {None} BY DEF ChallengeRow
<1>3. Known(next.player)' <=> member'[next.player] # None BY DEF Known
<1> QED BY <1>1, <1>2, <1>3 DEF Kept, Successor, ChallengeSound

LEMMA KeptRequest ==
    ASSUME Kept, NEW r \in Request, RequestSound(r)
    PROVE  RequestSound(r)'
<1>1. ASSUME r.kind = "start"
      PROVE  (ChallengeSound(r.new) /\ ~r.new.verified)' /\ (\A d \in r.open : challenge'[d] # None)
  <2>1. PICK ch \in ChallengeRow : ch = r.new BY <1>1 DEF Request
  <2>2. ChallengeSound(ch) /\ ~ch.verified BY <1>1, <2>1 DEF RequestSound
  <2>3. Successor(ch, ch) BY <2>2 DEF Successor, ChallengeSound, Kept, ChallengeRow
  <2>4. ChallengeSound(ch)' BY <2>2, <2>3, KeptChallenge
  <2>5. \A d \in r.open : d \in Challenge /\ challenge[d] # None
    BY <1>1 DEF Request, RequestSound
  <2>6. \A d \in r.open : challenge'[d] # None BY <2>5 DEF Kept
  <2> QED BY <2>1, <2>2, <2>4, <2>6
<1>2. ASSUME r.kind \in {"guess", "resend", "verify"}
      PROVE  /\ challenge'[r.challenge] # None
             /\ challenge'[r.challenge].email = challenge[r.challenge].email
  <2>1. r.challenge \in Challenge BY <1>2 DEF Request
  <2> QED BY <1>2, <2>1 DEF RequestSound, Kept, Successor
<1>3. ASSUME r.kind \in {"verify", "identify"}, r.sign.player # None
      PROVE  Known(r.sign.player)' /\ r.sign.read # None
  <2>1. r.sign.player \in Player BY <1>3 DEF Request, Signing
  <2> QED BY <1>3, <2>1 DEF RequestSound, Kept
<1> QED BY <1>1, <1>2, <1>3 DEF RequestSound

-----------------------------------------------------------------------------
(* What requests read.                                                     *)

ReadStep(w) ==
    \/ \E email \in Email :
          \/ \E i \in Invite : StartInvite(w, email, i)
          \/ \E l \in Link, profile \in Profile : StartGroup(w, email, profile, l)
          \/ \E profile \in Profile : StartDirect(w, email, profile)
          \/ StartRecovery(w, email)
    \/ \E c \in Challenge : GuessReads(w, c) \/ VerifyReads(w, c) \/ ResendReads(w, c)
    \/ \E profile \in Profile : IdentifyReads(w, profile)

\* A request that signs a player in has read the tokens they have.
SeesTokens(r) ==
    r.kind \in {"verify", "identify"} /\ r.sign.player # None =>
        r.sign.seen = session[r.sign.player]

\* The player of a profile is one who has its phone or its email.
LEMMA ResolvedPlayer ==
    ASSUME AccessTypeOK, NEW phone, NEW email
    PROVE  \/ Resolved(phone, email) = None /\ ByPhone(phone) \cup ByEmail(email) = {}
           \/ /\ Resolved(phone, email) \in ByPhone(phone) \cup ByEmail(email)
              /\ Resolved(phone, email) \in Player /\ Known(Resolved(phone, email))
              /\ member[Resolved(phone, email)] \in Row
<1> DEFINE found == ByPhone(phone) \cup ByEmail(email)
<1>1. \A p \in found : p \in Player /\ Known(p) /\ member[p] \in Row
  BY DEF ByPhone, ByEmail, Known, AccessTypeOK
<1>2. Resolved(phone, email) = IF found = {} THEN None ELSE CHOOSE p \in found : TRUE
  BY DEF Resolved
<1> HIDE DEF found
<1>3. found = {} \/ (CHOOSE p \in found : TRUE) \in found OBVIOUS
<1> QED BY <1>1, <1>2, <1>3 DEF found

LEMMA UpsertSigns ==
    ASSUME AccessTypeOK, NEW profile \in Profile, NEW email \in Email \cup {None}
    PROVE  /\ Upsert(profile, email) \in Signing
           /\ Upsert(profile, email).new.email = email
           /\ Upsert(profile, email).player # None =>
                 /\ Known(Upsert(profile, email).player) /\ Upsert(profile, email).read # None
                 /\ Upsert(profile, email).seen = session[Upsert(profile, email).player]
<1> DEFINE p == Resolved(profile.phone, email)
           u == Upsert(profile, email)
<1>1. u = [player |-> p, read |-> IF p = None THEN None ELSE member[p],
           new |-> NewRow(profile, email), seen |-> IF p = None THEN {} ELSE session[p]]
  BY DEF Upsert
<1>2. p = None \/ (p \in Player /\ Known(p) /\ member[p] \in Row) BY ResolvedPlayer
<1> HIDE DEF p, u
<1>3. NewRow(profile, email) \in Row /\ NewRow(profile, email).email = email
  BY AccessAssumption DEF NewRow, Row
<1>4. /\ (IF p = None THEN None ELSE member[p]) \in Row \cup {None}
      /\ (IF p = None THEN {} ELSE session[p]) \in SUBSET Tokens
  BY <1>2 DEF AccessTypeOK
<1>5. u \in Signing BY <1>1, <1>2, <1>3, <1>4 DEF Signing
<1>6. u.new.email = email BY <1>1, <1>3
<1>7. u.player # None => Known(u.player) /\ u.read # None /\ u.seen = session[u.player]
  BY <1>1, <1>2 DEF Known
<1> QED BY <1>5, <1>6, <1>7 DEF u

\* A new challenge, as it is started.
LEMMA FreshStarts ==
    ASSUME AccessTypeOK, NEW purpose \in Purpose, NEW email \in Email, NEW profile,
           NEW player \in Player \cup {None}, NEW source, player # None => Known(player),
           \/ purpose = "RECOVERY" /\ profile = None /\ source = None
           \/ purpose = "DIRECT" /\ profile \in Profile /\ source = None
           \/ purpose = "INVITE" /\ profile \in Profile /\ source \in Invite /\ invite[source] # None
           \/ purpose = "GROUP" /\ profile \in Profile /\ source \in Link /\ link[source] # None,
           NEW w, StartReads(w, email, Fresh(purpose, email, profile, player, source))
    PROVE  \E r \in Request : Read(w, r) /\ RequestSound(r) /\ SeesTokens(r)
<1> DEFINE fresh == Fresh(purpose, email, profile, player, source)
           r == [kind |-> "start", new |-> fresh, open |-> OpenFor(email)]
<1>1. fresh = [purpose |-> purpose, email |-> email, profile |-> profile, player |-> player,
               source |-> source, live |-> TRUE, code |-> 0,
               attempts |-> 0, resends |-> 0, verified |-> FALSE]
  BY DEF Fresh
<1>2. Read(w, r) BY DEF StartReads
<1> HIDE DEF fresh
<1>3. profile \in Profile \cup {None} /\ source \in Invite \cup Link \cup {None} OBVIOUS
<1>4. fresh \in ChallengeRow BY <1>1, <1>3 DEF ChallengeRow
<1>5. ChallengeSound(fresh) /\ fresh.verified = FALSE BY <1>1 DEF ChallengeSound
<1>6. OpenFor(email) \in SUBSET Challenge /\ \A d \in OpenFor(email) : challenge[d] # None
  BY DEF OpenFor, Usable
<1>7. r \in Request /\ r.kind = "start" /\ r.new = fresh /\ r.open = OpenFor(email)
  BY <1>4, <1>6 DEF Request
<1> HIDE DEF r
<1>8. RequestSound(r) /\ SeesTokens(r) BY <1>5, <1>6, <1>7 DEF RequestSound, SeesTokens
<1> QED BY <1>2, <1>7, <1>8

LEMMA ReadsRequest ==
    ASSUME AccessTypeOK, Sound, NEW w \in Worker, ReadStep(w)
    PROVE  \E r \in Request : Read(w, r) /\ RequestSound(r) /\ SeesTokens(r)
<1>1. ASSUME NEW email \in Email, NEW i \in Invite, StartInvite(w, email, i)
      PROVE  \E r \in Request : Read(w, r) /\ RequestSound(r) /\ SeesTokens(r)
  <2>1. invite[i] # None /\ invite[i].profile \in Profile
    BY <1>1 DEF StartInvite, InviteActive, AccessTypeOK, InviteRow
  <2>2. /\ "INVITE" \in Purpose
        /\ StartReads(w, email, Fresh("INVITE", email, invite[i].profile,
              Resolved(invite[i].profile.phone, email), i))
    BY <1>1 DEF StartInvite, StartWithProfile
  <2> QED BY <2>1, <2>2, ResolvedPlayer, FreshStarts
<1>2. ASSUME NEW email \in Email, NEW l \in Link, NEW profile \in Profile,
             StartGroup(w, email, profile, l)
      PROVE  \E r \in Request : Read(w, r) /\ RequestSound(r) /\ SeesTokens(r)
  <2>1. link[l] # None BY <1>2 DEF StartGroup, LinkActive
  <2>2. /\ "GROUP" \in Purpose
        /\ StartReads(w, email, Fresh("GROUP", email, profile, Resolved(profile.phone, email), l))
    BY <1>2 DEF StartGroup, StartWithProfile
  <2> QED BY <2>1, <2>2, ResolvedPlayer, FreshStarts
<1>3. ASSUME NEW email \in Email, NEW profile \in Profile, StartDirect(w, email, profile)
      PROVE  \E r \in Request : Read(w, r) /\ RequestSound(r) /\ SeesTokens(r)
  <2>1. /\ "DIRECT" \in Purpose
        /\ StartReads(w, email, Fresh("DIRECT", email, profile, Resolved(profile.phone, email), None))
    BY <1>3 DEF StartDirect, StartWithProfile
  <2> QED BY <2>1, ResolvedPlayer, FreshStarts
<1>4. ASSUME NEW email \in Email, StartRecovery(w, email)
      PROVE  \E r \in Request : Read(w, r) /\ RequestSound(r) /\ SeesTokens(r)
  <2>1. PICK player : player = IF ByEmail(email) = {} THEN None ELSE CHOOSE p \in ByEmail(email) : TRUE
    OBVIOUS
  <2>2. player = None \/ (player \in Player /\ Known(player))
    <3>1. player = None \/ player \in ByEmail(email) BY <2>1
    <3> QED BY <3>1 DEF ByEmail
  <2>3. "RECOVERY" \in Purpose /\ StartReads(w, email, Fresh("RECOVERY", email, None, player, None))
    BY <1>4, <2>1 DEF StartRecovery
  <2> QED BY <2>2, <2>3, FreshStarts
<1>5. ASSUME NEW c \in Challenge, Available(c)
      PROVE  challenge[c] # None /\ challenge[c] \in ChallengeRow /\ ChallengeSound(challenge[c])
  BY <1>5 DEF Available, AccessTypeOK, Sound
<1>6. ASSUME NEW c \in Challenge, GuessReads(w, c)
      PROVE  \E r \in Request : Read(w, r) /\ RequestSound(r) /\ SeesTokens(r)
  <2> DEFINE r == [kind |-> "guess", challenge |-> c, attempts |-> challenge[c].attempts + 1]
  <2>1. Read(w, r) /\ challenge[c] # None BY <1>5, <1>6 DEF GuessReads
  <2>2. challenge[c].attempts + 1 \in Nat BY <1>5, <1>6 DEF GuessReads, ChallengeRow
  <2>3. r \in Request /\ r.kind = "guess" /\ r.challenge = c BY <2>2 DEF Request
  <2> HIDE DEF r
  <2>4. RequestSound(r) /\ SeesTokens(r) BY <2>1, <2>3 DEF RequestSound, SeesTokens
  <2> QED BY <2>1, <2>3, <2>4
<1>7. ASSUME NEW c \in Challenge, ResendReads(w, c)
      PROVE  \E r \in Request : Read(w, r) /\ RequestSound(r) /\ SeesTokens(r)
  <2> DEFINE r == [kind |-> "resend", challenge |-> c, attempts |-> challenge[c].attempts,
                   resends |-> challenge[c].resends + 1]
  <2>1. Read(w, r) /\ challenge[c] # None BY <1>5, <1>7 DEF ResendReads
  <2>2. challenge[c].attempts \in Nat /\ challenge[c].resends + 1 \in Nat
    BY <1>5, <1>7 DEF ResendReads, ChallengeRow
  <2>3. r \in Request /\ r.kind = "resend" /\ r.challenge = c BY <2>2 DEF Request
  <2> HIDE DEF r
  <2>4. RequestSound(r) /\ SeesTokens(r) BY <2>1, <2>3 DEF RequestSound, SeesTokens
  <2> QED BY <2>1, <2>3, <2>4
<1>8. ASSUME NEW c \in Challenge, challenge[c] # None, NEW sign \in Signing, NEW used \in Nat,
             sign.new.email = challenge[c].email,
             sign.player # None =>
                Known(sign.player) /\ sign.read # None /\ sign.seen = session[sign.player],
             Read(w, [kind |-> "verify", challenge |-> c, used |-> used, sign |-> sign])
      PROVE  \E r \in Request : Read(w, r) /\ RequestSound(r) /\ SeesTokens(r)
  <2> DEFINE r == [kind |-> "verify", challenge |-> c, used |-> used, sign |-> sign]
  <2>1. r \in Request /\ r.kind = "verify" /\ r.challenge = c /\ r.sign = sign BY DEF Request
  <2>2. Read(w, r) BY <1>8
  <2> HIDE DEF r
  <2>3. RequestSound(r) /\ SeesTokens(r) BY <1>8, <2>1 DEF RequestSound, SeesTokens
  <2> QED BY <2>1, <2>2, <2>3
<1>9. ASSUME NEW c \in Challenge, VerifyReads(w, c)
      PROVE  \E r \in Request : Read(w, r) /\ RequestSound(r) /\ SeesTokens(r)
  <2>1. challenge[c] # None /\ challenge[c] \in ChallengeRow /\ ChallengeSound(challenge[c])
    BY <1>5, <1>9 DEF VerifyReads
  <2>2. PICK ch \in ChallengeRow : ch = challenge[c] BY <2>1
  <2>3. ch.email \in Email /\ ch.player \in Player \cup {None} BY DEF ChallengeRow
  <2>4. CASE ch.purpose = "RECOVERY"
    <3> DEFINE row == [member[ch.player] EXCEPT !.email = ch.email]
               sign == [player |-> ch.player, read |-> member[ch.player], new |-> row,
                        seen |-> session[ch.player]]
    <3>1. /\ ch.player # None
          /\ Read(w, [kind |-> "verify", challenge |-> c, used |-> 0, sign |-> sign])
      BY <1>9, <2>2, <2>4 DEF VerifyReads
    <3>2. ch.player \in Player /\ Known(ch.player) BY <2>1, <2>2, <2>3, <3>1 DEF ChallengeSound
    <3>3. member[ch.player] \in Row /\ member[ch.player] # None /\ session[ch.player] \in SUBSET Tokens
      BY <3>2 DEF Known, AccessTypeOK
    <3>4. row \in Row /\ row.email = ch.email BY <2>3, <3>3 DEF Row
    <3> HIDE DEF row
    <3>5. /\ sign \in Signing /\ sign.new = row /\ sign.player = ch.player
          /\ sign.read = member[ch.player] /\ sign.seen = session[ch.player]
      BY <3>2, <3>3, <3>4 DEF Signing
    <3> HIDE DEF sign
    <3>6. /\ sign.new.email = challenge[c].email
          /\ sign.player # None =>
                Known(sign.player) /\ sign.read # None /\ sign.seen = session[sign.player]
      BY <2>2, <3>2, <3>3, <3>4, <3>5
    <3> QED BY <1>8, <2>1, <3>1, <3>5, <3>6
  <2>5. CASE ch.purpose # "RECOVERY"
    <3> DEFINE sign == Upsert(ch.profile, ch.email)
               used == IF ch.purpose = "GROUP" THEN link[ch.source].used + 1 ELSE 0
    <3>1. Read(w, [kind |-> "verify", challenge |-> c, used |-> used, sign |-> sign])
      BY <1>9, <2>2, <2>5 DEF VerifyReads
    <3>2. ch.profile \in Profile BY <2>1, <2>2, <2>5 DEF ChallengeSound
    <3>3. used \in Nat
      <4>1. ch.purpose = "GROUP" => link[ch.source] \in LinkRow
        BY <2>1, <2>2 DEF ChallengeSound, AccessTypeOK
      <4> QED BY <4>1 DEF LinkRow
    <3>4. /\ sign \in Signing /\ sign.new.email = ch.email
          /\ sign.player # None =>
                Known(sign.player) /\ sign.read # None /\ sign.seen = session[sign.player]
      BY <2>3, <3>2, UpsertSigns
    <3> HIDE DEF sign, used
    <3> QED BY <1>8, <2>1, <2>2, <3>1, <3>3, <3>4
  <2> QED BY <2>4, <2>5
<1>10. ASSUME NEW profile \in Profile, IdentifyReads(w, profile)
       PROVE  \E r \in Request : Read(w, r) /\ RequestSound(r) /\ SeesTokens(r)
  <2>1. PICK sign : sign = Upsert(profile, None) OBVIOUS
  <2>2. /\ sign \in Signing /\ sign.new.email = None
        /\ sign.player # None =>
              Known(sign.player) /\ sign.read # None /\ sign.seen = session[sign.player]
    BY <2>1, UpsertSigns
  <2> DEFINE r == [kind |-> "identify", sign |-> sign]
  <2>3. r \in Request /\ r.kind = "identify" /\ r.sign = sign BY <2>2 DEF Request
  <2>4. Read(w, r) BY <1>10, <2>1 DEF IdentifyReads
  <2> HIDE DEF r
  <2>5. RequestSound(r) /\ SeesTokens(r) BY <2>2, <2>3 DEF RequestSound, SeesTokens
  <2> QED BY <2>3, <2>4, <2>5
<1> QED BY <1>1, <1>2, <1>3, <1>4, <1>6, <1>7, <1>9, <1>10 DEF ReadStep

-----------------------------------------------------------------------------
(* Requests are counted.                                                   *)

LEMMA AskedOnce ==
    ASSUME AccessInv, NEW w \in Worker, NEW r \in Request, Read(w, r)
    PROVE  TokensCounted'
<1>1. request[w] = None /\ request' = [request EXCEPT ![w] = r] /\ made' = made + 1 /\ issued' = issued
  BY DEF Read, Counted
<1>2. request \in [Worker -> Request \cup {None}] BY DEF AccessInv, AccessTypeOK
<1>3. r # None BY NullAssumption
<1>4. InFlight' = InFlight \cup {w} BY <1>1, <1>2, <1>3 DEF InFlight
<1>5. w \notin InFlight BY <1>1 DEF InFlight
<1>6. IsFiniteSet(InFlight) /\ issued + Cardinality(InFlight) <= made BY DEF AccessInv, TokensCounted
<1>7. /\ IsFiniteSet(InFlight \cup {w})
      /\ Cardinality(InFlight \cup {w}) = Cardinality(InFlight) + 1
  BY <1>5, <1>6, FS_AddElement
<1>8. issued \in Nat /\ made \in Nat BY DEF AccessInv, AccessTypeOK
<1>9. Cardinality(InFlight) \in Nat BY <1>6, FS_CardinalityType
<1>10. issued' + Cardinality(InFlight \cup {w}) <= made' BY ONLY <1>1, <1>6, <1>7, <1>8, <1>9
<1> QED BY <1>4, <1>7, <1>10 DEF TokensCounted

LEMMA AnsweredOnce ==
    ASSUME AccessInv, NEW w \in Worker, request[w] # None, Done(w)
    PROVE  /\ issued + 1 \in 0..MaxRequests
           /\ issued' \in {issued, issued + 1} => TokensCounted'
<1>1. request' = [request EXCEPT ![w] = None] /\ made' = made BY DEF Done
<1>2. request \in [Worker -> Request \cup {None}] BY DEF AccessInv, AccessTypeOK
<1>3. InFlight' = InFlight \ {w} BY <1>1, <1>2 DEF InFlight
<1>4. w \in InFlight BY DEF InFlight
<1>5. IsFiniteSet(InFlight) /\ issued + Cardinality(InFlight) <= made BY DEF AccessInv, TokensCounted
<1>6. /\ IsFiniteSet(InFlight \ {w})
      /\ Cardinality(InFlight \ {w}) = Cardinality(InFlight) - 1
  BY <1>4, <1>5, FS_RemoveElement
<1>7. issued \in Nat /\ made \in Nat /\ made <= MaxRequests /\ MaxRequests \in Nat
  BY AccessAssumption DEF AccessInv, AccessTypeOK
<1>8. Cardinality(InFlight) \in Nat /\ Cardinality(InFlight \ {w}) \in Nat
  BY <1>5, <1>6, FS_CardinalityType
<1>9. issued + 1 \in 0..MaxRequests BY ONLY <1>5, <1>6, <1>7, <1>8
<1>10. issued' \in {issued, issued + 1} => issued' + Cardinality(InFlight \ {w}) <= made'
  BY ONLY <1>1, <1>5, <1>6, <1>7, <1>8
<1> QED BY <1>3, <1>6, <1>9, <1>10 DEF TokensCounted

LEMMA RequestsStay ==
    ASSUME AccessInv, issued' = issued, made' \in {made, made + 1}, request' = request
    PROVE  TokensCounted'
<1>1. InFlight' = InFlight BY DEF InFlight
<1>2. IsFiniteSet(InFlight) /\ issued + Cardinality(InFlight) <= made BY DEF AccessInv, TokensCounted
<1>3. Cardinality(InFlight) \in Nat BY <1>2, FS_CardinalityType
<1>4. issued \in Nat /\ made \in Nat BY DEF AccessInv, AccessTypeOK
<1>5. issued' + Cardinality(InFlight) <= made' BY ONLY <1>2, <1>3, <1>4, issued' = issued, made' \in {made, made + 1}
<1> QED BY <1>1, <1>2, <1>5 DEF TokensCounted

-----------------------------------------------------------------------------
(* Signing in.                                                             *)

\* A row that is written over keeps the shape of a row.
LEMMA WrittenRow ==
    ASSUME NEW current \in Row, NEW read, NEW new \in Row
    PROVE  /\ Written(current, read, new) \in Row
           /\ Written(current, read, new).email \in {new.email, current.email}
<1> DEFINE name == IF new.name = read.name THEN current.name ELSE new.name
           phone == IF new.phone = read.phone THEN current.phone ELSE new.phone
           email == IF new.email \in {None, read.email} THEN current.email ELSE new.email
<1>1. Written(current, read, new) = [name |-> name, phone |-> phone, email |-> email]
  BY DEF Written
<1>2. /\ current.name \in Name /\ current.phone \in Phone /\ current.email \in Email \cup {None}
      /\ new.name \in Name /\ new.phone \in Phone /\ new.email \in Email \cup {None}
  BY DEF Row
<1>3. name \in Name /\ phone \in Phone /\ email \in Email \cup {None} BY <1>2
<1>4. email \in {new.email, current.email} OBVIOUS
<1> HIDE DEF name, phone, email
<1> QED BY <1>1, <1>3, <1>4 DEF Row

LEMMA SignInWrites ==
    ASSUME AccessTypeOK, issued + 1 \in 0..MaxRequests, NEW p \in Player, NEW r \in Signing,
           r.player # None => Known(r.player) /\ r.read # None, SignIn(p, r)
    PROVE  /\ member' \in [Player -> Row \cup {None}] /\ member'[p] \in Row
           /\ \A q \in Player \ {p} : member'[q] = member[q]
           /\ session' \in [Player -> SUBSET Tokens] /\ issued' = issued + 1
           /\ \/ member'[p].email = r.new.email
              \/ (Known(p) /\ member'[p].email = member[p].email)
<1>1. r \in [player: Player \cup {None}, read: Row \cup {None}, new: Row, seen: SUBSET Tokens]
  BY DEF Signing
<1>2. /\ member \in [Player -> Row \cup {None}] /\ session \in [Player -> SUBSET Tokens]
      /\ issued \in Nat
  BY DEF AccessTypeOK
<1>3. /\ IF r.player = None THEN ~Known(p) ELSE p = r.player
      /\ member' = [member EXCEPT ![p] =
            IF r.player = None THEN r.new ELSE Written(@, r.read, r.new)]
  BY DEF SignIn
<1> DEFINE row == IF r.player = None THEN r.new ELSE Written(member[p], r.read, r.new)
<1>4. member' = [member EXCEPT ![p] = row] BY <1>3
<1>5. row \in Row /\ (row.email = r.new.email \/ (Known(p) /\ row.email = member[p].email))
  <2>1. r.new \in Row BY <1>1
  <2>2. CASE r.player = None
    <3>1. row = r.new BY <2>2
    <3> HIDE DEF row
    <3> QED BY <2>1, <3>1
  <2>3. CASE r.player # None
    <3>1. p = r.player /\ Known(p) BY <1>3, <2>3
    <3>2. member[p] \in Row BY <1>2, <3>1 DEF Known
    <3>3. row = Written(member[p], r.read, r.new) BY <2>3
    <3> HIDE DEF row
    <3>4. row \in Row /\ row.email \in {r.new.email, member[p].email}
      BY <2>1, <3>2, <3>3, WrittenRow
    <3> QED BY <3>1, <3>4
  <2> QED BY <2>2, <2>3
<1> HIDE DEF row
<1>6. member' \in [Player -> Row \cup {None}] /\ member'[p] = row BY <1>2, <1>4, <1>5
<1>7. \A q \in Player \ {p} : member'[q] = member[q] BY <1>2, <1>4
<1>8. PICK seen : issued' = issued + 1 /\ session' = [session EXCEPT ![p] = (@ \ seen) \cup {issued + 1}]
  BY DEF SignIn, Issue
<1>9. issued + 1 \in Tokens BY <1>2 DEF Tokens
<1>10. session' \in [Player -> SUBSET Tokens] BY <1>2, <1>8, <1>9
<1> QED BY <1>5, <1>6, <1>7, <1>8, <1>10

\* Who signs in stays or becomes known, and everybody else stays.
LEMMA SignInKnows ==
    ASSUME AccessTypeOK, NEW p \in Player, member'[p] \in Row,
           \A q \in Player \ {p} : member'[q] = member[q]
    PROVE  Known(p)' /\ (\A q \in Player : Known(q) => Known(q)')
<1>1. member'[p] # None BY NullAssumption
<1> QED BY <1>1 DEF Known

-----------------------------------------------------------------------------
(* Every action keeps the rows.                                            *)

\* The challenges a step leaves and writes come from sound ones, and so do
\* the requests.
Continues ==
    /\ \A c \in Challenge : challenge'[c] # None =>
          \E ch \in ChallengeRow : ChallengeSound(ch) /\ Successor(ch, challenge'[c])
    /\ \A w \in Worker : request'[w] # None =>
          \E r \in Request : RequestSound(r) /\ request'[w] = r

LEMMA StaysSound ==
    ASSUME Kept, Continues
    PROVE  Sound'
<1>1. ASSUME NEW c \in Challenge, challenge'[c] # None PROVE ChallengeSound(challenge[c])'
  <2>1. PICK ch \in ChallengeRow : ChallengeSound(ch) /\ Successor(ch, challenge'[c])
    BY <1>1 DEF Continues
  <2>2. PICK next : next = challenge'[c] OBVIOUS
  <2>3. ChallengeSound(next)' BY <2>1, <2>2, KeptChallenge
  <2> QED BY <2>2, <2>3 DEF ChallengeSound, Known
<1>2. ASSUME NEW w \in Worker, request'[w] # None PROVE RequestSound(request[w])'
  <2>1. PICK r \in Request : RequestSound(r) /\ request'[w] = r BY <1>2 DEF Continues
  <2>2. RequestSound(r)' BY <2>1, KeptRequest
  <2> QED BY <2>1, <2>2 DEF RequestSound, ChallengeSound, Known
<1> QED BY <1>1, <1>2 DEF Sound

\* What a step may do to a challenge that is there.
LEMMA SameChallenge ==
    ASSUME NEW ch \in ChallengeRow, ChallengeSound(ch)
    PROVE  Successor(ch, ch)
BY DEF Successor

LEMMA ChallengeLapses ==
    ASSUME NEW ch \in ChallengeRow, NEW next, next = [ch EXCEPT !.live = FALSE]
    PROVE  Successor(ch, next) /\ ch.live \in BOOLEAN
<1>1. next \in ChallengeRow BY DEF ChallengeRow
<1>2. /\ next.purpose = ch.purpose /\ next.email = ch.email /\ next.profile = ch.profile
      /\ next.source = ch.source /\ next.verified = ch.verified /\ next.player = ch.player
  BY DEF ChallengeRow
<1> QED BY <1>1, <1>2 DEF Successor, ChallengeRow

LEMMA ChallengeGuessed ==
    ASSUME NEW ch \in ChallengeRow, NEW attempts \in Nat, NEW live \in BOOLEAN, NEW next,
           next = [ch EXCEPT !.attempts = attempts, !.live = live]
    PROVE  Successor(ch, next)
<1>1. next \in ChallengeRow BY DEF ChallengeRow
<1>2. /\ next.purpose = ch.purpose /\ next.email = ch.email /\ next.profile = ch.profile
      /\ next.source = ch.source /\ next.verified = ch.verified /\ next.player = ch.player
  BY DEF ChallengeRow
<1> QED BY <1>1, <1>2 DEF Successor, ChallengeRow

LEMMA ChallengeResent ==
    ASSUME NEW ch \in ChallengeRow, NEW code \in Nat, NEW attempts \in Nat, NEW resends \in Nat,
           NEW next, next = [ch EXCEPT !.code = code, !.live = TRUE, !.attempts = attempts,
                                       !.resends = resends]
    PROVE  Successor(ch, next)
<1>1. next \in ChallengeRow BY DEF ChallengeRow
<1>2. /\ next.purpose = ch.purpose /\ next.email = ch.email /\ next.profile = ch.profile
      /\ next.source = ch.source /\ next.verified = ch.verified /\ next.player = ch.player
  BY DEF ChallengeRow
<1> QED BY <1>1, <1>2 DEF Successor, ChallengeRow

LEMMA ChallengeVerified ==
    ASSUME Entered, NEW ch \in ChallengeRow, NEW p \in Player, Known(p)', NEW next,
           next = [ch EXCEPT !.verified = TRUE, !.player = p]
    PROVE  Successor(ch, next) /\ next.verified /\ next.player = p
<1>1. next \in ChallengeRow BY DEF ChallengeRow
<1>2. /\ next.purpose = ch.purpose /\ next.email = ch.email /\ next.profile = ch.profile
      /\ next.source = ch.source /\ next.verified = TRUE /\ next.player = p
  BY DEF ChallengeRow
<1>3. member'[p] # None BY DEF Known
<1> QED BY <1>1, <1>2, <1>3 DEF Successor, ChallengeRow

Preserved == AccessTypeOK' /\ Kept /\ Continues /\ TokensCounted'

\* A step that leaves the challenges alone ...
LEMMA ChallengesStay ==
    ASSUME AccessInv, challenge' = challenge
    PROVE  /\ \A c \in Challenge : challenge[c] # None =>
                 challenge'[c] # None /\ Successor(challenge[c], challenge'[c])
           /\ \A c \in Challenge : challenge'[c] # None =>
                 \E ch \in ChallengeRow : ChallengeSound(ch) /\ Successor(ch, challenge'[c])
<1>1. ASSUME NEW c \in Challenge, challenge[c] # None
      PROVE  \E ch \in ChallengeRow :
                ch = challenge[c] /\ ChallengeSound(ch) /\ Successor(ch, challenge'[c])
  <2>1. PICK ch : ch = challenge[c] OBVIOUS
  <2>2. ch \in ChallengeRow /\ ChallengeSound(ch) BY <1>1, <2>1 DEF AccessInv, AccessTypeOK, Sound
  <2>3. Successor(ch, ch) BY <2>2, SameChallenge
  <2> QED BY <2>1, <2>2, <2>3
<1> QED BY <1>1

\* ... and one that leaves the requests alone or answers one of them.
LEMMA RequestsContinue ==
    ASSUME AccessInv, NEW w, request' = request \/ Done(w)
    PROVE  /\ request' \in [Worker -> Request \cup {None}]
           /\ \A v \in Worker : request'[v] # None => request'[v] = request[v]
           /\ \A v \in Worker : request'[v] # None =>
                 \E r \in Request : RequestSound(r) /\ request'[v] = r
<1>1. request \in [Worker -> Request \cup {None}] BY DEF AccessInv, AccessTypeOK
<1>2. request' \in [Worker -> Request \cup {None}]
      /\ \A v \in Worker : request'[v] # None => request'[v] = request[v]
  <2>1. CASE request' = request BY <1>1, <2>1
  <2>2. CASE Done(w) BY <1>1, <2>2 DEF Done
  <2> QED BY <2>1, <2>2
<1>3. ASSUME NEW v \in Worker, request'[v] # None
      PROVE  \E r \in Request : RequestSound(r) /\ request'[v] = r
  <2>1. PICK r : r = request[v] OBVIOUS
  <2>2. r \in Request /\ RequestSound(r) BY <1>1, <1>2, <1>3, <2>1 DEF AccessInv, Sound
  <2> QED BY <1>2, <1>3, <2>1, <2>2
<1> QED BY <1>2, <1>3

LEMMA ReadPreserves ==
    ASSUME AccessInv, NEW w \in Worker, NEW r \in Request, Read(w, r), RequestSound(r)
    PROVE  Preserved
<1>1. /\ request' = [request EXCEPT ![w] = r] /\ made < MaxRequests /\ made' = made + 1
      /\ overlap' = (overlap \/ InFlight # {})
      /\ UNCHANGED <<member, session, issued, invite, link, challenge>>
  BY DEF Read, Counted
<1>2. request \in [Worker -> Request \cup {None}] BY DEF AccessInv, AccessTypeOK
<1>3. request' \in [Worker -> Request \cup {None}]
      /\ \A v \in Worker : request'[v] # None => request'[v] \in {request[v], r}
  BY <1>1, <1>2
<1>4. made' \in 0..MaxRequests BY <1>1, AccessAssumption DEF AccessInv, AccessTypeOK
<1>5. overlap' \in BOOLEAN BY <1>1
<1>6. AccessTypeOK' BY <1>1, <1>3, <1>4, <1>5 DEF AccessInv, AccessTypeOK, Tokens
<1>7. TokensCounted' BY AskedOnce
<1>8. \A p \in Player : Known(p) => Known(p)' BY <1>1 DEF Known
<1>9. Kept BY <1>1, <1>8, ChallengesStay DEF Kept
<1>10. ASSUME NEW v \in Worker, request'[v] # None
       PROVE  \E s \in Request : RequestSound(s) /\ request'[v] = s
  <2>1. CASE request'[v] = r BY <2>1
  <2>2. CASE request'[v] = request[v]
    <3>1. PICK s : s = request[v] OBVIOUS
    <3>2. s \in Request /\ RequestSound(s) BY <1>2, <1>10, <2>2, <3>1 DEF AccessInv, Sound
    <3> QED BY <2>2, <3>1, <3>2
  <2> QED BY <1>3, <1>10, <2>1, <2>2
<1>11. Continues BY <1>1, <1>10, ChallengesStay DEF Continues
<1> QED BY <1>6, <1>7, <1>9, <1>11 DEF Preserved

AdminStep ==
    \/ \E i \in Invite :
          \/ \E profile \in Profile : CreateInvite(i, profile)
          \/ RevokeInvite(i) \/ InviteLapses(i)
    \/ \E l \in Link : CreateLink(l) \/ RevokeLink(l) \/ LinkLapses(l)

\* What the administrator and the clock do to invites and links.
LEMMA AdminWrites ==
    ASSUME AccessInv, AdminStep
    PROVE  /\ invite' \in [Invite -> InviteRow \cup {None}]
           /\ link' \in [Link -> LinkRow \cup {None}]
           /\ \A i \in Invite : invite[i] # None => invite'[i] # None
           /\ \A l \in Link : link[l] # None => link'[l] # None /\ link'[l].used = link[l].used
           /\ \A l \in Link : link[l] = None /\ link'[l] # None => link'[l].used = 0
           /\ made' \in {made, made + 1} /\ made' \in 0..MaxRequests
           /\ UNCHANGED <<member, session, issued, challenge, request, overlap>>
<1>1. /\ invite \in [Invite -> InviteRow \cup {None}] /\ link \in [Link -> LinkRow \cup {None}]
      /\ made \in 0..MaxRequests /\ MaxRequests \in Nat
  BY AccessAssumption DEF AccessInv, AccessTypeOK
<1>2. ASSUME Counted PROVE made' \in {made, made + 1} /\ made' \in 0..MaxRequests
  BY <1>1, <1>2 DEF Counted
<1>3. ASSUME NEW i \in Invite, NEW row \in InviteRow, invite' = [invite EXCEPT ![i] = row]
      PROVE  /\ invite' \in [Invite -> InviteRow \cup {None}]
             /\ \A j \in Invite : invite[j] # None => invite'[j] # None
  BY <1>1, <1>3, NullAssumption
<1>4. ASSUME NEW l \in Link, NEW row \in LinkRow, link' = [link EXCEPT ![l] = row],
             link[l] # None => row.used = link[l].used, link[l] = None => row.used = 0
      PROVE  /\ link' \in [Link -> LinkRow \cup {None}]
             /\ \A k \in Link : link[k] # None => link'[k] # None /\ link'[k].used = link[k].used
             /\ \A k \in Link : link[k] = None /\ link'[k] # None => link'[k].used = 0
  <2>1. link' \in [Link -> LinkRow \cup {None}] BY <1>1, <1>4
  <2>2. row # None BY NullAssumption
  <2>3. link'[l] = row /\ \A k \in Link \ {l} : link'[k] = link[k] BY <1>1, <1>4
  <2> QED BY <1>4, <2>1, <2>2, <2>3
<1>5. ASSUME NEW i \in Invite, NEW profile \in Profile, CreateInvite(i, profile)
      PROVE  \E row \in InviteRow : invite' = [invite EXCEPT ![i] = row]
  <2>1. [profile |-> profile, valid |-> TRUE, player |-> None] \in InviteRow BY DEF InviteRow
  <2> QED BY <1>5, <2>1 DEF CreateInvite
<1>6. ASSUME NEW i \in Invite, invite[i] # None, invite' = [invite EXCEPT ![i].valid = FALSE]
      PROVE  \E row \in InviteRow : invite' = [invite EXCEPT ![i] = row]
  <2>1. [invite[i] EXCEPT !.valid = FALSE] \in InviteRow BY <1>1, <1>6 DEF InviteRow
  <2> QED BY <1>6, <2>1
<1>7. ASSUME NEW l \in Link, link[l] # None, link' = [link EXCEPT ![l].valid = FALSE]
      PROVE  \E row \in LinkRow : link' = [link EXCEPT ![l] = row] /\ row.used = link[l].used
  <2>1. [link[l] EXCEPT !.valid = FALSE] \in LinkRow BY <1>1, <1>7 DEF LinkRow
  <2>2. [link[l] EXCEPT !.valid = FALSE].used = link[l].used BY <1>1, <1>7 DEF LinkRow
  <2> QED BY <1>7, <2>1, <2>2
<1>8. ASSUME NEW l \in Link, CreateLink(l)
      PROVE  \E row \in LinkRow : link' = [link EXCEPT ![l] = row] /\ row.used = 0
  <2>1. [valid |-> TRUE, used |-> 0] \in LinkRow BY DEF LinkRow
  <2> QED BY <1>8, <2>1 DEF CreateLink
<1>9. ASSUME NEW i \in Invite, NEW profile \in Profile, CreateInvite(i, profile)
      PROVE  /\ \E row \in InviteRow : invite' = [invite EXCEPT ![i] = row]
             /\ Counted /\ UNCHANGED <<member, session, issued, link, challenge, request, overlap>>
  BY <1>5, <1>9 DEF CreateInvite, AdminRequest
<1>10. ASSUME NEW i \in Invite, RevokeInvite(i)
       PROVE  /\ \E row \in InviteRow : invite' = [invite EXCEPT ![i] = row]
              /\ Counted /\ UNCHANGED <<member, session, issued, link, challenge, request, overlap>>
  BY <1>6, <1>10 DEF RevokeInvite, InviteActive, AdminRequest
<1>11. ASSUME NEW i \in Invite, InviteLapses(i)
       PROVE  /\ \E row \in InviteRow : invite' = [invite EXCEPT ![i] = row]
              /\ UNCHANGED <<member, session, issued, link, challenge, request, overlap, made>>
  BY <1>6, <1>11 DEF InviteLapses, InviteActive
<1>12. ASSUME NEW l \in Link, CreateLink(l)
       PROVE  /\ link[l] = None /\ (\E row \in LinkRow : link' = [link EXCEPT ![l] = row] /\ row.used = 0)
              /\ Counted /\ UNCHANGED <<member, session, issued, invite, challenge, request, overlap>>
  BY <1>8, <1>12 DEF CreateLink, AdminRequest
<1>13. ASSUME NEW l \in Link, RevokeLink(l)
       PROVE  /\ link[l] # None
              /\ \E row \in LinkRow : link' = [link EXCEPT ![l] = row] /\ row.used = link[l].used
              /\ Counted /\ UNCHANGED <<member, session, issued, invite, challenge, request, overlap>>
  BY <1>7, <1>13 DEF RevokeLink, LinkActive, AdminRequest
<1>14. ASSUME NEW l \in Link, LinkLapses(l)
       PROVE  /\ link[l] # None
              /\ \E row \in LinkRow : link' = [link EXCEPT ![l] = row] /\ row.used = link[l].used
              /\ UNCHANGED <<member, session, issued, invite, challenge, request, overlap, made>>
  BY <1>7, <1>14 DEF LinkLapses, LinkActive
<1>15. CASE \E i \in Invite :
                \/ \E profile \in Profile : CreateInvite(i, profile)
                \/ RevokeInvite(i) \/ InviteLapses(i)
  <2>1. PICK i \in Invite :
           /\ \E row \in InviteRow : invite' = [invite EXCEPT ![i] = row]
           /\ Counted \/ made' = made
           /\ UNCHANGED <<member, session, issued, link, challenge, request, overlap>>
    BY <1>9, <1>10, <1>11, <1>15
  <2>2. link' \in [Link -> LinkRow \cup {None}]
        /\ \A l \in Link : link'[l] = link[l]
    BY <1>1, <2>1
  <2> QED BY <1>1, <1>2, <1>3, <2>1, <2>2
<1>16. CASE \E l \in Link : CreateLink(l) \/ RevokeLink(l) \/ LinkLapses(l)
  <2>1. PICK l \in Link :
           /\ \E row \in LinkRow : /\ link' = [link EXCEPT ![l] = row]
                                   /\ link[l] # None => row.used = link[l].used
                                   /\ link[l] = None => row.used = 0
           /\ Counted \/ made' = made
           /\ UNCHANGED <<member, session, issued, invite, challenge, request, overlap>>
    BY <1>12, <1>13, <1>14, <1>16
  <2>2. invite' \in [Invite -> InviteRow \cup {None}]
        /\ \A i \in Invite : invite'[i] = invite[i]
    BY <1>1, <2>1
  <2> QED BY <1>1, <1>2, <1>4, <2>1, <2>2
<1> QED BY <1>15, <1>16 DEF AdminStep

LEMMA AdminPreserves ==
    ASSUME AccessInv, AdminStep
    PROVE  Preserved
<1>1. /\ made' \in {made, made + 1} /\ made' \in 0..MaxRequests
      /\ UNCHANGED <<member, session, issued, challenge, request, overlap>>
  BY AdminWrites
<1>2. AccessTypeOK' BY <1>1, AdminWrites DEF AccessInv, AccessTypeOK, Tokens
<1>3. \A p \in Player : Known(p) => Known(p)' BY <1>1 DEF Known
<1>4. Kept BY <1>1, <1>3, AdminWrites, ChallengesStay DEF Kept
<1>5. ASSUME NEW w \in Worker, request'[w] # None
      PROVE  \E r \in Request : RequestSound(r) /\ request'[w] = r
  BY <1>1, <1>5, RequestsContinue
<1>6. Continues BY <1>1, <1>5, ChallengesStay DEF Continues
<1> QED BY <1>1, <1>2, <1>4, <1>6, RequestsStay DEF Preserved

\* A challenge is written over: what stays sound.
LEMMA ChallengesFollow ==
    ASSUME AccessInv, \A p \in Player : Known(p) => Known(p)',
           \A i \in Invite : invite[i] # None => invite'[i] # None,
           \A l \in Link : link[l] # None => link'[l] # None,
           challenge' \in [Challenge -> ChallengeRow \cup {None}],
           \A c \in Challenge : challenge'[c] # challenge[c] =>
               \/ challenge[c] # None /\ Successor(challenge[c], challenge'[c])
               \/ challenge[c] = None /\ (\E ch \in ChallengeRow : ChallengeSound(ch) /\ challenge'[c] = ch)
    PROVE  /\ Kept
           /\ \A c \in Challenge : challenge'[c] # None =>
                 \E ch \in ChallengeRow : ChallengeSound(ch) /\ Successor(ch, challenge'[c])
<1>1. ASSUME NEW c \in Challenge, challenge[c] # None
      PROVE  challenge[c] \in ChallengeRow /\ ChallengeSound(challenge[c])
  BY <1>1 DEF AccessInv, AccessTypeOK, Sound
<1>2. ASSUME NEW c \in Challenge, challenge[c] # None
      PROVE  challenge'[c] # None /\ Successor(challenge[c], challenge'[c])
  <2>1. PICK ch : ch = challenge[c] OBVIOUS
  <2>2. CASE challenge'[c] = challenge[c]
    <3>1. Successor(ch, ch) BY <1>1, <1>2, <2>1, SameChallenge
    <3> QED BY <1>2, <2>1, <2>2, <3>1
  <2>3. CASE challenge'[c] # challenge[c]
    <3>1. Successor(challenge[c], challenge'[c]) BY <1>2, <2>3
    <3>2. challenge'[c] \in ChallengeRow BY <3>1 DEF Successor
    <3> QED BY <3>1, <3>2, NullAssumption
  <2> QED BY <2>2, <2>3
<1>3. ASSUME NEW c \in Challenge, challenge'[c] # None
      PROVE  \E ch \in ChallengeRow : ChallengeSound(ch) /\ Successor(ch, challenge'[c])
  <2>1. CASE challenge[c] # None BY <1>1, <1>2, <2>1
  <2>2. CASE challenge[c] = None
    <3>1. PICK ch \in ChallengeRow : ChallengeSound(ch) /\ challenge'[c] = ch BY <1>3, <2>2
    <3>2. Successor(ch, ch) BY <3>1, SameChallenge
    <3> QED BY <3>1, <3>2
  <2> QED BY <2>1, <2>2
<1> QED BY <1>2, <1>3 DEF Kept

\* Of a step that only writes challenges.
LEMMA ChallengeStepPreserves ==
    ASSUME AccessInv, NEW w, UNCHANGED <<member, session, issued, invite, link>>,
           \/ w \in Worker /\ request[w] # None /\ Done(w)
           \/ UNCHANGED <<request, made, overlap>>,
           challenge' \in [Challenge -> ChallengeRow \cup {None}],
           \A c \in Challenge : challenge'[c] # challenge[c] =>
               \/ challenge[c] # None /\ Successor(challenge[c], challenge'[c])
               \/ challenge[c] = None /\ (\E ch \in ChallengeRow : ChallengeSound(ch) /\ challenge'[c] = ch)
    PROVE  Preserved
<1>1. made' = made /\ overlap' = overlap BY DEF Done
<1>2. \A p \in Player : Known(p) => Known(p)' BY DEF Known
<1>3. Kept /\ Continues BY <1>2, ChallengesFollow, RequestsContinue DEF Continues
<1>4. TokensCounted' BY AnsweredOnce, RequestsStay
<1>5. request' \in [Worker -> Request \cup {None}] BY RequestsContinue
<1>6. AccessTypeOK' BY <1>1, <1>5 DEF AccessInv, AccessTypeOK, Tokens
<1> QED BY <1>3, <1>4, <1>6 DEF Preserved

LEMMA CodeLapsesPreserves ==
    ASSUME AccessInv, NEW c \in Challenge, CodeLapses(c)
    PROVE  Preserved
<1>1. challenge[c] \in ChallengeRow /\ challenge[c] # None
  BY DEF CodeLapses, Usable, AccessInv, AccessTypeOK
<1>2. PICK next : next = [challenge[c] EXCEPT !.live = FALSE] OBVIOUS
<1>3. Successor(challenge[c], next) BY <1>1, <1>2, ChallengeLapses
<1>4. challenge' = [challenge EXCEPT ![c] = next] BY <1>2 DEF CodeLapses
<1>5. next \in ChallengeRow BY <1>3 DEF Successor
<1>6. challenge \in [Challenge -> ChallengeRow \cup {None}] BY DEF AccessInv, AccessTypeOK
<1>7. challenge' \in [Challenge -> ChallengeRow \cup {None}] BY <1>4, <1>5, <1>6
<1>8. \A d \in Challenge : challenge'[d] # challenge[d] =>
         challenge[d] # None /\ Successor(challenge[d], challenge'[d])
  <2>1. \A d \in Challenge \ {c} : challenge'[d] = challenge[d] BY <1>4, <1>6
  <2>2. challenge'[c] = next BY <1>4, <1>6
  <2> QED BY <1>1, <1>3, <2>1, <2>2
<1> QED BY <1>7, <1>8, ChallengeStepPreserves DEF CodeLapses

LEMMA StartPreserves ==
    ASSUME AccessInv, NEW c \in Challenge, NEW w \in Worker, StartCommits(w, c)
    PROVE  Preserved
<1>1. PICK r : r = request[w] OBVIOUS
<1>2. r \in Request /\ r.kind = "start" /\ RequestSound(r)
  BY <1>1 DEF StartCommits, AccessInv, AccessTypeOK, Sound
<1>3. PICK new : new = r.new OBVIOUS
<1>4. new \in ChallengeRow BY <1>2, <1>3 DEF Request
<1>5. ChallengeSound(new) BY <1>2, <1>3 DEF RequestSound
<1>6. r.open \in SUBSET Challenge /\ \A d \in r.open : challenge[d] # None
  BY <1>2 DEF Request, RequestSound
<1>7. /\ challenge[c] = None
      /\ challenge' = [d \in Challenge |->
            IF d = c THEN new
            ELSE IF d \in r.open THEN [challenge[d] EXCEPT !.live = FALSE]
            ELSE challenge[d]]
      /\ request[w] # None /\ Done(w) /\ UNCHANGED <<member, session, issued, invite, link>>
  BY <1>1, <1>3 DEF StartCommits
<1>8. challenge \in [Challenge -> ChallengeRow \cup {None}] BY DEF AccessInv, AccessTypeOK
<1>9. ASSUME NEW d \in Challenge
      PROVE  /\ challenge'[d] \in ChallengeRow \cup {None}
             /\ challenge'[d] # challenge[d] =>
                  \/ challenge[d] # None /\ Successor(challenge[d], challenge'[d])
                  \/ challenge[d] = None /\ (\E ch \in ChallengeRow : ChallengeSound(ch) /\ challenge'[d] = ch)
  <2>1. CASE d = c
    <3>1. challenge'[d] = new BY <1>7, <2>1
    <3> QED BY <1>4, <1>5, <1>7, <2>1, <3>1
  <2>2. CASE d # c /\ d \in r.open
    <3>1. challenge[d] \in ChallengeRow /\ challenge[d] # None BY <1>6, <1>8, <2>2
    <3>2. PICK next : next = [challenge[d] EXCEPT !.live = FALSE] OBVIOUS
    <3>3. challenge'[d] = next BY <1>7, <2>2, <3>2
    <3>4. Successor(challenge[d], next) BY <3>1, <3>2, ChallengeLapses
    <3>5. next \in ChallengeRow BY <3>4 DEF Successor
    <3> QED BY <3>1, <3>3, <3>4, <3>5
  <2>3. CASE d # c /\ d \notin r.open
    <3>1. challenge'[d] = challenge[d] BY <1>7, <2>3
    <3> QED BY <1>8, <3>1
  <2> QED BY <2>1, <2>2, <2>3
<1>10. challenge' \in [Challenge -> ChallengeRow \cup {None}]
  <2>1. DOMAIN challenge' = Challenge /\ challenge' = [d \in Challenge |-> challenge'[d]] BY <1>7
  <2> QED BY <1>9, <2>1
<1> QED BY <1>7, <1>9, <1>10, ChallengeStepPreserves

\* A wrong code and a resend rewrite the row they read.
LEMMA GuessPreserves ==
    ASSUME AccessInv, NEW w \in Worker, GuessCommits(w)
    PROVE  Preserved
<1>1. PICK r : r = request[w] OBVIOUS
<1>2. r \in Request /\ r.kind = "guess" /\ RequestSound(r)
  BY <1>1 DEF GuessCommits, AccessInv, AccessTypeOK, Sound
<1>3. PICK c : c = r.challenge OBVIOUS
<1>4. c \in Challenge /\ challenge[c] # None /\ r.attempts \in Nat
  BY <1>2, <1>3 DEF Request, RequestSound
<1>5. challenge[c] \in ChallengeRow BY <1>4 DEF AccessInv, AccessTypeOK
<1>6. PICK live : live = (challenge[c].live /\ r.attempts < PLAY_ACCESS_OTP_MAX_ATTEMPTS) OBVIOUS
<1>7. live \in BOOLEAN BY <1>5, <1>6 DEF ChallengeRow
<1>8. PICK next : next = [challenge[c] EXCEPT !.attempts = r.attempts, !.live = live] OBVIOUS
<1>9. Successor(challenge[c], next) BY <1>4, <1>5, <1>7, <1>8, ChallengeGuessed
<1>10. challenge \in [Challenge -> ChallengeRow \cup {None}] BY DEF AccessInv, AccessTypeOK
<1>11. challenge' = [challenge EXCEPT ![c] = next]
  <2>1. challenge' = [challenge EXCEPT ![c].attempts = r.attempts,
                        ![c].live = @ /\ r.attempts < PLAY_ACCESS_OTP_MAX_ATTEMPTS]
    BY <1>1, <1>3 DEF GuessCommits
  <2> QED BY <1>4, <1>5, <1>6, <1>8, <1>10, <2>1 DEF ChallengeRow
<1>12. next \in ChallengeRow BY <1>9 DEF Successor
<1>13. challenge' \in [Challenge -> ChallengeRow \cup {None}] BY <1>10, <1>11, <1>12
<1>14. \A d \in Challenge : challenge'[d] # challenge[d] =>
         challenge[d] # None /\ Successor(challenge[d], challenge'[d])
  <2>1. \A d \in Challenge \ {c} : challenge'[d] = challenge[d] BY <1>10, <1>11
  <2>2. challenge'[c] = next BY <1>4, <1>10, <1>11
  <2> QED BY <1>4, <1>9, <2>1, <2>2
<1> QED BY <1>13, <1>14, ChallengeStepPreserves DEF GuessCommits

LEMMA ResendPreserves ==
    ASSUME AccessInv, NEW w \in Worker, ResendCommits(w)
    PROVE  Preserved
<1>1. PICK r : r = request[w] OBVIOUS
<1>2. r \in Request /\ r.kind = "resend" /\ RequestSound(r)
  BY <1>1 DEF ResendCommits, AccessInv, AccessTypeOK, Sound
<1>3. PICK c : c = r.challenge OBVIOUS
<1>4. c \in Challenge /\ challenge[c] # None /\ r.resends \in Nat
  BY <1>2, <1>3 DEF Request, RequestSound
<1>5. challenge[c] \in ChallengeRow BY <1>4 DEF AccessInv, AccessTypeOK
<1>6. PICK code, attempts : /\ code = challenge[c].code + 1
                            /\ attempts = IF r.attempts = 0 THEN challenge[c].attempts ELSE 0
  OBVIOUS
<1>7. code \in Nat /\ attempts \in Nat BY <1>5, <1>6 DEF ChallengeRow
<1>8. PICK next : next = [challenge[c] EXCEPT !.code = code, !.live = TRUE, !.attempts = attempts,
                                              !.resends = r.resends]
  OBVIOUS
<1>9. Successor(challenge[c], next) BY <1>4, <1>5, <1>7, <1>8, ChallengeResent
<1>10. challenge \in [Challenge -> ChallengeRow \cup {None}] BY DEF AccessInv, AccessTypeOK
<1>11. challenge' = [challenge EXCEPT ![c] = next]
  <2>1. challenge' = [challenge EXCEPT
          ![c].code = @ + 1, ![c].live = TRUE,
          ![c].attempts = IF r.attempts = 0 THEN @ ELSE 0,
          ![c].resends = r.resends]
    BY <1>1, <1>3 DEF ResendCommits
  <2> QED BY <1>4, <1>5, <1>6, <1>8, <1>10, <2>1 DEF ChallengeRow
<1>12. next \in ChallengeRow BY <1>9 DEF Successor
<1>13. challenge' \in [Challenge -> ChallengeRow \cup {None}] BY <1>10, <1>11, <1>12
<1>14. \A d \in Challenge : challenge'[d] # challenge[d] =>
         challenge[d] # None /\ Successor(challenge[d], challenge'[d])
  <2>1. \A d \in Challenge \ {c} : challenge'[d] = challenge[d] BY <1>10, <1>11
  <2>2. challenge'[c] = next BY <1>4, <1>10, <1>11
  <2> QED BY <1>4, <1>9, <2>1, <2>2
<1> QED BY <1>13, <1>14, ChallengeStepPreserves DEF ResendCommits

LEMMA RollbackPreserves ==
    ASSUME AccessInv, NEW w \in Worker, Rollback(w)
    PROVE  Preserved
<1>1. challenge' = challenge /\ challenge \in [Challenge -> ChallengeRow \cup {None}]
  BY DEF Rollback, AccessInv, AccessTypeOK
<1> QED BY <1>1, ChallengeStepPreserves DEF Rollback

-----------------------------------------------------------------------------
(* The commits that sign a player in.                                      *)

LEMMA InviteAccepted ==
    ASSUME AccessInv, NEW i \in Invite, invite[i] # None, NEW p \in Player,
           invite' = [invite EXCEPT ![i].player = p]
    PROVE  /\ invite' \in [Invite -> InviteRow \cup {None}]
           /\ \A j \in Invite : invite[j] # None => invite'[j] # None
<1>1. invite \in [Invite -> InviteRow \cup {None}] BY DEF AccessInv, AccessTypeOK
<1>2. [invite[i] EXCEPT !.player = p] \in InviteRow BY <1>1 DEF InviteRow
<1>3. PICK row : row = [invite[i] EXCEPT !.player = p] OBVIOUS
<1>4. invite' = [invite EXCEPT ![i] = row] BY <1>3
<1>5. row # None BY <1>2, <1>3, NullAssumption
<1> QED BY <1>1, <1>2, <1>3, <1>4, <1>5

LEMMA LinkCounted ==
    ASSUME AccessInv, NEW l \in Link, link[l] # None, NEW used \in Nat,
           link' = [link EXCEPT ![l].used = used]
    PROVE  /\ link' \in [Link -> LinkRow \cup {None}]
           /\ \A k \in Link : link[k] # None => link'[k] # None
           /\ link'[l].used = used /\ link'[l].valid = link[l].valid
           /\ \A k \in Link \ {l} : link'[k] = link[k]
<1>1. link \in [Link -> LinkRow \cup {None}] BY DEF AccessInv, AccessTypeOK
<1>2. [link[l] EXCEPT !.used = used] \in LinkRow BY <1>1 DEF LinkRow
<1>3. PICK row : row = [link[l] EXCEPT !.used = used] OBVIOUS
<1>4. link' = [link EXCEPT ![l] = row] BY <1>3
<1>5. row # None BY <1>2, <1>3, NullAssumption
<1>6. row.used = used /\ row.valid = link[l].valid BY <1>1, <1>3 DEF LinkRow
<1>7. link'[l] = row /\ \A k \in Link \ {l} : link'[k] = link[k] BY <1>1, <1>4
<1>8. link' \in [Link -> LinkRow \cup {None}] BY <1>1, <1>2, <1>3, <1>4
<1> QED BY <1>5, <1>6, <1>7, <1>8

\* A challenge that is entered is verified, and tied to the player.
LEMMA ChallengeEntered ==
    ASSUME AccessInv, Entered, NEW c \in Challenge, challenge[c] # None,
           NEW p \in Player, Known(p)',
           challenge' = [challenge EXCEPT ![c].verified = TRUE, ![c].player = p]
    PROVE  /\ challenge' \in [Challenge -> ChallengeRow \cup {None}]
           /\ Successor(challenge[c], challenge'[c])
           /\ challenge'[c].verified /\ challenge'[c].player = p
           /\ \A d \in Challenge \ {c} : challenge'[d] = challenge[d]
<1>1. challenge \in [Challenge -> ChallengeRow \cup {None}] BY DEF AccessInv, AccessTypeOK
<1>2. challenge[c] \in ChallengeRow BY <1>1
<1>3. PICK next : next = [challenge[c] EXCEPT !.verified = TRUE, !.player = p] OBVIOUS
<1>4. Successor(challenge[c], next) /\ next.verified /\ next.player = p
  <2>1. PICK ch \in ChallengeRow : ch = challenge[c] BY <1>2
  <2>2. next = [ch EXCEPT !.verified = TRUE, !.player = p] BY <1>3, <2>1
  <2>3. Successor(ch, next) /\ next.verified /\ next.player = p BY <2>2, ChallengeVerified
  <2> QED BY <2>1, <2>3
<1>5. challenge' = [challenge EXCEPT ![c] = next] BY <1>1, <1>2, <1>3 DEF ChallengeRow
<1>6. next \in ChallengeRow BY <1>4 DEF Successor
<1>7. challenge' \in [Challenge -> ChallengeRow \cup {None}] BY <1>1, <1>5, <1>6
<1>8. challenge'[c] = next /\ \A d \in Challenge \ {c} : challenge'[d] = challenge[d]
  BY <1>1, <1>5
<1> QED BY <1>4, <1>7, <1>8

\* What the request of w holds, when it commits.
LEMMA RequestHeld ==
    ASSUME AccessInv, NEW w \in Worker, request[w] # None
    PROVE  /\ request[w] \in Request /\ RequestSound(request[w])
           /\ request[w].kind \in {"verify", "identify"} => request[w].sign \in Signing
           /\ request[w].kind = "verify" =>
                 /\ request[w].challenge \in Challenge /\ request[w].used \in Nat
                 /\ challenge[request[w].challenge] # None
                 /\ challenge[request[w].challenge] \in ChallengeRow
                 /\ ChallengeSound(challenge[request[w].challenge])
<1>1. PICK r : r = request[w] OBVIOUS
<1>2. r \in Request /\ RequestSound(r) BY <1>1 DEF AccessInv, AccessTypeOK, Sound
<1>3. r.kind \in {"verify", "identify"} => r.sign \in Signing BY <1>2 DEF Request
<1>4. r.kind = "verify" =>
         r.challenge \in Challenge /\ r.used \in Nat /\ challenge[r.challenge] # None
  BY <1>2 DEF Request, RequestSound
<1>5. \A c \in Challenge : challenge[c] # None =>
         challenge[c] \in ChallengeRow /\ ChallengeSound(challenge[c])
  BY DEF AccessInv, AccessTypeOK, Sound
<1> QED BY <1>1, <1>2, <1>3, <1>4, <1>5

\* Signing in, as part of a commit.
LEMMA SignInCommits ==
    ASSUME AccessInv, NEW w \in Worker, request[w] # None, request[w].kind \in {"verify", "identify"},
           NEW p \in Player, SignIn(p, request[w].sign), Done(w)
    PROVE  /\ member' \in [Player -> Row \cup {None}] /\ session' \in [Player -> SUBSET Tokens]
           /\ issued' = issued + 1 /\ issued' \in 0..MaxRequests
           /\ made' \in 0..MaxRequests /\ overlap' \in BOOLEAN
           /\ TokensCounted'
           /\ request' \in [Worker -> Request \cup {None}]
           /\ Known(p)' /\ (\A q \in Player : Known(q) => Known(q)')
           /\ \A q \in Player \ {p} : member'[q] = member[q]
           /\ \/ member'[p].email = request[w].sign.new.email
              \/ (Known(p) /\ member'[p].email = member[p].email)
<1>1. PICK r : r = request[w] OBVIOUS
<1>2. r.kind \in {"verify", "identify"} /\ RequestSound(r) /\ r.sign \in Signing
  BY <1>1, RequestHeld
<1>3. r.sign.player # None => Known(r.sign.player) /\ r.sign.read # None
  BY <1>2 DEF RequestSound
<1>4. AccessTypeOK BY DEF AccessInv
<1>5. issued + 1 \in 0..MaxRequests /\ (issued' \in {issued, issued + 1} => TokensCounted')
  BY AnsweredOnce
<1>6. PICK s : s = r.sign OBVIOUS
<1>7. /\ member' \in [Player -> Row \cup {None}] /\ member'[p] \in Row
      /\ \A q \in Player \ {p} : member'[q] = member[q]
      /\ session' \in [Player -> SUBSET Tokens] /\ issued' = issued + 1
      /\ \/ member'[p].email = s.new.email
         \/ (Known(p) /\ member'[p].email = member[p].email)
  BY <1>1, <1>2, <1>3, <1>4, <1>5, <1>6, SignInWrites
<1>8. Known(p)' /\ (\A q \in Player : Known(q) => Known(q)')
  BY <1>4, <1>7, SignInKnows
<1>9. request' \in [Worker -> Request \cup {None}] BY RequestsContinue
<1>10. made' \in 0..MaxRequests /\ overlap' \in BOOLEAN BY <1>4 DEF Done, AccessTypeOK
<1> QED BY <1>1, <1>5, <1>6, <1>7, <1>8, <1>9, <1>10

LEMMA IdentifyPreserves ==
    ASSUME AccessInv, NEW w \in Worker, NEW p \in Player, IdentifyCommits(w, p)
    PROVE  Preserved
<1>1. /\ request[w] # None /\ request[w].kind = "identify" /\ SignIn(p, request[w].sign) /\ Done(w)
      /\ invite' = invite /\ link' = link /\ challenge' = challenge
  BY DEF IdentifyCommits
<1>2. AccessTypeOK'
  BY <1>1, SignInCommits DEF AccessInv, AccessTypeOK, Tokens
<1>3. Kept BY <1>1, SignInCommits, ChallengesStay DEF Kept
<1>4. Continues BY <1>1, RequestsContinue, ChallengesStay DEF Continues
<1> QED BY <1>1, <1>2, <1>3, <1>4, SignInCommits DEF Preserved

LEMMA VerifyWrites ==
    ASSUME AccessInv, NEW w \in Worker, NEW p \in Player, VerifyCommits(w, p)
    PROVE  /\ request[w] # None /\ request[w].kind = "verify" /\ SignIn(p, request[w].sign) /\ Done(w)
           /\ challenge' = [challenge EXCEPT ![request[w].challenge].verified = TRUE,
                                             ![request[w].challenge].player = p]
           /\ invite' \in [Invite -> InviteRow \cup {None}]
           /\ \A j \in Invite : invite[j] # None => invite'[j] # None
           /\ link' \in [Link -> LinkRow \cup {None}]
           /\ \A l \in Link : link[l] # None => link'[l] # None
<1>1. request[w] # None /\ request[w].kind = "verify" /\ SignIn(p, request[w].sign) /\ Done(w)
  BY DEF VerifyCommits
<1>2. PICK r, ch : r = request[w] /\ ch = challenge[r.challenge] OBVIOUS
<1>3. ChallengeSound(ch) /\ r.used \in Nat BY <1>1, <1>2, RequestHeld
<1>4. /\ challenge' = [challenge EXCEPT ![r.challenge].verified = TRUE, ![r.challenge].player = p]
      /\ invite' = IF ch.purpose = "INVITE"
                   THEN [invite EXCEPT ![ch.source].player = p] ELSE invite
      /\ link' = IF ch.purpose = "GROUP"
                 THEN [link EXCEPT ![ch.source].used = r.used] ELSE link
  BY <1>2 DEF VerifyCommits
<1>5. invite \in [Invite -> InviteRow \cup {None}] /\ link \in [Link -> LinkRow \cup {None}]
  BY DEF AccessInv, AccessTypeOK
<1>6. invite' \in [Invite -> InviteRow \cup {None}]
      /\ \A j \in Invite : invite[j] # None => invite'[j] # None
  BY <1>3, <1>4, <1>5, InviteAccepted DEF ChallengeSound
<1>7. link' \in [Link -> LinkRow \cup {None}]
      /\ \A l \in Link : link[l] # None => link'[l] # None
  BY <1>3, <1>4, <1>5, LinkCounted DEF ChallengeSound
<1> QED BY <1>1, <1>2, <1>4, <1>6, <1>7

LEMMA VerifyPreserves ==
    ASSUME AccessInv, NEW w \in Worker, NEW p \in Player, VerifyCommits(w, p)
    PROVE  Preserved
<1>1. /\ request[w] # None /\ request[w].kind = "verify" /\ SignIn(p, request[w].sign) /\ Done(w)
      /\ challenge' = [challenge EXCEPT ![request[w].challenge].verified = TRUE,
                                        ![request[w].challenge].player = p]
  BY VerifyWrites
<1> Entered BY DEF Entered
<1>2. PICK c : c = request[w].challenge OBVIOUS
<1>3. c \in Challenge /\ challenge[c] # None BY <1>1, <1>2, RequestHeld
<1>4. /\ challenge' \in [Challenge -> ChallengeRow \cup {None}]
      /\ Successor(challenge[c], challenge'[c])
      /\ \A d \in Challenge \ {c} : challenge'[d] = challenge[d]
  BY <1>1, <1>2, <1>3, SignInCommits, ChallengeEntered
<1>5. AccessTypeOK'
  BY <1>1, <1>4, SignInCommits, VerifyWrites DEF AccessInv, AccessTypeOK, Tokens
<1>6. /\ Kept
      /\ \A d \in Challenge : challenge'[d] # None =>
            \E ch \in ChallengeRow : ChallengeSound(ch) /\ Successor(ch, challenge'[d])
  <2>1. \A d \in Challenge : challenge'[d] # challenge[d] =>
           challenge[d] # None /\ Successor(challenge[d], challenge'[d])
    BY <1>3, <1>4
  <2> QED BY <1>1, <1>4, <2>1, SignInCommits, VerifyWrites, ChallengesFollow
<1>7. Continues BY <1>1, <1>6, RequestsContinue DEF Continues
<1> QED BY <1>1, <1>5, <1>6, <1>7, SignInCommits DEF Preserved

-----------------------------------------------------------------------------
(* The rows are whole in every state.                                      *)

LEMMA NextSteps ==
    ASSUME AccessNext
    PROVE  \/ AdminStep
           \/ \E c \in Challenge : CodeLapses(c)
           \/ \E w \in Worker :
                 \/ ReadStep(w)
                 \/ \E c \in Challenge : StartCommits(w, c)
                 \/ GuessCommits(w) \/ ResendCommits(w) \/ Rollback(w)
                 \/ \E p \in Player : VerifyCommits(w, p) \/ IdentifyCommits(w, p)
BY Zenon DEF AccessNext, AdminStep, ReadStep

LEMMA StepPreserves ==
    ASSUME AccessInv, AccessNext
    PROVE  Preserved
<1>1. CASE AdminStep BY <1>1, AdminPreserves
<1>2. CASE \E c \in Challenge : CodeLapses(c) BY <1>2, CodeLapsesPreserves
<1>3. ASSUME NEW w \in Worker, ReadStep(w) PROVE Preserved
  BY <1>3, ReadsRequest, ReadPreserves DEF AccessInv
<1>4. ASSUME NEW w \in Worker, \E c \in Challenge : StartCommits(w, c) PROVE Preserved
  BY <1>4, StartPreserves
<1>5. ASSUME NEW w \in Worker, GuessCommits(w) \/ ResendCommits(w) \/ Rollback(w) PROVE Preserved
  BY <1>5, GuessPreserves, ResendPreserves, RollbackPreserves
<1>6. ASSUME NEW w \in Worker, NEW p \in Player, VerifyCommits(w, p) \/ IdentifyCommits(w, p)
      PROVE  Preserved
  BY <1>6, VerifyPreserves, IdentifyPreserves
<1> QED BY <1>1, <1>2, <1>3, <1>4, <1>5, <1>6, NextSteps

LEMMA InvInit ==
    ASSUME AccessInit
    PROVE  AccessInv
<1>1. AccessTypeOK
  <2>1. 0 \in 0..MaxRequests BY AccessAssumption
  <2>2. session \in [Player -> SUBSET Tokens] BY DEF AccessInit
  <2>3. member \in [Player -> Row \cup {None}] /\ invite \in [Invite -> InviteRow \cup {None}]
    BY DEF AccessInit
  <2>4. /\ link \in [Link -> LinkRow \cup {None}]
        /\ challenge \in [Challenge -> ChallengeRow \cup {None}]
        /\ request \in [Worker -> Request \cup {None}]
    BY DEF AccessInit
  <2> QED BY <2>1, <2>2, <2>3, <2>4 DEF AccessInit, AccessTypeOK
<1>2. Sound BY DEF AccessInit, Sound
<1>3. InFlight = {} BY DEF AccessInit, InFlight
<1>4. IsFiniteSet({}) /\ Cardinality({}) = 0 BY FS_EmptySet
<1>5. TokensCounted BY <1>3, <1>4 DEF AccessInit, TokensCounted
<1> QED BY <1>1, <1>2, <1>5 DEF AccessInv

LEMMA InvStep ==
    ASSUME AccessInv, [AccessNext]_accessVars
    PROVE  AccessInv'
<1>1. CASE AccessNext
  BY <1>1, StepPreserves, StaysSound DEF Preserved, AccessInv
<1>2. CASE UNCHANGED accessVars
  <2>1. UNCHANGED <<member, session, issued, invite, link, challenge, request, made, overlap>>
    BY <1>2 DEF accessVars
  <2>2. AccessTypeOK' BY <2>1 DEF AccessInv, AccessTypeOK, Tokens
  <2>3. Sound' BY <2>1 DEF AccessInv, Sound, ChallengeSound, RequestSound, Known
  <2>4. TokensCounted' BY <2>1 DEF AccessInv, TokensCounted, InFlight
  <2> QED BY <2>2, <2>3, <2>4 DEF AccessInv
<1> QED BY <1>1, <1>2

THEOREM InvHolds == AccessSpec => []AccessInv
<1>1. AccessInit => AccessInv BY InvInit
<1>2. AccessInv /\ [AccessNext]_accessVars => AccessInv' BY InvStep
<1> QED BY <1>1, <1>2, PTL DEF AccessSpec

\* Every row has its type in every state: a token is the number of a request
\* that was made, and the tables hold no half-written row.  (play_service.py)
THEOREM AccessTypes == AccessSpec => []AccessTypeOK
<1>1. AccessInv => AccessTypeOK BY DEF AccessInv
<1> QED BY <1>1, InvHolds, PTL

-----------------------------------------------------------------------------
(* A code that is no longer good.                                          *)

LEMMA OnlyNewCodesReopen ==
    ASSUME AccessInv, AccessNext, NEW c \in Challenge, challenge[c] # None, ~Usable(c), Usable(c)'
    PROVE  challenge'[c].code # challenge[c].code
<1>1. challenge'[c] # None /\ challenge'[c].live /\ ~challenge'[c].verified BY DEF Usable
<1>2. ~challenge[c].live \/ challenge[c].verified BY DEF Usable
<1>3. /\ challenge[c] \in ChallengeRow /\ challenge \in [Challenge -> ChallengeRow \cup {None}]
  BY DEF AccessInv, AccessTypeOK
<1>4. challenge[c].verified => challenge'[c].verified
  BY StepPreserves DEF Preserved, Kept, Successor
<1>5. ~challenge[c].live BY <1>1, <1>2, <1>4
<1>6. CASE challenge' = challenge BY <1>1, <1>5, <1>6
<1>7. ASSUME NEW d \in Challenge, CodeLapses(d) PROVE FALSE
  <2>1. challenge' = [challenge EXCEPT ![d].live = FALSE] BY <1>7 DEF CodeLapses
  <2>2. CASE d = c
    <3>1. challenge'[c] = [challenge[c] EXCEPT !.live = FALSE] BY <1>3, <2>1, <2>2
    <3>2. ~challenge'[c].live BY <1>3, <3>1 DEF ChallengeRow
    <3> QED BY <1>1, <3>2
  <2>3. CASE d # c
    <3>1. challenge'[c] = challenge[c] BY <1>3, <2>1, <2>3
    <3> QED BY <1>1, <1>5, <3>1
  <2> QED BY <2>2, <2>3
<1>8. ASSUME NEW w \in Worker, NEW d \in Challenge, StartCommits(w, d) PROVE FALSE
  <2>1. /\ challenge[d] = None
        /\ challenge' = [e \in Challenge |->
              IF e = d THEN request[w].new
              ELSE IF e \in request[w].open THEN [challenge[e] EXCEPT !.live = FALSE]
              ELSE challenge[e]]
    BY <1>8 DEF StartCommits
  <2>2. c # d BY <2>1
  <2>3. challenge'[c] = IF c \in request[w].open THEN [challenge[c] EXCEPT !.live = FALSE] ELSE challenge[c]
    BY <2>1, <2>2
  <2>4. CASE c \in request[w].open
    <3>1. challenge'[c] = [challenge[c] EXCEPT !.live = FALSE] BY <2>3, <2>4
    <3>2. ~challenge'[c].live BY <1>3, <3>1 DEF ChallengeRow
    <3> QED BY <1>1, <3>2
  <2>5. CASE c \notin request[w].open BY <1>1, <1>5, <2>3, <2>5
  <2> QED BY <2>4, <2>5
<1>9. ASSUME NEW w \in Worker, GuessCommits(w) PROVE FALSE
  <2>1. PICK d, a : d = request[w].challenge /\ a = request[w].attempts OBVIOUS
  <2>2. challenge' = [challenge EXCEPT ![d].attempts = a,
                        ![d].live = @ /\ a < PLAY_ACCESS_OTP_MAX_ATTEMPTS]
    BY <1>9, <2>1 DEF GuessCommits
  <2>3. CASE d = c
    <3>1. challenge'[c] = [challenge[c] EXCEPT !.attempts = a,
                              !.live = @ /\ a < PLAY_ACCESS_OTP_MAX_ATTEMPTS]
      BY <1>3, <2>2, <2>3 DEF ChallengeRow
    <3>2. ~challenge'[c].live BY <1>3, <1>5, <3>1 DEF ChallengeRow
    <3> QED BY <1>1, <3>2
  <2>4. CASE d # c
    <3>1. challenge'[c] = challenge[c] BY <1>3, <2>2, <2>4
    <3> QED BY <1>1, <1>5, <3>1
  <2> QED BY <2>3, <2>4
<1>10. ASSUME NEW w \in Worker, ResendCommits(w) PROVE challenge'[c].code # challenge[c].code
  <2>1. PICK d, a, n : /\ d = request[w].challenge /\ n = request[w].resends
                       /\ a = IF request[w].attempts = 0 THEN challenge[d].attempts ELSE 0
    OBVIOUS
  <2>2. challenge' = [challenge EXCEPT
          ![d].code = @ + 1, ![d].live = TRUE,
          ![d].attempts = IF request[w].attempts = 0 THEN @ ELSE 0,
          ![d].resends = request[w].resends]
    BY <1>10, <2>1 DEF ResendCommits
  <2>3. CASE d = c
    <3>1. challenge'[c] = [challenge[c] EXCEPT !.code = challenge[c].code + 1, !.live = TRUE,
                              !.attempts = a, !.resends = n]
      BY <1>3, <2>1, <2>2, <2>3 DEF ChallengeRow
    <3>2. challenge'[c].code = challenge[c].code + 1 BY <1>3, <3>1 DEF ChallengeRow
    <3>3. challenge[c].code \in Nat BY <1>3 DEF ChallengeRow
    <3> QED BY ONLY <3>2, <3>3
  <2>4. CASE d # c
    <3>1. challenge'[c] = challenge[c] BY <1>3, <2>2, <2>4
    <3> QED BY <1>1, <1>5, <3>1
  <2> QED BY <2>3, <2>4
<1>11. ASSUME NEW w \in Worker, NEW p \in Player, VerifyCommits(w, p) PROVE FALSE
  <2>1. PICK d : d = request[w].challenge OBVIOUS
  <2>2. challenge' = [challenge EXCEPT ![d].verified = TRUE, ![d].player = p]
    BY <1>11, <2>1, VerifyWrites
  <2>3. CASE d = c
    <3>1. challenge'[c] = [challenge[c] EXCEPT !.verified = TRUE, !.player = p]
      BY <1>3, <2>2, <2>3 DEF ChallengeRow
    <3>2. challenge'[c].verified BY <1>3, <3>1 DEF ChallengeRow
    <3> QED BY <1>1, <3>2
  <2>4. CASE d # c
    <3>1. challenge'[c] = challenge[c] BY <1>3, <2>2, <2>4
    <3> QED BY <1>1, <1>5, <3>1
  <2> QED BY <2>3, <2>4
<1>12. ASSUME NEW w \in Worker, ReadStep(w) PROVE challenge' = challenge
  <2>1. \E r \in Request : Read(w, r) BY <1>12, ReadsRequest DEF AccessInv
  <2> QED BY <2>1 DEF Read
<1>13. AdminStep => challenge' = challenge BY AdminWrites
<1>14. ASSUME NEW w \in Worker, Rollback(w) \/ (\E p \in Player : IdentifyCommits(w, p))
       PROVE  challenge' = challenge
  BY <1>14 DEF Rollback, IdentifyCommits
<1> QED BY <1>6, <1>7, <1>8, <1>9, <1>10, <1>11, <1>12, <1>13, <1>14, NextSteps

\* A code that lapsed, was superseded or was guessed at too often stays shut,
\* however guesses, resends and new challenges of the address overlap.
\* (resend_player_access_challenge, verify_player_access_challenge)
THEOREM CodesStayShut == AccessSpec => ReopensOnlyWithNewCode
<1>1. ASSUME AccessInv, [AccessNext]_accessVars
      PROVE  [\A c \in Challenge :
                 challenge[c] # None /\ ~Usable(c) /\ Usable(c)' => challenge'[c].code # challenge[c].code
             ]_accessVars
  BY <1>1, OnlyNewCodesReopen
<1> QED BY <1>1, InvHolds, PTL DEF AccessSpec, ReopensOnlyWithNewCode

-----------------------------------------------------------------------------
(* As long as no two requests overlap: what was read still holds.          *)

\* A recovery is of the player who has the address.
Remembered(ch) ==
    ch.purpose = "RECOVERY" /\ ch.player # None => member[ch.player].email = ch.email

\* What a request has read is what the rows hold.
Current(r) ==
    /\ r.kind = "start" => Remembered(r.new)
    /\ r.kind \in {"verify", "identify"} /\ r.sign.player # None =>
          /\ r.sign.read = member[r.sign.player] /\ r.sign.seen = session[r.sign.player]
          /\ r.sign.read.email # None => r.sign.new.email \in {None, r.sign.read.email}
    /\ r.kind = "verify" =>
          LET ch == challenge[r.challenge] IN
          /\ ~ch.verified
          /\ ch.purpose = "GROUP" => r.used = link[ch.source].used + 1 /\ r.used <= MaxUses

\* One request at a time.
OneInFlight == \A v, w \in Worker : request[v] # None /\ request[w] # None => v = w

\* A token is a known player's only one.
OneToken == \A p \in Player : (\E t : session[p] \subseteq {t}) /\ (~Known(p) => session[p] = {})

Proves(c, p) ==
    /\ challenge[c] # None /\ challenge[c].verified
    /\ challenge[c].email = member[p].email /\ challenge[c].player = p

EmailsTied ==
    \A p \in Player : Known(p) /\ member[p].email # None => \E c \in Challenge : Proves(c, p)

Admitted(l) ==
    {c \in Challenge : challenge[c] # None /\ challenge[c].source = l /\ challenge[c].verified}

\* Who came in by a link was counted.
LinksCounted ==
    \A l \in Link :
        IF link[l] = None THEN Admitted(l) = {}
        ELSE /\ IsFiniteSet(Admitted(l)) /\ Cardinality(Admitted(l)) <= link[l].used
             /\ link[l].used <= MaxUses

Undisturbed ==
    /\ OneInFlight
    /\ \A w \in Worker : request[w] # None => Current(request[w])
    /\ \A c \in Challenge : challenge[c] # None => Remembered(challenge[c])
    /\ OneToken /\ EmailsTied /\ LinksCounted

\* Every email was proved by somebody, whatever overlaps.
EmailsEntered ==
    \A p \in Player : Known(p) /\ member[p].email # None =>
        \E c \in Challenge :
            challenge[c] # None /\ challenge[c].verified /\ challenge[c].email = member[p].email

AloneInv == AccessInv /\ EmailsEntered /\ (~overlap => Undisturbed)

-----------------------------------------------------------------------------
(* Every email was entered.                                                *)

\* A step leaves the profiles, or signs one player in.
LEMMA WhoIsWritten ==
    ASSUME AccessInv, AccessNext
    PROVE  \/ UNCHANGED <<member, session>> /\ ~Entered
           \/ \E w \in Worker, p \in Player : VerifyCommits(w, p)
           \/ (\E w \in Worker, p \in Player : IdentifyCommits(w, p)) /\ ~Entered
<1> SUFFICES ASSUME ~Entered, ~(\E w \in Worker, p \in Player : IdentifyCommits(w, p))
             PROVE  UNCHANGED <<member, session>>
  BY DEF Entered
<1>1. CASE AdminStep BY <1>1, AdminWrites
<1>2. ASSUME NEW c \in Challenge, CodeLapses(c) PROVE UNCHANGED <<member, session>>
  BY <1>2 DEF CodeLapses
<1>3. ASSUME NEW w \in Worker, ReadStep(w) PROVE UNCHANGED <<member, session>>
  <2>1. \E r \in Request : Read(w, r) BY <1>3, ReadsRequest DEF AccessInv
  <2> QED BY <2>1 DEF Read
<1>4. ASSUME NEW w \in Worker, NEW c \in Challenge, StartCommits(w, c) PROVE UNCHANGED <<member, session>>
  BY <1>4 DEF StartCommits
<1>5. ASSUME NEW w \in Worker, GuessCommits(w) \/ ResendCommits(w) \/ Rollback(w)
      PROVE  UNCHANGED <<member, session>>
  BY <1>5 DEF GuessCommits, ResendCommits, Rollback
<1> QED BY <1>1, <1>2, <1>3, <1>4, <1>5, NextSteps DEF Entered

\* A verified challenge stays so.
LEMMA StaysVerified ==
    ASSUME Preserved, NEW c \in Challenge, challenge[c] # None, challenge[c].verified
    PROVE  /\ challenge'[c] # None /\ challenge'[c].verified = TRUE
           /\ challenge'[c].email = challenge[c].email
<1>1. challenge'[c] # None /\ Successor(challenge[c], challenge'[c]) BY DEF Preserved, Kept
<1>2. challenge'[c].verified \in BOOLEAN BY <1>1 DEF Successor, ChallengeRow
<1> QED BY <1>1, <1>2 DEF Successor

LEMMA EntersEmail ==
    ASSUME AccessInv, EmailsEntered, AccessNext
    PROVE  EmailsEntered'
<1> DEFINE Entry(p, c) == /\ challenge'[c] # None /\ challenge'[c].verified
                          /\ challenge'[c].email = member'[p].email
<1>1. Preserved BY StepPreserves
<1>2. ASSUME NEW p \in Player, Known(p), member[p].email # None, member'[p].email = member[p].email
      PROVE  \E c \in Challenge : Entry(p, c)
  <2>1. PICK c \in Challenge :
           challenge[c] # None /\ challenge[c].verified /\ challenge[c].email = member[p].email
    BY <1>2 DEF EmailsEntered
  <2> QED BY <1>1, <1>2, <2>1, StaysVerified
<1>3. ASSUME UNCHANGED <<member, session>>, NEW p \in Player, Known(p)', member'[p].email # None
      PROVE  \E c \in Challenge : Entry(p, c)
  <2>1. Known(p) /\ member'[p] = member[p] BY <1>3 DEF Known
  <2> QED BY <1>2, <1>3, <2>1
<1>4. ASSUME NEW w \in Worker, NEW q \in Player, IdentifyCommits(w, q),
             NEW p \in Player, Known(p)', member'[p].email # None
      PROVE  \E c \in Challenge : Entry(p, c)
  <2>1. /\ request[w] # None /\ request[w].kind = "identify" /\ SignIn(q, request[w].sign) /\ Done(w)
    BY <1>4 DEF IdentifyCommits
  <2>2. request[w].sign.new.email = None BY <2>1, RequestHeld DEF RequestSound
  <2>3. CASE p = q
    <3>1. Known(p) /\ member'[p].email = member[p].email BY <1>4, <2>1, <2>2, <2>3, SignInCommits
    <3> QED BY <1>2, <1>4, <3>1
  <2>4. CASE p # q
    <3>1. member'[p] = member[p] BY <2>1, <2>4, SignInCommits
    <3> QED BY <1>2, <1>4, <3>1 DEF Known
  <2> QED BY <2>3, <2>4
<1>5. ASSUME NEW w \in Worker, NEW q \in Player, VerifyCommits(w, q),
             NEW p \in Player, Known(p)', member'[p].email # None
      PROVE  \E c \in Challenge : Entry(p, c)
  <2>1. /\ request[w] # None /\ request[w].kind = "verify" /\ SignIn(q, request[w].sign) /\ Done(w)
        /\ challenge' = [challenge EXCEPT ![request[w].challenge].verified = TRUE,
                                          ![request[w].challenge].player = q]
    BY <1>5, VerifyWrites
  <2>2. PICK c : c = request[w].challenge OBVIOUS
  <2>3. c \in Challenge /\ challenge[c] # None /\ request[w].sign.new.email = challenge[c].email
    BY <2>1, <2>2, RequestHeld DEF RequestSound
  <2>4. CASE p # q
    <3>1. member'[p] = member[p] BY <2>1, <2>4, SignInCommits
    <3> QED BY <1>2, <1>5, <3>1 DEF Known
  <2>5. CASE p = q /\ member'[p].email = request[w].sign.new.email
    <3>1. Entered BY <1>5 DEF Entered
    <3>2. Known(q)' BY <2>1, SignInCommits
    <3>3. Successor(challenge[c], challenge'[c]) /\ challenge'[c].verified
      BY <2>1, <2>2, <2>3, <3>1, <3>2, ChallengeEntered
    <3>4. challenge'[c].email = challenge[c].email BY <3>3 DEF Successor
    <3>5. challenge'[c] # None BY <1>1, <2>3 DEF Preserved, Kept
    <3> QED BY <2>3, <2>5, <3>3, <3>4, <3>5
  <2>6. CASE p = q /\ Known(p) /\ member'[p].email = member[p].email
    BY <1>2, <1>5, <2>6
  <2> QED BY <2>1, <2>4, <2>5, <2>6, SignInCommits
<1>6. ASSUME NEW p \in Player, Known(p)', member'[p].email # None
      PROVE  \E c \in Challenge : Entry(p, c)
  BY <1>3, <1>4, <1>5, <1>6, WhoIsWritten
<1> QED BY <1>6 DEF EmailsEntered, Known

-----------------------------------------------------------------------------
(* What is read is current.                                                *)

LEMMA UpsertCurrent ==
    ASSUME AccessTypeOK, NEW profile \in Profile, NEW email \in Email \cup {None},
           SamePerson(profile.phone, email), NEW u, u = Upsert(profile, email), u.player # None
    PROVE  /\ u.read = member[u.player] /\ u.seen = session[u.player]
           /\ u.read.email # None => u.new.email \in {None, u.read.email}
<1> DEFINE p == Resolved(profile.phone, email)
<1>1. u = [player |-> p, read |-> IF p = None THEN None ELSE member[p],
           new |-> NewRow(profile, email), seen |-> IF p = None THEN {} ELSE session[p]]
  BY DEF Upsert
<1>2. u.new.email = email BY UpsertSigns
<1>3. p # None => p \in ByPhone(profile.phone) \cup ByEmail(email) BY ResolvedPlayer
<1> HIDE DEF p
<1>4. u.player = p /\ p # None /\ u.read = member[p] /\ u.seen = session[p] BY <1>1
<1>5. CASE p \in ByEmail(email)
  <2>1. member[p].email = email BY <1>5 DEF ByEmail
  <2> QED BY <1>2, <1>4, <2>1
<1>6. CASE p \in ByPhone(profile.phone)
  <2>1. email # None => member[p].email \in {None, email} BY <1>6 DEF SamePerson
  <2> QED BY <1>2, <1>4, <2>1
<1> QED BY <1>3, <1>4, <1>5, <1>6

LEMMA FreshCurrent ==
    ASSUME NEW w, NEW purpose, NEW email, NEW profile, NEW player, NEW source,
           purpose = "RECOVERY" /\ player # None => member[player].email = email,
           StartReads(w, email, Fresh(purpose, email, profile, player, source))
    PROVE  \E r : Read(w, r) /\ Current(r)
<1> DEFINE fresh == Fresh(purpose, email, profile, player, source)
           r == [kind |-> "start", new |-> fresh, open |-> OpenFor(email)]
<1>1. fresh.purpose = purpose /\ fresh.player = player /\ fresh.email = email BY DEF Fresh
<1>2. Read(w, r) BY DEF StartReads
<1> HIDE DEF fresh
<1>3. Remembered(fresh) BY <1>1 DEF Remembered
<1>4. r.kind = "start" /\ r.new = fresh OBVIOUS
<1> HIDE DEF r
<1>5. Current(r) BY <1>3, <1>4 DEF Current
<1> QED BY <1>2, <1>5

LEMMA SignCurrent ==
    ASSUME NEW w, NEW r, Read(w, r), r.kind \in {"verify", "identify"},
           NEW s, s = r.sign,
           s.player # None =>
              /\ s.read = member[s.player] /\ s.seen = session[s.player]
              /\ s.read.email # None => s.new.email \in {None, s.read.email},
           r.kind = "verify" =>
              /\ ~challenge[r.challenge].verified
              /\ challenge[r.challenge].purpose = "GROUP" =>
                    r.used = link[challenge[r.challenge].source].used + 1 /\ r.used <= MaxUses
    PROVE  \E q : Read(w, q) /\ Current(q)
<1>1. Current(r) BY DEF Current
<1> QED BY <1>1

LEMMA ReadsCurrent ==
    ASSUME AccessInv, \A c \in Challenge : challenge[c] # None => Remembered(challenge[c]),
           NEW w \in Worker, ReadStep(w)
    PROVE  \E r : Read(w, r) /\ Current(r)
<1> AccessTypeOK /\ Sound BY DEF AccessInv
<1>1. ASSUME NEW email \in Email, NEW i \in Invite, StartInvite(w, email, i)
      PROVE  \E r : Read(w, r) /\ Current(r)
  BY <1>1, FreshCurrent DEF StartInvite, StartWithProfile
<1>2. ASSUME NEW email \in Email, NEW l \in Link, NEW profile \in Profile,
             StartGroup(w, email, profile, l)
      PROVE  \E r : Read(w, r) /\ Current(r)
  BY <1>2, FreshCurrent DEF StartGroup, StartWithProfile
<1>3. ASSUME NEW email \in Email, NEW profile \in Profile, StartDirect(w, email, profile)
      PROVE  \E r : Read(w, r) /\ Current(r)
  BY <1>3, FreshCurrent DEF StartDirect, StartWithProfile
<1>4. ASSUME NEW email \in Email, StartRecovery(w, email)
      PROVE  \E r : Read(w, r) /\ Current(r)
  <2>1. PICK player : player = IF ByEmail(email) = {} THEN None ELSE CHOOSE p \in ByEmail(email) : TRUE
    OBVIOUS
  <2>2. player # None => member[player].email = email
    <3>1. player = None \/ player \in ByEmail(email) BY <2>1
    <3> QED BY <3>1 DEF ByEmail
  <2>3. StartReads(w, email, Fresh("RECOVERY", email, None, player, None))
    BY <1>4, <2>1 DEF StartRecovery
  <2> QED BY <2>2, <2>3, FreshCurrent
<1>5. ASSUME NEW c \in Challenge, GuessReads(w, c) PROVE \E r : Read(w, r) /\ Current(r)
  <2> DEFINE r == [kind |-> "guess", challenge |-> c, attempts |-> challenge[c].attempts + 1]
  <2>1. Read(w, r) BY <1>5 DEF GuessReads
  <2>2. r.kind = "guess" OBVIOUS
  <2> HIDE DEF r
  <2> QED BY <2>1, <2>2 DEF Current
<1>6. ASSUME NEW c \in Challenge, ResendReads(w, c) PROVE \E r : Read(w, r) /\ Current(r)
  <2> DEFINE r == [kind |-> "resend", challenge |-> c, attempts |-> challenge[c].attempts,
                   resends |-> challenge[c].resends + 1]
  <2>1. Read(w, r) BY <1>6 DEF ResendReads
  <2>2. r.kind = "resend" OBVIOUS
  <2> HIDE DEF r
  <2> QED BY <2>1, <2>2 DEF Current
<1>7. ASSUME NEW profile \in Profile, IdentifyReads(w, profile) PROVE \E r : Read(w, r) /\ Current(r)
  <2>1. PICK s : s = Upsert(profile, None) OBVIOUS
  <2> DEFINE r == [kind |-> "identify", sign |-> s]
  <2>2. Read(w, r) /\ r.kind = "identify" /\ r.sign = s BY <1>7, <2>1 DEF IdentifyReads
  <2>3. s.player # None =>
           /\ s.read = member[s.player] /\ s.seen = session[s.player]
           /\ s.read.email # None => s.new.email \in {None, s.read.email}
    BY <1>7, <2>1, UpsertCurrent DEF IdentifyReads, Acceptable
  <2> HIDE DEF r
  <2> QED BY <2>2, <2>3, SignCurrent
<1>8. ASSUME NEW c \in Challenge, VerifyReads(w, c) PROVE \E r : Read(w, r) /\ Current(r)
  <2>1. PICK ch : ch = challenge[c] OBVIOUS
  <2>2. /\ ch # None /\ ~ch.verified /\ ch \in ChallengeRow /\ ChallengeSound(ch) /\ Remembered(ch)
        /\ ch.purpose = "GROUP" => LinkActive(ch.source)
    BY <1>8, <2>1 DEF VerifyReads, Available, AccessTypeOK, Sound
  <2>3. ASSUME NEW s, NEW used,
               Read(w, [kind |-> "verify", challenge |-> c, used |-> used, sign |-> s]),
               s.player # None =>
                  /\ s.read = member[s.player] /\ s.seen = session[s.player]
                  /\ s.read.email # None => s.new.email \in {None, s.read.email},
               ch.purpose = "GROUP" => used = link[ch.source].used + 1 /\ used <= MaxUses
        PROVE  \E r : Read(w, r) /\ Current(r)
    <3> DEFINE r == [kind |-> "verify", challenge |-> c, used |-> used, sign |-> s]
    <3>1. /\ Read(w, r) /\ r.kind = "verify" /\ r.sign = s /\ r.challenge = c /\ r.used = used
      BY <2>3
    <3> HIDE DEF r
    <3>2. r.kind = "verify" =>
              /\ ~challenge[r.challenge].verified
              /\ challenge[r.challenge].purpose = "GROUP" =>
                    r.used = link[challenge[r.challenge].source].used + 1 /\ r.used <= MaxUses
      BY <2>1, <2>2, <2>3, <3>1
    <3> QED BY <2>3, <3>1, <3>2, SignCurrent
  <2>4. CASE ch.purpose = "RECOVERY"
    <3> DEFINE row == [member[ch.player] EXCEPT !.email = ch.email]
               s == [player |-> ch.player, read |-> member[ch.player], new |-> row,
                     seen |-> session[ch.player]]
    <3>1. /\ ch.player # None
          /\ Read(w, [kind |-> "verify", challenge |-> c, used |-> 0, sign |-> s])
      BY <1>8, <2>1, <2>4 DEF VerifyReads
    <3>2. Known(ch.player) /\ ch.player \in Player BY <2>2, <3>1 DEF ChallengeSound, ChallengeRow
    <3>3. member[ch.player] \in Row BY <3>2 DEF Known, AccessTypeOK
    <3>4. row.email = ch.email BY <3>3 DEF Row
    <3>5. member[ch.player].email = ch.email BY <2>2, <2>4, <3>1 DEF Remembered
    <3> HIDE DEF row
    <3>6. /\ s.read = member[s.player] /\ s.seen = session[s.player] /\ s.read.email = ch.email
          /\ s.new.email = ch.email
      BY <3>4, <3>5
    <3> HIDE DEF s
    <3> QED BY <2>3, <2>4, <3>1, <3>6
  <2>5. CASE ch.purpose # "RECOVERY"
    <3>1. PICK s, used : /\ s = Upsert(ch.profile, ch.email)
                         /\ used = IF ch.purpose = "GROUP" THEN link[ch.source].used + 1 ELSE 0
      OBVIOUS
    <3>2. /\ Read(w, [kind |-> "verify", challenge |-> c, used |-> used, sign |-> s])
          /\ SamePerson(ch.profile.phone, ch.email)
      BY <1>8, <2>1, <2>5, <3>1 DEF VerifyReads, Acceptable
    <3>3. ch.profile \in Profile /\ ch.email \in Email BY <2>2, <2>5 DEF ChallengeSound, ChallengeRow
    <3>4. s.player # None =>
             /\ s.read = member[s.player] /\ s.seen = session[s.player]
             /\ s.read.email # None => s.new.email \in {None, s.read.email}
      BY <3>1, <3>2, <3>3, UpsertCurrent
    <3>5. ch.purpose = "GROUP" => used = link[ch.source].used + 1 /\ used <= MaxUses
      <4>1. ASSUME ch.purpose = "GROUP"
            PROVE  used = link[ch.source].used + 1 /\ used <= MaxUses
        <5>1. ch.source \in Link /\ link[ch.source] # None /\ link[ch.source].used < MaxUses
          BY <2>2, <4>1 DEF ChallengeSound, LinkActive
        <5>2. link[ch.source].used \in Nat BY <5>1 DEF AccessTypeOK, LinkRow
        <5>3. used = link[ch.source].used + 1 BY <3>1, <4>1
        <5>4. MaxUses \in Nat BY AccessAssumption
        <5> QED BY ONLY <5>1, <5>2, <5>3, <5>4
      <4> QED BY <4>1
    <3> QED BY <2>3, <3>2, <3>4, <3>5
  <2> QED BY <2>4, <2>5
<1> QED BY <1>1, <1>2, <1>3, <1>4, <1>5, <1>6, <1>7, <1>8 DEF ReadStep

-----------------------------------------------------------------------------
(* What a step does while nothing overlaps.                                *)

\* The row is read and written by one request: the email it has stays, an
\* email it gets is the one that was sent the code, and one token is left.
LEMMA SignInCurrent ==
    ASSUME AccessInv, Undisturbed, NEW w \in Worker, request[w] # None,
           request[w].kind \in {"verify", "identify"},
           NEW p \in Player, SignIn(p, request[w].sign), Done(w)
    PROVE  /\ session'[p] \subseteq {issued + 1}
           /\ \A q \in Player \ {p} : session'[q] = session[q]
           /\ Known(p) /\ member[p].email # None => member'[p].email = member[p].email
           /\ request[w].sign.new.email # None => member'[p].email = request[w].sign.new.email
<1>1. PICK r : r = request[w].sign OBVIOUS
<1>2. r \in Signing BY <1>1, RequestHeld
<1>3. r.player # None =>
         /\ r.read = member[r.player] /\ r.seen = session[r.player]
         /\ r.read.email # None => r.new.email \in {None, r.read.email}
  BY <1>1 DEF Undisturbed, Current
<1>4. /\ IF r.player = None THEN ~Known(p) ELSE p = r.player
      /\ member' = [member EXCEPT ![p] =
            IF r.player = None THEN r.new ELSE Written(@, r.read, r.new)]
      /\ \E seen \in {r.seen, session[p]} : Issue(p, seen)
  BY <1>1 DEF SignIn
<1>5. member \in [Player -> Row \cup {None}] /\ session \in [Player -> SUBSET Tokens]
  BY DEF AccessInv, AccessTypeOK
<1>6. session[p] = {} \/ (r.player = p /\ r.player # None)
  BY <1>4 DEF Undisturbed, OneToken
<1>7. PICK seen : /\ seen = session[p] \/ session[p] = {}
                  /\ session' = [session EXCEPT ![p] = (@ \ seen) \cup {issued + 1}]
  BY <1>3, <1>4, <1>6 DEF Issue
<1>8. session'[p] \subseteq {issued + 1} /\ \A q \in Player \ {p} : session'[q] = session[q]
  BY <1>5, <1>7
<1>9. CASE r.player = None
  <2>1. ~Known(p) /\ member'[p] = r.new BY <1>4, <1>5, <1>9
  <2> QED BY <1>1, <1>8, <2>1
<1>10. CASE r.player # None
  <2>1. p = r.player /\ r.read = member[p] BY <1>3, <1>4, <1>10
  <2>2. member'[p] = Written(member[p], member[p], r.new) BY <1>4, <1>5, <1>10, <2>1
  <2>3. member'[p].email = IF r.new.email \in {None, member[p].email}
                           THEN member[p].email ELSE r.new.email
    BY <2>2 DEF Written
  <2>4. member[p].email # None => r.new.email \in {None, member[p].email} BY <1>3, <1>10, <2>1
  <2> QED BY <1>1, <1>8, <2>3, <2>4
<1> QED BY <1>9, <1>10

\* One step at a time: what a profile has is kept.
EmailsStay ==
    \A p \in Player : Known(p) /\ member[p].email # None =>
        member'[p] # None /\ member'[p].email = member[p].email

LEMMA EmailsAreKept ==
    ASSUME AccessInv, Undisturbed, AccessNext
    PROVE  EmailsStay
<1>1. CASE UNCHANGED <<member, session>> BY <1>1 DEF EmailsStay, Known
<1>2. ASSUME NEW w \in Worker, request[w] # None, request[w].kind \in {"verify", "identify"},
             NEW q \in Player, SignIn(q, request[w].sign), Done(w)
      PROVE  EmailsStay
  <2>1. \A p \in Player \ {q} : member'[p] = member[p] BY <1>2, SignInCommits
  <2>2. Known(q) /\ member[q].email # None => member'[q].email = member[q].email
    BY <1>2, SignInCurrent
  <2>3. \A p \in Player : Known(p) => member'[p] # None BY <1>2, SignInCommits DEF Known
  <2> QED BY <2>1, <2>2, <2>3 DEF EmailsStay
<1>3. ASSUME NEW w \in Worker, NEW q \in Player, VerifyCommits(w, q) \/ IdentifyCommits(w, q)
      PROVE  EmailsStay
  BY <1>2, <1>3 DEF VerifyCommits, IdentifyCommits
<1> QED BY <1>1, <1>3, WhoIsWritten

LEMMA OneTokenStays ==
    ASSUME AccessInv, Undisturbed, AccessNext
    PROVE  OneToken'
<1>1. CASE UNCHANGED <<member, session>> BY <1>1 DEF Undisturbed, OneToken, Known
<1>2. ASSUME NEW w \in Worker, request[w] # None, request[w].kind \in {"verify", "identify"},
             NEW q \in Player, SignIn(q, request[w].sign), Done(w)
      PROVE  OneToken'
  <2>1. ASSUME NEW p \in Player
        PROVE  (\E t : session'[p] \subseteq {t}) /\ (~Known(p)' => session'[p] = {})
    <3>1. CASE p = q BY <1>2, <3>1, SignInCurrent, SignInCommits
    <3>2. CASE p # q
      <4>1. session'[p] = session[p] /\ member'[p] = member[p]
        BY <1>2, <3>2, SignInCurrent, SignInCommits
      <4> QED BY <4>1 DEF Undisturbed, OneToken, Known
    <3> QED BY <3>1, <3>2
  <2> QED BY <2>1 DEF OneToken, Known
<1>3. ASSUME NEW w \in Worker, NEW q \in Player, VerifyCommits(w, q) \/ IdentifyCommits(w, q)
      PROVE  OneToken'
  BY <1>2, <1>3 DEF VerifyCommits, IdentifyCommits
<1> QED BY <1>1, <1>3, WhoIsWritten

\* Who the verified challenges are for, and how a code that is entered adds one.
LEMMA VerifyTies ==
    ASSUME AccessInv, Undisturbed, NEW w \in Worker, NEW q \in Player, VerifyCommits(w, q),
           NEW c, c = request[w].challenge
    PROVE  /\ c \in Challenge /\ challenge[c] # None /\ ~challenge[c].verified
           /\ challenge'[c] # None /\ challenge'[c].verified /\ challenge'[c].player = q
           /\ challenge'[c].email = challenge[c].email /\ challenge'[c].source = challenge[c].source
           /\ challenge'[c].purpose = challenge[c].purpose
           /\ member'[q].email = challenge[c].email
           /\ \A d \in Challenge \ {c} : challenge'[d] = challenge[d]
<1>1. /\ request[w] # None /\ request[w].kind = "verify" /\ SignIn(q, request[w].sign) /\ Done(w)
      /\ challenge' = [challenge EXCEPT ![c].verified = TRUE, ![c].player = q]
  BY VerifyWrites
<1>2. /\ c \in Challenge /\ challenge[c] # None /\ challenge[c] \in ChallengeRow
      /\ request[w].sign.new.email = challenge[c].email
  BY <1>1, RequestHeld DEF RequestSound
<1>3. ~challenge[c].verified BY <1>1 DEF Undisturbed, Current
<1>4. Entered BY DEF Entered
<1>5. Known(q)' BY <1>1, SignInCommits
<1>6. /\ Successor(challenge[c], challenge'[c])
      /\ challenge'[c].verified /\ challenge'[c].player = q
      /\ \A d \in Challenge \ {c} : challenge'[d] = challenge[d]
  BY <1>1, <1>2, <1>4, <1>5, ChallengeEntered
<1>7. /\ challenge'[c].email = challenge[c].email /\ challenge'[c].source = challenge[c].source
      /\ challenge'[c].purpose = challenge[c].purpose /\ challenge'[c] \in ChallengeRow
  BY <1>6 DEF Successor
<1>8. challenge[c].email \in Email BY <1>2 DEF ChallengeRow
<1>9. None \notin Email BY AccessAssumption
<1>10. member'[q].email = challenge[c].email BY <1>1, <1>2, <1>8, <1>9, SignInCurrent
<1>11. challenge'[c] # None BY <1>7, NullAssumption
<1> QED BY <1>2, <1>3, <1>6, <1>7, <1>10, <1>11

LEMMA EmailsStayTied ==
    ASSUME AccessInv, Undisturbed, AccessNext
    PROVE  EmailsTied'
<1> DEFINE Ties(c, p) == /\ challenge'[c] # None /\ challenge'[c].verified
                         /\ challenge'[c].email = member'[p].email /\ challenge'[c].player = p
<1>1. Preserved BY StepPreserves
<1>2. ASSUME NEW p \in Player, Known(p), member[p].email # None, member'[p].email = member[p].email
      PROVE  \E c \in Challenge : Ties(c, p)
  <2>1. PICK c \in Challenge : Proves(c, p) BY <1>2 DEF Undisturbed, EmailsTied
  <2>2. /\ challenge[c] # None /\ challenge[c].verified
        /\ challenge[c].email = member[p].email /\ challenge[c].player = p
    BY <2>1 DEF Proves
  <2>3. challenge'[c] # None /\ challenge'[c].verified /\ challenge'[c].email = challenge[c].email
    BY <1>1, <2>2, StaysVerified
  <2>4. CASE Entered
    <3>1. PICK w \in Worker, q \in Player : VerifyCommits(w, q) BY <2>4 DEF Entered
    <3>2. PICK d : d = request[w].challenge OBVIOUS
    <3>3. c # d /\ \A e \in Challenge \ {d} : challenge'[e] = challenge[e]
      BY <2>2, <3>1, <3>2, VerifyTies
    <3> QED BY <1>2, <2>2, <3>3
  <2>5. CASE ~Entered
    <3>1. challenge'[c].player = challenge[c].player
      BY <1>1, <2>2, <2>5 DEF Preserved, Kept, Successor
    <3> QED BY <1>2, <2>2, <2>3, <3>1
  <2> QED BY <2>4, <2>5
<1>3. ASSUME NEW p \in Player, Known(p)', member'[p].email # None
      PROVE  \E c \in Challenge : Ties(c, p)
  <2>1. CASE UNCHANGED <<member, session>>
    <3>1. Known(p) /\ member'[p] = member[p] BY <1>3, <2>1 DEF Known
    <3> QED BY <1>2, <1>3, <3>1
  <2>2. ASSUME NEW w \in Worker, NEW q \in Player, IdentifyCommits(w, q)
        PROVE  \E c \in Challenge : Ties(c, p)
    <3>1. /\ request[w] # None /\ request[w].kind = "identify" /\ SignIn(q, request[w].sign) /\ Done(w)
      BY <2>2 DEF IdentifyCommits
    <3>2. request[w].sign.new.email = None BY <3>1, RequestHeld DEF RequestSound
    <3>3. CASE p = q
      <4>1. Known(p) /\ member'[p].email = member[p].email BY <1>3, <3>1, <3>2, <3>3, SignInCommits
      <4> QED BY <1>2, <1>3, <4>1
    <3>4. CASE p # q
      <4>1. member'[p] = member[p] BY <3>1, <3>4, SignInCommits
      <4> QED BY <1>2, <1>3, <4>1 DEF Known
    <3> QED BY <3>3, <3>4
  <2>3. ASSUME NEW w \in Worker, NEW q \in Player, VerifyCommits(w, q)
        PROVE  \E c \in Challenge : Ties(c, p)
    <3>1. PICK c : c = request[w].challenge OBVIOUS
    <3>2. CASE p = q
      <4>1. /\ c \in Challenge /\ challenge'[c] # None /\ challenge'[c].verified
            /\ challenge'[c].player = p /\ challenge'[c].email = member'[p].email
        BY <2>3, <3>1, <3>2, VerifyTies
      <4> QED BY <4>1
    <3>3. CASE p # q
      <4>1. /\ request[w] # None /\ request[w].kind = "verify" /\ SignIn(q, request[w].sign)
            /\ Done(w)
        BY <2>3, VerifyWrites
      <4>2. member'[p] = member[p] BY <3>3, <4>1, SignInCommits
      <4> QED BY <1>2, <1>3, <4>2 DEF Known
    <3> QED BY <3>2, <3>3
  <2> QED BY <2>1, <2>2, <2>3, WhoIsWritten
<1> QED BY <1>3 DEF EmailsTied, Proves, Known

\* A link is counted by a code that is entered for it, and by nothing else.
LEMMA UsedStays ==
    ASSUME AccessInv, AccessNext
    PROVE  \/ Entered
           \/ \A l \in Link :
                 /\ link[l] # None => link'[l] # None /\ link'[l].used = link[l].used
                 /\ link[l] = None /\ link'[l] # None => link'[l].used = 0
<1> SUFFICES ASSUME ~Entered
             PROVE  \A l \in Link :
                 /\ link[l] # None => link'[l] # None /\ link'[l].used = link[l].used
                 /\ link[l] = None /\ link'[l] # None => link'[l].used = 0
  OBVIOUS
<1>1. CASE link' = link BY <1>1
<1>2. CASE AdminStep BY <1>2, AdminWrites
<1>3. ASSUME NEW c \in Challenge, CodeLapses(c) PROVE link' = link BY <1>3 DEF CodeLapses
<1>4. ASSUME NEW w \in Worker, ReadStep(w) PROVE link' = link
  <2>1. \E r \in Request : Read(w, r) BY <1>4, ReadsRequest DEF AccessInv
  <2> QED BY <2>1 DEF Read
<1>5. ASSUME NEW w \in Worker, NEW c \in Challenge, StartCommits(w, c) PROVE link' = link
  BY <1>5 DEF StartCommits
<1>6. ASSUME NEW w \in Worker, GuessCommits(w) \/ ResendCommits(w) \/ Rollback(w)
      PROVE  link' = link
  BY <1>6 DEF GuessCommits, ResendCommits, Rollback
<1>7. ASSUME NEW w \in Worker, NEW p \in Player, IdentifyCommits(w, p) PROVE link' = link
  BY <1>7 DEF IdentifyCommits
<1> QED BY <1>1, <1>2, <1>3, <1>4, <1>5, <1>6, <1>7, NextSteps DEF Entered

\* A challenge is new by the commit that starts it.
LEMMA NewChallenge ==
    ASSUME AccessInv, AccessNext, NEW c \in Challenge, challenge[c] = None, challenge'[c] # None
    PROVE  \E w \in Worker : /\ request[w] # None /\ request[w].kind = "start"
                             /\ challenge'[c] = request[w].new
<1>1. challenge \in [Challenge -> ChallengeRow \cup {None}] BY DEF AccessInv, AccessTypeOK
<1>2. challenge' # challenge OBVIOUS
<1>3. ~AdminStep BY <1>2, AdminWrites
<1>4. ASSUME NEW w \in Worker, ReadStep(w) PROVE FALSE
  <2>1. \E r \in Request : Read(w, r) BY <1>4, ReadsRequest DEF AccessInv
  <2> QED BY <1>2, <2>1 DEF Read
<1>5. ASSUME NEW d \in Challenge, CodeLapses(d) PROVE FALSE
  <2>1. challenge[d] # None /\ challenge' = [challenge EXCEPT ![d].live = FALSE]
    BY <1>5 DEF CodeLapses, Usable
  <2> QED BY <1>1, <2>1
<1>6. ASSUME NEW w \in Worker, NEW d \in Challenge, StartCommits(w, d)
      PROVE  /\ request[w] # None /\ request[w].kind = "start"
             /\ challenge'[c] = request[w].new
  <2>1. /\ request[w] # None /\ request[w].kind = "start"
        /\ challenge' = [e \in Challenge |->
              IF e = d THEN request[w].new
              ELSE IF e \in request[w].open THEN [challenge[e] EXCEPT !.live = FALSE]
              ELSE challenge[e]]
    BY <1>6 DEF StartCommits
  <2>2. \A e \in request[w].open : challenge[e] # None BY <2>1, RequestHeld DEF RequestSound
  <2>3. c \notin request[w].open BY <2>2
  <2>4. c = d
    <3>1. CASE c # d
      <4>1. challenge'[c] = challenge[c] BY <2>1, <2>3, <3>1
      <4> QED BY <4>1
    <3> QED BY <3>1
  <2> QED BY <2>1, <2>4
<1>7. ASSUME NEW w \in Worker, GuessCommits(w) PROVE FALSE
  <2>1. PICK d : d = request[w].challenge OBVIOUS
  <2>2. /\ request[w] # None /\ request[w].kind = "guess"
        /\ challenge' = [challenge EXCEPT ![d].attempts = request[w].attempts,
                           ![d].live = @ /\ request[w].attempts < PLAY_ACCESS_OTP_MAX_ATTEMPTS]
    BY <1>7, <2>1 DEF GuessCommits
  <2>3. challenge[d] # None BY <2>1, <2>2, RequestHeld DEF RequestSound
  <2>4. c # d BY <2>3
  <2>5. challenge'[c] = challenge[c] BY <1>1, <2>2, <2>4
  <2> QED BY <2>5
<1>8. ASSUME NEW w \in Worker, ResendCommits(w) PROVE FALSE
  <2>1. PICK d : d = request[w].challenge OBVIOUS
  <2>2. /\ request[w] # None /\ request[w].kind = "resend"
        /\ challenge' = [challenge EXCEPT
              ![d].code = @ + 1, ![d].live = TRUE,
              ![d].attempts = IF request[w].attempts = 0 THEN @ ELSE 0,
              ![d].resends = request[w].resends]
    BY <1>8, <2>1 DEF ResendCommits
  <2>3. challenge[d] # None BY <2>1, <2>2, RequestHeld DEF RequestSound
  <2>4. c # d BY <2>3
  <2>5. challenge'[c] = challenge[c] BY <1>1, <2>2, <2>4
  <2> QED BY <2>5
<1>9. ASSUME NEW w \in Worker, NEW p \in Player, VerifyCommits(w, p) PROVE FALSE
  <2>1. PICK d : d = request[w].challenge OBVIOUS
  <2>2. /\ request[w] # None /\ request[w].kind = "verify"
        /\ challenge' = [challenge EXCEPT ![d].verified = TRUE, ![d].player = p]
    BY <1>9, <2>1, VerifyWrites
  <2>3. challenge[d] # None BY <2>1, <2>2, RequestHeld DEF RequestSound
  <2>4. c # d BY <2>3
  <2>5. challenge'[c] = challenge[c] BY <1>1, <2>2, <2>4
  <2> QED BY <2>5
<1>10. ASSUME NEW w \in Worker, Rollback(w) \/ (\E p \in Player : IdentifyCommits(w, p)) PROVE FALSE
  BY <1>2, <1>10 DEF Rollback, IdentifyCommits
<1> QED BY <1>3, <1>4, <1>5, <1>6, <1>7, <1>8, <1>9, <1>10, NextSteps

LEMMA RememberedStays ==
    ASSUME AccessInv, Undisturbed, AccessNext
    PROVE  \A c \in Challenge : challenge'[c] # None => Remembered(challenge[c])'
<1>1. Preserved BY StepPreserves
<1>2. EmailsStay BY EmailsAreKept
<1>3. ASSUME NEW ch \in ChallengeRow, ChallengeSound(ch), Remembered(ch)
      PROVE  ch.purpose = "RECOVERY" /\ ch.player # None => member'[ch.player].email = ch.email
  <2>1. SUFFICES ASSUME ch.purpose = "RECOVERY", ch.player # None
                 PROVE  member'[ch.player].email = ch.email
    OBVIOUS
  <2>2. ch.player \in Player /\ Known(ch.player) /\ ch.email \in Email
    BY <1>3, <2>1 DEF ChallengeRow, ChallengeSound
  <2>3. member[ch.player].email = ch.email BY <1>3, <2>1 DEF Remembered
  <2>4. ch.email # None BY <2>2, AccessAssumption
  <2> QED BY <1>2, <2>2, <2>3, <2>4 DEF EmailsStay
<1>4. ASSUME NEW c \in Challenge, challenge'[c] # None
      PROVE  challenge'[c].purpose = "RECOVERY" /\ challenge'[c].player # None =>
                member'[challenge'[c].player].email = challenge'[c].email
  <2>1. CASE challenge[c] # None
    <3>1. Successor(challenge[c], challenge'[c]) BY <1>1, <2>1 DEF Preserved, Kept
    <3>2. PICK ch : ch = challenge[c] OBVIOUS
    <3>3. ch \in ChallengeRow /\ ChallengeSound(ch) /\ Remembered(ch)
      BY <2>1, <3>2 DEF AccessInv, AccessTypeOK, Sound, Undisturbed
    <3>4. CASE challenge'[c].player = ch.player
      BY <1>3, <3>1, <3>2, <3>3, <3>4 DEF Successor
    <3>5. CASE challenge'[c].player # ch.player
      <4>1. PICK w \in Worker, q \in Player : VerifyCommits(w, q)
        BY <3>1, <3>2, <3>5 DEF Successor, Entered
      <4>2. PICK d : d = request[w].challenge OBVIOUS
      <4>3. /\ \A e \in Challenge \ {d} : challenge'[e] = challenge[e]
            /\ challenge'[d].player = q /\ challenge'[d].email = challenge[d].email
            /\ member'[q].email = challenge[d].email
        BY <4>1, <4>2, VerifyTies
      <4>4. d = c BY <3>2, <3>5, <4>3
      <4> QED BY <4>3, <4>4
    <3> QED BY <3>4, <3>5
  <2>2. CASE challenge[c] = None
    <3>1. PICK w \in Worker : /\ request[w] # None /\ request[w].kind = "start"
                              /\ challenge'[c] = request[w].new
      BY <1>4, <2>2, NewChallenge
    <3>2. PICK ch : ch = request[w].new OBVIOUS
    <3>3. ch \in ChallengeRow BY <3>1, <3>2, RequestHeld DEF Request
    <3>4. ChallengeSound(ch) BY <3>1, <3>2, RequestHeld DEF RequestSound
    <3>5. Remembered(ch) BY <3>1, <3>2 DEF Undisturbed, Current
    <3> QED BY <1>3, <3>1, <3>2, <3>3, <3>4, <3>5
  <2> QED BY <2>1, <2>2
<1> QED BY <1>4 DEF Remembered

\* A link's challenges are those of a group.
LEMMA OfALink ==
    ASSUME AccessInv, NEW c \in Challenge, challenge[c] # None, NEW l \in Link, challenge[c].source = l
    PROVE  challenge[c].purpose = "GROUP" /\ link[l] # None
<1>1. challenge[c] \in ChallengeRow /\ ChallengeSound(challenge[c])
  BY DEF AccessInv, AccessTypeOK, Sound
<1>2. challenge[c].purpose \in {"INVITE", "GROUP", "DIRECT", "RECOVERY"}
  BY <1>1, AccessAssumption DEF ChallengeRow
<1>3. l # None /\ l \notin Invite BY AccessAssumption
<1> QED BY <1>1, <1>2, <1>3 DEF ChallengeSound

LEMMA LinksStayCounted ==
    ASSUME AccessInv, Undisturbed, AccessNext
    PROVE  LinksCounted'
<1> DEFINE New(l) == {c \in Challenge : /\ challenge'[c] # None /\ challenge'[c].source = l
                                        /\ challenge'[c].verified}
<1>1. Preserved BY StepPreserves
<1>2. ASSUME NEW l \in Link
      PROVE  /\ link[l] = None => Admitted(l) = {}
             /\ link[l] # None =>
                   /\ IsFiniteSet(Admitted(l)) /\ Cardinality(Admitted(l)) <= link[l].used
                   /\ link[l].used <= MaxUses /\ link[l].used \in Nat
  <2>1. link[l] # None => link[l].used \in Nat BY DEF AccessInv, AccessTypeOK, LinkRow
  <2> QED BY <2>1 DEF Undisturbed, LinksCounted
<1>3. ASSUME NEW l \in Link, New(l) = Admitted(l), link[l] # None => link'[l].used = link[l].used,
             link[l] = None /\ link'[l] # None => link'[l].used = 0, link[l] # None => link'[l] # None
      PROVE  IF link'[l] = None THEN New(l) = {}
             ELSE /\ IsFiniteSet(New(l)) /\ Cardinality(New(l)) <= link'[l].used
                  /\ link'[l].used <= MaxUses
  <2>1. IsFiniteSet({}) /\ Cardinality({}) = 0 BY FS_EmptySet
  <2>2. 0 <= 0 /\ 0 <= MaxUses BY AccessAssumption
  <2> HIDE DEF New
  <2> QED BY <1>2, <1>3, <2>1, <2>2
<1>4. CASE ~Entered
  <2>1. \A l \in Link : /\ link[l] # None => link'[l] # None /\ link'[l].used = link[l].used
                        /\ link[l] = None /\ link'[l] # None => link'[l].used = 0
    BY <1>4, UsedStays
  <2>2. ASSUME NEW l \in Link PROVE New(l) = Admitted(l)
    <3>1. ASSUME NEW c \in Challenge, challenge[c] # None
          PROVE  /\ challenge'[c] # None /\ challenge'[c].source = challenge[c].source
                 /\ challenge'[c].verified = challenge[c].verified
      BY <1>1, <1>4, <3>1 DEF Preserved, Kept, Successor
    <3>2. ASSUME NEW c \in Challenge, challenge[c] = None, challenge'[c] # None
          PROVE  ~challenge'[c].verified
      <4>1. PICK w \in Worker : /\ request[w] # None /\ request[w].kind = "start"
                                /\ challenge'[c] = request[w].new
        BY <3>2, NewChallenge
      <4> QED BY <4>1, RequestHeld DEF RequestSound
    <3> QED BY <3>1, <3>2 DEF Admitted
  <2> HIDE DEF New
  <2>3. \A l \in Link : IF link'[l] = None THEN New(l) = {}
                        ELSE /\ IsFiniteSet(New(l)) /\ Cardinality(New(l)) <= link'[l].used
                             /\ link'[l].used <= MaxUses
    BY <1>3, <2>1, <2>2
  <2> QED BY <2>3 DEF LinksCounted, Admitted, New
<1>5. ASSUME NEW w \in Worker, NEW q \in Player, VerifyCommits(w, q) PROVE LinksCounted'
  <2>1. PICK c, ch : c = request[w].challenge /\ ch = challenge[c] OBVIOUS
  <2>2. /\ c \in Challenge /\ ch # None /\ ~ch.verified
        /\ challenge'[c] # None /\ challenge'[c].verified
        /\ challenge'[c].source = ch.source
        /\ \A d \in Challenge \ {c} : challenge'[d] = challenge[d]
    BY <1>5, <2>1, VerifyTies
  <2>3. /\ request[w] # None /\ request[w].kind = "verify"
        /\ link' = IF ch.purpose = "GROUP"
                   THEN [link EXCEPT ![ch.source].used = request[w].used] ELSE link
    BY <1>5, <2>1 DEF VerifyCommits
  <2>4. /\ request[w].used \in Nat /\ ChallengeSound(ch)
        /\ ch.purpose = "GROUP" =>
              request[w].used = link[ch.source].used + 1 /\ request[w].used <= MaxUses
    BY <2>1, <2>3, RequestHeld DEF Undisturbed, Current
  <2>5. ASSUME NEW l \in Link, ch.source # l
        PROVE  New(l) = Admitted(l) /\ link'[l] = link[l]
    <3>1. New(l) = Admitted(l) BY <2>1, <2>2, <2>5 DEF Admitted
    <3>2. link \in [Link -> LinkRow \cup {None}] BY DEF AccessInv, AccessTypeOK
    <3>3. link'[l] = link[l] BY <2>3, <2>5, <3>2
    <3> QED BY <3>1, <3>3
  <2>6. ASSUME NEW l \in Link, ch.source = l
        PROVE  /\ New(l) = Admitted(l) \cup {c} /\ c \notin Admitted(l)
               /\ link[l] # None /\ link'[l] # None
               /\ link'[l].used = link[l].used + 1 /\ link'[l].used <= MaxUses
    <3>1. New(l) = Admitted(l) \cup {c} /\ c \notin Admitted(l) BY <2>1, <2>2, <2>6 DEF Admitted
    <3>2. ch.purpose = "GROUP" /\ link[l] # None BY <2>1, <2>2, <2>6, OfALink
    <3>3. link' = [link EXCEPT ![l].used = request[w].used] BY <2>3, <2>6, <3>2
    <3>4. link'[l] # None /\ link'[l].used = request[w].used
      BY <2>4, <3>2, <3>3, LinkCounted
    <3> QED BY <2>4, <2>6, <3>1, <3>2, <3>4
  <2>7. ASSUME NEW l \in Link
        PROVE  IF link'[l] = None THEN New(l) = {}
               ELSE /\ IsFiniteSet(New(l)) /\ Cardinality(New(l)) <= link'[l].used
                    /\ link'[l].used <= MaxUses
    <3>1. CASE ch.source # l BY <1>3, <2>5, <3>1
    <3>2. CASE ch.source = l
      <4>1. IsFiniteSet(Admitted(l)) /\ Cardinality(Admitted(l)) <= link[l].used /\ link[l].used \in Nat
        BY <1>2, <2>6, <3>2
      <4>2. /\ IsFiniteSet(Admitted(l) \cup {c})
            /\ Cardinality(Admitted(l) \cup {c}) = Cardinality(Admitted(l)) + 1
        BY <2>6, <3>2, <4>1, FS_AddElement
      <4>3. Cardinality(Admitted(l)) \in Nat BY <4>1, FS_CardinalityType
      <4>4. Cardinality(Admitted(l)) + 1 <= link[l].used + 1 BY ONLY <4>1, <4>3
      <4> HIDE DEF New
      <4> QED BY <2>6, <3>2, <4>2, <4>4
    <3> QED BY <3>1, <3>2
  <2> HIDE DEF New
  <2> QED BY <2>7 DEF LinksCounted, Admitted, New
<1> QED BY <1>4, <1>5 DEF Entered

\* What a request has read stays so until it commits, for it is the only one.
LEMMA CurrentStays ==
    ASSUME AccessInv, Undisturbed, AccessNext, ~overlap'
    PROVE  /\ OneInFlight'
           /\ \A w \in Worker : request'[w] # None => Current(request[w])'
<1>1. request \in [Worker -> Request \cup {None}] BY DEF AccessInv, AccessTypeOK
<1>2. Preserved BY StepPreserves
<1>3. ASSUME NEW w \in Worker, request[w] # None, Done(w)
      PROVE  \A v \in Worker : request'[v] = None
  <2>1. request' = [request EXCEPT ![w] = None] BY <1>3 DEF Done
  <2>2. \A v \in Worker : request[v] # None => v = w BY <1>3 DEF Undisturbed, OneInFlight
  <2> QED BY <1>1, <2>1, <2>2
<1>4. ASSUME NEW w \in Worker, request[w] # None, Done(w)
      PROVE  OneInFlight' /\ \A v \in Worker : request'[v] # None => Current(request[v])'
  BY <1>3, <1>4 DEF OneInFlight
<1>5. ASSUME NEW r, Current(r), UNCHANGED <<member, session, link, challenge>>
      PROVE  Current(r)'
  BY <1>5 DEF Current, Remembered
<1>6. ASSUME NEW w \in Worker, ReadStep(w)
      PROVE  OneInFlight' /\ \A v \in Worker : request'[v] # None => Current(request[v])'
  <2>1. PICK r : Read(w, r) /\ Current(r) BY <1>6, ReadsCurrent DEF Undisturbed
  <2>2. /\ request' = [request EXCEPT ![w] = r] /\ InFlight = {}
        /\ UNCHANGED <<member, session, link, challenge>>
    BY <2>1 DEF Read
  <2>3. \A v \in Worker : request[v] = None BY <2>2 DEF InFlight
  <2>4. \A v \in Worker : request'[v] # None => v = w /\ request'[v] = r BY <1>1, <2>2, <2>3
  <2>5. Current(r)' BY <1>5, <2>1, <2>2
  <2>6. \A v \in Worker : request'[v] # None => Current(request[v])'
    <3> SUFFICES ASSUME NEW v \in Worker, request'[v] # None PROVE Current(request[v])'
      OBVIOUS
    <3>1. request'[v] = r BY <2>4
    <3> QED BY <2>5, <3>1 DEF Current, Remembered
  <2> QED BY <2>4, <2>6 DEF OneInFlight
<1>7. ASSUME UNCHANGED <<member, session, request>>, ~Entered,
             \A l \in Link : link[l] # None => link'[l].used = link[l].used
      PROVE  OneInFlight' /\ \A v \in Worker : request'[v] # None => Current(request[v])'
  <2>1. OneInFlight' BY <1>7 DEF Undisturbed, OneInFlight
  <2>2. ASSUME NEW v \in Worker, request[v] # None PROVE Current(request[v])'
    <3>1. PICK r : r = request[v] OBVIOUS
    <3>2. Current(r) /\ r \in Request /\ RequestSound(r)
      BY <1>1, <2>2, <3>1 DEF Undisturbed, AccessInv, Sound
    <3>3. ASSUME r.kind = "start" PROVE Remembered(r.new)'
      <4>1. PICK new : new = r.new OBVIOUS
      <4>2. Remembered(new) BY <3>2, <3>3, <4>1 DEF Current
      <4>3. Remembered(new)' BY <1>7, <4>2 DEF Remembered
      <4> QED BY <4>1, <4>3
    <3>4. ASSUME r.kind = "verify"
          PROVE  LET ch == challenge'[r.challenge] IN
                 /\ ~ch.verified
                 /\ ch.purpose = "GROUP" => r.used = link'[ch.source].used + 1 /\ r.used <= MaxUses
      <4>1. PICK c, ch : c = r.challenge /\ ch = challenge[c] OBVIOUS
      <4>2. c \in Challenge /\ ch # None BY <3>2, <3>4, <4>1 DEF Request, RequestSound
      <4>3. /\ challenge'[c].verified = ch.verified /\ challenge'[c].purpose = ch.purpose
            /\ challenge'[c].source = ch.source
        BY <1>2, <1>7, <4>1, <4>2 DEF Preserved, Kept, Successor
      <4>4. /\ ~ch.verified
            /\ ch.purpose = "GROUP" => r.used = link[ch.source].used + 1 /\ r.used <= MaxUses
        BY <3>2, <3>4, <4>1 DEF Current
      <4>5. ch.purpose = "GROUP" => ch.source \in Link /\ link[ch.source] # None
        BY <4>1, <4>2 DEF AccessInv, Sound, ChallengeSound
      <4>6. ch.purpose = "GROUP" => link'[ch.source].used = link[ch.source].used
        BY <1>7, <4>5
      <4> QED BY <4>1, <4>3, <4>4, <4>6
    <3>5. ASSUME r.kind \in {"verify", "identify"}, r.sign.player # None
          PROVE  /\ r.sign.read = member'[r.sign.player] /\ r.sign.seen = session'[r.sign.player]
                 /\ r.sign.read.email # None => r.sign.new.email \in {None, r.sign.read.email}
      BY <1>7, <3>2, <3>5 DEF Current
    <3>6. Current(r)' BY <3>3, <3>4, <3>5 DEF Current
    <3>7. request'[v] = r BY <1>7, <3>1
    <3> QED BY <3>6, <3>7 DEF Current, Remembered
  <2> QED BY <1>7, <2>1, <2>2
<1>8. ASSUME AdminStep \/ (\E c \in Challenge : CodeLapses(c))
      PROVE  /\ UNCHANGED <<member, session, request>>
             /\ \A l \in Link : link[l] # None => link'[l].used = link[l].used
  BY <1>8, AdminWrites DEF CodeLapses
<1>9. ASSUME NEW w \in Worker,
             \/ \E c \in Challenge : StartCommits(w, c)
             \/ GuessCommits(w) \/ ResendCommits(w) \/ Rollback(w)
             \/ \E p \in Player : VerifyCommits(w, p) \/ IdentifyCommits(w, p)
      PROVE  request[w] # None /\ Done(w)
  BY <1>9 DEF StartCommits, GuessCommits, ResendCommits, Rollback, VerifyCommits, IdentifyCommits
<1>10. CASE Entered
  <2>1. PICK w \in Worker : request[w] # None /\ Done(w) BY <1>9, <1>10 DEF Entered
  <2> QED BY <1>4, <2>1
<1>11. CASE ~Entered
  <2>1. CASE AdminStep \/ (\E c \in Challenge : CodeLapses(c)) BY <1>7, <1>8, <1>11, <2>1
  <2>2. ASSUME NEW w \in Worker, request[w] # None /\ Done(w)
        PROVE  OneInFlight' /\ \A v \in Worker : request'[v] # None => Current(request[v])'
    BY <1>4, <2>2
  <2> QED BY <1>6, <1>9, <2>1, <2>2, NextSteps
<1> QED BY <1>10, <1>11

-----------------------------------------------------------------------------
(* How many tokens sign-ins leave that overlap.                            *)

Signs(w, p) ==
    /\ request[w] # None /\ request[w].kind \in {"verify", "identify"}
    /\ request[w].sign.player = p

\* Each token in force goes to a worker of its own: the one that issued it.  A
\* worker that is about to sign the player in issued none of those it has not
\* seen, and so never leaves two of its own.
Attributes(f, p) ==
    /\ f \in Injection(session[p], Worker)
    /\ \A w \in Worker : Signs(w, p) => \A t \in session[p] \ request[w].sign.seen : f[t] # w

TokensAttributed ==
    \A p \in Player : (~Known(p) => session[p] = {}) /\ \E f : Attributes(f, p)

\* Requests that go on, end or see every token leave the tokens to their workers.
LEMMA AttributesKept ==
    ASSUME NEW f, NEW p \in Player, Attributes(f, p), session'[p] = session[p],
           \A w \in Worker : request'[w] # None =>
              \/ request'[w] = request[w]
              \/ request'[w].kind \in {"verify", "identify"} /\ request'[w].sign.player = p =>
                     request'[w].sign.seen = session[p]
    PROVE  Attributes(f, p)'
<1>1. f \in Injection(session'[p], Worker) BY DEF Attributes
<1>2. ASSUME NEW w \in Worker, Signs(w, p)', NEW t \in session'[p] \ request'[w].sign.seen
      PROVE  f[t] # w
  <2>1. request'[w] = request[w] BY <1>2 DEF Signs
  <2>2. Signs(w, p) /\ t \in session[p] \ request[w].sign.seen BY <1>2, <2>1 DEF Signs
  <2> QED BY <2>2 DEF Attributes
<1> QED BY <1>1, <1>2 DEF Attributes

\* A sign-in of worker w gives it the new token; those that stay are of others.
LEMMA AttributesOneMore ==
    ASSUME NEW f, NEW p \in Player, NEW w \in Worker, Attributes(f, p),
           NEW seen, NEW n, session'[p] = (session[p] \ seen) \cup {n},
           \A t \in session[p] \ seen : f[t] # w,
           request'[w] = None,
           \A v \in Worker : request'[v] # None => request'[v] = request[v]
    PROVE  \E g : Attributes(g, p)'
<1> DEFINE g == [t \in session'[p] |-> IF t = n THEN w ELSE f[t]]
<1>1. /\ f \in [session[p] -> Worker]
      /\ \A a, b \in session[p] : f[a] = f[b] => a = b
  BY DEF Attributes, Injection, IsInjective
<1>2. g \in [session'[p] -> Worker] BY <1>1
<1>3. \A a, b \in session'[p] : g[a] = g[b] => a = b
  <2> SUFFICES ASSUME NEW a \in session'[p], NEW b \in session'[p], g[a] = g[b] PROVE a = b
    OBVIOUS
  <2>1. \A t \in session'[p] : t # n => t \in session[p] /\ g[t] = f[t] /\ f[t] # w OBVIOUS
  <2>2. \A t \in session'[p] : t = n => g[t] = w OBVIOUS
  <2> HIDE DEF g
  <2> QED BY <1>1, <2>1, <2>2
<1>4. g \in Injection(session'[p], Worker)
  <2> HIDE DEF g
  <2> QED BY <1>2, <1>3 DEF Injection, IsInjective
<1>5. ASSUME NEW v \in Worker, Signs(v, p)', NEW t \in session'[p] \ request'[v].sign.seen
      PROVE  g[t] # v
  <2>1. v # w /\ request'[v] = request[v] BY <1>5 DEF Signs
  <2>2. CASE t = n BY <1>5, <2>1, <2>2
  <2>3. CASE t # n
    <3>1. t \in session[p] /\ g[t] = f[t] BY <1>5, <2>3
    <3>2. Signs(v, p) /\ t \in session[p] \ request[v].sign.seen BY <1>5, <2>1, <3>1 DEF Signs
    <3>3. f[t] # v BY <3>2 DEF Attributes
    <3> HIDE DEF g
    <3> QED BY <3>1, <3>3
  <2> QED BY <2>2, <2>3
<1>6. PICK h : h = g OBVIOUS
<1> HIDE DEF g
<1>7. Attributes(h, p)' BY <1>4, <1>5, <1>6 DEF Attributes
<1> QED BY <1>7

\* What a sign-in does to the tokens of everybody.
LEMMA AttributedSignIn ==
    ASSUME AccessInv, TokensAttributed, NEW w \in Worker, request[w] # None,
           request[w].kind \in {"verify", "identify"},
           NEW q \in Player, SignIn(q, request[w].sign), Done(w)
    PROVE  TokensAttributed'
<1>1. /\ request'[w] = None
      /\ \A v \in Worker : request'[v] # None => request'[v] = request[v]
  BY RequestsContinue DEF Done, AccessInv, AccessTypeOK
<1>2. PICK seen \in {request[w].sign.seen, session[q]} : Issue(q, seen) BY DEF SignIn
<1>3. session \in [Player -> SUBSET Tokens] BY DEF AccessInv, AccessTypeOK
<1>4. /\ session'[q] = (session[q] \ seen) \cup {issued + 1}
      /\ \A p \in Player \ {q} : session'[p] = session[p]
  BY <1>2, <1>3 DEF Issue
<1>5. Known(q)' /\ \A p \in Player \ {q} : member'[p] = member[p] BY SignInCommits
<1>6. IF request[w].sign.player = None THEN ~Known(q) ELSE q = request[w].sign.player
  BY DEF SignIn
<1>7. ASSUME NEW p \in Player \ {q}
      PROVE  (~Known(p)' => session'[p] = {}) /\ \E f : Attributes(f, p)'
  <2>1. PICK f : Attributes(f, p) BY <1>7 DEF TokensAttributed
  <2>2. Attributes(f, p)' BY <1>1, <1>4, <1>7, <2>1, AttributesKept
  <2>3. ~Known(p)' => session'[p] = {} BY <1>4, <1>5, <1>7 DEF TokensAttributed, Known
  <2> QED BY <2>2, <2>3
<1>8. \E f : Attributes(f, q)'
  <2>1. PICK f : Attributes(f, q) BY DEF TokensAttributed
  <2>2. \A t \in session[q] \ seen : f[t] # w
    <3>1. CASE request[w].sign.player = None BY <1>6, <3>1 DEF TokensAttributed
    <3>2. CASE request[w].sign.player # None
      <4>1. Signs(w, q) BY <1>6, <3>2 DEF Signs
      <4> QED BY <1>2, <2>1, <4>1 DEF Attributes
    <3> QED BY <3>1, <3>2
  <2> QED BY <1>1, <1>4, <2>1, <2>2, AttributesOneMore
<1>9. ASSUME NEW p \in Player
      PROVE  (~Known(p)' => session'[p] = {}) /\ \E f : Attributes(f, p)'
  BY <1>5, <1>7, <1>8
<1> QED BY <1>9 DEF TokensAttributed

\* A step that signs nobody in: requests go on, end, or read the tokens.
LEMMA AttributedElsewhere ==
    ASSUME TokensAttributed, UNCHANGED <<member, session>>,
           \A w \in Worker : request'[w] # None =>
              request'[w] = request[w] \/ SeesTokens(request'[w])
    PROVE  TokensAttributed'
<1> SUFFICES ASSUME NEW p \in Player
             PROVE  (~Known(p)' => session'[p] = {}) /\ \E f : Attributes(f, p)'
  BY DEF TokensAttributed
<1>1. PICK f : Attributes(f, p) BY DEF TokensAttributed
<1>2. p # None BY AccessAssumption
<1>3. Attributes(f, p)'
  BY <1>1, <1>2, AttributesKept DEF SeesTokens
<1> QED BY <1>3 DEF TokensAttributed, Known

LEMMA AttributedStep ==
    ASSUME AccessInv, TokensAttributed, [AccessNext]_accessVars
    PROVE  TokensAttributed'
<1>1. CASE UNCHANGED accessVars BY <1>1, AttributedElsewhere DEF accessVars
<1>2. ASSUME AdminStep \/ (\E c \in Challenge : CodeLapses(c)) PROVE TokensAttributed'
  <2>1. UNCHANGED <<member, session>> /\ request' = request
    BY <1>2, AdminWrites DEF CodeLapses
  <2> QED BY <2>1, AttributedElsewhere
<1>3. ASSUME NEW w \in Worker, ReadStep(w) PROVE TokensAttributed'
  <2>1. PICK r \in Request : Read(w, r) /\ SeesTokens(r) BY <1>3, ReadsRequest DEF AccessInv
  <2>2. UNCHANGED <<member, session>> /\ request' = [request EXCEPT ![w] = r] BY <2>1 DEF Read
  <2>3. \A v \in Worker : request'[v] \in {request[v], r}
    BY <2>2 DEF AccessInv, AccessTypeOK
  <2> QED BY <2>1, <2>2, <2>3, AttributedElsewhere
<1>4. ASSUME NEW w \in Worker,
             (\E c \in Challenge : StartCommits(w, c)) \/ GuessCommits(w) \/ ResendCommits(w) \/ Rollback(w)
      PROVE  TokensAttributed'
  <2>1. Done(w) /\ UNCHANGED <<member, session>>
    BY <1>4 DEF StartCommits, GuessCommits, ResendCommits, Rollback
  <2>2. \A v \in Worker : request'[v] # None => request'[v] = request[v]
    BY <2>1, RequestsContinue
  <2> QED BY <2>1, <2>2, AttributedElsewhere
<1>5. ASSUME NEW w \in Worker, NEW q \in Player, VerifyCommits(w, q) \/ IdentifyCommits(w, q)
      PROVE  TokensAttributed'
  BY <1>5, AttributedSignIn DEF VerifyCommits, IdentifyCommits
<1> QED BY <1>1, <1>2, <1>3, <1>4, <1>5, NextSteps

LEMMA AttributedHolds == AccessSpec => []TokensAttributed
<1>1. AccessInit => TokensAttributed
  <2> SUFFICES ASSUME AccessInit, NEW p \in Player
               PROVE  session[p] = {} /\ \E f : Attributes(f, p)
    BY DEF TokensAttributed
  <2>1. session[p] = {} BY DEF AccessInit
  <2>2. [t \in {} |-> t] \in Injection({}, Worker) BY DEF Injection, IsInjective
  <2>3. Attributes([t \in {} |-> t], p) BY <2>1, <2>2 DEF Attributes
  <2> QED BY <2>1, <2>3
<1>2. AccessInv /\ TokensAttributed /\ [AccessNext]_accessVars => TokensAttributed'
  BY AttributedStep
<1> QED BY <1>1, <1>2, InvHolds, PTL DEF AccessSpec

-----------------------------------------------------------------------------
(* The theorems.                                                           *)

LEMMA AloneInit ==
    ASSUME AccessInit
    PROVE  AloneInv
<1>1. \A p \in Player : ~Known(p) /\ session[p] = {} BY DEF AccessInit, Known
<1>2. \A w \in Worker : request[w] = None BY DEF AccessInit
<1>3. \A c \in Challenge : challenge[c] = None BY DEF AccessInit
<1>4. \A l \in Link : link[l] = None BY DEF AccessInit
<1>5. OneInFlight /\ OneToken /\ EmailsTied /\ LinksCounted
  BY <1>1, <1>2, <1>3, <1>4 DEF OneInFlight, OneToken, EmailsTied, LinksCounted, Admitted
<1> QED BY <1>1, <1>2, <1>3, <1>5, InvInit DEF AloneInv, EmailsEntered, Undisturbed

\* The history only grows.
LEMMA NoOverlapBefore ==
    ASSUME AccessInv, AccessNext, ~overlap'
    PROVE  ~overlap
<1>1. ASSUME NEW w \in Worker, ReadStep(w) PROVE ~overlap
  <2>1. \E r \in Request : Read(w, r) BY <1>1, ReadsRequest DEF AccessInv
  <2> QED BY <2>1 DEF Read
<1>2. ASSUME NEW w \in Worker,
             \/ \E c \in Challenge : StartCommits(w, c)
             \/ GuessCommits(w) \/ ResendCommits(w) \/ Rollback(w)
             \/ \E p \in Player : VerifyCommits(w, p) \/ IdentifyCommits(w, p)
      PROVE  ~overlap
  BY <1>2
  DEF StartCommits, GuessCommits, ResendCommits, Rollback, VerifyCommits, IdentifyCommits, Done
<1>3. ASSUME AdminStep \/ (\E c \in Challenge : CodeLapses(c)) PROVE ~overlap
  BY <1>3, AdminWrites DEF CodeLapses
<1> QED BY <1>1, <1>2, <1>3, NextSteps

LEMMA AloneStep ==
    ASSUME AloneInv, [AccessNext]_accessVars
    PROVE  AloneInv'
<1>1. AccessInv' BY InvStep DEF AloneInv
<1>2. CASE AccessNext
  <2>1. EmailsEntered' BY <1>2, EntersEmail DEF AloneInv
  <2>2. ASSUME ~overlap' PROVE Undisturbed'
    <3>1. ~overlap BY <1>2, <2>2, NoOverlapBefore DEF AloneInv
    <3>2. AccessInv /\ Undisturbed BY <3>1 DEF AloneInv
    <3>3. OneInFlight' /\ \A w \in Worker : request'[w] # None => Current(request[w])'
      BY <1>2, <2>2, <3>2, CurrentStays
    <3>4. \A c \in Challenge : challenge'[c] # None => Remembered(challenge[c])'
      BY <1>2, <3>2, RememberedStays
    <3>5. OneToken' /\ EmailsTied' /\ LinksCounted'
      BY <1>2, <3>2, OneTokenStays, EmailsStayTied, LinksStayCounted
    <3> QED BY <3>3, <3>4, <3>5 DEF Undisturbed
  <2> QED BY <1>1, <2>1, <2>2 DEF AloneInv
<1>3. CASE UNCHANGED accessVars
  <2>1. UNCHANGED <<member, session, issued, invite, link, challenge, request, made, overlap>>
    BY <1>3 DEF accessVars
  <2>2. EmailsEntered' BY <2>1 DEF AloneInv, EmailsEntered, Known
  <2>3. ASSUME ~overlap' PROVE Undisturbed'
    <3>1. Undisturbed BY <2>1, <2>3 DEF AloneInv
    <3>2. OneInFlight' BY <2>1, <3>1 DEF Undisturbed, OneInFlight
    <3>3. \A w \in Worker : request'[w] # None => Current(request[w])'
      BY <2>1, <3>1 DEF Undisturbed, Current, Remembered
    <3>4. \A c \in Challenge : challenge'[c] # None => Remembered(challenge[c])'
      BY <2>1, <3>1 DEF Undisturbed, Remembered
    <3>5. OneToken' /\ EmailsTied' BY <2>1, <3>1 DEF Undisturbed, OneToken, EmailsTied, Proves, Known
    <3>6. LinksCounted' BY <2>1, <3>1 DEF Undisturbed, LinksCounted, Admitted
    <3> QED BY <3>2, <3>3, <3>4, <3>5, <3>6 DEF Undisturbed
  <2> QED BY <1>1, <2>2, <2>3 DEF AloneInv
<1> QED BY <1>2, <1>3

THEOREM AloneHolds == AccessSpec => []AloneInv
<1>1. AccessInit => AloneInv BY AloneInit
<1>2. AloneInv /\ [AccessNext]_accessVars => AloneInv' BY AloneStep
<1> QED BY <1>1, <1>2, PTL DEF AccessSpec

\* An email is in a profile only if a code sent to it was entered, and for that
\* player as long as no two requests overlapped.  (verify_player_access_challenge)
THEOREM EmailsProved == AccessSpec => []EmailsAreProved
<1>1. AloneInv => EmailsAreProved
  <2> SUFFICES ASSUME AloneInv, NEW p \in Player, Known(p), member[p].email # None
               PROVE  \E c \in Challenge :
                         /\ challenge[c] # None /\ challenge[c].verified
                         /\ challenge[c].email = member[p].email
                         /\ challenge[c].player = p \/ overlap
    BY DEF EmailsAreProved
  <2>1. CASE overlap BY <2>1 DEF AloneInv, EmailsEntered
  <2>2. CASE ~overlap BY <2>2 DEF AloneInv, Undisturbed, EmailsTied, Proves
  <2> QED BY <2>1, <2>2
<1> QED BY <1>1, AloneHolds, PTL

\* However sign-ins overlap, a player has at most as many tokens in force as
\* requests are served at once, and one as long as no two requests overlapped.
\* (_issue_player_access_token)
THEOREM SessionsBounded == AccessSpec => []SessionsAreBounded
<1>1. ASSUME AloneInv, TokensAttributed PROVE SessionsAreBounded
  <2> SUFFICES ASSUME NEW p \in Player
               PROVE  Cardinality(session[p]) <= IF overlap THEN Cardinality(Worker) ELSE 1
    BY DEF SessionsAreBounded
  <2>1. CASE overlap
    <3>1. PICK f : f \in Injection(session[p], Worker) BY <1>1 DEF TokensAttributed, Attributes
    <3>2. Cardinality(session[p]) <= Cardinality(Worker) BY <3>1, AccessAssumption, FS_Injection
    <3> QED BY <2>1, <3>2
  <2>2. CASE ~overlap
    <3>1. PICK t : session[p] \subseteq {t} BY <1>1, <2>2 DEF AloneInv, Undisturbed, OneToken
    <3>2. Cardinality({}) = 0 /\ Cardinality({t}) = 1 BY FS_EmptySet, FS_Singleton
    <3>3. session[p] = {} \/ session[p] = {t} BY <3>1
    <3> QED BY <2>2, <3>2, <3>3
  <2> QED BY <2>1, <2>2
<1> QED BY <1>1, AloneHolds, AttributedHolds, PTL

\* A group link admits no more players than its max_uses, as long as no two
\* requests overlapped.  (get_community_access_link_status)
THEOREM LinksAreLimited == AccessSpec => []LinkAdmitsItsUses
<1>1. AloneInv => LinkAdmitsItsUses
  <2> SUFFICES ASSUME AloneInv, ~overlap, NEW l \in Link PROVE Cardinality(Admitted(l)) <= MaxUses
    BY DEF LinkAdmitsItsUses, Admitted
  <2>1. LinksCounted BY DEF AloneInv, Undisturbed
  <2>2. MaxUses \in Nat BY AccessAssumption
  <2>3. CASE link[l] = None
    <3>1. Admitted(l) = {} BY <2>1, <2>3 DEF LinksCounted
    <3>2. Cardinality({}) = 0 BY FS_EmptySet
    <3> QED BY <2>2, <3>1, <3>2
  <2>4. CASE link[l] # None
    <3>1. /\ IsFiniteSet(Admitted(l)) /\ Cardinality(Admitted(l)) <= link[l].used
          /\ link[l].used <= MaxUses
      BY <2>1, <2>4 DEF LinksCounted
    <3>2. link[l].used \in Nat BY <2>4 DEF AloneInv, AccessInv, AccessTypeOK, LinkRow
    <3>3. Cardinality(Admitted(l)) \in Nat BY <3>1, FS_CardinalityType
    <3> QED BY ONLY <2>2, <3>1, <3>2, <3>3
  <2> QED BY <2>3, <2>4
<1> QED BY <1>1, AloneHolds, PTL

\* The email a profile has is not changed by a request that ran alone, whatever
\* phone it gives.  (_resolve_player_identity_conflict)
THEOREM EmailsNeverChange == AccessSpec => VerifiedEmailIsKept
<1>1. ASSUME AloneInv, AloneInv', [AccessNext]_accessVars
      PROVE  [~overlap' => \A p \in Player : Known(p) /\ member[p].email # None
                 => member'[p].email = member[p].email]_accessVars
  <2> SUFFICES ASSUME AccessNext, ~overlap', NEW p \in Player, Known(p), member[p].email # None
               PROVE  member'[p].email = member[p].email
    BY <1>1
  <2>1. EmailsStay BY <1>1, NoOverlapBefore, EmailsAreKept DEF AloneInv
  <2> QED BY <2>1 DEF EmailsStay
<1>2. AloneInv /\ AloneInv' /\ [AccessNext]_accessVars =>
         [~overlap' => \A p \in Player : Known(p) /\ member[p].email # None
                 => member'[p].email = member[p].email]_accessVars
  BY <1>1
<1> QED BY <1>2, AloneHolds, PTL DEF AccessSpec, VerifiedEmailIsKept
=============================================================================

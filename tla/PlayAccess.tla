----------------------------- MODULE PlayAccess -----------------------------
(***************************************************************************)
(* How a player gets into a club's community: invites, group links, one-   *)
(* time codes sent by email, the profile they open and the session token.  *)
(*                                                                         *)
(* No request of this part takes a lock.  A transaction is two steps: what *)
(* it has read when its checks pass, kept in request, and what it commits. *)
(* SQLAlchemy writes only the columns whose value differs from the one it  *)
(* read, and a counter is written as the number read plus one.  A request  *)
(* whose commit breaks a unique constraint, whose email cannot be sent or  *)
(* whose process dies is rolled back.                                      *)
(*                                                                         *)
(* Time is told by what has lapsed: the validity of a code (10 minutes),   *)
(* the expiry of an invite and of a link.  The wait of 60 seconds before   *)
(* the next code is over well before that one lapses: a resend is a        *)
(* request that comes after it.  Levels and consent are left out.          *)
(***************************************************************************)
EXTENDS Naturals, FiniteSets

CONSTANTS
    Player, Email, Challenge, Invite, Link,
    Name, Phone,
    Profile,            \* what an applicant may give: a name and a phone
    Worker,             \* requests served at once
    Purpose,            \* the ways in that are open to this instance
    None,               \* NULL
    MaxUses,            \* max_uses of a link
    PLAY_ACCESS_OTP_MAX_ATTEMPTS,
    PLAY_ACCESS_OTP_MAX_RESENDS,
    MaxRequests         \* bound: requests that are made

ASSUME AccessAssumption ==
    /\ MaxUses \in Nat \ {0}
    /\ PLAY_ACCESS_OTP_MAX_ATTEMPTS \in Nat \ {0}
    /\ PLAY_ACCESS_OTP_MAX_RESENDS \in Nat
    /\ MaxRequests \in Nat
    /\ IsFiniteSet(Worker)
    /\ Profile \subseteq [name: Name, phone: Phone]
    /\ Purpose \subseteq {"INVITE", "GROUP", "DIRECT", "RECOVERY"}
    /\ None \notin Player \cup Email \cup Challenge \cup Invite \cup Link
    /\ Invite \cap Link = {}

VARIABLES
    member,     \* players: a profile, or None
    session,    \* player_access_tokens that are not revoked
    issued,     \* how many tokens were issued
    invite,     \* community_invite_tokens
    link,       \* community_access_links
    challenge,  \* player_access_challenges
    request,    \* transactions past their reads
    made,       \* how many requests were made
    overlap     \* history: two requests were in flight at once

accessVars == <<member, session, issued, invite, link, challenge, request, made, overlap>>

Row == [name: Name, phone: Phone, email: Email \cup {None}]
Tokens == 1..MaxRequests

\* valid: neither revoked nor expired.
InviteRow == [profile: Profile, valid: BOOLEAN, player: Player \cup {None}]
LinkRow == [valid: BOOLEAN, used: Nat]

ChallengeRow ==
    [purpose: Purpose, email: Email, profile: Profile \cup {None},
     player: Player \cup {None}, source: Invite \cup Link \cup {None},
     live: BOOLEAN,         \* expires_at is still to come
     code: Nat,             \* which code was sent last
     attempts: Nat, resends: Nat, verified: BOOLEAN]

\* A transaction past its reads: what it will write, and what it has read of it.
Signing == [player: Player \cup {None}, read: Row \cup {None}, new: Row, seen: SUBSET Tokens]

Request ==
    [kind: {"start"}, new: ChallengeRow, open: SUBSET Challenge]
    \cup [kind: {"guess"}, challenge: Challenge, attempts: Nat]
    \cup [kind: {"resend"}, challenge: Challenge, attempts: Nat, resends: Nat]
    \cup [kind: {"verify"}, challenge: Challenge, used: Nat, sign: Signing]
    \cup [kind: {"identify"}, sign: Signing]

ASSUME NullAssumption ==
    None \notin Row \cup InviteRow \cup LinkRow \cup ChallengeRow \cup Request

AccessInit ==
    /\ member = [p \in Player |-> None]
    /\ session = [p \in Player |-> {}]
    /\ issued = 0
    /\ invite = [i \in Invite |-> None]
    /\ link = [l \in Link |-> None]
    /\ challenge = [c \in Challenge |-> None]
    /\ request = [w \in Worker |-> None]
    /\ made = 0
    /\ overlap = FALSE

-----------------------------------------------------------------------------
\* Invites and links, made and revoked by the administrator.

\* get_community_invite_status = ACTIVE; used_at and accepted_player_id are
\* set together.
InviteActive(i) ==
    /\ invite[i] # None
    /\ invite[i].valid /\ invite[i].player = None

\* Mutant of LinkActive: the limit is reached one use too late.
LinkActiveOneMore(l) ==
    /\ link[l] # None
    /\ link[l].valid /\ link[l].used <= MaxUses

\* get_community_access_link_status = ACTIVE
LinkActive(l) ==
    /\ link[l] # None
    /\ link[l].valid /\ link[l].used < MaxUses

Counted == made < MaxRequests /\ made' = made + 1
AdminRequest == Counted /\ UNCHANGED <<request, overlap>>

CreateInvite(i, profile) ==
    /\ invite[i] = None
    /\ invite' = [invite EXCEPT ![i] =
          [profile |-> profile, valid |-> TRUE, player |-> None]]
    /\ AdminRequest
    /\ UNCHANGED <<member, session, issued, link, challenge>>

CreateLink(l) ==
    /\ link[l] = None
    /\ link' = [link EXCEPT ![l] = [valid |-> TRUE, used |-> 0]]
    /\ AdminRequest
    /\ UNCHANGED <<member, session, issued, invite, challenge>>

RevokeInvite(i) ==
    /\ InviteActive(i)
    /\ invite' = [invite EXCEPT ![i].valid = FALSE]
    /\ AdminRequest
    /\ UNCHANGED <<member, session, issued, link, challenge>>

RevokeLink(l) ==
    /\ LinkActive(l)
    /\ link' = [link EXCEPT ![l].valid = FALSE]
    /\ AdminRequest
    /\ UNCHANGED <<member, session, issued, invite, challenge>>

-----------------------------------------------------------------------------
\* Profiles.

Known(p) == member[p] # None
ByPhone(phone) == {p \in Player : Known(p) /\ member[p].phone = phone}
ByEmail(email) == {p \in Player : Known(p) /\ email # None /\ member[p].email = email}

\* Mutant of SamePerson: a phone that another verified email owns is taken over.
SamePersonByPhone(phone, email) == Cardinality(ByPhone(phone) \cup ByEmail(email)) < 2

\* _resolve_player_identity_conflict does not refuse.
SamePerson(phone, email) ==
    /\ Cardinality(ByPhone(phone) \cup ByEmail(email)) < 2
    /\ email # None => \A p \in ByPhone(phone) : member[p].email \in {None, email}

\* ... and the player it finds.
Resolved(phone, email) ==
    IF ByPhone(phone) \cup ByEmail(email) = {} THEN None
    ELSE CHOOSE p \in ByPhone(phone) \cup ByEmail(email) : TRUE

NameFree(name, p) == \A q \in Player \ {p} : Known(q) => member[q].name # name

\* uq_players_club_profile_name, uq_players_club_phone, uq_players_club_email
Unique(m) ==
    \A p, q \in Player : p # q /\ m[p] # None /\ m[q] # None =>
        /\ m[p].name # m[q].name /\ m[p].phone # m[q].phone
        /\ m[p].email = None \/ m[p].email # m[q].email

\* The columns that change, written over whatever the row holds by now.
Written(current, read, new) ==
    [name  |-> IF new.name = read.name THEN current.name ELSE new.name,
     phone |-> IF new.phone = read.phone THEN current.phone ELSE new.phone,
     email |-> IF new.email \in {None, read.email} THEN current.email ELSE new.email]

\* Mutant of Issue: the player's other tokens stay.
IssueKeepsOthers(p, seen) ==
    /\ issued' = issued + 1
    /\ session' = [session EXCEPT ![p] = @ \cup {issued + 1}]

\* _issue_player_access_token: the tokens it has seen are revoked.
Issue(p, seen) ==
    /\ issued' = issued + 1
    /\ session' = [session EXCEPT ![p] = (@ \ seen) \cup {issued + 1}]

\* A profile is opened or changed and the player signed in.  The tokens are
\* read some time between the other reads and the commit.
SignIn(p, r) ==
    /\ IF r.player = None THEN ~Known(p) ELSE p = r.player
    /\ member' = [member EXCEPT ![p] =
          IF r.player = None THEN r.new ELSE Written(@, r.read, r.new)]
    /\ Unique(member')
    /\ \E seen \in {r.seen, session[p]} : Issue(p, seen)

-----------------------------------------------------------------------------
\* Requests.

InFlight == {w \in Worker : request[w] # None}

Read(w, r) ==
    /\ request[w] = None
    /\ Counted
    /\ request' = [request EXCEPT ![w] = r]
    /\ overlap' = (overlap \/ InFlight # {})
    /\ UNCHANGED <<member, session, issued, invite, link, challenge>>

Done(w) == request' = [request EXCEPT ![w] = None] /\ UNCHANGED <<made, overlap>>

Rollback(w) ==
    /\ request[w] # None
    /\ Done(w)
    /\ UNCHANGED <<member, session, issued, invite, link, challenge>>

NewRow(profile, email) == [name |-> profile.name, phone |-> profile.phone, email |-> email]

\* The part of a request that opens a profile: what _upsert_player_profile read.
Upsert(profile, email) ==
    LET p == Resolved(profile.phone, email) IN
    [player |-> p,
     read |-> IF p = None THEN None ELSE member[p],
     new |-> NewRow(profile, email),
     seen |-> IF p = None THEN {} ELSE session[p]]

Acceptable(profile, email) ==
    /\ SamePerson(profile.phone, email)
    /\ NameFree(profile.name, Resolved(profile.phone, email))

Usable(c) == challenge[c] # None /\ challenge[c].live /\ ~challenge[c].verified

OpenFor(email) ==
    {c \in Challenge : Usable(c) /\ challenge[c].email = email}

Fresh(purpose, email, profile, player, source) ==
    [purpose |-> purpose, email |-> email, profile |-> profile, player |-> player,
     source |-> source, live |-> TRUE, code |-> 0,
     attempts |-> 0, resends |-> 0, verified |-> FALSE]

StartReads(w, email, fresh) ==
    Read(w, [kind |-> "start", new |-> fresh, open |-> OpenFor(email)])

StartWithProfile(w, purpose, email, profile, source) ==
    /\ SamePerson(profile.phone, email)
    /\ StartReads(w, email,
          Fresh(purpose, email, profile, Resolved(profile.phone, email), source))

StartInvite(w, email, i) ==
    /\ "INVITE" \in Purpose /\ InviteActive(i)
    /\ StartWithProfile(w, "INVITE", email, invite[i].profile, i)

StartGroup(w, email, profile, l) ==
    /\ "GROUP" \in Purpose /\ LinkActive(l)
    /\ StartWithProfile(w, "GROUP", email, profile, l)

StartDirect(w, email, profile) ==
    /\ "DIRECT" \in Purpose
    /\ StartWithProfile(w, "DIRECT", email, profile, None)

\* Nobody is told whether the email belongs to a player.
StartRecovery(w, email) ==
    /\ "RECOVERY" \in Purpose
    /\ StartReads(w, email, Fresh("RECOVERY", email, None,
          IF ByEmail(email) = {} THEN None ELSE CHOOSE p \in ByEmail(email) : TRUE, None))

StartCommits(w, c) ==
    /\ request[w] # None /\ request[w].kind = "start"
    /\ challenge[c] = None
    /\ challenge' = [d \in Challenge |->
          IF d = c THEN request[w].new
          ELSE IF d \in request[w].open THEN [challenge[d] EXCEPT !.live = FALSE]
          ELSE challenge[d]]
    /\ Done(w)
    /\ UNCHANGED <<member, session, issued, invite, link>>

-----------------------------------------------------------------------------
\* _assert_access_challenge_available, but for expiry.
Available(c) ==
    /\ challenge[c] # None /\ ~challenge[c].verified
    /\ challenge[c].purpose = "INVITE" => InviteActive(challenge[c].source)
    /\ challenge[c].purpose = "GROUP" => LinkActive(challenge[c].source)

GuessReads(w, c) ==
    /\ Available(c) /\ challenge[c].live
    /\ Read(w, [kind |-> "guess", challenge |-> c, attempts |-> challenge[c].attempts + 1])

\* A wrong code: the router commits although the answer is 409.
GuessCommits(w) ==
    /\ request[w] # None /\ request[w].kind = "guess"
    /\ challenge' = [challenge EXCEPT
          ![request[w].challenge].attempts = request[w].attempts,
          ![request[w].challenge].live =
              @ /\ request[w].attempts < PLAY_ACCESS_OTP_MAX_ATTEMPTS]
    /\ Done(w)
    /\ UNCHANGED <<member, session, issued, invite, link>>

\* The right code.  A recovery confirms the player found when it was started.
VerifyReads(w, c) ==
    /\ Available(c) /\ challenge[c].live
    /\ LET ch == challenge[c] IN
       \/ /\ ch.purpose = "RECOVERY" /\ ch.player # None
          /\ Read(w, [kind |-> "verify", challenge |-> c, used |-> 0,
                sign |-> [player |-> ch.player, read |-> member[ch.player],
                          new |-> [member[ch.player] EXCEPT !.email = ch.email],
                          seen |-> session[ch.player]]])
       \/ /\ ch.purpose # "RECOVERY" /\ Acceptable(ch.profile, ch.email)
          /\ Read(w, [kind |-> "verify", challenge |-> c,
                used |-> IF ch.purpose = "GROUP" THEN link[ch.source].used + 1 ELSE 0,
                sign |-> Upsert(ch.profile, ch.email)])

\* Mutant of VerifyCommits: the challenge is not tied to the player it signed in.
VerifyCommitsUntied(w, p) ==
    /\ request[w] # None /\ request[w].kind = "verify"
    /\ LET c == request[w].challenge
           ch == challenge[c] IN
       /\ SignIn(p, request[w].sign)
       /\ challenge' = [challenge EXCEPT ![c].verified = TRUE]
       /\ invite' = IF ch.purpose = "INVITE"
                    THEN [invite EXCEPT ![ch.source].player = p] ELSE invite
       /\ link' = IF ch.purpose = "GROUP"
                  THEN [link EXCEPT ![ch.source].used = request[w].used] ELSE link
    /\ Done(w)

VerifyCommits(w, p) ==
    /\ request[w] # None /\ request[w].kind = "verify"
    /\ LET c == request[w].challenge
           ch == challenge[c] IN
       /\ SignIn(p, request[w].sign)
       /\ challenge' = [challenge EXCEPT ![c].verified = TRUE, ![c].player = p]
       /\ invite' = IF ch.purpose = "INVITE"
                    THEN [invite EXCEPT ![ch.source].player = p] ELSE invite
       /\ link' = IF ch.purpose = "GROUP"
                  THEN [link EXCEPT ![ch.source].used = request[w].used] ELSE link
    /\ Done(w)

ResendReads(w, c) ==
    /\ Available(c)
    /\ challenge[c].resends < PLAY_ACCESS_OTP_MAX_RESENDS
    /\ Read(w, [kind |-> "resend", challenge |-> c, attempts |-> challenge[c].attempts,
                resends |-> challenge[c].resends + 1])

\* Mutant of ResendCommits: the old code is sent again.
ResendCommitsOldCode(w) ==
    /\ request[w] # None /\ request[w].kind = "resend"
    /\ LET c == request[w].challenge IN
       challenge' = [challenge EXCEPT
          ![c].live = TRUE,
          ![c].attempts = IF request[w].attempts = 0 THEN @ ELSE 0,
          ![c].resends = request[w].resends]
    /\ Done(w)
    /\ UNCHANGED <<member, session, issued, invite, link>>

ResendCommits(w) ==
    /\ request[w] # None /\ request[w].kind = "resend"
    /\ LET c == request[w].challenge IN
       challenge' = [challenge EXCEPT
          ![c].code = @ + 1, ![c].live = TRUE,
          ![c].attempts = IF request[w].attempts = 0 THEN @ ELSE 0,
          ![c].resends = request[w].resends]
    /\ Done(w)
    /\ UNCHANGED <<member, session, issued, invite, link>>

-----------------------------------------------------------------------------
\* The way in without a code: a known phone signs its player in, under the
\* name that comes with it.

IdentifyReads(w, profile) ==
    /\ Acceptable(profile, None)
    /\ Read(w, [kind |-> "identify", sign |-> Upsert(profile, None)])

IdentifyCommits(w, p) ==
    /\ request[w] # None /\ request[w].kind = "identify"
    /\ SignIn(p, request[w].sign)
    /\ Done(w)
    /\ UNCHANGED <<invite, link, challenge>>

-----------------------------------------------------------------------------
\* Time.

CodeLapses(c) ==
    /\ Usable(c)
    /\ challenge' = [challenge EXCEPT ![c].live = FALSE]
    /\ UNCHANGED <<member, session, issued, invite, link, request, made, overlap>>

InviteLapses(i) ==
    /\ InviteActive(i)
    /\ invite' = [invite EXCEPT ![i].valid = FALSE]
    /\ UNCHANGED <<member, session, issued, link, challenge, request, made, overlap>>

LinkLapses(l) ==
    /\ LinkActive(l)
    /\ link' = [link EXCEPT ![l].valid = FALSE]
    /\ UNCHANGED <<member, session, issued, invite, challenge, request, made, overlap>>

AccessNext ==
    \/ \E i \in Invite :
          \/ \E profile \in Profile : CreateInvite(i, profile)
          \/ RevokeInvite(i) \/ InviteLapses(i)
    \/ \E l \in Link : CreateLink(l) \/ RevokeLink(l) \/ LinkLapses(l)
    \/ \E c \in Challenge : CodeLapses(c)
    \/ \E w \in Worker :
          \/ \E email \in Email :
                \/ \E i \in Invite : StartInvite(w, email, i)
                \/ \E l \in Link, profile \in Profile : StartGroup(w, email, profile, l)
                \/ \E profile \in Profile : StartDirect(w, email, profile)
                \/ StartRecovery(w, email)
          \/ \E c \in Challenge :
                \/ StartCommits(w, c)
                \/ GuessReads(w, c) \/ VerifyReads(w, c) \/ ResendReads(w, c)
          \/ GuessCommits(w) \/ ResendCommits(w)
          \/ \E profile \in Profile : IdentifyReads(w, profile)
          \/ \E p \in Player : VerifyCommits(w, p) \/ IdentifyCommits(w, p)
          \/ Rollback(w)

AccessSpec == AccessInit /\ [][AccessNext]_accessVars
-----------------------------------------------------------------------------
\* What holds of the tables.
AccessTypeOK ==
    /\ member \in [Player -> Row \cup {None}]
    /\ session \in [Player -> SUBSET Tokens] /\ issued \in 0..MaxRequests /\ made \in 0..MaxRequests
    /\ invite \in [Invite -> InviteRow \cup {None}]
    /\ link \in [Link -> LinkRow \cup {None}]
    /\ challenge \in [Challenge -> ChallengeRow \cup {None}]
    /\ request \in [Worker -> Request \cup {None}]
    /\ overlap \in BOOLEAN

\* A profile carries an email only if a code sent to that address was entered,
\* whatever requests ran at the same time and however phones moved between
\* profiles; and it was entered for that very player as long as no two requests
\* overlap.  Of two entries of one code the last names its player.
\* (verify_player_access_challenge)
EmailsAreProved ==
    \A p \in Player : Known(p) /\ member[p].email # None =>
        \E c \in Challenge :
            /\ challenge[c] # None /\ challenge[c].verified
            /\ challenge[c].email = member[p].email
            /\ challenge[c].player = p \/ overlap

\* As long as no two requests overlap, no more players come in by a group link
\* than its max_uses, although codes for it are sent out freely and counted
\* only when they are entered.  (get_community_access_link_status, verify)
LinkAdmitsItsUses ==
    ~overlap => \A l \in Link :
        Cardinality({c \in Challenge : challenge[c] # None /\ challenge[c].source = l
                                       /\ challenge[c].verified}) <= MaxUses

\* However sign-ins overlap, by whichever ways in, and whichever of each other's
\* tokens they do not see: a player never has more tokens in force than requests
\* are served at once, and one as long as no two requests overlap.
\* (_issue_player_access_token)
SessionsAreBounded ==
    \A p \in Player :
        Cardinality(session[p]) <= IF overlap THEN Cardinality(Worker) ELSE 1

\* A code that lapsed, was superseded or was guessed at too often is never
\* taken again: the challenge opens only with another code, even when a wrong
\* guess and a resend read the same row.  (resend_player_access_challenge)
ReopensOnlyWithNewCode ==
    [][\A c \in Challenge :
          challenge[c] # None /\ ~Usable(c) /\ Usable(c)' => challenge'[c].code # challenge[c].code
      ]_accessVars

\* As long as no two requests overlap, the verified email of a profile is kept:
\* its phone with another address is refused, when the code is asked for and
\* again when it is entered.  Only the email: identify hands the name and the
\* session to whoever gives the phone.
\* (_resolve_player_identity_conflict)
VerifiedEmailIsKept ==
    [][~overlap' => \A p \in Player : Known(p) /\ member[p].email # None
                        => member'[p].email = member[p].email]_accessVars
=============================================================================

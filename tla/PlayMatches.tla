---------------------------- MODULE PlayMatches ----------------------------
(***************************************************************************)
(* Community play: players open a match, join it, leave it, and the last   *)
(* one to join turns it into a booking of Bookings.tla.                    *)
(*                                                                         *)
(* These requests take the lock of the match's court and no other, so a    *)
(* creation or a join is two steps here: what it reads when it has the     *)
(* lock, and what it commits.  In between come requests on other courts    *)
(* and those of the tables, which hold the global lock.  Leaving and       *)
(* cancelling read only the match they change and are one step.  So is a   *)
(* completion's check of the slot with its insertion; SlotRaces.tla opens  *)
(* that up.  A transaction sees one instant of the clock.                  *)
(*                                                                         *)
(* A match's level, note and share link are left out: compatible matches   *)
(* are suggested before one is created, and force_create overrides that.   *)
(***************************************************************************)
EXTENDS Bookings, SequencesExt

CONSTANTS
    Player, MatchId,
    NoId,               \* NULL, for a match and for a booking
    PLAY_MATCH_SIZE

ASSUME MatchAssumption == PLAY_MATCH_SIZE \in Nat /\ PLAY_MATCH_SIZE > 1
ASSUME NoIdAssumption == NoId \notin MatchId \cup BookingId

VARIABLES
    match,      \* the matches table, with the players in the order they joined
    request,    \* the request that holds a court's lock, past its checks
    listing     \* holds a match list has found lapsed and not yet committed

matchVars == <<match, request, listing>>
playVars == <<now, booking, payment, blackouts, match, request, listing>>

MatchRow ==
    [status: {"ABSENT", "OPEN", "FULL", "CANCELLED"}, court: Court, slot: Slot,
     creator: Player \cup {NoId}, players: Seq(Player), booking: BookingId \cup {NoId}]

Idle == [kind |-> "none"]
CourtRequest ==
    {Idle} \cup [kind: {"create"}, player: Player, slot: Slot]
           \cup [kind: {"join"}, player: Player, match: MatchId]

\* The place of a match that was not created yet.
NoMatch == [status |-> "ABSENT", court |-> CHOOSE c \in Court : TRUE,
            slot |-> CHOOSE s \in Slot : TRUE, creator |-> NoId, players |-> <<>>,
            booking |-> NoId]

PlayInit ==
    /\ Init
    /\ match = [m \in MatchId |-> NoMatch]
    /\ request = [c \in Court |-> Idle]
    /\ listing = {}

-----------------------------------------------------------------------------
Active(m) == match[m].status \in {"OPEN", "FULL"}
Participants(m) == ToSet(match[m].players)

\* Mutant of Busy: only a match of the very same slot counts.
BusySameSlot(p, s, excluded) ==
    \E m \in MatchId \ excluded :
        Active(m) /\ p \in Participants(m) /\ match[m].slot = s

\* _assert_player_available_for_match: the player's matches on any court, as
\* far as they are committed.
Busy(p, s, excluded) ==
    \E m \in MatchId \ excluded :
        Active(m) /\ p \in Participants(m) /\ Overlaps(match[m].slot, s)

\* _find_same_slot_match
SameSlotMatch(c, s) == \E m \in MatchId : Active(m) /\ match[m].court = c /\ match[m].slot = s

\* assert_slot_available for a booking that does not exist yet.
CourtFree(c, s) ==
    /\ ~BlackedOut(c, s)
    /\ \A o \in BookingId :
          Blocking(booking[o]) /\ booking[o].court = c => ~Overlaps(booking[o].slot, s)

Lock(c, r) ==
    /\ request[c] = Idle
    /\ request' = [request EXCEPT ![c] = r]
    /\ UNCHANGED <<vars, match, listing>>

\* Mutant of CreateReads: a match on the same court and slot is overlooked.
CreateReadsCourtOnly(p, c, s) ==
    /\ Future(s)
    /\ ~Busy(p, s, {}) /\ CourtFree(c, s)
    /\ Lock(c, [kind |-> "create", player |-> p, slot |-> s])

CreateReads(p, c, s) ==
    /\ Future(s)
    /\ ~Busy(p, s, {}) /\ ~SameSlotMatch(c, s) /\ CourtFree(c, s)
    /\ Lock(c, [kind |-> "create", player |-> p, slot |-> s])

CreateCommits(c, m) ==
    /\ request[c].kind = "create"
    /\ match[m].status = "ABSENT"
    /\ match' = [match EXCEPT ![m] =
          [status |-> "OPEN", court |-> c, slot |-> request[c].slot,
           creator |-> request[c].player, players |-> <<request[c].player>>,
           booking |-> NoId]]
    /\ request' = [request EXCEPT ![c] = Idle]
    /\ UNCHANGED <<vars, listing>>

\* _require_future_open_match
Modifiable(m) == Active(m) /\ Future(match[m].slot)

JoinReads(p, m) ==
    /\ Modifiable(m)
    /\ p \notin Participants(m)
    /\ match[m].status # "FULL" /\ Len(match[m].players) < PLAY_MATCH_SIZE
    /\ ~Busy(p, match[m].slot, {m})
    /\ Lock(match[m].court, [kind |-> "join", player |-> p, match |-> m])

Joined(c) == Append(match[request[c].match].players, request[c].player)

JoinCommits(c) ==
    /\ request[c].kind = "join" /\ Len(Joined(c)) < PLAY_MATCH_SIZE
    /\ match' = [match EXCEPT ![request[c].match].players = Joined(c)]
    /\ request' = [request EXCEPT ![c] = Idle]
    /\ UNCHANGED <<vars, listing>>

\* Mutant of CompletedRow: the match stays open.
CompletedRowStaysOpen(row, players, b) ==
    [row EXCEPT !.players = players, !.booking = b]

CompletedRow(row, players, b) ==
    [row EXCEPT !.players = players, !.status = "FULL", !.booking = b]

\* Mutant of CompletionCommits: the court is not looked at again.
CompletionUnchecked(c, b) ==
    /\ request[c].kind = "join" /\ Len(Joined(c)) = PLAY_MATCH_SIZE
    /\ booking[b].status = "ABSENT" /\ HoldFits
    /\ \E p \in AvailableProvider :
          booking' = [booking EXCEPT ![b] =
             NewBooking("PENDING_PAYMENT", c, match[request[c].match].slot, TRUE, p,
                        now + HoldTicks, "play")]
    /\ match' = [match EXCEPT ![request[c].match] = CompletedRow(@, Joined(c), b)]
    /\ request' = [request EXCEPT ![c] = Idle]
    /\ UNCHANGED <<now, payment, blackouts, listing>>

\* The last player: the booking and the full match in one transaction.
CompletionCommits(c, b) ==
    /\ request[c].kind = "join" /\ Len(Joined(c)) = PLAY_MATCH_SIZE
    /\ CreatePlayBooking(b, c, match[request[c].match].slot)
    /\ match' = [match EXCEPT ![request[c].match] = CompletedRow(@, Joined(c), b)]
    /\ request' = [request EXCEPT ![c] = Idle]
    /\ UNCHANGED listing

\* A completion whose slot is gone (409), and any request that fails or whose
\* process dies: everything is rolled back.
RollsBack(c) ==
    /\ request[c] # Idle
    /\ request' = [request EXCEPT ![c] = Idle]
    /\ UNCHANGED <<vars, match, listing>>

-----------------------------------------------------------------------------
(* Leaving and cancelling: not once the match is a booking.                *)

\* The match is emptied and cancelled, or the oldest player left takes over
\* from a creator who leaves.
LeftRow(row, p) ==
    LET place == CHOOSE i \in DOMAIN row.players : row.players[i] = p
        rest == RemoveAt(row.players, place) IN
    IF rest = <<>>
    THEN [row EXCEPT !.players = rest, !.status = "CANCELLED"]
    ELSE [row EXCEPT !.players = rest, !.status = "OPEN",
                     !.creator = IF @ = p THEN Head(rest) ELSE @]

\* Mutant of Leave: also from a match that is a booking already.
LeaveAnyTime(p, m) ==
    /\ request[match[m].court] = Idle
    /\ Modifiable(m) /\ p \in Participants(m)
    /\ match' = [match EXCEPT ![m] = LeftRow(@, p)]
    /\ UNCHANGED <<vars, request, listing>>

Leave(p, m) ==
    /\ request[match[m].court] = Idle
    /\ Modifiable(m) /\ match[m].booking = NoId
    /\ p \in Participants(m)
    /\ match' = [match EXCEPT ![m] = LeftRow(@, p)]
    /\ UNCHANGED <<vars, request, listing>>

CancelMatch(p, m) ==
    /\ request[match[m].court] = Idle
    /\ Modifiable(m) /\ match[m].booking = NoId
    /\ match[m].creator = p
    /\ match' = [match EXCEPT ![m].status = "CANCELLED"]
    /\ UNCHANGED <<vars, request, listing>>

-----------------------------------------------------------------------------
(* The tables.                                                             *)

\* _cancel_linked_play_match_for_booking
LinkedMatchCancelled(b) ==
    match' = [m \in MatchId |->
                 IF match[m].booking = b THEN [match[m] EXCEPT !.status = "CANCELLED"]
                 ELSE match[m]]

\* Mutant of AdminCancelsBooking: the match is forgotten.
AdminCancelsAlone(b) == AdminCancel(b) /\ UNCHANGED matchVars

\* update_booking_status_by_admin to CANCELLED.
AdminCancelsBooking(b) ==
    AdminCancel(b) /\ LinkedMatchCancelled(b) /\ UNCHANGED <<request, listing>>

\* Insertions take the court's lock after the global one.
InsertStep(b) ==
    /\ \E c \in Court, s \in Slot :
          request[c] = Idle /\ (CreatePublicBooking(b, c, s) \/ CreateAdminBooking(b, c, s))
    /\ UNCHANGED matchVars

PaymentStep(b) ==
    /\ \/ \E p \in OnlineProvider, o \in Ref \ {NoRef} : StartCheckout(b, p, o)
       \/ \E p \in OnlineProvider : CancelCheckout(b, p)
       \/ ProviderStep(b)
       \/ CancelWithoutRefund(b)
       \/ \E outcome \in {"SUCCEEDED", "PENDING"} : CancelWithRefund(b, outcome)
       \/ RefundFails(b)
    /\ UNCHANGED matchVars

DeskStep(b) ==
    /\ \/ \E c \in Court, s \in Slot : AdminUpdate(b, c, s)
       \/ \E target \in BookingStatus : AdminSetOutcome(b, target)
       \/ MarkBalancePaid(b)
       \/ DeleteBooking(b)
    /\ UNCHANGED matchVars

ClubStep ==
    /\ \/ \E c \in Court, s \in Period : CreateBlackout(c, s)
       \/ ExpirePendingJob
       \/ \E b \in BookingId : ExpireOnRead(b)
       \/ Tick /\ \A c \in Court : request[c] = Idle
    /\ UNCHANGED matchVars

MatchStep(m) ==
    \/ \E c \in Court : CreateCommits(c, m)
    \/ \E p \in Player : JoinReads(p, m) \/ Leave(p, m) \/ CancelMatch(p, m)

CourtStep(c) ==
    \/ \E p \in Player, s \in Slot : CreateReads(p, c, s)
    \/ JoinCommits(c)
    \/ \E b \in BookingId : CompletionCommits(c, b)
    \/ RollsBack(c)

PlayNext ==
    \/ \E m \in MatchId : MatchStep(m)
    \/ \E c \in Court : CourtStep(c)
    \/ \E b \in BookingId :
          AdminCancelsBooking(b) \/ InsertStep(b) \/ PaymentStep(b) \/ DeskStep(b)
    \/ ClubStep

PlaySpec == PlayInit /\ [][PlayNext]_playVars

-----------------------------------------------------------------------------
(* GET /play/matches expires lapsed holds with no lock at all: it reads    *)
(* the booking and its payments, sends an e-mail, and commits later.       *)

ListReads(b) ==
    /\ booking[b].origin = "play" /\ Future(booking[b].slot)
    /\ HoldLapsed(booking[b], now) /\ b \notin listing
    /\ listing' = listing \cup {b}
    /\ UNCHANGED <<vars, match, request>>

\* What it writes was decided when it read.
ListCommits(b) ==
    /\ b \in listing
    /\ booking' = [booking EXCEPT ![b].status = "EXPIRED", ![b].payStatus = "EXPIRED"]
    /\ payment' = [payment EXCEPT ![b] =
          [p \in OnlineProvider |-> IF @[p].exists THEN [@[p] EXCEPT !.status = "EXPIRED"]
                                    ELSE @[p]]]
    /\ listing' = listing \ {b}
    /\ UNCHANGED <<now, blackouts, match, request>>

ListSpec ==
    PlayInit /\ [][PlayNext \/ \E b \in BookingId : ListReads(b) \/ ListCommits(b)]_playVars

-----------------------------------------------------------------------------
(* Properties.                                                             *)

\* Matches and the requests on courts have their types.
PlayTypeOK ==
    /\ match \in [MatchId -> MatchRow]
    /\ request \in [Court -> CourtRequest]
    /\ listing \subseteq BookingId

\* However joins, departures and completions alternate, an open match has
\* room and a creator who plays in it, and a match is full exactly when all
\* its places are taken and its court is booked; nobody has two places.
MatchesAreWhole ==
    \A m \in MatchId :
        LET row == match[m] IN
        /\ IsInjective(row.players)
        /\ row.status = "OPEN" =>
              /\ Len(row.players) \in 1..PLAY_MATCH_SIZE - 1
              /\ row.creator \in Participants(m)
              /\ row.booking = NoId
        /\ row.status = "FULL" => Len(row.players) = PLAY_MATCH_SIZE /\ row.booking # NoId
        /\ row.booking # NoId => booking[row.booking].origin = "play"

\* Every booking made by a match belongs to that one match, for good, and the
\* two are cancelled together: a match stays full for as long as a payment,
\* also a late one, can still confirm its booking.
BookingFollowsMatch ==
    \A b \in BookingId :
        booking[b].origin = "play" =>
            \E m \in MatchId :
                /\ {o \in MatchId : match[o].booking = b} = {m}
                /\ match[m].status = "CANCELLED" <=> booking[b].status = "CANCELLED"
                /\ match[m].status # "CANCELLED" => match[m].status = "FULL"

\* Two matches never compete for the same court and slot.
SlotMatchedOnce ==
    \A m, o \in MatchId :
        m # o /\ Active(m) /\ Active(o) /\ match[m].court = match[o].court
            => match[m].slot # match[o].slot

\* A player is in at most one match of a court at a time: the court's lock
\* keeps the check valid until the commit.
PlayerOncePerCourt ==
    \A m, o \in MatchId :
        /\ m # o /\ Active(m) /\ Active(o)
        /\ match[m].court = match[o].court /\ Overlaps(match[m].slot, match[o].slot)
        => Participants(m) \cap Participants(o) = {}

\* Once a match is a booking nobody joins or leaves it any more, and it keeps that
\* booking; only the cancellation of the booking changes it.
FrozenStep ==
    \A m \in MatchId :
        match[m].booking # NoId /\ match'[m] # match[m] =>
            /\ match'[m] = [match[m] EXCEPT !.status = "CANCELLED"]
            /\ booking[match[m].booking].status # "CANCELLED"
            /\ booking'[match[m].booking].status = "CANCELLED"
CompletedMatchIsFrozen == [][FrozenStep]_playVars

\* Matches reach the tables only through the operations of Bookings.
MatchesDriveBookings == Spec

\* play_5.md: once the payment is completed the booking is CONFIRMED; a hold
\* that was paid in time then never ends up expired.
PaidBookingStep ==
    \A b \in BookingId : PaidAndConfirmed(booking[b]) => booking'[b].status # "EXPIRED"
PaidBookingStands == [][PaidBookingStep]_playVars
=============================================================================

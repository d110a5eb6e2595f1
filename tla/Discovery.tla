------------------------------ MODULE Discovery ------------------------------
(***************************************************************************)
(* The public discovery of a club by people who are not its players: they  *)
(* identify themselves, follow the club, and are alerted in app when one   *)
(* of its matches lacks one or two players, or by a daily digest of what   *)
(* is open near them.                                                      *)
(*                                                                         *)
(* An alert is looked up by its dedupe key and then inserted in the        *)
(* transaction of the match it is about; that key is unique, and a second  *)
(* insertion fails together with the transaction it is part of.            *)
(***************************************************************************)
EXTENDS Naturals, FiniteSets

CONSTANTS
    Subscriber, Match, None,
    Suits       \* the pairs <<s, m>> of which m is at the level and hour s likes

VARIABLES
    subscriber, \* public_discovery_subscribers with their watch and session
    alert       \* public_discovery_notifications

discoveryVars == <<subscriber, alert>>

SubscriberRow ==
    [session: BOOLEAN,      \* a session token is neither revoked nor expired
     watching: BOOLEAN,     \* public_club_watches
     digest: BOOLEAN,       \* nearby_digest_enabled
     located: BOOLEAN]      \* latitude and longitude are set

\* A digest is of a day: those of days gone by are left out.
Alert ==
    [to: Subscriber, kind: {"TWO", "THREE"}, about: Match]
    \cup [to: Subscriber, kind: {"DIGEST"}, about: {None}]

DiscoveryInit == subscriber = [s \in Subscriber |-> None] /\ alert = {}

InSession(s) == subscriber[s] # None /\ subscriber[s].session

\* identify_public_discovery_subscriber: who comes without a session is new.
Identify(s, digest, located) ==
    /\ subscriber[s] = None \/ InSession(s)
    /\ digest => located
    /\ subscriber' = [subscriber EXCEPT ![s] =
          [session |-> TRUE, digest |-> digest, located |-> located,
           watching |-> subscriber[s] # None /\ subscriber[s].watching]]
    /\ UNCHANGED alert

UpdatePreferences(s, digest, located) ==
    /\ InSession(s)
    /\ digest => located
    /\ subscriber' = [subscriber EXCEPT ![s].digest = digest, ![s].located = located]
    /\ UNCHANGED alert

Follow(s) ==
    /\ InSession(s)
    /\ subscriber' = [subscriber EXCEPT ![s].watching = TRUE]
    /\ UNCHANGED alert

Unfollow(s) ==
    /\ InSession(s)
    /\ subscriber' = [subscriber EXCEPT ![s].watching = FALSE]
    /\ UNCHANGED alert

\* 90 days after it was issued; nothing leads back to the subscriber then.
SessionEnds(s) ==
    /\ InSession(s)
    /\ subscriber' = [subscriber EXCEPT ![s].session = FALSE]
    /\ UNCHANGED alert

\* _match_matches_preferences
Likes(s, m) == <<s, m>> \in Suits

\* dispatch_public_watchlist_notifications_for_match: the alerts still to be
\* made for an open match with size players.
WatchAlerts(m, size) ==
    IF size \notin {2, 3} THEN {}
    ELSE {[to |-> s, kind |-> IF size = 3 THEN "THREE" ELSE "TWO", about |-> m] :
             s \in {s \in Subscriber : subscriber[s] # None /\ subscriber[s].watching
                                       /\ Likes(s, m)}} \ alert

\* emit_public_nearby_digest_notifications, about the matches that are open.
Digest(open) ==
    /\ alert' = alert \cup
          {[to |-> s, kind |-> "DIGEST", about |-> None] :
              s \in {s \in Subscriber : subscriber[s] # None /\ subscriber[s].digest
                        /\ subscriber[s].located /\ \E m \in open : Likes(s, m)}}
    /\ UNCHANGED subscriber

\* The digests of yesterday do not count today.
DiscoveryDayPasses ==
    /\ alert' = {a \in alert : a.kind # "DIGEST"}
    /\ UNCHANGED subscriber

DiscoveryTypeOK ==
    /\ subscriber \in [Subscriber -> SubscriberRow \cup {None}]
    /\ alert \subseteq Alert
=============================================================================

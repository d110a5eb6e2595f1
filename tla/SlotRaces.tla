------------------------------ MODULE SlotRaces ------------------------------
(***************************************************************************)
(* The requests of Bookings.tla taken apart: each is a transaction that    *)
(* takes its locks, checks the slot against what others have committed,    *)
(* writes, and commits, with any other request in between.                 *)
(*                                                                         *)
(* PostgreSQL is modelled: advisory locks are held to the end of the       *)
(* transaction, a check sees only committed rows (READ COMMITTED), and the *)
(* exclusion constraint no_overlapping_bookings makes a writer wait for an *)
(* uncommitted row it conflicts with and fail on a committed one.          *)
(*                                                                         *)
(* Kinds of request:                                                       *)
(*   create    public and administrator bookings: the global lock, then    *)
(*             the court's                                                 *)
(*   revise    update_booking_by_admin, and mark_booking_paid reviving an  *)
(*             expired booking: the global lock only                       *)
(*   complete  the fourth player joins a match: the court's lock only      *)
(*   close     create_blackout: the global lock, and no check              *)
(***************************************************************************)
EXTENDS BookingRules

CONSTANTS Request, Court, Slot, Kind

ASSUME KindAssumption == Kind \subseteq {"create", "revise", "complete", "close"}

VARIABLES
    work,   \* what each request was asked to do
    pc      \* where it is; "taken" and "rejected" are the 409 and the failed INSERT

raceVars == <<work, pc>>

Work == [kind: Kind, court: Court, slot: Slot]

\* The steps of a request, and where it can end.
Pending == {"global", "court", "check", "write", "commit"}
Ended == {"done", "taken", "rejected"}

\* Mutant of TakesGlobal: revising a booking is left to the check alone.
TakesGlobalToAdd(r) == work[r].kind \in {"create", "close"}

TakesGlobal(r) == work[r].kind \in {"create", "revise", "close"}

\* Mutant of TakesCourt: completing a match takes no lock.
TakesCourtToCreate(r) == work[r].kind = "create"

TakesCourt(r) == work[r].kind \in {"create", "complete"}
Books(r) == work[r].kind # "close"

\* A transaction holds what it took until it ends.
HoldsGlobal(r) == TakesGlobal(r) /\ pc[r] \in {"court", "check", "write", "commit"}
HoldsCourt(r, c) ==
    TakesCourt(r) /\ work[r].court = c /\ pc[r] \in {"check", "write", "commit"}

Init ==
    /\ work \in [Request -> Work]
    /\ pc = [r \in Request |-> IF TakesGlobal(r) THEN "global" ELSE "court"]

Goto(r, label) == pc' = [pc EXCEPT ![r] = label] /\ UNCHANGED work

LockGlobal(r) ==
    /\ pc[r] = "global"
    /\ \A o \in Request : ~HoldsGlobal(o)
    /\ Goto(r, IF TakesCourt(r) THEN "court" ELSE IF Books(r) THEN "check" ELSE "write")

LockCourt(r) ==
    /\ pc[r] = "court"
    /\ \A o \in Request : ~HoldsCourt(o, work[r].court)
    /\ Goto(r, "check")

SameTime(r, o) == Overlaps(work[r].slot, work[o].slot)

\* assert_slot_available would refuse r because of what o has committed.
InTheWay(r, o) ==
    o # r /\ pc[o] = "done" /\ work[o].court = work[r].court /\ SameTime(r, o)

Available(r) == \A o \in Request : ~InTheWay(r, o)

\* Mutant of Check: a request waits for its slot to be given up.
CheckWaits(r) == pc[r] = "check" /\ Available(r) /\ Goto(r, "write")

Check(r) ==
    /\ pc[r] = "check"
    /\ Goto(r, IF Available(r) THEN "write" ELSE "taken")

\* The rows the exclusion constraint compares: bookings of the club, on any court.
Excludes(r, o) == o # r /\ Books(r) /\ Books(o) /\ SameTime(r, o)

\* Mutant of Write: no exclusion constraint.
WriteUnconstrained(r) == pc[r] = "write" /\ Goto(r, "commit")

Write(r) ==
    /\ pc[r] = "write"
    /\ \A o \in Request : Excludes(r, o) => pc[o] # "commit"
    /\ Goto(r, IF \E o \in Request : Excludes(r, o) /\ pc[o] = "done"
               THEN "rejected" ELSE "commit")

Commit(r) == pc[r] = "commit" /\ Goto(r, "done")

Step(r) == LockGlobal(r) \/ LockCourt(r) \/ Check(r) \/ Write(r) \/ Commit(r)

AllEnded == (\A r \in Request : pc[r] \in Ended) /\ UNCHANGED raceVars

Next == (\E r \in Request : Step(r)) \/ AllEnded

Spec == Init /\ [][Next]_raceVars

\* PostgreSQL queues the waiters of a lock, and every transaction goes on.
FairSpec == Spec /\ \A r \in Request : WF_raceVars(Step(r))

-----------------------------------------------------------------------------
(* The calendar the committed rows make up.                                *)

Committed == {r \in Request : pc[r] = "done"}

Calendar == INSTANCE CourtCalendar WITH
    BookingId <- Request,
    Period <- Slot,
    reserved <- {[id |-> r, court |-> work[r].court, slot |-> work[r].slot] :
                    r \in {x \in Committed : Books(x)}},
    closed <- {[court |-> work[r].court, slot |-> work[r].slot] :
                    r \in {x \in Committed : ~Books(x)}}

-----------------------------------------------------------------------------
(* Properties.                                                             *)

\* Locks, requests and their places have their types.
RaceTypeOK ==
    /\ work \in [Request -> Work]
    /\ pc \in [Request -> Pending \cup Ended]

\* However requests interleave, no two committed bookings share a court at
\* the same time.
NoCommittedOverlap ==
    \A r, o \in Committed :
        r # o /\ Books(r) /\ Books(o) /\ work[r].court = work[o].court => ~SameTime(r, o)

\* What a creation saw when it checked still stands when it commits: neither a
\* booking nor a closure got in between (the two locks it holds).
CreationCheckHolds ==
    \A r \in Request :
        work[r].kind = "create" /\ pc[r] \in {"write", "commit"} => Available(r)

\* Requests that wait for locks and for each other's rows all come to an end.
EveryRequestEnds == \A r \in Request : <>(pc[r] \in Ended)

\* As long as no match is being completed every writer holds the global lock: requests
\* then change the calendar as they would one after the other, each commit being
\* one step of it.
SerialStep ==
    (\A r \in Request : work[r].kind # "complete") => [Calendar!Next]_(Calendar!calendarVars)
SerialAsOne == [][SerialStep]_raceVars
=============================================================================

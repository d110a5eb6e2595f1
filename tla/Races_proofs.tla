---------------------------- MODULE Races_proofs ----------------------------
(***************************************************************************)
(* Theorems of the two components in which processes race for rows of the  *)
(* database, for any requests, courts and slots, and any processes, limit, *)
(* window and bound on the clock.                                          *)
(*                                                                         *)
(* SlotRaces: what the locks and the constraint on the bookings ensure.    *)
(*                                                                         *)
(* RateLimit: the counter of the current window is the number of requests  *)
(* it has admitted, because a row that was found is locked until it is     *)
(* written, and the purge never reaches the current window.  What a process*)
(* counts by itself, it counts over every window, wherever it starts: it   *)
(* remembers the last requests it admitted, and each comes more than a     *)
(* window after the one that is Limit places before it.                    *)
(***************************************************************************)
EXTENDS SlotRaces, RateLimit, FiniteSetTheorems, SequenceTheorems, NaturalsInduction,
        WellFoundedInduction, TLAPS

-----------------------------------------------------------------------------
(* SlotRaces: the locks and the constraint.                                *)

\* A lock has one holder at a time.
OneHolder ==
    \A r, o \in Request : r # o =>
        /\ ~(HoldsGlobal(r) /\ HoldsGlobal(o))
        /\ \A c \in Court : ~(HoldsCourt(r, c) /\ HoldsCourt(o, c))

\* The constraint lets no two rows that it compares get past their INSERT.
Exclusion ==
    \A r, o \in Request :
        Excludes(r, o) => ~(pc[r] \in {"commit", "done"} /\ pc[o] \in {"commit", "done"})

\* Every request that writes the calendar holds the global lock.
AllGlobal == \A r \in Request : TakesGlobal(r)

\* What a request checked under the global lock still stands when it commits,
\* when the others hold it too, or when it holds the lock of its court besides.
CheckHolds ==
    \A r \in Request :
        /\ Books(r) /\ pc[r] \in {"write", "commit"}
        /\ work[r].kind = "create" \/ AllGlobal
        => Available(r)

RaceInv == RaceTypeOK /\ OneHolder /\ Exclusion /\ CheckHolds

-----------------------------------------------------------------------------
(* The shape of a step.                                                    *)

\* Where each step of a request takes it from and to.
LEMMA StepMoves ==
    ASSUME RaceTypeOK, NEW r \in Request, Step(r)
    PROVE  /\ work' = work
           /\ \A o \in Request \ {r} : pc'[o] = pc[o]
           /\ \/ LockGlobal(r) /\ pc[r] = "global" /\ pc'[r] \in {"court", "check", "write"}
              \/ LockCourt(r) /\ pc[r] = "court" /\ pc'[r] = "check"
              \/ Check(r) /\ pc[r] = "check" /\ pc'[r] \in {"write", "taken"}
              \/ Write(r) /\ pc[r] = "write" /\ pc'[r] \in {"commit", "rejected"}
              \/ Commit(r) /\ pc[r] = "commit" /\ pc'[r] = "done"
  BY DEF RaceTypeOK, Step, LockGlobal, LockCourt, Check, Write, Commit, Goto

\* Requests keep the work they were given; the types stay.
LEMMA RaceTypes == RaceTypeOK /\ [Next]_raceVars => RaceTypeOK'
<1> SUFFICES ASSUME RaceTypeOK, [Next]_raceVars PROVE RaceTypeOK' OBVIOUS
<1>1. ASSUME NEW r \in Request, Step(r) PROVE RaceTypeOK'
  <2>1. work' = work /\ pc' = [pc EXCEPT ![r] = pc'[r]]
    BY <1>1 DEF Step, LockGlobal, LockCourt, Check, Write, Commit, Goto, RaceTypeOK
  <2>2. pc'[r] \in Pending \cup Ended BY <1>1, StepMoves DEF Pending, Ended
  <2> QED BY <2>1, <2>2 DEF RaceTypeOK
<1>2. CASE AllEnded \/ UNCHANGED raceVars BY <1>2 DEF AllEnded, raceVars, RaceTypeOK
<1> QED BY <1>1, <1>2 DEF Next

\* Overlap does not depend on the order in which two requests are named.
LEMMA SameTimeBothWays ==
    ASSUME NEW r, NEW o
    PROVE  /\ SameTime(r, o) = SameTime(o, r)
           /\ Excludes(r, o) = Excludes(o, r)
  BY DEF SameTime, Overlaps, Excludes

\* Every kind of request takes a lock.
LEMMA EveryKindLocks ==
    ASSUME RaceTypeOK, NEW r \in Request
    PROVE  TakesGlobal(r) \/ TakesCourt(r)
  BY KindAssumption DEF RaceTypeOK, Work, TakesGlobal, TakesCourt

-----------------------------------------------------------------------------
(* The invariant is inductive.                                             *)

LEMMA OneHolderKept ==
    ASSUME RaceTypeOK, OneHolder, NEW r \in Request, Step(r)
    PROVE  OneHolder'
<1> SUFFICES ASSUME NEW q \in Request, NEW o \in Request, q # o
             PROVE  /\ ~(HoldsGlobal(q) /\ HoldsGlobal(o))'
                    /\ \A c \in Court : ~(HoldsCourt(q, c) /\ HoldsCourt(o, c))'
  BY DEF OneHolder
<1> USE DEF HoldsGlobal, HoldsCourt, TakesGlobal, TakesCourt
<1>1. \A x \in Request : HoldsGlobal(x)' =>
         HoldsGlobal(x) \/ (x = r /\ \A y \in Request : ~HoldsGlobal(y))
  BY StepMoves DEF LockGlobal
<1>2. \A x \in Request, c \in Court : HoldsCourt(x, c)' =>
         HoldsCourt(x, c) \/ (x = r /\ \A y \in Request : ~HoldsCourt(y, c))
  <2> SUFFICES ASSUME NEW x \in Request, NEW c \in Court, HoldsCourt(x, c)', ~HoldsCourt(x, c)
               PROVE  x = r /\ \A y \in Request : ~HoldsCourt(y, c)
    OBVIOUS
  <2>1. x = r /\ work[r].court = c /\ TakesCourt(r) BY StepMoves
  <2>2. pc[r] \in {"global", "court"} BY <2>1, StepMoves
  <2>3. pc[r] = "global" => pc'[r] = "court"
    BY <2>1, StepMoves DEF LockGlobal, Goto, RaceTypeOK
  <2>4. LockCourt(r) BY <2>1, <2>2, <2>3, StepMoves
  <2> QED BY <2>1, <2>4 DEF LockCourt
<1> QED BY <1>1, <1>2 DEF OneHolder

LEMMA ExclusionKept ==
    ASSUME RaceTypeOK, Exclusion, NEW r \in Request, Step(r)
    PROVE  Exclusion'
<1> SUFFICES ASSUME NEW q \in Request, NEW o \in Request, Excludes(q, o)',
                    pc'[q] \in {"commit", "done"}, pc'[o] \in {"commit", "done"}
             PROVE  FALSE
  BY DEF Exclusion
<1>1. Excludes(q, o) /\ Excludes(o, q) /\ q # o
  BY StepMoves, SameTimeBothWays DEF Excludes, Books, SameTime
<1>2. ASSUME NEW x \in Request, pc'[x] \in {"commit", "done"}, pc[x] \notin {"commit", "done"}
      PROVE  /\ x = r
             /\ \A y \in Request : Excludes(x, y) => pc[y] \notin {"commit", "done"}
  <2>1. x = r /\ Write(r) /\ pc'[r] = "commit" BY <1>2, StepMoves
  <2> QED BY <2>1 DEF Write, Goto, RaceTypeOK
<1>3. \A x \in Request : pc'[x] \in {"commit", "done"} /\ x # r => pc[x] \in {"commit", "done"}
  BY StepMoves
<1> QED BY <1>1, <1>2, <1>3 DEF Exclusion

\* The request that commits is the only one that may take a slot from another,
\* and the other would have to hold the same lock.
LEMMA CheckHoldsKept ==
    ASSUME RaceTypeOK, OneHolder, CheckHolds, NEW r \in Request, Step(r)
    PROVE  CheckHolds'
<1> SUFFICES ASSUME NEW q \in Request, Books(q)', pc'[q] \in {"write", "commit"},
                    work'[q].kind = "create" \/ AllGlobal'
             PROVE  Available(q)'
  BY DEF CheckHolds
<1>1. /\ Books(q) /\ TakesGlobal(q)
      /\ work[q].kind = "create" \/ AllGlobal
  BY StepMoves DEF Books, AllGlobal, TakesGlobal
<1>2. Available(q)
  <2>1. CASE pc[q] \in {"write", "commit"} BY <1>1, <2>1 DEF CheckHolds
  <2>2. CASE pc[q] \notin {"write", "commit"}
    <3>1. q = r /\ (LockGlobal(r) \/ Check(r)) /\ pc'[r] = "write"
      BY <2>2, StepMoves
    <3>2. Check(r) BY <1>1, <3>1 DEF LockGlobal, Goto, RaceTypeOK
    <3> QED BY <3>1, <3>2 DEF Check, Goto, RaceTypeOK
  <2> QED BY <2>1, <2>2
<1>3. ASSUME NEW o \in Request, InTheWay(q, o)' PROVE FALSE
  <2>1. /\ o # q /\ pc'[o] = "done" /\ work[o].court = work[q].court /\ SameTime(q, o)
    BY <1>3, StepMoves DEF InTheWay, SameTime
  <2>2. pc[o] # "done" BY <1>2, <2>1 DEF Available, InTheWay
  <2>3. o = r /\ pc[o] = "commit" BY <2>1, <2>2, StepMoves
  <2>4. pc[q] \in {"write", "commit"} BY <2>1, <2>3, StepMoves
  <2>5. HoldsGlobal(q) BY <1>1, <2>4 DEF HoldsGlobal
  <2>6. ~HoldsGlobal(o) BY <2>1, <2>5 DEF OneHolder
  <2>7. ~TakesGlobal(o) BY <2>3, <2>6 DEF HoldsGlobal
  <2>8. work[q].kind = "create" /\ TakesCourt(o) BY <1>1, <2>7, EveryKindLocks DEF AllGlobal
  <2>9. HoldsCourt(q, work[q].court) /\ HoldsCourt(o, work[q].court)
    BY <2>1, <2>3, <2>4, <2>8 DEF HoldsCourt, TakesCourt
  <2>10. work[q].court \in Court BY DEF RaceTypeOK, Work
  <2> QED BY <2>1, <2>9, <2>10 DEF OneHolder
<1> QED BY <1>3 DEF Available

\* The lock invariant, for every instance.
LEMMA RaceInvariant == Spec => []RaceInv
<1>1. Init => RaceInv
  <2> SUFFICES ASSUME Init PROVE RaceInv OBVIOUS
  <2>1. \A r \in Request : pc[r] = IF TakesGlobal(r) THEN "global" ELSE "court" BY DEF Init
  <2>2. RaceTypeOK BY <2>1 DEF Init, RaceTypeOK, Pending
  <2>3. \A r \in Request : ~HoldsGlobal(r) /\ \A c \in Court : ~HoldsCourt(r, c)
    BY <2>1 DEF HoldsGlobal, HoldsCourt
  <2>4. \A r \in Request : pc[r] \in {"global", "court"} BY <2>1
  <2>5. OneHolder BY <2>3 DEF OneHolder
  <2>6. Exclusion /\ CheckHolds BY <2>4 DEF Exclusion, CheckHolds, Excludes
  <2> QED BY <2>2, <2>5, <2>6 DEF RaceInv
<1>2. RaceInv /\ [Next]_raceVars => RaceInv'
  <2> SUFFICES ASSUME RaceInv, [Next]_raceVars PROVE RaceInv' OBVIOUS
  <2>1. ASSUME NEW r \in Request, Step(r) PROVE RaceInv'
    BY <2>1, RaceTypes, OneHolderKept, ExclusionKept, CheckHoldsKept DEF RaceInv
  <2>2. CASE AllEnded \/ UNCHANGED raceVars
    <3>1. work' = work /\ pc' = pc BY <2>2 DEF AllEnded, raceVars
    <3> QED BY <3>1 DEF RaceInv, RaceTypeOK, OneHolder, Exclusion, CheckHolds, HoldsGlobal,
                       HoldsCourt, TakesGlobal, TakesCourt, Excludes, Books, SameTime,
                       AllGlobal, Available, InTheWay
  <2> QED BY <2>1, <2>2 DEF Next
<1> QED BY <1>1, <1>2, PTL DEF Spec

-----------------------------------------------------------------------------
(* The theorems.                                                           *)

\* Two committed bookings of a court never overlap, whatever the locks each
\* request takes. (no_overlapping_bookings)
THEOREM CommittedNeverOverlap == Spec => []NoCommittedOverlap
<1>1. RaceInv => NoCommittedOverlap
  BY DEF RaceInv, Exclusion, NoCommittedOverlap, Committed, Excludes
<1> QED BY <1>1, RaceInvariant, PTL

\* What a creation checked still holds at its commit, against every other kind
\* of request. (acquire_single_court_lock)
THEOREM ChecksOfCreationsHold == Spec => []CreationCheckHolds
<1>1. RaceInv => CreationCheckHolds
  BY DEF RaceInv, CheckHolds, CreationCheckHolds, Books
<1> QED BY <1>1, RaceInvariant, PTL

\* Without match completions, the commits change the calendar one request at a
\* time, as Bookings has it. (booking_lock)
THEOREM CommitsAreSerial == Spec => SerialAsOne
<1> DEFINE R == {[id |-> r, court |-> work[r].court, slot |-> work[r].slot] :
                    r \in {x \in Committed : Books(x)}}
           K == {[court |-> work[r].court, slot |-> work[r].slot] :
                    r \in {x \in Committed : ~Books(x)}}
<1>1. RaceInv /\ [Next]_raceVars => [SerialStep]_raceVars
  <2> SUFFICES ASSUME RaceInv, [Next]_raceVars, \A r \in Request : work[r].kind # "complete"
               PROVE  [Calendar!Next]_(Calendar!calendarVars)
    BY DEF SerialStep
  <2>0. AllGlobal /\ RaceTypeOK
    BY KindAssumption DEF RaceInv, RaceTypeOK, Work, AllGlobal, TakesGlobal
  <2>1. ASSUME work' = work, \A r \in Request : pc'[r] = "done" <=> pc[r] = "done"
        PROVE  UNCHANGED Calendar!calendarVars
    <3>1. Committed' = Committed BY <2>1 DEF Committed
    <3>2. R' = R /\ K' = K BY <2>1, <3>1 DEF Books
    <3> QED BY <3>2 DEF Calendar!calendarVars
  <2>2. ASSUME NEW r \in Request, Commit(r) PROVE Calendar!Next
    <3>1. /\ work' = work /\ pc[r] = "commit"
          /\ Committed' = Committed \cup {r} /\ r \notin Committed
      BY <2>0, <2>2 DEF Commit, Goto, RaceTypeOK, Committed
    <3>2. work[r].court \in Court /\ work[r].slot \in Slot BY <2>0 DEF RaceTypeOK, Work
    <3>3. CASE ~Books(r)
      <4>1. R' = R /\ K' = K \cup {[court |-> work[r].court, slot |-> work[r].slot]}
        BY <3>1, <3>3 DEF Books
      <4> QED BY <3>2, <4>1 DEF Calendar!Next, Calendar!Close
    <3>4. CASE Books(r)
      <4>1. /\ R' = {x \in R : x.id # r}
                       \cup {[id |-> r, court |-> work[r].court, slot |-> work[r].slot]}
            /\ K' = K
        BY <3>1, <3>4 DEF Books
      <4>2. Available(r) BY <2>0, <3>1, <3>4 DEF RaceInv, CheckHolds
      <4>3. \A o \in Committed : work[o].court = work[r].court /\ o # r => ~SameTime(r, o)
        BY <4>2 DEF Available, InTheWay, Committed
      <4>4. Calendar!Free(r, work[r].court, work[r].slot)
        BY <3>1, <4>3 DEF Calendar!Free, Calendar!Meets, SameTime, Overlaps
      <4>5. \E c \in Court, s \in Slot : Calendar!Reserve(r, c, s)
        <5> DEFINE c == work[r].court
                   s == work[r].slot
        <5>1. c \in Court /\ s \in Slot /\ Calendar!Free(r, c, s) BY <3>2, <4>4
        <5>2. R' = {x \in R : x.id # r} \cup {[id |-> r, court |-> c, slot |-> s]} /\ K' = K
          BY <4>1
        <5> HIDE DEF c, s
        <5> QED BY <5>1, <5>2 DEF Calendar!Reserve
      <4> QED BY <4>5 DEF Calendar!Next
    <3> QED BY <3>3, <3>4
  <2>3. ASSUME NEW r \in Request, Step(r), ~Commit(r) PROVE UNCHANGED Calendar!calendarVars
    <3>1. \A o \in Request : pc'[o] = "done" <=> pc[o] = "done"
      BY <2>0, <2>3, StepMoves
    <3> QED BY <2>0, <2>1, <2>3, <3>1, StepMoves
  <2>4. CASE AllEnded \/ UNCHANGED raceVars BY <2>1, <2>4 DEF AllEnded, raceVars
  <2> QED BY <2>2, <2>3, <2>4 DEF Next
<1> QED BY <1>1, RaceInvariant, PTL DEF Spec, SerialAsOne

-----------------------------------------------------------------------------
(* RateLimit: the windows of the clock.                                    *)

\* Later is not an earlier window.
LEMMA WindowsAdvance ==
    ASSUME NEW s \in Nat, NEW t \in Nat, s <= t
    PROVE  /\ WindowOf(s) \in Nat \ {0} /\ WindowOf(t) \in Nat \ {0}
           /\ WindowOf(s) <= WindowOf(t)
<1>1. Window \in Nat \ {0} BY RateAssumption
<1>2. s \div Window \in Nat /\ t \div Window \in Nat /\ s \div Window <= t \div Window
  BY <1>1
<1> QED BY <1>2 DEF WindowOf

-----------------------------------------------------------------------------
(* RateLimit: the inductive invariant.                                     *)

Types ==
    /\ backend \in {"local", "shared"}
    /\ now \in 0..MaxTime
    /\ request \in [Process -> RequestRow]
    /\ hits \in [Windows -> Nat]
    /\ inTime \in Nat /\ hasty \in BOOLEAN

\* No request is ahead of the clock, and no row is.
OnTime ==
    /\ \A p \in Process : request[p].window <= Current
    /\ \A v \in Windows : v > Current => hits[v] = 0

\* A row that was found for update is still what was found, and found once.
Locked ==
    /\ \A p \in Process : request[p].step = "count" /\ request[p].seen > 0 =>
          hits[request[p].window] = request[p].seen
    /\ \A p, q \in Process : p # q =>
          ~ /\ request[p].step = "count" /\ request[p].seen > 0
            /\ request[q].step = "count" /\ request[q].seen > 0
            /\ request[p].window = request[q].window

\* Whoever tries the current window a second time finds the row.
Retried ==
    \A p \in Process : request[p].tries > 0 /\ request[p].window = Current =>
        /\ hits[Current] > 0
        /\ request[p].step = "count" => request[p].seen > 0

Counted == inTime = hits[Current] /\ inTime <= Limit

Safe == Types /\ OnTime /\ Locked /\ Retried /\ Counted /\ ~hasty

\* There is a first window.
LEMMA FirstIsWindow == 1 \in Windows
<1>1. WindowOf(MaxTime) \in Nat \ {0} BY RateAssumption, WindowsAdvance
<1> QED BY <1>1 DEF Windows

\* The current window has a counter.
LEMMA CurrentIsWindow ==
    ASSUME Types
    PROVE  Current \in Windows /\ Current \in Nat \ {0}
<1>1. now \in Nat /\ MaxTime \in Nat /\ now <= MaxTime BY RateAssumption DEF Types
<1> QED BY <1>1, WindowsAdvance DEF Current, Windows

\* Counting keeps the invariant.
LEMMA CountIsSafe ==
    ASSUME Safe, NEW p \in Process, Count(p)
    PROVE  Safe'
<1> DEFINE v == request[p].window
<1>1. v \in Windows /\ v <= Current /\ Current \in Windows /\ Current \in Nat
  BY CurrentIsWindow DEF Safe, Types, OnTime, RequestRow
<1>2. request[p].seen \in Nat /\ request[p].tries \in {0, 1} /\ request[p].step = "count"
  BY DEF Safe, Types, RequestRow, TRIES, Count, At
<1>3. Limit \in Nat /\ Limit > 0 BY RateAssumption
<1>4. UNCHANGED <<now, backend>> /\ Current' = Current BY DEF Count, Current, WindowOf
<1>5. Idle \in RequestRow /\ Idle.step = "idle" /\ Idle.tries = 0 /\ Idle.window = 1
  BY FirstIsWindow DEF Idle, RequestRow, TRIES
<1>6. ASSUME NEW n \in Nat \ {0}, Admit(p, n), n = hits[v] + 1, n <= Limit,
             request[p].seen > 0 \/ hits[v] = 0
      PROVE  Safe'
  <2>1. /\ request' = [request EXCEPT ![p] = Idle]
        /\ hits' = [hits EXCEPT ![v] = n]
        /\ inTime' = (IF v = Current THEN inTime + 1 ELSE inTime)
        /\ hasty' = hasty
    BY <1>6 DEF Admit, Answer
  <2>2. Types' BY <1>1, <1>4, <1>5, <2>1 DEF Safe, Types
  <2>3. OnTime' BY <1>1, <1>4, <1>5, <2>1, CurrentIsWindow DEF Safe, Types, OnTime, Windows
  <2>4. \A q \in Process : q # p /\ request[q].step = "count" /\ request[q].seen > 0 =>
           request[q].window # v
    BY <1>2, <1>6 DEF Safe, Types, Locked, RequestRow
  <2>5. Locked' BY <1>1, <1>5, <2>1, <2>4 DEF Safe, Types, Locked
  <2>6. Retried' BY <1>1, <1>4, <1>5, <1>6, <2>1 DEF Safe, Types, Retried
  <2>7. Counted' BY <1>1, <1>3, <1>4, <1>6, <2>1 DEF Safe, Types, Counted
  <2> QED BY <2>1, <2>2, <2>3, <2>5, <2>6, <2>7 DEF Safe
<1>7. ASSUME Refuse(p), v = Current => hits[Current] >= Limit
      PROVE  Safe'
  <2>1. /\ request' = [request EXCEPT ![p] = Idle]
        /\ hits' = hits /\ inTime' = inTime
        /\ hasty' = (hasty \/ (v = Current /\ inTime < Limit))
    BY <1>7 DEF Refuse, Answer
  <2>2. hasty' = FALSE BY <1>1, <1>3, <1>7, <2>1 DEF Safe, Types, Counted
  <2>3. Types' BY <1>4, <1>5, <2>1, <2>2 DEF Safe, Types
  <2>4. OnTime' BY <1>1, <1>4, <1>5, <2>1, CurrentIsWindow DEF Safe, Types, OnTime
  <2>5. Locked' BY <1>5, <2>1 DEF Safe, Types, Locked
  <2>6. Retried' BY <1>4, <1>5, <2>1 DEF Safe, Types, Retried
  <2>7. Counted' BY <1>4, <2>1 DEF Safe, Counted
  <2> QED BY <2>2, <2>3, <2>4, <2>5, <2>6, <2>7 DEF Safe
<1>8. CASE request[p].seen \in 1..(Limit - 1) /\ Admit(p, request[p].seen + 1)
  BY <1>2, <1>3, <1>6, <1>8 DEF Safe, Locked
<1>9. CASE request[p].seen >= Limit /\ Refuse(p)
  BY <1>2, <1>3, <1>7, <1>9 DEF Safe, Locked
<1>10. CASE request[p].seen = 0 /\ Insert(p)
  <2>1. CASE hits[v] = 0 BY <1>3, <1>6, <1>10, <2>1 DEF Insert
  <2>2. CASE hits[v] # 0 /\ TriesLeft(p)
    <3>1. request[p].tries = 0 BY <1>2, <2>2 DEF TriesLeft, TRIES
    <3>2. /\ request' = [request EXCEPT ![p].step = "look", ![p].tries = request[p].tries + 1]
          /\ UNCHANGED <<hits, inTime, hasty>>
      BY <1>10, <2>2 DEF Insert
    <3>3. /\ request'[p] \in RequestRow /\ request'[p].step = "look" /\ request'[p].window = v
          /\ \A q \in Process \ {p} : request'[q] = request[q]
          /\ request' \in [Process -> RequestRow]
      BY <3>1, <3>2 DEF Safe, Types, RequestRow, TRIES
    <3>4. Types' BY <1>4, <3>2, <3>3 DEF Safe, Types
    <3>5. OnTime' BY <1>4, <3>2, <3>3 DEF Safe, OnTime
    <3>6. Locked' BY <3>2, <3>3 DEF Safe, Locked
    <3>7. hits[v] \in Nat BY <1>1 DEF Safe, Types
    <3>8. Retried' BY <1>4, <3>2, <3>3, <3>7, <2>2 DEF Safe, Retried
    <3> QED BY <1>4, <3>2, <3>4, <3>5, <3>6, <3>8 DEF Safe, Counted
  <2>3. CASE hits[v] # 0 /\ ~TriesLeft(p)
    <3>1. request[p].tries = 1 BY <1>2, <2>3 DEF TriesLeft, TRIES
    <3>2. v # Current BY <1>2, <1>10, <3>1 DEF Safe, Retried
    <3> QED BY <1>7, <1>10, <2>3, <3>2 DEF Insert
  <2> QED BY <2>1, <2>2, <2>3
<1> QED BY <1>8, <1>9, <1>10 DEF Count

\* The invariant holds of every reachable state, whatever the backend: the
\* local one leaves the counters alone.
LEMMA SafeAlways == RateSpec => []Safe
<1>1. RateInit => Safe
  <2> SUFFICES ASSUME RateInit PROVE Safe OBVIOUS
  <2>1. 0 \in 0..MaxTime /\ MaxTime \in Nat /\ Limit \in Nat BY RateAssumption
  <2>2. 1 \in Windows BY FirstIsWindow
  <2>3. Idle \in RequestRow BY <2>2 DEF Idle, RequestRow, TRIES
  <2>4. Types BY <2>1, <2>3 DEF RateInit, Types
  <2>5. Current \in Windows /\ Current \in Nat \ {0} BY <2>4, CurrentIsWindow
  <2> QED BY <2>1, <2>3, <2>4, <2>5
      DEF RateInit, Safe, OnTime, Locked, Retried, Counted, Idle
<1>2. Safe /\ [RateNext]_vars => Safe'
  <2> SUFFICES ASSUME Safe, [RateNext]_vars PROVE Safe' OBVIOUS
  <2>1. Current \in Windows /\ Current \in Nat \ {0} BY CurrentIsWindow DEF Safe
  <2>2. 1 \in Windows BY FirstIsWindow
  <2>3. Idle \in RequestRow /\ Idle.step = "idle" /\ Idle.tries = 0 /\ Idle.window = 1
    BY <2>2 DEF Idle, RequestRow, TRIES
  <2>4. ASSUME NEW p \in Process, NEW r \in RequestRow, r.step # "count", r.tries = 0,
               r.window <= Current, request' = [request EXCEPT ![p] = r],
               UNCHANGED <<backend, now, hits, inTime, hasty>>
        PROVE  Safe'
    <3>1. Current' = Current BY <2>4 DEF Current, WindowOf
    <3>2. Types' BY <2>4 DEF Safe, Types
    <3>3. OnTime' BY <2>4, <3>1 DEF Safe, Types, OnTime
    <3>4. Locked' BY <2>4 DEF Safe, Types, Locked
    <3>5. Retried' BY <2>4, <3>1 DEF Safe, Types, Retried
    <3> QED BY <2>4, <3>1, <3>2, <3>3, <3>4, <3>5 DEF Safe, Counted
  <2>5. ASSUME NEW p \in Process, Arrive(p) PROVE Safe'
    <3> DEFINE r == [step |-> IF Current <= cleaned[p] THEN "look" ELSE "clean", window |-> Current,
                   seen |-> 0, tries |-> 0]
    <3>1. r \in RequestRow /\ r.step # "count" /\ r.tries = 0 /\ r.window <= Current
      BY <2>1 DEF RequestRow, TRIES
    <3>2. /\ request' = [request EXCEPT ![p] = r]
          /\ UNCHANGED <<backend, now, hits, inTime, hasty>>
      BY <2>5 DEF Arrive
    <3> HIDE DEF r
    <3> QED BY <2>4, <3>1, <3>2
  <2>6. ASSUME NEW p \in Process, Restart(p) PROVE Safe'
    <3>1. /\ request' = [request EXCEPT ![p] = Idle]
          /\ UNCHANGED <<backend, now, hits, inTime, hasty>>
      BY <2>6 DEF Restart
    <3>2. Idle.step # "count" /\ Idle.window <= Current BY <2>1, <2>3
    <3> HIDE DEF Idle
    <3> QED BY <2>3, <2>4, <3>1, <3>2
  <2>7. ASSUME NEW p \in Process, Clean(p) PROVE Safe'
    <3> DEFINE w == request[p].window
    <3>1. /\ hits' = [v \in Windows |-> IF v < w THEN 0 ELSE hits[v]]
          /\ request' = [request EXCEPT ![p].step = "look"]
          /\ UNCHANGED <<backend, now, inTime, hasty>>
      BY <2>7 DEF Clean
    <3>2. Current' = Current BY <3>1 DEF Current, WindowOf
    <3>3. w \in Windows /\ w <= Current /\ w \in Nat
      BY DEF Safe, Types, OnTime, RequestRow, Windows
    <3>4. /\ request'[p] \in RequestRow /\ request'[p].step = "look"
          /\ request'[p].window = w /\ request'[p].tries = request[p].tries
          /\ \A q \in Process \ {p} : request'[q] = request[q]
          /\ request' \in [Process -> RequestRow]
      BY <3>1 DEF Safe, Types, RequestRow
    <3>5. hits' \in [Windows -> Nat] BY <3>1 DEF Safe, Types
    <3>6. Types' BY <3>1, <3>4, <3>5 DEF Safe, Types
    <3>7. hits'[Current] = hits[Current] BY <2>1, <3>1, <3>3
    <3>8. OnTime' BY <3>1, <3>2, <3>3, <3>4 DEF Safe, OnTime
    <3>9. \A q \in Process \ {p} : request[q].step = "count" /\ request[q].seen > 0 =>
             request[q].window \in Windows /\ ~(request[q].window < w)
      <4>1. SUFFICES ASSUME NEW q \in Process \ {p}, request[q].step = "count",
                            request[q].seen > 0, request[q].window < w
                     PROVE  FALSE
        BY DEF Safe, Types, RequestRow
      <4>2. request[q].window \in 1..(w - 1) BY <3>3, <4>1 DEF Safe, Types, RequestRow, Windows
      <4>3. Holds(q, request[q].window) BY <2>7, <4>1 DEF Clean, Holds, At
      <4> QED BY <2>7, <4>1, <4>2, <4>3 DEF Clean, Waits
    <3>10. Locked' BY <3>1, <3>4, <3>9 DEF Safe, Types, Locked
    <3>11. Retried' BY <2>7, <3>2, <3>4, <3>7 DEF Safe, Retried, Clean, At
    <3> QED BY <3>1, <3>2, <3>6, <3>7, <3>8, <3>10, <3>11 DEF Safe, Counted
  <2>8. ASSUME NEW p \in Process, Look(p) PROVE Safe'
    <3> DEFINE w == request[p].window
    <3>1. /\ request' = [request EXCEPT ![p].step = "count", ![p].seen = hits[w]]
          /\ UNCHANGED <<backend, now, hits, inTime, hasty>>
      BY <2>8 DEF Look
    <3>2. Current' = Current BY <3>1 DEF Current, WindowOf
    <3>3. w \in Windows /\ hits[w] \in Nat BY DEF Safe, Types, RequestRow
    <3>4. /\ request'[p] \in RequestRow /\ request'[p].step = "count"
          /\ request'[p].window = w /\ request'[p].tries = request[p].tries
          /\ request'[p].seen = hits[w]
          /\ \A q \in Process \ {p} : request'[q] = request[q]
          /\ request' \in [Process -> RequestRow]
      BY <3>1, <3>3 DEF Safe, Types, RequestRow
    <3>5. Types' BY <3>1, <3>4 DEF Safe, Types
    <3>6. OnTime' BY <3>1, <3>2, <3>4 DEF Safe, OnTime
    <3>7. \A q \in Process \ {p} :
             ~(request[q].step = "count" /\ request[q].seen > 0 /\ request[q].window = w)
      BY <2>8 DEF Look, Waits, Holds, At
    <3>8. Locked' BY <3>1, <3>4, <3>7 DEF Safe, Locked
    <3>9. Retried' BY <3>1, <3>2, <3>4 DEF Safe, Retried
    <3> QED BY <3>1, <3>2, <3>5, <3>6, <3>8, <3>9 DEF Safe, Counted
  <2>9. ASSUME NEW p \in Process, Count(p) PROVE Safe'
    BY <2>9, CountIsSafe DEF Count, At
  <2>10. ASSUME NEW p \in Process, AllowLocally(p) PROVE Safe'
    <3>1. UNCHANGED <<backend, now, request, hits, inTime, hasty>> BY <2>10 DEF AllowLocally
    <3> QED BY <3>1 DEF Safe, Types, OnTime, Locked, Retried, Counted, Current, WindowOf
  <2>11. ASSUME Tick PROVE Safe'
    <3>1. /\ now \in Nat /\ now < MaxTime /\ now' = now + 1
          /\ UNCHANGED <<backend, request, hits>>
          /\ IF WindowOf(now') = Current THEN UNCHANGED <<inTime, hasty>>
             ELSE inTime' = 0 /\ hasty' = FALSE
      BY <2>11 DEF Tick, Safe, Types
    <3>2. Current' = WindowOf(now') BY DEF Current
    <3>3. Current <= Current' /\ Current' \in Nat BY <3>1, <3>2, WindowsAdvance DEF Current
    <3>4. Types'
      <4>1. now' \in 0..MaxTime BY <3>1, RateAssumption
      <4>2. inTime \in Nat /\ hasty \in BOOLEAN BY DEF Safe, Types
      <4>3. inTime' \in {inTime, 0} /\ hasty' \in {hasty, FALSE} BY <3>1
      <4>4. inTime' \in Nat BY <4>2, <4>3
      <4>5. hasty' \in BOOLEAN BY <4>2, <4>3, Zenon
      <4>6. /\ backend' \in {"local", "shared"} /\ hits' \in [Windows -> Nat]
            /\ request' \in [Process -> RequestRow]
        BY <3>1 DEF Safe, Types
      <4> QED BY <4>1, <4>4, <4>5, <4>6 DEF Types
    <3>5. OnTime' BY <2>1, <3>1, <3>3 DEF Safe, Types, OnTime, RequestRow, Windows
    <3>6. Locked' BY <3>1 DEF Safe, Locked
    <3>7. CASE Current' = Current
      BY <3>1, <3>2, <3>4, <3>5, <3>6, <3>7 DEF Safe, Retried, Counted
    <3>8. CASE Current' # Current
      <4>1. Current < Current' BY <2>1, <3>3, <3>8
      <4>2. Current' \in Windows BY <3>4, <2>1, <3>1, <3>3, RateAssumption, WindowsAdvance
            DEF Current, Windows, Types
      <4>3. hits'[Current'] = 0 BY <3>1, <4>1, <4>2 DEF Safe, OnTime
      <4>4. Retried' BY <2>1, <3>1, <4>1 DEF Safe, Types, OnTime, Retried, RequestRow, Windows
      <4>5. Counted' BY <3>1, <3>2, <3>8, <4>3, RateAssumption DEF Counted
      <4> QED BY <3>1, <3>2, <3>4, <3>5, <3>6, <3>8, <4>4, <4>5 DEF Safe
    <3> QED BY <3>7, <3>8
  <2>12. CASE UNCHANGED vars
    BY <2>12 DEF vars, Safe, Types, OnTime, Locked, Retried, Counted, Current, WindowOf
  <2> QED BY <2>5, <2>6, <2>7, <2>8, <2>9, <2>10, <2>11, <2>12 DEF RateNext
<1> QED BY <1>1, <1>2, PTL DEF RateSpec

\* However many processes count, purge and restart, a window of the clock
\* admits no more requests than the limit.  (SharedDatabaseRateLimitBackend)
THEOREM WindowNeverExceeded == RateSpec => []WindowHeld
<1>1. Safe => WindowHeld BY DEF Safe, Counted, WindowHeld
<1> QED BY <1>1, SafeAlways, PTL

\* No request of the current window is refused before the limit is reached.
\* (SharedDatabaseRateLimitBackend.allow_request)
THEOREM RefusedOnlyAtLimit == RateSpec => []NoHastyRefusal
<1>1. Safe => NoHastyRefusal BY DEF Safe, NoHastyRefusal
<1> QED BY <1>1, SafeAlways, PTL

-----------------------------------------------------------------------------
(* RateLimit: the window that slides.                                      *)

\* A set of natural numbers has a least one.
LEMMA LeastNumber ==
    ASSUME NEW T \in SUBSET Nat, T # {}
    PROVE  \E n \in T : \A k \in T : n <= k
<1>1. IsWellFoundedOn(OpToRel(<, Nat), Nat) BY NatLessThanWellFounded
<1>2. PICK n \in T : \A k \in T : <<k, n>> \notin OpToRel(<, Nat) BY <1>1, WFMin
<1>3. \A k \in T : ~(k < n) BY <1>2 DEF OpToRel
<1>4. \A k \in T : n <= k BY <1>3
<1> QED BY <1>4

\* What a process remembers at instant t are the last of the requests it
\* admitted, those it forgot are older than the window, and so is each when as
\* many as the limit came after it.
Slides(all, last, t) ==
    /\ all \in Seq(Nat) /\ last \in Seq(Nat) /\ t \in Nat
    /\ Len(last) <= Len(all) /\ Len(last) <= Limit
    /\ \A i \in 1..Len(last) : last[i] = all[Len(all) - Len(last) + i]
    /\ \A i \in 1..Len(all) : all[i] <= t
    /\ \A i, j \in 1..Len(all) : i <= j => all[i] <= all[j]
    /\ \A i \in 1..(Len(all) - Len(last)) : all[i] + Window < t
    /\ \A i \in 1..Len(all) : i + Limit <= Len(all) => all[i] + Window < all[i + Limit]

LEMMA SlidesOn ==
    ASSUME NEW all, NEW last, NEW t, NEW u \in Nat, Slides(all, last, t), t <= u
    PROVE  Slides(all, last, u)
<1>1. Window \in Nat /\ t \in Nat BY RateAssumption DEF Slides
<1>2. \A i \in 1..Len(all) : all[i] \in Nat BY DEF Slides
<1>3. Len(all) \in Nat /\ Len(last) \in Nat BY DEF Slides
<1> QED BY <1>1, <1>2, <1>3 DEF Slides

\* Forgetting what is older than the window.
LEMMA SlidesForgetting ==
    ASSUME NEW all, NEW last, NEW t, Slides(all, last, t),
           NEW old \in 0..Len(last), \A i \in 1..old : last[i] + Window < t,
           NEW rest, rest = SubSeq(last, old + 1, Len(last))
    PROVE  Slides(all, rest, t) /\ Len(rest) = Len(last) - old
<1>1. Window \in Nat /\ t \in Nat BY RateAssumption DEF Slides
<1>2. /\ all \in Seq(Nat) /\ last \in Seq(Nat) /\ Len(all) \in Nat /\ Len(last) \in Nat
      /\ Len(last) <= Len(all) /\ Len(last) <= Limit /\ Limit \in Nat
  BY RateAssumption DEF Slides
<1>3. rest \in Seq(Nat) /\ Len(rest) = Len(last) - old
      /\ \A i \in 1..Len(rest) : rest[i] = last[old + i]
  <2>0. \A i \in 1..Len(last) : last[i] \in Nat BY <1>2
  <2>1. \A i \in (old + 1)..Len(last) : last[i] \in Nat BY <2>0, <1>2
  <2>2. old + 1 \in Int /\ Len(last) \in Int BY <1>2
  <2>3. /\ rest \in Seq(Nat)
        /\ Len(rest) = IF old + 1 <= Len(last) THEN Len(last) - (old + 1) + 1 ELSE 0
        /\ \A i \in 1..(Len(last) - (old + 1) + 1) : rest[i] = last[(old + 1) + i - 1]
    BY <2>1, <2>2, SubSeqProperties
  <2>4. Len(rest) = Len(last) - old BY <2>3, <1>2
  <2>5. \A i \in 1..Len(rest) : (old + 1) + i - 1 = old + i /\ i \in 1..(Len(last) - (old + 1) + 1)
    BY <2>4, <1>2
  <2> QED BY <2>3, <2>4, <2>5
<1>3a. Len(rest) \in Nat /\ Len(rest) = Len(last) - old /\ old \in Nat /\ old <= Len(last)
  BY <1>2, <1>3
<1>4. ASSUME NEW i \in 1..Len(rest) PROVE rest[i] = all[Len(all) - Len(rest) + i]
  <2>1. old + i \in 1..Len(last) /\ rest[i] = last[old + i] BY <1>2, <1>3
  <2>2. last[old + i] = all[Len(all) - Len(last) + (old + i)] BY <2>1 DEF Slides
  <2>3. Len(all) - Len(last) + (old + i) = Len(all) - Len(rest) + i
    <3>1. i \in Nat BY <1>3a
    <3> QED BY ONLY <3>1, <1>2, <1>3a
  <2> QED BY <2>1, <2>2, <2>3
<1>5. ASSUME NEW i \in 1..(Len(all) - Len(rest)) PROVE all[i] + Window < t
  <2>1. CASE i <= Len(all) - Len(last) BY <2>1, <1>2 DEF Slides
  <2>2. CASE i > Len(all) - Len(last)
    <3> DEFINE j == i - (Len(all) - Len(last))
    <3>1. j \in 1..old /\ j \in 1..Len(last) /\ Len(all) - Len(last) + j = i
      <4>1. i \in Nat /\ i <= Len(all) - Len(rest) BY <1>2, <1>3a
      <4> QED BY ONLY <4>1, <2>2, <1>2, <1>3a
    <3>2. last[j] = all[Len(all) - Len(last) + j] BY <3>1 DEF Slides
    <3> QED BY <3>1, <3>2
  <2> QED BY <2>1, <2>2, <1>2
<1>6. Len(rest) <= Len(all) /\ Len(rest) <= Limit BY <1>2, <1>3
<1> QED BY <1>1, <1>2, <1>3, <1>4, <1>5, <1>6 DEF Slides

\* Admitting one more, while there is room.
LEMMA SlidesAdmitting ==
    ASSUME NEW all, NEW last, NEW t, Slides(all, last, t), Len(last) < Limit,
           NEW more, more = Append(all, t), NEW latest, latest = Append(last, t)
    PROVE  Slides(more, latest, t)
<1>1. Window \in Nat /\ t \in Nat /\ Limit \in Nat \ {0} BY RateAssumption DEF Slides
<1>2. /\ all \in Seq(Nat) /\ last \in Seq(Nat) /\ Len(all) \in Nat /\ Len(last) \in Nat
      /\ Len(last) <= Len(all)
  BY DEF Slides
<1>3. /\ more \in Seq(Nat) /\ Len(more) = Len(all) + 1 /\ more[Len(all) + 1] = t
      /\ \A i \in 1..Len(all) : more[i] = all[i]
  BY <1>1, <1>2
<1>4. /\ latest \in Seq(Nat) /\ Len(latest) = Len(last) + 1 /\ latest[Len(last) + 1] = t
      /\ \A i \in 1..Len(last) : latest[i] = last[i]
  BY <1>1, <1>2
<1>5. ASSUME NEW i \in 1..Len(latest) PROVE latest[i] = more[Len(more) - Len(latest) + i]
  <2>0. i \in Nat /\ i <= Len(last) + 1 /\ i >= 1 BY <1>2, <1>4
  <2>1. Len(more) - Len(latest) + i = Len(all) - Len(last) + i BY ONLY <2>0, <1>2, <1>3, <1>4
  <2>2. CASE i \in 1..Len(last)
    <3>1. Len(all) - Len(last) + i \in 1..Len(all) BY <2>2, <1>2
    <3> QED BY <2>1, <2>2, <3>1, <1>3, <1>4 DEF Slides
  <2>3. CASE i = Len(last) + 1 BY <2>1, <2>3, <1>2, <1>3, <1>4
  <2>4. i \in 1..Len(last) \/ i = Len(last) + 1 BY ONLY <2>0, <1>2
  <2> QED BY <2>2, <2>3, <2>4
<1>6. \A i \in 1..Len(more) : more[i] <= t /\ more[i] \in Nat
  <2>1. ASSUME NEW i \in 1..Len(more) PROVE more[i] <= t /\ more[i] \in Nat
    <3>1. CASE i \in 1..Len(all) BY <3>1, <1>2, <1>3 DEF Slides
    <3>2. CASE i = Len(all) + 1 BY <3>2, <1>1, <1>3
    <3> QED BY <3>1, <3>2, <1>2, <1>3
  <2> QED BY <2>1
<1>7. ASSUME NEW i \in 1..Len(more), NEW j \in 1..Len(more), i <= j PROVE more[i] <= more[j]
  <2>1. CASE j \in 1..Len(all)
    <3>1. i \in 1..Len(all) BY <1>7, <2>1, <1>2
    <3> QED BY <1>7, <2>1, <3>1, <1>3 DEF Slides
  <2>2. CASE j = Len(all) + 1 BY <2>2, <1>3, <1>6
  <2> QED BY <2>1, <2>2, <1>2, <1>3
<1>8. ASSUME NEW i \in 1..(Len(more) - Len(latest)) PROVE more[i] + Window < t
  <2>1. i \in 1..(Len(all) - Len(last)) /\ i \in 1..Len(all) BY <1>2, <1>3, <1>4
  <2>2. all[i] + Window < t BY <2>1 DEF Slides
  <2> QED BY <2>1, <2>2, <1>3
<1>9. ASSUME NEW i \in 1..Len(more), i + Limit <= Len(more)
      PROVE  more[i] + Window < more[i + Limit]
  <2>1. i \in 1..Len(all) BY <1>9, <1>1, <1>2, <1>3
  <2>2. CASE i + Limit <= Len(all)
    <3>1. i + Limit \in 1..Len(all) BY <2>1, <2>2, <1>1, <1>2
    <3> QED BY <2>1, <2>2, <3>1, <1>3 DEF Slides
  <2>3. CASE i + Limit = Len(all) + 1
    <3>1. i \in 1..(Len(all) - Len(last)) BY <2>1, <2>3, <1>1, <1>2
    <3>2. all[i] + Window < t BY <3>1 DEF Slides
    <3> QED BY <3>2, <2>1, <2>3, <1>3
  <2>4. i \in Nat /\ i + Limit <= Len(all) + 1 BY <2>1, <1>9, <1>2, <1>3
  <2>5. i + Limit <= Len(all) \/ i + Limit = Len(all) + 1 BY ONLY <2>4, <1>1, <1>2
  <2> QED BY <2>2, <2>3, <2>5
<1>10. Len(latest) <= Len(more) /\ Len(latest) <= Limit BY <1>1, <1>2, <1>3, <1>4
<1>11. \A i \in 1..Len(more) : more[i] <= t BY <1>6
<1> QED BY <1>1, <1>3, <1>4, <1>5, <1>7, <1>8, <1>9, <1>10, <1>11 DEF Slides

\* No stretch as long as the window holds more of them than the limit: they
\* all lie fewer than Limit places after the first.
LEMMA SlidesLimits ==
    ASSUME NEW all, NEW last, NEW t, Slides(all, last, t), NEW s \in Nat
    PROVE  Cardinality({i \in DOMAIN all : all[i] \in s..(s + Window)}) <= Limit
<1> DEFINE within == {i \in DOMAIN all : all[i] \in s..(s + Window)}
<1>1. Window \in Nat /\ Limit \in Nat \ {0} BY RateAssumption
<1>2. all \in Seq(Nat) /\ Len(all) \in Nat /\ DOMAIN all = 1..Len(all) BY DEF Slides
<1>3. \A i \in 1..Len(all) : all[i] \in Nat BY <1>2
<1>4. within \in SUBSET Nat /\ \A i \in within : i \in 1..Len(all) /\ s <= all[i] /\ all[i] <= s + Window
  BY <1>1, <1>2, <1>3
<1>5. CASE within = {}
  <2>1. Cardinality(within) = 0 BY <1>5, FS_EmptySet
  <2> QED BY <2>1, <1>1
<1>6. CASE within # {}
  <2> HIDE DEF within
  <2>1. PICK m \in within : \A k \in within : m <= k BY <1>4, <1>6, LeastNumber
  <2>2. m \in 1..Len(all) /\ s <= all[m] /\ m \in Nat /\ m >= 1 BY <1>4
  <2>3. ASSUME NEW k \in within PROVE k \in m..(m + Limit - 1)
    <3>1. k \in Nat /\ k \in 1..Len(all) /\ m <= k /\ all[k] <= s + Window BY <1>4, <2>1
    <3> SUFFICES ASSUME m + Limit <= k PROVE FALSE BY <3>1, <2>2, <1>1
    <3>2. m + Limit \in 1..Len(all) /\ m + Limit <= Len(all) BY <3>1, <2>2, <1>1, <1>2
    <3>3. all[m] + Window < all[m + Limit] BY <2>2, <3>2 DEF Slides
    <3>4. all[m + Limit] <= all[k] BY <3>1, <3>2 DEF Slides
    <3>5. all[m] \in Nat /\ all[k] \in Nat /\ all[m + Limit] \in Nat BY <3>1, <3>2, <2>2, <1>3
    <3> QED BY ONLY <3>1, <3>3, <3>4, <3>5, <2>2, <1>1
  <2>4. m \in Int /\ m + Limit - 1 \in Int BY <2>2, <1>1
  <2>5. IsFiniteSet(m..(m + Limit - 1)) /\ Cardinality(m..(m + Limit - 1)) = Limit
    <3>1. /\ IsFiniteSet(m..(m + Limit - 1))
          /\ Cardinality(m..(m + Limit - 1))
                = IF m > m + Limit - 1 THEN 0 ELSE (m + Limit - 1) - m + 1
      BY <2>4, FS_Interval
    <3>2. ~(m > m + Limit - 1) /\ (m + Limit - 1) - m + 1 = Limit BY <2>2, <1>1
    <3> QED BY <3>1, <3>2
  <2>6. within \in SUBSET (m..(m + Limit - 1)) BY <2>3
  <2>7. Cardinality(within) <= Limit
    <3> DEFINE stretch == m..(m + Limit - 1)
    <3>1. IsFiniteSet(stretch) /\ within \in SUBSET stretch /\ Cardinality(stretch) = Limit BY <2>5, <2>6
    <3> HIDE DEF stretch
    <3>2. Cardinality(within) <= Cardinality(stretch) BY <3>1, FS_Subset
    <3> QED BY <3>1, <3>2
  <2> QED BY <2>7 DEF within
<1> QED BY <1>5, <1>6

\* What every process remembers.
Remembered ==
    /\ now \in Nat
    /\ bucket \in [Process -> Seq(Nat)] /\ admitted \in [Process -> Seq(Nat)]
    /\ \A p \in Process : Slides(admitted[p], bucket[p], now)

LEMMA RememberedStep == Remembered /\ [RateNext]_vars => Remembered'
<1> SUFFICES ASSUME Remembered, [RateNext]_vars PROVE Remembered' OBVIOUS
<1>1. ASSUME NEW p \in Process, AllowLocally(p) PROVE Remembered'
  <2> DEFINE all == admitted[p]
             last == bucket[p]
  <2>1. now' = now BY <1>1 DEF AllowLocally
  <2>2. PICK old \in 0..Len(last) :
            LET rest == SubSeq(last, old + 1, Len(last)) IN
            /\ \A i \in 1..old : ~Recent(last[i])
            /\ IF Len(rest) >= Limit
               THEN bucket' = [bucket EXCEPT ![p] = rest] /\ UNCHANGED admitted
               ELSE /\ bucket' = [bucket EXCEPT ![p] = Append(rest, now)]
                    /\ admitted' = [admitted EXCEPT ![p] = Append(all, now)]
    BY <1>1 DEF AllowLocally, Remembered
  <2>3. PICK rest : rest = SubSeq(last, old + 1, Len(last)) OBVIOUS
  <2>4. Slides(all, last, now) /\ now \in Nat /\ Window \in Nat BY RateAssumption DEF Remembered
  <2>5. \A i \in 1..old : last[i] + Window < now
    <3>1. \A i \in 1..Len(last) : last[i] \in Nat BY <2>4 DEF Slides
    <3>2. Len(last) \in Nat BY <2>4 DEF Slides
    <3>3. \A i \in 1..old : i \in 1..Len(last) BY <3>2
    <3> QED BY <2>2, <2>4, <3>1, <3>3 DEF Recent
  <2>6. Slides(all, rest, now)
    <3> HIDE DEF all, last
    <3> QED BY <2>3, <2>4, <2>5, SlidesForgetting
  <2>7. rest \in Seq(Nat) /\ all \in Seq(Nat) /\ Len(rest) \in Nat /\ Limit \in Nat
    BY <2>6, RateAssumption DEF Slides
  <2>8. CASE Len(rest) >= Limit
    <3>1. bucket' = [bucket EXCEPT ![p] = rest] /\ admitted' = admitted BY <2>2, <2>3, <2>8
    <3> QED BY <3>1, <2>1, <2>6, <2>7 DEF Remembered
  <2>9. CASE Len(rest) < Limit
    <3>1. PICK more : more = Append(all, now) OBVIOUS
    <3>2. PICK latest : latest = Append(rest, now) OBVIOUS
    <3>3. bucket' = [bucket EXCEPT ![p] = latest] /\ admitted' = [admitted EXCEPT ![p] = more]
      BY <2>2, <2>3, <2>7, <2>9, <3>1, <3>2
    <3>4. Slides(more, latest, now)
      <4> HIDE DEF all, last
      <4> QED BY <2>6, <2>9, <3>1, <3>2, SlidesAdmitting
    <3>5. more \in Seq(Nat) /\ latest \in Seq(Nat) BY <3>4 DEF Slides
    <3> QED BY <3>3, <3>4, <3>5, <2>1 DEF Remembered
  <2> QED BY <2>7, <2>8, <2>9
<1>2. ASSUME NEW p \in Process, Restart(p) PROVE Remembered'
  <2>1. Slides(<<>>, <<>>, now) BY RateAssumption DEF Slides, Remembered
  <2>2. /\ bucket' = [bucket EXCEPT ![p] = <<>>] /\ admitted' = [admitted EXCEPT ![p] = <<>>]
        /\ now' = now
    BY <1>2 DEF Restart
  <2>3. <<>> \in Seq(Nat) OBVIOUS
  <2> QED BY <2>1, <2>2, <2>3 DEF Remembered
<1>3. ASSUME Tick PROVE Remembered'
  <2>1. now' \in Nat /\ now <= now' /\ bucket' = bucket /\ admitted' = admitted
    BY <1>3 DEF Tick, Remembered
  <2>2. PICK u \in Nat : u = now' BY <2>1
  <2>3. \A p \in Process : Slides(admitted[p], bucket[p], u)
    BY <2>1, <2>2, SlidesOn DEF Remembered
  <2> QED BY <2>1, <2>2, <2>3 DEF Remembered
<1>4. ASSUME UNCHANGED <<now, bucket, admitted>> PROVE Remembered'
  BY <1>4 DEF Remembered
<1> QED BY <1>1, <1>2, <1>3, <1>4
    DEF RateNext, vars, Arrive, Clean, Look, Count, Insert, Admit, Refuse

LEMMA RememberedAtFirst == RateInit => Remembered
<1> SUFFICES ASSUME RateInit PROVE Remembered OBVIOUS
<1>1. <<>> \in Seq(Nat) /\ 0 \in Nat OBVIOUS
<1>2. Slides(<<>>, <<>>, 0) BY RateAssumption DEF Slides
<1> QED BY <1>1, <1>2 DEF RateInit, Remembered

\* In no stretch of time as long as the window does a process admit more than
\* the limit, whatever came in, for as long as it runs on.
\* (LocalMemoryRateLimitBackend.allow_request)
THEOREM NoBurstSlipsThrough == RateSpec => []SlidingWindowHeld
<1>1. Remembered => SlidingWindowHeld
  <2>1. \A t \in 0..MaxTime : t \in Nat BY RateAssumption
  <2> QED BY <2>1, SlidesLimits DEF Remembered, SlidingWindowHeld
<1> QED BY <1>1, RememberedAtFirst, RememberedStep, PTL DEF RateSpec

\* Every row and every log has its type.
THEOREM RateTypes == RateSpec => []RateTypeOK
<1> DEFINE CleanedTyped == cleaned \in [Process -> Nat]
<1>1. RateInit => CleanedTyped BY DEF RateInit
<1>2. Safe /\ CleanedTyped /\ [RateNext]_vars => CleanedTyped'
  <2> SUFFICES ASSUME Safe, CleanedTyped, [RateNext]_vars PROVE CleanedTyped' OBVIOUS
  <2>1. ASSUME NEW p \in Process, Clean(p) PROVE CleanedTyped'
    <3>1. request[p].window \in Nat BY DEF Safe, Types, RequestRow, Windows
    <3> QED BY <2>1, <3>1 DEF Clean
  <2>2. ASSUME NEW p \in Process, Restart(p) PROVE CleanedTyped' BY <2>2 DEF Restart
  <2>3. CASE UNCHANGED cleaned BY <2>3
  <2> QED BY <2>1, <2>2, <2>3
      DEF RateNext, vars, Arrive, Look, Count, Insert, Admit, Refuse, AllowLocally, Tick
<1>3. Safe /\ CleanedTyped /\ Remembered => RateTypeOK
  BY DEF Safe, Types, Remembered, RateTypeOK
<1> HIDE DEF CleanedTyped
<1> QED BY <1>1, <1>2, <1>3, SafeAlways, RememberedAtFirst, RememberedStep, PTL DEF RateSpec

=============================================================================

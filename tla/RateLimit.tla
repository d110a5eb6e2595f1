------------------------------ MODULE RateLimit ------------------------------
(***************************************************************************)
(* The rate limit of the public and sign-in paths, for one key (an         *)
(* address, a tenant and a path): keys do not share anything.              *)
(*                                                                         *)
(* The local backend keeps the times of the last requests of a process, a  *)
(* window that slides.  The shared one keeps a row per window of the clock *)
(* in the database, which all processes count in and each of them purges   *)
(* once a window.  allow_request runs on the event loop, so that a process *)
(* decides about one request at a time.                                    *)
(***************************************************************************)
EXTENDS Naturals, FiniteSets, Sequences

CONSTANTS
    Process,
    Limit,      \* settings.rate_limit_per_minute
    Window,     \* RATE_WINDOW_SECONDS, in the ticks of the clock
    MaxTime     \* bound on the clock

ASSUME RateAssumption ==
    /\ Limit \in Nat \ {0} /\ Window \in Nat \ {0} /\ MaxTime \in Nat

VARIABLES
    backend,    \* settings.rate_limit_backend
    now,
    request,    \* what each process is deciding
    hits,       \* rate_limit_counters: window -> hits; 0 is no row
    cleaned,    \* _last_cleanup_window_started_at of each process; 0 is never
    bucket,     \* LOCAL_REQUEST_LOG of each process
    inTime,     \* history: requests admitted in this window, while it lasts
    hasty,      \* history: one of this window was refused before the limit
    admitted    \* history: when the local backend admitted a request

vars == <<backend, now, request, hits, cleaned, bucket, inTime, hasty, admitted>>

TRIES == 2

\* _window_started_at; windows are numbered from 1.
WindowOf(t) == (t \div Window) + 1
Windows == 1..WindowOf(MaxTime)
Current == WindowOf(now)

Idle == [step |-> "idle", window |-> 1, seen |-> 0, tries |-> 0]

RateInit ==
    /\ backend \in {"local", "shared"}
    /\ now = 0
    /\ request = [p \in Process |-> Idle]
    /\ hits = [v \in Windows |-> 0]
    /\ cleaned = [p \in Process |-> 0]
    /\ bucket = [p \in Process |-> <<>>]
    /\ inTime = 0 /\ hasty = FALSE
    /\ admitted = [p \in Process |-> <<>>]

At(p, step) == backend = "shared" /\ request[p].step = step

\* SELECT ... FOR UPDATE holds the row it has found.
Holds(q, v) == At(q, "count") /\ request[q].seen > 0 /\ request[q].window = v

\* Mutant of Waits: the row is read without a lock.
WaitsNever(p, v) == FALSE

Waits(p, v) == \E q \in Process \ {p} : Holds(q, v)

-----------------------------------------------------------------------------
\* SharedDatabaseRateLimitBackend.allow_request

Arrive(p) ==
    /\ At(p, "idle")
    /\ request' = [request EXCEPT ![p] =
          [step |-> IF Current <= cleaned[p] THEN "look" ELSE "clean", window |-> Current,
           seen |-> 0, tries |-> 0]]
    /\ UNCHANGED <<backend, now, hits, cleaned, bucket, inTime, hasty, admitted>>

\* _cleanup_expired_counters
Clean(p) ==
    /\ At(p, "clean")
    /\ \A v \in 1..(request[p].window - 1) : ~Waits(p, v)
    /\ hits' = [v \in Windows |-> IF v < request[p].window THEN 0 ELSE hits[v]]
    /\ cleaned' = [cleaned EXCEPT ![p] = request[p].window]
    /\ request' = [request EXCEPT ![p].step = "look"]
    /\ UNCHANGED <<backend, now, bucket, inTime, hasty, admitted>>

Look(p) ==
    /\ At(p, "look") /\ ~Waits(p, request[p].window)
    /\ request' = [request EXCEPT ![p].step = "count", ![p].seen = hits[request[p].window]]
    /\ UNCHANGED <<backend, now, hits, cleaned, bucket, inTime, hasty, admitted>>

Answer(p) == request' = [request EXCEPT ![p] = Idle]

Admit(p, n) ==
    /\ Answer(p)
    /\ hits' = [hits EXCEPT ![request[p].window] = n]
    /\ inTime' = IF request[p].window = Current THEN inTime + 1 ELSE inTime
    /\ UNCHANGED hasty

Refuse(p) ==
    /\ Answer(p)
    /\ hasty' = (hasty \/ (request[p].window = Current /\ inTime < Limit))
    /\ UNCHANGED <<hits, inTime>>

\* Mutant of TriesLeft: the first clash refuses the request.
TriesLeftOne(p) == FALSE

TriesLeft(p) == request[p].tries + 1 < TRIES

\* The first request of the window inserts its row; a second one fails on the
\* unique key and looks again.
Insert(p) ==
    IF hits[request[p].window] = 0 THEN Admit(p, 1)
    ELSE IF TriesLeft(p)
    THEN /\ request' = [request EXCEPT ![p].step = "look", ![p].tries = @ + 1]
         /\ UNCHANGED <<hits, inTime, hasty>>
    ELSE Refuse(p)

Count(p) ==
    /\ At(p, "count")
    /\ \/ request[p].seen = 0 /\ Insert(p)
       \/ request[p].seen >= Limit /\ Refuse(p)
       \/ request[p].seen \in 1..(Limit - 1) /\ Admit(p, request[p].seen + 1)
    /\ UNCHANGED <<backend, now, cleaned, bucket, admitted>>

-----------------------------------------------------------------------------
\* LocalMemoryRateLimitBackend.allow_request

\* Mutant of Recent: a request leaves the window when it is as old as it.
RecentOpen(t) == t + Window > now

Recent(t) == t + Window >= now

\* The times at the front that are not recent are popped.
AllowLocally(p) ==
    /\ backend = "local"
    /\ \E old \in 0..Len(bucket[p]) :
          LET rest == SubSeq(bucket[p], old + 1, Len(bucket[p])) IN
          /\ \A i \in 1..old : ~Recent(bucket[p][i])
          /\ rest # <<>> => Recent(Head(rest))
          /\ IF Len(rest) >= Limit
             THEN bucket' = [bucket EXCEPT ![p] = rest] /\ UNCHANGED admitted
             ELSE /\ bucket' = [bucket EXCEPT ![p] = Append(rest, now)]
                  /\ admitted' = [admitted EXCEPT ![p] = Append(@, now)]
    /\ UNCHANGED <<backend, now, request, hits, cleaned, inTime, hasty>>

-----------------------------------------------------------------------------
Tick ==
    /\ now < MaxTime /\ now' = now + 1
    /\ IF WindowOf(now') = Current THEN UNCHANGED <<inTime, hasty>>
       ELSE inTime' = 0 /\ hasty' = FALSE
    /\ UNCHANGED <<backend, request, hits, cleaned, bucket, admitted>>

\* A process starts anew: its memory and its transaction are gone.
Restart(p) ==
    /\ request' = [request EXCEPT ![p] = Idle]
    /\ cleaned' = [cleaned EXCEPT ![p] = 0]
    /\ bucket' = [bucket EXCEPT ![p] = <<>>]
    /\ admitted' = [admitted EXCEPT ![p] = <<>>]
    /\ UNCHANGED <<backend, now, hits, inTime, hasty>>

RateNext ==
    \/ \E p \in Process :
          Arrive(p) \/ Clean(p) \/ Look(p) \/ Count(p) \/ AllowLocally(p) \/ Restart(p)
    \/ Tick

RateSpec == RateInit /\ [][RateNext]_vars
-----------------------------------------------------------------------------
RequestRow ==
    [step: {"idle", "clean", "look", "count"}, window: Windows, seen: Nat, tries: 0..(TRIES - 1)]

RateTypeOK ==
    /\ backend \in {"local", "shared"}
    /\ now \in 0..MaxTime
    /\ request \in [Process -> RequestRow]
    /\ hits \in [Windows -> Nat]
    /\ cleaned \in [Process -> Nat]
    /\ bucket \in [Process -> Seq(Nat)]
    /\ inTime \in Nat
    /\ hasty \in BOOLEAN
    /\ admitted \in [Process -> Seq(Nat)]

\* However many processes count, purge and restart, no more requests than the
\* limit are admitted during a window of the clock.
\* (SharedDatabaseRateLimitBackend)
WindowHeld == inTime <= Limit

\* No request of the current window is refused before the limit is reached:
\* one clash of the first requests is made up for by the second try, and only
\* a request left over from an old window could meet two.
\* (SharedDatabaseRateLimitBackend.allow_request)
NoHastyRefusal == ~hasty

\* In no stretch of time as long as the window, its ends included, does a
\* process admit more than the limit.  (LocalMemoryRateLimitBackend)
SlidingWindowHeld ==
    \A p \in Process, t \in 0..MaxTime :
        Cardinality({i \in DOMAIN admitted[p] : admitted[p][i] \in t..(t + Window)}) <= Limit
=============================================================================

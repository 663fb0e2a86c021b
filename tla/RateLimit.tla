----------------------------- MODULE RateLimit -----------------------------
(***************************************************************************)
(* The rate limiter of the sensitive endpoints (app/core/rate_limit.py)    *)
(* for one key (client IP, user scope, path); keys do not interact.  Redis *)
(* counts requests in a fixed window that the first of them opens; when    *)
(* the call raises, a sliding window in the memory of the worker decides.  *)
(*                                                                         *)
(* A request may be counted by Redis and still fall back, when the answer  *)
(* is lost.  Both stores are volatile: each may be restarted, empty.       *)
(***************************************************************************)
EXTENDS Integers, FiniteSets

CONSTANTS
    Request,        \* the requests that share the key
    Limit,          \* RATE_LIMIT_REQUESTS
    Window,         \* RATE_LIMIT_WINDOW_SECONDS
    MaxTime,        \* bound: the clock stops here
    MaxRestarts     \* bound on the restarts of Redis and of the worker

ASSUME RequestAssumption == IsFiniteSet(Request)
ASSUME LimitAssumption ==
    /\ {MaxTime, MaxRestarts} \subseteq Nat
    /\ {Limit, Window} \subseteq Nat \ {0}

VARIABLES
    now,            \* the clock
    hits,           \* the counter of the key in Redis ...
    deadline,       \* ... and the instant the key expires
    deque,          \* the requests whose times the worker keeps
    req,            \* the progress of each request
    counted,        \* history: the requests this incarnation of the key counted
    mine,           \* history: the requests this worker admitted by itself
    restarts        \* history: how often a store was emptied

vars == <<now, hits, deadline, deque, req, counted, mine, restarts>>

----------------------------------------------------------------------------
(* State *)

RequestState == [pc : {"new", "fallback", "allowed", "refused"},
                 by : {"nobody", "redis", "worker"},    \* who decided
                 hit : Nat,                             \* time of the EVAL
                 at : Nat]                              \* time of the decision

TypeOK ==
    /\ now \in Nat /\ hits \in Nat /\ deadline \in Nat /\ restarts \in Nat
    /\ deque \subseteq Request
    /\ counted \subseteq Request
    /\ mine \subseteq Request
    /\ req \in [Request -> RequestState]

Init ==
    /\ now = 0 /\ hits = 0 /\ deadline = 0 /\ restarts = 0
    /\ deque = {} /\ counted = {} /\ mine = {}
    /\ req = [r \in Request |->
                [pc |-> "new", by |-> "nobody", hit |-> 0, at |-> 0]]

Alive == now < deadline

----------------------------------------------------------------------------
(* require_rate_limit *)

\* INCR, which creates an expired key anew, and EXPIRE at the first hit.
Incremented == IF Alive THEN hits + 1 ELSE 1

\* Mutant: EXPIRE at every hit.
ExpiryEach == now + Window
Expiry == IF Alive THEN deadline ELSE now + Window

Script(r) ==
    /\ hits' = Incremented
    /\ deadline' = Expiry
    /\ counted' = (IF Alive THEN counted ELSE {}) \cup {r}

\* The scope of the key has been resolved; the script runs in Redis and its
\* result arrives.
\* Mutant: off by one in the caller's comparison.
WithinOff(n) == n <= Limit + 1
Within(n) == n <= Limit

Count(r) ==
    /\ req[r].pc = "new"
    /\ Script(r)
    /\ req' = [req EXCEPT ![r] =
                 [pc |-> IF Within(Incremented) THEN "allowed" ELSE "refused",
                  by |-> "redis", hit |-> now, at |-> now]]
    /\ UNCHANGED <<now, deque, mine, restarts>>

\* The script runs, and the connection fails before its result arrives.
CountLost(r) ==
    /\ req[r].pc = "new"
    /\ Script(r)
    /\ req' = [req EXCEPT ![r].pc = "fallback", ![r].hit = now]
    /\ UNCHANGED <<now, deque, mine, restarts>>

\* The script does not run.
Unreachable(r) ==
    /\ req[r].pc = "new"
    /\ req' = [req EXCEPT ![r].pc = "fallback"]
    /\ UNCHANGED <<now, hits, deadline, deque, counted, mine, restarts>>

\* _allow_local_request, which no await interrupts.  The deque is sorted, so
\* that dropping old times from its left leaves the recent ones.
\* Mutant: the cutoff is the present instant.
RecentNow == {q \in deque : req[q].at >= now}
Recent == {q \in deque : req[q].at > now - Window}

Kept(r) == IF Cardinality(Recent) >= Limit THEN Recent ELSE Recent \cup {r}

AllowLocal(r) ==
    LET allowed == Cardinality(Recent) < Limit IN
    /\ req[r].pc = "fallback"
    /\ deque' = Kept(r)
    /\ mine' = IF allowed THEN mine \cup {r} ELSE mine
    /\ req' = [req EXCEPT ![r].pc = IF allowed THEN "allowed" ELSE "refused",
                          ![r].by = "worker", ![r].at = now]
    /\ UNCHANGED <<now, hits, deadline, counted, restarts>>

----------------------------------------------------------------------------
(* Environment *)

RedisRestart ==
    /\ restarts < MaxRestarts
    /\ hits' = 0 /\ deadline' = 0 /\ counted' = {}
    /\ restarts' = restarts + 1
    /\ UNCHANGED <<now, deque, req, mine>>

WorkerRestart ==
    /\ restarts < MaxRestarts
    /\ deque' = {} /\ mine' = {}
    /\ restarts' = restarts + 1
    /\ UNCHANGED <<now, hits, deadline, req, counted>>

Tick ==
    /\ now < MaxTime
    /\ now' = now + 1
    /\ UNCHANGED <<hits, deadline, deque, req, counted, mine, restarts>>

Next ==
    \/ \E r \in Request : \/ Count(r) \/ CountLost(r) \/ Unreachable(r)
                          \/ AllowLocal(r)
    \/ RedisRestart \/ WorkerRestart \/ Tick

Spec == Init /\ [][Next]_vars

----------------------------------------------------------------------------
(* Safety *)

\* The requests of S decided in the window that ends at time t.
Decided(S, t) == {r \in S : req[r].at > t - Window /\ req[r].at <= t}

\* The fallback is a sliding window: whatever Redis does, one worker admits
\* at most Limit requests in any stretch of Window seconds
\* (rate_limit.py:108-120, "a memory-backed sliding window").
LocalQuota ==
    \A t \in 0..now : Cardinality(Decided(mine, t)) <= Limit

\* A client that alternates between the two stores gains a bounded amount: a
\* fixed window and its successor in Redis and one sliding window in the
\* worker, less the request that opened the first one, and at most Limit
\* more for each time a store was emptied.
Admitted == {r \in Request : req[r].pc = "allowed"}
OverallQuota ==
    \A t \in 0..now :
        Cardinality(Decided(Admitted, t)) <= (3 + restarts) * Limit - 1

\* Refusals feed no refusal: a request is turned away only if Limit others,
\* none of them turned away by the same store, came within the last Window
\* seconds.  However hard a client keeps trying, it is let in again as soon
\* as those have aged (redis_client.py:95-115, rate_limit.py:113-120).
Spent == {q \in counted : /\ req[q].hit > now - Window
                          /\ ~(req[q].pc = "refused" /\ req[q].by = "redis")}
Refuses(r) == req[r].pc # "refused" /\ req'[r].pc = "refused"
RefusalDeserved ==
    [][\A r \in Request : Refuses(r) =>
         \/ req'[r].by = "redis" /\ Cardinality(Spent) >= Limit
         \/ req'[r].by = "worker" /\ Cardinality(Decided(mine, now)) >= Limit]_vars

----------------------------------------------------------------------------
(* The inductive invariant *)

\* The worker keeps the times of its recent admissions, and no others.
DequeHonest ==
    /\ deque \subseteq mine
    /\ \A r \in mine : /\ req[r].pc = "allowed" /\ req[r].by = "worker"
                       /\ req[r].at <= now
                       /\ req[r].at > now - Window => r \in deque

\* The counter counts the requests of its own window.
CounterHonest ==
    Alive =>
        /\ deadline <= now + Window
        /\ hits = Cardinality(counted)
        /\ \A q \in counted : /\ req[q].hit >= deadline - Window
                              /\ req[q].hit <= now
                              /\ req[q].pc # "new"
        /\ \/ Cardinality(Spent) >= Limit
           \/ Spent = counted

\* The key is a fixed window: it ends Window after the hit that opened it, and
\* what Redis admitted before counts from then on only for what the window
\* that slides still holds of it.  extra is what emptying Redis has allowed.
By(who) == {r \in Admitted : req[r].by = who}
InKey == By("redis") \cap counted
Earlier == IF Alive THEN By("redis") \ counted ELSE By("redis")

KeyHonest ==
    Alive =>
        /\ \E o \in counted : req[o].hit = deadline - Window
        /\ \A r \in By("redis") \ counted : req[r].at <= deadline - Window
        /\ Cardinality(InKey) <= Limit
        /\ Cardinality({r \in InKey : req[r].at > deadline - Window}) <= Limit - 1

RedisQuota(extra) ==
    /\ \A r \in By("redis") : req[r].at = req[r].hit /\ req[r].at <= now
    /\ KeyHonest
    /\ Cardinality(Decided(Earlier, now)) <= Limit - 1 + extra
    /\ \A t \in 0..now : Cardinality(Decided(By("redis"), t)) <= 2 * Limit - 1 + extra

WorkerQuota(extra) ==
    /\ \A r \in By("worker") : req[r].at <= now
    /\ Cardinality(Decided(By("worker") \ mine, now)) <= extra
    /\ \A t \in 0..now : Cardinality(Decided(By("worker"), t)) <= Limit + extra

\* Each of the restarts emptied one of the stores.
QuotaShared ==
    \E m, n \in 0 .. restarts * Limit :
        m + n = restarts * Limit /\ RedisQuota(m) /\ WorkerQuota(n)

\* No third party admits.
Decider == \A r \in Admitted : req[r].by # "nobody"

IInv ==
    /\ TypeOK
    /\ DequeHonest
    /\ CounterHonest
    /\ LocalQuota
    /\ Decider
    /\ QuotaShared

============================================================================

-------------------------- MODULE RateLimitProofs --------------------------
(***************************************************************************)
(* Theorems about RateLimit, for any finite set of requests, any limit and *)
(* any window.                                                             *)
(***************************************************************************)
EXTENDS RateLimit, FiniteSetTheorems, TLAPS

\* Whatever is made of requests can be counted.
LEMMA Countable ==
    ASSUME NEW S \in SUBSET Request
    PROVE  IsFiniteSet(S) /\ Cardinality(S) \in Nat
<1>1. IsFiniteSet(S)
  BY RequestAssumption, FS_Subset
<1>2. QED
  BY <1>1, FS_CardinalityType

\* A subset is not larger.
LEMMA Smaller ==
    ASSUME NEW S \in SUBSET Request, NEW T \in SUBSET S
    PROVE  Cardinality(T) <= Cardinality(S)
BY Countable, FS_Subset

\* One request more.
LEMMA OneMore ==
    ASSUME NEW S \in SUBSET Request, NEW r \in Request, r \notin S
    PROVE  Cardinality(S \cup {r}) = Cardinality(S) + 1
BY Countable, FS_AddElement

\* While the key lives, everything it counted is recent: Spent are the
\* requests it did not refuse.
LEMMA SpentAlive ==
    ASSUME TypeOK, CounterHonest, Alive
    PROVE  Spent = {q \in counted :
                      ~(req[q].pc = "refused" /\ req[q].by = "redis")}
<1>1. \A q \in counted : req[q].hit > now - Window
  BY LimitAssumption DEF TypeOK, RequestState, CounterHonest, Alive
<1>2. QED
  BY <1>1 DEF Spent

\* The worker counts exactly the requests it admitted in the last window.
LEMMA RecentIsDecided ==
    ASSUME TypeOK, DequeHonest
    PROVE  Recent = Decided(mine, now)
BY DEF TypeOK, DequeHonest, Recent, Decided

----------------------------------------------------------------------------
(* Types *)

\* Type correctness: no step leaves the state space (rate_limit.py:108-153).
THEOREM Typing == Spec => []TypeOK
<1>1. Init => TypeOK
  BY DEF Init, TypeOK, RequestState
<1>2. TypeOK /\ [Next]_vars => TypeOK'
  <2> SUFFICES ASSUME TypeOK, [Next]_vars PROVE TypeOK'
    OBVIOUS
  <2> USE DEF TypeOK, RequestState
  <2>1. ASSUME NEW r \in Request, Script(r)
        PROVE  hits' \in Nat /\ deadline' \in Nat /\ counted' \subseteq Request
    BY <2>1, LimitAssumption DEF Script, Incremented, Expiry
  <2>2. ASSUME NEW r \in Request, Count(r)
        PROVE  TypeOK'
    BY <2>1, <2>2 DEF Count
  <2>3. ASSUME NEW r \in Request, CountLost(r)
        PROVE  TypeOK'
    BY <2>1, <2>3 DEF CountLost
  <2>4. ASSUME NEW r \in Request, Unreachable(r)
        PROVE  TypeOK'
    BY <2>4 DEF Unreachable
  <2>5. ASSUME NEW r \in Request, AllowLocal(r)
        PROVE  TypeOK'
    <3>1. Kept(r) \subseteq Request
      BY DEF Kept, Recent
    <3>2. req' \in [Request -> RequestState]
      <4>1. PICK pc \in {"allowed", "refused"} :
              req' = [req EXCEPT ![r].pc = pc, ![r].by = "worker", ![r].at = now]
        BY <2>5 DEF AllowLocal
      <4>2. [req[r] EXCEPT !.pc = pc, !.by = "worker", !.at = now] \in RequestState
        OBVIOUS
      <4>3. \A q \in Request : req'[q] \in RequestState
        BY <4>1, <4>2
      <4>4. QED
        BY <4>1, <4>3
    <3>3. QED
      BY <2>5, <3>1, <3>2 DEF AllowLocal
  <2>6. CASE RedisRestart
    BY <2>6 DEF RedisRestart
  <2>7. CASE WorkerRestart
    BY <2>7 DEF WorkerRestart
  <2>8. CASE Tick
    BY <2>8 DEF Tick
  <2>9. CASE UNCHANGED vars
    BY <2>9 DEF vars
  <2>10. QED
    BY <2>2, <2>3, <2>4, <2>5, <2>6, <2>7, <2>8, <2>9 DEF Next
<1>3. QED
  BY <1>1, <1>2, PTL DEF Spec

----------------------------------------------------------------------------
(* The fallback *)

\* Steps outside the fallback leave its admissions and their times alone.
LEMMA QuietWorker ==
    ASSUME TypeOK, TypeOK', DequeHonest, LocalQuota,
           now' = now, deque' = deque, mine' = mine,
           \A q \in mine : req'[q] = req[q]
    PROVE  DequeHonest' /\ LocalQuota'
<1>1. DequeHonest'
  BY DEF DequeHonest
<1>2. \A t \in 0..now : Decided(mine, t)' = Decided(mine, t)
  BY DEF Decided, TypeOK
<1>3. QED
  BY <1>1, <1>2 DEF LocalQuota

\* Every step keeps the worker's part of the invariant.
LEMMA WorkerStep ==
    ASSUME TypeOK, TypeOK', DequeHonest, LocalQuota, [Next]_vars
    PROVE  DequeHonest' /\ LocalQuota'
<1>1. ASSUME NEW r \in Request, Count(r) \/ CountLost(r) \/ Unreachable(r)
      PROVE  DequeHonest' /\ LocalQuota'
  <2>1. r \notin mine
    BY <1>1 DEF DequeHonest, Count, CountLost, Unreachable
  <2>2. \A q \in mine : req'[q] = req[q]
    BY <1>1, <2>1 DEF Count, CountLost, Unreachable, TypeOK
  <2>3. QED
    BY <1>1, <2>2, QuietWorker DEF Count, CountLost, Unreachable
<1>2. ASSUME NEW r \in Request, AllowLocal(r)
      PROVE  DequeHonest' /\ LocalQuota'
  <2> DEFINE ok == Cardinality(Recent) < Limit
  <2>1. r \notin mine
    BY <1>2 DEF DequeHonest, AllowLocal
  <2>2. /\ \A q \in mine : req'[q] = req[q]
        /\ now' = now
        /\ req'[r].at = now
        /\ ok => req'[r].pc = "allowed" /\ req'[r].by = "worker"
    BY <1>2, <2>1 DEF AllowLocal, TypeOK, RequestState
  <2>3. Recent = Decided(mine, now) /\ Recent \subseteq Request
    BY RecentIsDecided DEF Recent, TypeOK
  <2>4. CASE ok
    <3>1. mine' = mine \cup {r} /\ deque' = Recent \cup {r}
      BY <1>2, <2>3, <2>4, Countable, LimitAssumption DEF AllowLocal, Kept
    <3>2. DequeHonest'
      BY <2>2, <2>3, <2>4, <3>1 DEF DequeHonest, Decided, TypeOK
    <3>3. ASSUME NEW t \in 0..now
          PROVE  Cardinality(Decided(mine, t))' <= Limit
      <4>1. CASE t = now
        <5>1. Decided(mine, t)' = Recent \cup {r}
          BY <2>1, <2>2, <2>3, <3>1, <4>1, LimitAssumption DEF Decided, TypeOK, RequestState
        <5>2. Cardinality(Recent \cup {r}) = Cardinality(Recent) + 1
          BY <2>1, <2>3, OneMore DEF Decided
        <5>3. QED
          BY <2>3, <2>4, <5>1, <5>2, Countable, LimitAssumption
      <4>2. CASE t # now
        <5>1. Decided(mine, t)' = Decided(mine, t)
          BY <2>1, <2>2, <3>1, <4>2 DEF Decided, TypeOK, RequestState
        <5>2. QED
          BY <5>1 DEF LocalQuota
      <4>3. QED
        BY <4>1, <4>2
    <3>4. QED
      BY <2>2, <3>2, <3>3 DEF LocalQuota
  <2>5. CASE ~ok
    <3>1. mine' = mine /\ deque' = Recent
      BY <1>2, <2>3, <2>5, Countable, LimitAssumption DEF AllowLocal, Kept
    <3>2. DequeHonest'
      BY <2>2, <2>3, <3>1 DEF DequeHonest, Decided, TypeOK
    <3>3. \A t \in 0..now : Decided(mine, t)' = Decided(mine, t)
      BY <2>2, <3>1 DEF Decided, TypeOK
    <3>4. QED
      BY <2>2, <3>2, <3>3 DEF LocalQuota
  <2>6. QED
    BY <2>4, <2>5
<1>3. CASE RedisRestart
  BY <1>3, QuietWorker DEF RedisRestart
<1>4. CASE WorkerRestart
  <2>1. \A t \in 0..now : Decided(mine, t)' = {}
    BY <1>4 DEF WorkerRestart, Decided
  <2>2. QED
    BY <1>4, <2>1, FS_EmptySet, LimitAssumption
    DEF WorkerRestart, DequeHonest, LocalQuota
<1>5. CASE Tick
  <2>1. DequeHonest'
    BY <1>5, LimitAssumption DEF Tick, DequeHonest, TypeOK, RequestState
  <2>2. \A t \in 0..now : Decided(mine, t)' = Decided(mine, t)
    BY <1>5 DEF Tick, Decided
  <2>3. ASSUME NEW t \in Nat, t = now + 1
        PROVE  Cardinality(Decided(mine, t)') <= Limit
    <3>1. Decided(mine, t)' \subseteq Decided(mine, now)
      BY <1>5, <2>3, LimitAssumption DEF Tick, Decided, DequeHonest, TypeOK, RequestState
    <3>2. Decided(mine, now) \in SUBSET Request
      BY DEF Decided, TypeOK
    <3>3. Cardinality(Decided(mine, now)) <= Limit
      BY DEF LocalQuota, TypeOK
    <3>4. Cardinality(Decided(mine, t)') <= Cardinality(Decided(mine, now))
      BY <3>1, <3>2, Smaller
    <3>5. Decided(mine, t)' \in SUBSET Request
      BY <3>1, <3>2
    <3>6. QED
      BY <3>2, <3>3, <3>4, <3>5, Countable, LimitAssumption
  <2>4. ASSUME NEW t \in 0..(now + 1)
        PROVE  Cardinality(Decided(mine, t)') <= Limit
    <3>1. CASE t = now + 1
      BY <2>3, <3>1
    <3>2. CASE t # now + 1
      BY <2>2, <3>2 DEF LocalQuota, TypeOK
    <3>3. QED
      BY <3>1, <3>2
  <2>5. QED
    BY <1>5, <2>1, <2>4 DEF Tick, LocalQuota
<1>6. CASE UNCHANGED vars
  BY <1>6, QuietWorker DEF vars
<1>7. QED
  BY <1>1, <1>2, <1>3, <1>4, <1>5, <1>6 DEF Next

----------------------------------------------------------------------------
(* Redis *)

\* Steps that change neither the key nor what its requests were told.
LEMMA QuietRedis ==
    ASSUME TypeOK, TypeOK', CounterHonest,
           now' = now, hits' = hits, deadline' = deadline, counted' = counted,
           \A q \in counted : /\ req'[q].hit = req[q].hit
                              /\ req'[q].pc # "new"
                              /\ (req'[q].pc = "refused" /\ req'[q].by = "redis")
                                   = (req[q].pc = "refused" /\ req[q].by = "redis")
    PROVE  CounterHonest'
<1>1. Spent' = Spent
  BY DEF Spent
<1>2. QED
  BY <1>1 DEF CounterHonest, Alive

\* A hit keeps the counter honest, provided that only a request beyond the
\* limit is refused on its account.
LEMMA HitStep ==
    ASSUME TypeOK, TypeOK', CounterHonest, NEW r \in Request,
           req[r].pc = "new", Script(r), now' = now,
           \A q \in Request \ {r} : req'[q] = req[q],
           req'[r].hit = now, req'[r].pc # "new",
           req'[r].pc = "refused" => ~Within(Incremented)
    PROVE  CounterHonest'
<1> USE LimitAssumption
<1>1. CASE Alive
  <2>1. r \notin counted /\ counted \in SUBSET Request
    BY <1>1 DEF CounterHonest, TypeOK
  <2>2. /\ counted' = counted \cup {r}
        /\ hits' = hits + 1
        /\ deadline' = deadline
    BY <1>1 DEF Script, Incremented, Expiry
  <2>3. hits' = Cardinality(counted')
    BY <1>1, <2>1, <2>2, OneMore DEF CounterHonest
  <2>4. deadline' <= now' + Window /\ \A q \in counted' :
                            /\ req'[q].hit >= deadline' - Window
                            /\ req'[q].hit <= now'
                            /\ req'[q].pc # "new"
    BY <1>1, <2>1, <2>2 DEF CounterHonest, Alive, TypeOK
  <2>5. \A q \in counted' : req'[q].hit > now' - Window
    BY <1>1, <2>2, <2>4 DEF Alive, TypeOK, RequestState
  <2>6. Spent \subseteq Spent' /\ Spent' \in SUBSET Request
    BY <2>1, <2>2 DEF Spent, TypeOK
  <2>7. Cardinality(Spent) <= Cardinality(Spent')
    BY <2>6, Smaller
  <2>8. Cardinality(Spent) \in Nat /\ Cardinality(Spent') \in Nat
    BY <2>6, Countable
  <2>9. CASE Cardinality(Spent) >= Limit
    BY <2>2, <2>3, <2>4, <2>7, <2>8, <2>9 DEF CounterHonest, Alive
  <2>10. CASE Spent = counted
    <3>1. CASE req'[r].pc = "refused"
      <4>1. hits >= Limit
        BY <1>1, <3>1 DEF Within, Incremented, TypeOK
      <4>2. Cardinality(Spent') >= Limit
        BY <1>1, <2>7, <2>8, <2>10, <4>1 DEF CounterHonest, TypeOK
      <4>3. QED
        BY <2>2, <2>3, <2>4, <4>2 DEF CounterHonest, Alive
    <3>2. CASE req'[r].pc # "refused"
      <4>1. Spent' = counted'
        BY <2>1, <2>2, <2>5, <2>10, <3>2 DEF Spent, TypeOK
      <4>2. QED
        BY <2>2, <2>3, <2>4, <4>1 DEF CounterHonest, Alive
    <3>3. QED
      BY <3>1, <3>2
  <2>11. QED
    BY <1>1, <2>9, <2>10 DEF CounterHonest
<1>2. CASE ~Alive
  <2>1. /\ counted' = {r}
        /\ hits' = 1
        /\ deadline' = now + Window
    BY <1>2 DEF Script, Incremented, Expiry
  <2>2. req'[r].pc # "refused"
    BY <1>2 DEF Within, Incremented
  <2>3. Spent' = counted'
    BY <2>1, <2>2 DEF Spent, TypeOK
  <2>4. Cardinality(counted') = 1
    BY <2>1, FS_Singleton
  <2>5. QED
    BY <2>1, <2>3, <2>4 DEF CounterHonest, TypeOK
<1>3. QED
  BY <1>1, <1>2

\* Every step keeps the counter honest.
LEMMA RedisStep ==
    ASSUME TypeOK, TypeOK', CounterHonest, [Next]_vars
    PROVE  CounterHonest'
<1>1. ASSUME NEW r \in Request, Count(r)
      PROVE  CounterHonest'
  <2>1. /\ req[r].pc = "new" /\ Script(r) /\ now' = now
        /\ \A q \in Request \ {r} : req'[q] = req[q]
        /\ req'[r].hit = now /\ req'[r].pc # "new"
        /\ req'[r].pc = "refused" => ~Within(Incremented)
    BY <1>1 DEF Count, TypeOK
  <2>2. QED
    BY <2>1, HitStep
<1>2. ASSUME NEW r \in Request, CountLost(r)
      PROVE  CounterHonest'
  <2>1. /\ req[r].pc = "new" /\ Script(r) /\ now' = now
        /\ \A q \in Request \ {r} : req'[q] = req[q]
        /\ req'[r].hit = now /\ req'[r].pc = "fallback"
    BY <1>2 DEF CountLost, TypeOK, RequestState
  <2>2. QED
    BY <2>1, HitStep
<1>3. ASSUME NEW r \in Request, Unreachable(r)
      PROVE  CounterHonest'
  <2>1. \A q \in Request : /\ req'[q].hit = req[q].hit
                           /\ req'[q].by = req[q].by
                           /\ \/ req'[q].pc = req[q].pc
                              \/ req[q].pc = "new" /\ req'[q].pc = "fallback"
    BY <1>3 DEF Unreachable, TypeOK, RequestState
  <2>2. CASE Alive
    BY <1>3, <2>1, <2>2, QuietRedis DEF Unreachable, CounterHonest, TypeOK
  <2>3. CASE ~Alive
    BY <1>3, <2>3 DEF Unreachable, CounterHonest, Alive
  <2>4. QED
    BY <2>2, <2>3
<1>4. ASSUME NEW r \in Request, AllowLocal(r)
      PROVE  CounterHonest'
  <2>1. \A q \in Request \ {r} : req'[q] = req[q]
    BY <1>4 DEF AllowLocal, TypeOK
  <2>2. /\ req[r].pc = "fallback"
        /\ req'[r].hit = req[r].hit /\ req'[r].by = "worker"
        /\ req'[r].pc # "new"
    BY <1>4 DEF AllowLocal, TypeOK, RequestState
  <2>3. CASE Alive
    BY <1>4, <2>1, <2>2, <2>3, QuietRedis DEF AllowLocal, CounterHonest, TypeOK
  <2>4. CASE ~Alive
    BY <1>4, <2>4 DEF AllowLocal, CounterHonest, Alive
  <2>5. QED
    BY <2>3, <2>4
<1>5. CASE RedisRestart
  BY <1>5 DEF RedisRestart, CounterHonest, Alive, TypeOK
<1>6. CASE WorkerRestart
  <2>1. UNCHANGED <<now, hits, deadline, req, counted>>
    BY <1>6 DEF WorkerRestart
  <2>2. QED
    BY <2>1 DEF CounterHonest, Alive, Spent
<1>7. CASE Tick
  <2> SUFFICES ASSUME Alive' PROVE CounterHonest'
    BY DEF CounterHonest
  <2>1. Alive
    BY <1>7 DEF Tick, Alive, TypeOK
  <2>2. UNCHANGED <<hits, deadline, req, counted>> /\ now' = now + 1
    BY <1>7 DEF Tick
  <2>3. deadline <= now + Window /\ \A q \in counted :
                           /\ req[q].hit >= deadline - Window
                           /\ req[q].hit <= now
                           /\ req[q].pc # "new"
    BY <2>1 DEF CounterHonest
  <2>4. \A q \in counted : req[q].hit > now' - Window /\ req[q].hit > now - Window
    BY <2>1, <2>2, <2>3, LimitAssumption DEF Alive, TypeOK, RequestState
  <2>5. Spent' = Spent
    BY <2>2, <2>4 DEF Spent
  <2>6. \A q \in counted' : req'[q].hit <= now'
    BY <2>2, <2>3 DEF TypeOK, RequestState
  <2>7. deadline' <= now' + Window
    BY <2>2, <2>3, LimitAssumption DEF TypeOK
  <2>8. QED
    BY <2>1, <2>2, <2>3, <2>5, <2>6, <2>7 DEF CounterHonest
<1>8. CASE UNCHANGED vars
  BY <1>8 DEF vars, CounterHonest, Alive, Spent
<1>9. QED
  BY <1>1, <1>2, <1>3, <1>4, <1>5, <1>6, <1>7, <1>8 DEF Next

----------------------------------------------------------------------------
(* The overall quota *)

\* Two sets of requests together.
LEMMA Together ==
    ASSUME NEW S \in SUBSET Request, NEW T \in SUBSET Request
    PROVE  Cardinality(S \cup T) <= Cardinality(S) + Cardinality(T)
<1>1. Cardinality(S \cup T) = Cardinality(S) + Cardinality(T) - Cardinality(S \cap T)
  BY Countable, FS_Union
<1>2. (S \cap T) \in SUBSET Request
  OBVIOUS
<1>3. QED
  BY <1>1, <1>2, Countable

\* A set that two others cover is no larger than they are allowed to be.
LEMMA Covered ==
    ASSUME NEW S \in SUBSET Request, NEW T \in SUBSET Request,
           NEW U \in SUBSET (S \cup T), NEW m \in Int, NEW n \in Int,
           Cardinality(S) <= m, Cardinality(T) <= n
    PROVE  Cardinality(U) <= m + n
<1>1. Cardinality(U) <= Cardinality(S \cup T) /\ U \in SUBSET Request
  BY Smaller
<1>2. Cardinality(S \cup T) <= Cardinality(S) + Cardinality(T)
  BY Together
<1>3. QED
  BY <1>1, <1>2, Countable

\* The allowance is a number, and grows by Limit with each restart.
LEMMA Allowance ==
    ASSUME TypeOK
    PROVE  /\ restarts * Limit \in Nat
           /\ (restarts + 1) * Limit = restarts * Limit + Limit
<1>1. \A i, j \in Nat : i * j \in Nat /\ (i + 1) * j = i * j + j
  OBVIOUS
<1>2. QED
  BY <1>1, LimitAssumption DEF TypeOK

\* Steps that tell no request of Redis anything and leave the key alone.
LEMMA QuietKey ==
    ASSUME TypeOK, TypeOK', NEW k \in Nat, RedisQuota(k),
           now' = now, deadline' = deadline, counted' = counted,
           By("redis")' = By("redis"),
           \A q \in By("redis") : req'[q].at = req[q].at,
           \A q \in By("redis") \cup counted : req'[q].hit = req[q].hit
    PROVE  RedisQuota(k)'
<1>1. (\A q \in By("redis") : req[q].at = req[q].hit /\ req[q].at <= now)'
  BY DEF RedisQuota
<1>2. KeyHonest'
  <2>1. {q \in InKey : req[q].at > deadline - Window}'
          = {q \in InKey : req[q].at > deadline - Window}
    BY DEF InKey
  <2>2. InKey' = InKey
    BY DEF InKey
  <2>3. QED
    BY <2>1, <2>2 DEF RedisQuota, KeyHonest, Alive
<1>3. Decided(Earlier, now)' = Decided(Earlier, now)
  BY DEF Decided, Earlier, Alive
<1>4. \A t \in 0..now : Decided(By("redis"), t)' = Decided(By("redis"), t)
  BY DEF Decided
<1>5. QED
  BY <1>1, <1>2, <1>3, <1>4 DEF RedisQuota

\* A hit on the key, whatever the request is told.
LEMMA HitQuota ==
    ASSUME TypeOK, TypeOK', CounterHonest, CounterHonest',
           NEW k \in Nat, RedisQuota(k), NEW r \in Request,
           req[r].pc = "new", Script(r), now' = now,
           \A q \in Request \ {r} : req'[q] = req[q],
           req'[r].hit = now,
           r \in By("redis")' => req'[r].at = now /\ Within(Incremented)
    PROVE  RedisQuota(k)'
<1> USE LimitAssumption
<1> DEFINE R == By("redis")
           Late == {q \in InKey : req[q].at > deadline - Window}
<1>1. /\ r \notin R /\ R \in SUBSET Request
      /\ R' \in SUBSET Request
      /\ R \subseteq R' /\ R' \subseteq R \cup {r}
      /\ r \in R' => req'[r].at = now
      /\ \A q \in R : req'[q] = req[q] /\ req[q].at \in Nat
  BY DEF By, Admitted, TypeOK, RequestState
<1>2. (\A q \in R : req[q].at = req[q].hit /\ req[q].at <= now)'
  BY <1>1 DEF RedisQuota, TypeOK
<1>3. Alive' /\ counted' \in SUBSET Request /\ hits' = Cardinality(counted')
  BY DEF Script, Expiry, Alive, TypeOK, CounterHonest
<1>4. r \in R' => Cardinality(counted') <= Limit
  BY <1>3 DEF Script, Within
<1>5. KeyHonest' /\ Earlier' = Earlier
  <2>1. CASE Alive
    <3>1. /\ counted' = counted \cup {r} /\ deadline' = deadline
          /\ r \notin counted /\ counted \in SUBSET Request
      BY <2>1 DEF Script, Expiry, CounterHonest, TypeOK
    <3>2. PICK o \in counted : req[o].hit = deadline - Window
      BY <2>1 DEF RedisQuota, KeyHonest
    <3>3. o # r /\ o \in counted' /\ req'[o].hit = deadline' - Window
      BY <3>1, <3>2
    <3>4. R' \ counted' = R \ counted
      BY <1>1, <3>1
    <3>5. \A q \in R' \ counted' : req'[q].at <= deadline' - Window
      BY <1>1, <2>1, <3>1, <3>4 DEF RedisQuota, KeyHonest
    <3>6. Cardinality(InKey') <= Limit /\ Cardinality(Late') <= Limit - 1
      <4>1. CASE r \in R'
        <5>1. InKey' \subseteq counted'
          BY DEF InKey
        <5>2. o \notin Late'
          BY <1>2, <3>3 DEF InKey, TypeOK
        <5>3. Late' \subseteq counted' \ {o}
          BY <5>1, <5>2
        <5>4. Cardinality(counted' \ {o}) = Cardinality(counted') - 1
          BY <1>3, <3>3, Countable, FS_RemoveElement
        <5>5. (counted' \ {o}) \in SUBSET Request
          BY <1>3
        <5>6. Late' \in SUBSET Request /\ InKey' \in SUBSET Request
          BY <5>1, <5>3, <1>3
        <5>7. Cardinality(InKey') <= Cardinality(counted')
          BY <1>3, <5>1, Smaller
        <5>8. Cardinality(Late') <= Cardinality(counted' \ {o})
          BY <5>3, <5>5, Smaller
        <5>9. Cardinality(InKey') \in Nat /\ Cardinality(Late') \in Nat
              /\ Cardinality(counted') \in Nat
          BY <1>3, <5>6, Countable
        <5>10. QED
          BY <1>4, <4>1, <5>4, <5>7, <5>8, <5>9
      <4>2. CASE r \notin R'
        <5>1. R' = R
          BY <1>1, <4>2
        <5>2. InKey' = InKey
          BY <1>1, <3>1, <5>1 DEF InKey
        <5>3. Late' = Late
          BY <1>1, <3>1, <5>2 DEF InKey
        <5>4. QED
          BY <2>1, <5>2, <5>3 DEF RedisQuota, KeyHonest
      <4>3. QED
        BY <4>1, <4>2
    <3>7. Earlier' = Earlier
      BY <1>3, <2>1, <3>4 DEF Earlier
    <3>8. QED
      BY <3>3, <3>5, <3>6, <3>7 DEF KeyHonest
  <2>2. CASE ~Alive
    <3>1. counted' = {r} /\ deadline' = now + Window
      BY <2>2 DEF Script, Expiry
    <3>2. R' \ counted' = R
      BY <1>1, <3>1
    <3>3. \A q \in R' \ counted' : req'[q].at <= deadline' - Window
      BY <1>1, <3>1, <3>2 DEF RedisQuota, TypeOK
    <3>4. Cardinality(counted') = 1 /\ Cardinality({}) = 0
      BY <3>1, FS_Singleton, FS_EmptySet
    <3>5. InKey' \in SUBSET counted' /\ InKey' \in SUBSET Request
      BY <1>3 DEF InKey
    <3>6. Cardinality(InKey') <= Cardinality(counted') /\ Cardinality(InKey') \in Nat
      BY <1>3, <3>5, Smaller, Countable
    <3>7. Late' = {}
      BY <1>2, <1>3, <3>1, <3>5 DEF InKey, TypeOK
    <3>8. Earlier' = Earlier
      BY <1>3, <2>2, <3>2 DEF Earlier
    <3>9. req'[r].hit = deadline' - Window
      BY <3>1 DEF TypeOK
    <3>10. \E o \in counted' : req'[o].hit = deadline' - Window
      BY <3>1, <3>9
    <3>11. Cardinality(InKey') <= Limit /\ Cardinality(Late') <= Limit - 1
      BY <3>4, <3>6, <3>7
    <3>12. QED
      BY <3>3, <3>8, <3>10, <3>11 DEF KeyHonest
  <2>3. QED
    BY <2>1, <2>2
<1>6. Decided(Earlier, now)' = Decided(Earlier, now)
  BY <1>1, <1>5 DEF Decided, Earlier
<1>7. ASSUME NEW t \in 0..now
      PROVE  Cardinality(Decided(By("redis"), t)') <= 2 * Limit - 1 + k
  <2>1. CASE t = now
    <3> DEFINE S == Decided(Earlier, now)'
               T == InKey'
               U == Decided(By("redis"), t)'
    <3>1. S \in SUBSET Request /\ T \in SUBSET Request
      BY <1>1 DEF Decided, Earlier, InKey
    <3>2. U \in SUBSET (S \cup T)
      BY <1>3, <2>1 DEF Decided, Earlier, InKey
    <3>3. Cardinality(S) <= Limit - 1 + k
      BY <1>6 DEF RedisQuota
    <3>4. Cardinality(T) <= Limit
      BY <1>3, <1>5 DEF KeyHonest
    <3> HIDE DEF S, T, U
    <3>5. Limit \in Int /\ Limit - 1 + k \in Int
      OBVIOUS
    <3>6. Cardinality(U) <= (Limit - 1 + k) + Limit
      BY <3>1, <3>2, <3>3, <3>4, <3>5, Covered
    <3>7. U \in SUBSET Request
      BY <3>1, <3>2
    <3>8. Cardinality(U) <= 2 * Limit - 1 + k
      BY <3>6, <3>7, Countable
    <3>9. QED
      BY <3>8 DEF U
  <2>2. CASE t # now
    <3>1. Decided(By("redis"), t)' = Decided(By("redis"), t)
      BY <1>1, <2>2 DEF Decided, TypeOK
    <3>2. QED
      BY <3>1 DEF RedisQuota
  <2>3. QED
    BY <2>1, <2>2
<1>8. Cardinality(Decided(Earlier, now)') <= Limit - 1 + k
  BY <1>6 DEF RedisQuota
<1>9. QED
  BY <1>2, <1>5, <1>7, <1>8 DEF RedisQuota

\* Redis loses its key: what it held becomes part of what came before.
LEMMA RestartQuota ==
    ASSUME TypeOK, TypeOK', NEW k \in Nat, RedisQuota(k), RedisRestart
    PROVE  RedisQuota(k + Limit)'
<1> USE LimitAssumption
<1>1. UNCHANGED <<now, req>> /\ ~Alive'
  BY DEF RedisRestart, Alive, TypeOK
<1>2. \A t \in 0..now : Decided(By("redis"), t)' = Decided(By("redis"), t)
  BY <1>1 DEF Decided, By, Admitted
<1>3. Decided(Earlier, now)' = Decided(By("redis"), now)
  BY <1>1 DEF Decided, Earlier, By, Admitted
<1>4. \A t \in 0..now : /\ Decided(By("redis"), t) \in SUBSET Request
                        /\ Cardinality(Decided(By("redis"), t)) \in Nat
  BY Countable DEF Decided, By, Admitted
<1>5. Cardinality(Decided(Earlier, now)') <= Limit - 1 + (k + Limit)
  BY <1>3, <1>4 DEF RedisQuota, TypeOK
<1>6. \A t \in 0..now :
        Cardinality(Decided(By("redis"), t)') <= 2 * Limit - 1 + (k + Limit)
  BY <1>2, <1>4 DEF RedisQuota
<1>7. (\A q \in By("redis") : req[q].at = req[q].hit /\ req[q].at <= now)'
  BY <1>1 DEF RedisQuota, By, Admitted
<1>8. QED
  BY <1>1, <1>5, <1>6, <1>7 DEF RedisQuota, KeyHonest

\* Time passes: the windows slide, and the key may end.
LEMMA TickQuota ==
    ASSUME TypeOK, TypeOK', NEW k \in Nat, RedisQuota(k), Tick
    PROVE  RedisQuota(k)'
<1> USE LimitAssumption
<1> DEFINE R == By("redis")
           Late == {q \in InKey : req[q].at > deadline - Window}
<1>1. UNCHANGED <<hits, deadline, req, counted>> /\ now' = now + 1
  BY DEF Tick
<1>2. /\ R' = R /\ InKey' = InKey /\ Late' = Late
      /\ R \in SUBSET Request
      /\ \A q \in R : req[q].at \in Nat /\ req[q].at <= now
  BY <1>1 DEF By, Admitted, InKey, TypeOK, RequestState, RedisQuota
<1>3. Alive' => Alive
  BY <1>1 DEF Alive, TypeOK
<1>4. KeyHonest'
  BY <1>1, <1>2, <1>3 DEF RedisQuota, KeyHonest
<1>5. (\A q \in R : req[q].at = req[q].hit /\ req[q].at <= now)'
  BY <1>1, <1>2 DEF RedisQuota, TypeOK
<1>6. ASSUME NEW S \in SUBSET R
      PROVE  /\ {q \in S : req[q].at > now + 1 - Window /\ req[q].at <= now + 1}
                  \in SUBSET Decided(S, now)
             /\ Decided(S, now) \in SUBSET Request
  BY <1>2 DEF Decided, TypeOK
<1>7. Cardinality(Decided(Earlier, now)') <= Limit - 1 + k
  <2> DEFINE New == Decided(Earlier, now)'
  <2>1. CASE Alive' \/ ~Alive
    <3>1. Earlier' = Earlier /\ Earlier \in SUBSET R
      BY <1>1, <1>2, <1>3, <2>1 DEF Earlier
    <3> DEFINE Slid == {q \in Earlier : req[q].at > now + 1 - Window /\ req[q].at <= now + 1}
    <3>slid. New = Slid
      BY <1>1, <3>1 DEF Decided, TypeOK
    <3>sub. Slid \in SUBSET Decided(Earlier, now) /\ Decided(Earlier, now) \in SUBSET Request
      BY <1>6, <3>1
    <3>2. New \in SUBSET Decided(Earlier, now) /\ Decided(Earlier, now) \in SUBSET Request
      BY <3>slid, <3>sub
    <3>3. Cardinality(New) <= Cardinality(Decided(Earlier, now)) /\ New \in SUBSET Request
      BY <3>2, Smaller
    <3>4. Cardinality(Decided(Earlier, now)) <= Limit - 1 + k
      BY DEF RedisQuota
    <3> HIDE DEF New
    <3>5. Cardinality(New) <= Limit - 1 + k
      BY <3>2, <3>3, <3>4, Countable
    <3>6. QED
      BY <3>5 DEF New
  <2>2. CASE Alive /\ ~Alive'
    <3>1. Earlier' = R /\ deadline = now + 1
      BY <1>1, <1>2, <2>2 DEF Earlier, Alive, TypeOK
    <3>2. \A q \in R \ counted : req[q].at <= deadline - Window
      BY <2>2 DEF RedisQuota, KeyHonest
    <3>3. New \in SUBSET Late /\ Late \in SUBSET Request
      BY <1>1, <1>2, <3>1, <3>2 DEF Decided, InKey, TypeOK
    <3>4. Cardinality(Late) <= Limit - 1
      BY <2>2 DEF RedisQuota, KeyHonest
    <3> HIDE DEF New, Late
    <3>5. Cardinality(New) <= Cardinality(Late) /\ New \in SUBSET Request
      BY <3>3, Smaller
    <3>6. Cardinality(New) <= Limit - 1 + k
      BY <3>3, <3>4, <3>5, Countable
    <3>7. QED
      BY <3>6 DEF New
  <2>3. QED
    BY <2>1, <2>2
<1>8. ASSUME NEW t \in 0..(now + 1)
      PROVE  Cardinality(Decided(By("redis"), t)') <= 2 * Limit - 1 + k
  <2>1. CASE t = now + 1
    <3> DEFINE New == Decided(By("redis"), t)'
               Old == Decided(By("redis"), now)
    <3>slid. New = {q \in R : req[q].at > now + 1 - Window /\ req[q].at <= now + 1}
      BY <1>1, <1>2, <2>1 DEF Decided, TypeOK
    <3>1. New \in SUBSET Old /\ Old \in SUBSET Request
      BY <1>6, <3>slid
    <3>2. Cardinality(Old) <= 2 * Limit - 1 + k
      BY DEF RedisQuota, TypeOK
    <3> HIDE DEF New, Old
    <3>3. Cardinality(New) <= Cardinality(Old) /\ New \in SUBSET Request
      BY <3>1, Smaller
    <3>4. Cardinality(New) <= 2 * Limit - 1 + k
      BY <3>1, <3>2, <3>3, Countable
    <3>5. QED
      BY <3>4 DEF New
  <2>2. CASE t # now + 1
    <3>1. Decided(By("redis"), t)' = Decided(By("redis"), t)
      BY <1>1, <1>2 DEF Decided
    <3>2. QED
      BY <2>2, <3>1 DEF RedisQuota, TypeOK
  <2>3. QED
    BY <2>1, <2>2
<1>9. QED
  BY <1>1, <1>4, <1>5, <1>7, <1>8 DEF RedisQuota

\* Steps that leave the worker's admissions alone.
LEMMA QuietQuota ==
    ASSUME TypeOK, NEW k \in Nat, WorkerQuota(k),
           now' = now, mine' = mine, By("worker")' = By("worker"),
           \A q \in By("worker") : req'[q].at = req[q].at
    PROVE  WorkerQuota(k)'
<1>1. \A t \in 0..now : Decided(By("worker"), t)' = Decided(By("worker"), t)
  BY DEF Decided
<1>2. Decided(By("worker") \ mine, now)' = Decided(By("worker") \ mine, now)
  BY DEF Decided
<1>3. QED
  BY <1>1, <1>2 DEF WorkerQuota

\* The fallback decides: an admission counts for its own window.
LEMMA LocalStep ==
    ASSUME TypeOK, TypeOK', DequeHonest, LocalQuota', NEW k \in Nat, WorkerQuota(k),
           NEW r \in Request, AllowLocal(r)
    PROVE  WorkerQuota(k)'
<1> USE LimitAssumption
<1> DEFINE W == By("worker")
           ok == Cardinality(Recent) < Limit
<1>1. /\ now' = now
      /\ mine' = IF ok THEN mine \cup {r} ELSE mine
      /\ \A q \in Request \ {r} : req'[q] = req[q]
      /\ req[r].pc = "fallback" /\ req'[r].at = now /\ req'[r].by = "worker"
      /\ req'[r].pc = IF ok THEN "allowed" ELSE "refused"
  BY DEF AllowLocal, TypeOK, RequestState
<1>2. r \notin W /\ r \notin mine
  BY <1>1 DEF By, Admitted, DequeHonest
<1>3. CASE ~ok
  <2>1. W' = W /\ mine' = mine
    BY <1>1, <1>2, <1>3 DEF By, Admitted
  <2>2. \A q \in W : req'[q].at = req[q].at
    BY <1>1, <1>2 DEF By, Admitted
  <2>3. QED
    BY <1>1, <2>1, <2>2, QuietQuota
<1>4. CASE ok
  <2>1. W' = W \cup {r} /\ mine' = mine \cup {r} /\ W \in SUBSET Request
    BY <1>1, <1>2, <1>4 DEF By, Admitted
  <2>2. \A q \in W : req'[q] = req[q] /\ req[q].at \in Nat
    BY <1>1, <1>2, <2>1 DEF TypeOK, RequestState
  <2>3. (\A q \in By("worker") : req[q].at <= now)'
    BY <1>1, <2>1, <2>2 DEF WorkerQuota, TypeOK
  <2>4. Decided(W \ mine, now)' = Decided(W \ mine, now)
    BY <1>1, <1>2, <2>1, <2>2 DEF Decided
  <2>5. Cardinality(Decided(By("worker") \ mine, now)') <= k
    BY <2>4 DEF WorkerQuota
  <2>6. ASSUME NEW t \in 0..now
        PROVE  Cardinality(Decided(By("worker"), t)') <= Limit + k
    <3>1. CASE t = now
      <4> DEFINE S == Decided(mine, now)'
                 T == Decided(W \ mine, now)'
                 U == Decided(By("worker"), t)'
      <4>1. S \in SUBSET Request /\ T \in SUBSET Request
        BY <2>1 DEF Decided, TypeOK
      <4>2. U \in SUBSET (S \cup T)
        BY <1>1, <3>1 DEF Decided
      <4>3. Cardinality(S) <= Limit
        BY <1>1 DEF LocalQuota, TypeOK
      <4>4. Cardinality(T) <= k
        BY <2>5
      <4> HIDE DEF S, T, U
      <4>5. Limit \in Int /\ k \in Int
        OBVIOUS
      <4>6. Cardinality(U) <= Limit + k
        BY <4>1, <4>2, <4>3, <4>4, <4>5, Covered
      <4>7. QED
        BY <4>6 DEF U
    <3>2. CASE t # now
      <4>1. Decided(By("worker"), t)' = Decided(By("worker"), t)
        BY <1>1, <2>1, <2>2, <3>2 DEF Decided, TypeOK
      <4>2. QED
        BY <4>1 DEF WorkerQuota
    <3>3. QED
      BY <3>1, <3>2
  <2>7. QED
    BY <1>1, <2>3, <2>5, <2>6 DEF WorkerQuota
<1>5. QED
  BY <1>3, <1>4

\* The worker loses its deque.
LEMMA WorkerRestartQuota ==
    ASSUME TypeOK, TypeOK', NEW k \in Nat, WorkerQuota(k), WorkerRestart
    PROVE  WorkerQuota(k + Limit)'
<1> USE LimitAssumption
<1>1. UNCHANGED <<now, req>> /\ mine' = {}
  BY DEF WorkerRestart
<1>2. \A t \in 0..now : Decided(By("worker"), t)' = Decided(By("worker"), t)
  BY <1>1 DEF Decided, By, Admitted
<1>3. Decided(By("worker") \ mine, now)' = Decided(By("worker"), now)
  BY <1>1 DEF Decided, By, Admitted
<1>4. \A t \in 0..now : /\ Decided(By("worker"), t) \in SUBSET Request
                        /\ Cardinality(Decided(By("worker"), t)) \in Nat
  BY Countable DEF Decided, By, Admitted
<1>5. Cardinality(Decided(By("worker") \ mine, now)') <= k + Limit
  BY <1>3, <1>4 DEF WorkerQuota, TypeOK
<1>6. \A t \in 0..now :
        Cardinality(Decided(By("worker"), t)') <= Limit + (k + Limit)
  BY <1>2, <1>4 DEF WorkerQuota
<1>7. (\A q \in By("worker") : req[q].at <= now)'
  BY <1>1 DEF WorkerQuota, By, Admitted
<1>8. QED
  BY <1>1, <1>5, <1>6, <1>7 DEF WorkerQuota

\* Time passes.
LEMMA WorkerTick ==
    ASSUME TypeOK, TypeOK', NEW k \in Nat, WorkerQuota(k), Tick
    PROVE  WorkerQuota(k)'
<1> USE LimitAssumption
<1> DEFINE W == By("worker")
<1>1. UNCHANGED <<mine, req>> /\ now' = now + 1
  BY DEF Tick
<1>2. /\ W' = W /\ W \in SUBSET Request
      /\ \A q \in W : req[q].at \in Nat /\ req[q].at <= now
  BY <1>1 DEF By, Admitted, TypeOK, RequestState, WorkerQuota
<1>3. (\A q \in By("worker") : req[q].at <= now)'
  BY <1>1, <1>2 DEF TypeOK
<1>4. ASSUME NEW S \in SUBSET W
      PROVE  /\ {q \in S : req[q].at > now + 1 - Window /\ req[q].at <= now + 1}
                  \in SUBSET Decided(S, now)
             /\ Decided(S, now) \in SUBSET Request
  BY <1>2 DEF Decided, TypeOK
<1>5. Cardinality(Decided(By("worker") \ mine, now)') <= k
  <2> DEFINE New == Decided(By("worker") \ mine, now)'
             Old == Decided(By("worker") \ mine, now)
  <2>slid. New = {q \in W \ mine : req[q].at > now + 1 - Window /\ req[q].at <= now + 1}
    BY <1>1, <1>2 DEF Decided, TypeOK
  <2>sub. (W \ mine) \in SUBSET W
    OBVIOUS
  <2>1. New \in SUBSET Old /\ Old \in SUBSET Request
    BY <1>4, <2>slid, <2>sub
  <2>2. Cardinality(Old) <= k
    BY DEF WorkerQuota
  <2> HIDE DEF New, Old
  <2>3. Cardinality(New) <= Cardinality(Old) /\ New \in SUBSET Request
    BY <2>1, Smaller
  <2>4. Cardinality(New) <= k
    BY <2>1, <2>2, <2>3, Countable
  <2>5. QED
    BY <2>4 DEF New
<1>6. ASSUME NEW t \in 0..(now + 1)
      PROVE  Cardinality(Decided(By("worker"), t)') <= Limit + k
  <2>1. CASE t = now + 1
    <3> DEFINE New == Decided(By("worker"), t)'
               Old == Decided(By("worker"), now)
    <3>slid. New = {q \in W : req[q].at > now + 1 - Window /\ req[q].at <= now + 1}
      BY <1>1, <1>2, <2>1 DEF Decided, TypeOK
    <3>1. New \in SUBSET Old /\ Old \in SUBSET Request
      BY <1>4, <3>slid
    <3>2. Cardinality(Old) <= Limit + k
      BY DEF WorkerQuota, TypeOK
    <3> HIDE DEF New, Old
    <3>3. Cardinality(New) <= Cardinality(Old) /\ New \in SUBSET Request
      BY <3>1, Smaller
    <3>4. Cardinality(New) <= Limit + k
      BY <3>1, <3>2, <3>3, Countable
    <3>5. QED
      BY <3>4 DEF New
  <2>2. CASE t # now + 1
    <3>1. Decided(By("worker"), t)' = Decided(By("worker"), t)
      BY <1>1, <1>2 DEF Decided
    <3>2. QED
      BY <2>2, <3>1 DEF WorkerQuota, TypeOK
  <2>3. QED
    BY <2>1, <2>2
<1>7. QED
  BY <1>1, <1>3, <1>5, <1>6 DEF WorkerQuota

\* Every step that concerns Redis keeps its quota, but for a restart of it.
LEMMA RedisQuotaStep ==
    ASSUME TypeOK, TypeOK', CounterHonest, CounterHonest', DequeHonest,
           NEW m \in Nat, RedisQuota(m),
           \/ \E r \in Request : \/ Count(r) \/ CountLost(r) \/ Unreachable(r)
                               \/ AllowLocal(r)
           \/ WorkerRestart \/ Tick
    PROVE  RedisQuota(m)'
<1>1. ASSUME NEW r \in Request, Count(r)
      PROVE  RedisQuota(m)'
  <2>1. /\ req[r].pc = "new" /\ Script(r) /\ now' = now
        /\ \A q \in Request \ {r} : req'[q] = req[q]
        /\ req'[r].hit = now /\ req'[r].at = now
        /\ req'[r].pc = "allowed" => Within(Incremented)
    BY <1>1 DEF Count, TypeOK
  <2>2. r \in By("redis")' => req'[r].at = now /\ Within(Incremented)
    BY <2>1 DEF By, Admitted
  <2>3. QED
    BY <2>1, <2>2, HitQuota
<1>2. ASSUME NEW r \in Request, CountLost(r)
      PROVE  RedisQuota(m)'
  <2>1. /\ req[r].pc = "new" /\ Script(r) /\ now' = now
        /\ \A q \in Request \ {r} : req'[q] = req[q]
        /\ req'[r].hit = now /\ req'[r].pc = "fallback"
    BY <1>2 DEF CountLost, TypeOK, RequestState
  <2>2. r \notin By("redis")'
    BY <2>1 DEF By, Admitted
  <2>3. QED
    BY <2>1, <2>2, HitQuota
<1>3. ASSUME NEW r \in Request, Unreachable(r) \/ AllowLocal(r)
      PROVE  RedisQuota(m)'
  <2>1. /\ UNCHANGED <<now, deadline, counted>>
        /\ \A q \in Request \ {r} : req'[q] = req[q]
    BY <1>3 DEF Unreachable, AllowLocal, TypeOK
  <2>2. /\ req'[r].hit = req[r].hit
        /\ req[r].pc # "allowed"
        /\ req'[r].pc = "allowed" => req'[r].by = "worker"
    <3>1. CASE Unreachable(r)
      BY <3>1 DEF Unreachable, TypeOK, RequestState
    <3>2. CASE AllowLocal(r)
      BY <3>2 DEF AllowLocal, TypeOK, RequestState
    <3>3. QED
      BY <1>3, <3>1, <3>2
  <2>3. By("redis")' = By("redis")
    BY <2>1, <2>2 DEF By, Admitted
  <2>4. \A q \in By("redis") : req'[q].at = req[q].at /\ req'[q].hit = req[q].hit
    BY <2>1, <2>2 DEF By, Admitted
  <2>5. \A q \in counted : req'[q].hit = req[q].hit
    BY <2>1, <2>2 DEF TypeOK
  <2>6. QED
    BY <2>1, <2>3, <2>4, <2>5, QuietKey
<1>4. CASE WorkerRestart
  <2>1. UNCHANGED <<now, deadline, counted, req>>
    BY <1>4 DEF WorkerRestart
  <2>2. By("redis")' = By("redis")
    BY <2>1 DEF By, Admitted
  <2>3. QED
    BY <2>1, <2>2, QuietKey
<1>5. CASE Tick
  BY <1>5, TickQuota
<1>6. QED
  BY <1>1, <1>2, <1>3, <1>4, <1>5

\* Every step that concerns the worker keeps its quota, but for a restart.
LEMMA WorkerQuotaStep ==
    ASSUME TypeOK, TypeOK', DequeHonest, LocalQuota',
           NEW n \in Nat, WorkerQuota(n),
           \/ \E r \in Request : \/ Count(r) \/ CountLost(r) \/ Unreachable(r)
                               \/ AllowLocal(r)
           \/ RedisRestart \/ Tick
    PROVE  WorkerQuota(n)'
<1>1. ASSUME NEW r \in Request, Count(r) \/ CountLost(r) \/ Unreachable(r)
      PROVE  WorkerQuota(n)'
  <2>1. /\ UNCHANGED <<now, mine>>
        /\ req[r].pc = "new"
        /\ \A q \in Request \ {r} : req'[q] = req[q]
        /\ req'[r].pc = "allowed" => req'[r].by = "redis"
    BY <1>1 DEF Count, CountLost, Unreachable, TypeOK, RequestState
  <2>2. By("worker")' = By("worker") /\ r \notin By("worker")
    BY <2>1 DEF By, Admitted
  <2>3. \A q \in By("worker") : req'[q].at = req[q].at
    BY <2>1, <2>2 DEF By, Admitted
  <2>4. QED
    BY <2>1, <2>2, <2>3, QuietQuota
<1>2. ASSUME NEW r \in Request, AllowLocal(r)
      PROVE  WorkerQuota(n)'
  BY <1>2, LocalStep
<1>3. CASE RedisRestart
  <2>1. UNCHANGED <<now, mine, req>>
    BY <1>3 DEF RedisRestart
  <2>2. By("worker")' = By("worker")
    BY <2>1 DEF By, Admitted
  <2>3. QED
    BY <2>1, <2>2, QuietQuota
<1>4. CASE Tick
  BY <1>4, WorkerTick
<1>5. QED
  BY <1>1, <1>2, <1>3, <1>4

\* Every step keeps the two quotas together.
LEMMA QuotaStep ==
    ASSUME TypeOK, TypeOK', DequeHonest, LocalQuota', CounterHonest, CounterHonest',
           QuotaShared, Next
    PROVE  QuotaShared'
<1>1. PICK m, n \in 0 .. restarts * Limit :
         m + n = restarts * Limit /\ RedisQuota(m) /\ WorkerQuota(n)
  BY DEF QuotaShared
<1>2. m \in Nat /\ n \in Nat /\ restarts * Limit \in Nat
  BY <1>1, Allowance
<1>3. ASSUME NEW i \in Nat, NEW j \in Nat, i + j = restarts' * Limit,
             RedisQuota(i)', WorkerQuota(j)'
      PROVE  QuotaShared'
  <2>1. i \in 0 .. restarts' * Limit /\ j \in 0 .. restarts' * Limit
    BY <1>3
  <2>2. QED
    BY <1>3, <2>1 DEF QuotaShared
<1>4. CASE ~RedisRestart /\ ~WorkerRestart
  <2>1. restarts' = restarts
    BY <1>4 DEF Next, Count, CountLost, Unreachable, AllowLocal, Tick
  <2>2. RedisQuota(m)' /\ WorkerQuota(n)'
    BY <1>1, <1>2, <1>4, RedisQuotaStep, WorkerQuotaStep DEF Next
  <2>3. m + n = restarts' * Limit
    BY <1>1, <2>1
  <2>4. QED
    BY <1>2, <1>3, <2>2, <2>3
<1>5. CASE RedisRestart
  <2>1. restarts' = restarts + 1
    BY <1>5 DEF RedisRestart
  <2>2. RedisQuota(m + Limit)' /\ WorkerQuota(n)'
    BY <1>1, <1>2, <1>5, RestartQuota, WorkerQuotaStep
  <2>3. (m + Limit) + n = restarts' * Limit /\ m + Limit \in Nat
    BY <1>1, <1>2, <2>1, Allowance, LimitAssumption
  <2>4. QED
    BY <1>2, <1>3, <2>2, <2>3
<1>6. CASE WorkerRestart
  <2>1. restarts' = restarts + 1
    BY <1>6 DEF WorkerRestart
  <2>2. RedisQuota(m)' /\ WorkerQuota(n + Limit)'
    BY <1>1, <1>2, <1>6, WorkerRestartQuota, RedisQuotaStep
  <2>3. m + (n + Limit) = restarts' * Limit /\ n + Limit \in Nat
    BY <1>1, <1>2, <2>1, Allowance, LimitAssumption
  <2>4. QED
    BY <1>2, <1>3, <2>2, <2>3
<1>7. QED
  BY <1>4, <1>5, <1>6

\* In the beginning nothing has been admitted.
LEMMA QuotaInit == Init => QuotaShared
<1> SUFFICES ASSUME Init PROVE QuotaShared
  OBVIOUS
<1> USE LimitAssumption
<1>1. By("redis") = {} /\ By("worker") = {} /\ ~Alive /\ now = 0
  BY DEF Init, By, Admitted, Alive
<1>2. \A t : Decided({}, t) = {}
  BY DEF Decided
<1>3. Cardinality({}) = 0
  BY FS_EmptySet
<1>4. RedisQuota(0)
  <2>1. Earlier = {}
    BY <1>1 DEF Earlier
  <2>2. \A t \in 0..now : Cardinality(Decided(By("redis"), t)) = 0
    BY <1>1, <1>2, <1>3
  <2>3. Cardinality(Decided(Earlier, now)) = 0
    BY <1>2, <1>3, <2>1
  <2>4. QED
    BY <1>1, <2>2, <2>3 DEF RedisQuota, KeyHonest
<1>5. WorkerQuota(0)
  <2>1. By("worker") \ mine = {}
    BY <1>1
  <2>2. \A t \in 0..now : Cardinality(Decided(By("worker"), t)) = 0
    BY <1>1, <1>2, <1>3
  <2>3. Cardinality(Decided(By("worker") \ mine, now)) = 0
    BY <1>2, <1>3, <2>1
  <2>4. QED
    BY <1>1, <2>2, <2>3 DEF WorkerQuota
<1>6. restarts * Limit = 0
  BY DEF Init
<1>7. QED
  BY <1>4, <1>5, <1>6 DEF QuotaShared

----------------------------------------------------------------------------
(* The theorems *)

\* The invariant holds from the start and every step keeps it.
THEOREM Invariance == Spec => []IInv
<1>1. Init => DequeHonest /\ CounterHonest /\ LocalQuota /\ QuotaShared
  <2> SUFFICES ASSUME Init PROVE DequeHonest /\ CounterHonest /\ LocalQuota
    BY QuotaInit
  <2>1. \A t \in 0..now : Decided(mine, t) = {}
    BY DEF Init, Decided
  <2>2. QED
    BY <2>1, FS_EmptySet, LimitAssumption
    DEF Init, DequeHonest, CounterHonest, Alive, LocalQuota
<1>2. DequeHonest /\ CounterHonest /\ LocalQuota /\ TypeOK /\ TypeOK' /\ [Next]_vars
        => (DequeHonest /\ CounterHonest /\ LocalQuota)'
  BY WorkerStep, RedisStep
<1>3. IInv /\ TypeOK' /\ [Next]_vars => QuotaShared'
  <2> SUFFICES ASSUME IInv, TypeOK', [Next]_vars PROVE QuotaShared'
    OBVIOUS
  <2>1. CASE Next
    BY <1>2, <2>1, QuotaStep DEF IInv
  <2>2. CASE UNCHANGED vars
    BY <2>2 DEF vars, IInv, QuotaShared, RedisQuota, WorkerQuota, KeyHonest, InKey,
                Earlier, Alive, By, Admitted, Decided
  <2>3. QED
    BY <2>1, <2>2
<1>4. Init => Decider
  BY DEF Init, Decider, Admitted
<1>5. Decider /\ TypeOK /\ [Next]_vars => Decider'
  <2> SUFFICES ASSUME Decider, TypeOK, [Next]_vars, NEW q \in Request,
                      req'[q].pc = "allowed"
               PROVE  req'[q].by # "nobody"
    BY DEF Decider, Admitted
  <2>1. ASSUME NEW r \in Request,
               Count(r) \/ CountLost(r) \/ Unreachable(r) \/ AllowLocal(r)
        PROVE  req'[q].by # "nobody"
    BY <2>1 DEF Count, CountLost, Unreachable, AllowLocal, Decider, Admitted,
                TypeOK, RequestState
  <2>2. CASE req' = req
    BY <2>2 DEF Decider, Admitted
  <2>3. QED
    BY <2>1, <2>2 DEF Next, vars, RedisRestart, WorkerRestart, Tick
<1>6. QED
  BY <1>1, <1>2, <1>3, <1>4, <1>5, Typing, PTL DEF Spec, IInv

\* The fallback is a sliding window (rate_limit.py:108-120).
THEOREM FallbackQuota == Spec => []LocalQuota
BY Invariance, PTL DEF IInv

\* Both stores together: what a client gains by alternating between them and
\* by their restarts is bounded (rate_limit.py:137-153).
THEOREM BothStores == Spec => []OverallQuota
<1>1. IInv => OverallQuota
  <2> SUFFICES ASSUME IInv, NEW t \in 0..now
               PROVE  Cardinality(Decided(Admitted, t)) <= (3 + restarts) * Limit - 1
    BY DEF OverallQuota
  <2> DEFINE S == Decided(By("redis"), t)
             T == Decided(By("worker"), t)
             U == Decided(Admitted, t)
  <2>1. PICK m, n \in 0 .. restarts * Limit :
           m + n = restarts * Limit /\ RedisQuota(m) /\ WorkerQuota(n)
    BY DEF IInv, QuotaShared
  <2>2. Cardinality(S) <= 2 * Limit - 1 + m /\ Cardinality(T) <= Limit + n
    BY <2>1 DEF RedisQuota, WorkerQuota
  <2>3. \A r \in Admitted : req[r].by \in {"redis", "worker"}
    BY DEF IInv, Decider, Admitted, TypeOK, RequestState
  <2>4. S \in SUBSET Request /\ T \in SUBSET Request /\ U \in SUBSET (S \cup T)
    BY <2>3 DEF Decided, By, Admitted
  <2> HIDE DEF S, T, U
  <2>5. restarts * Limit \in Nat /\ restarts \in Nat /\ Limit \in Nat
    BY Allowance, LimitAssumption DEF IInv, TypeOK
  <2>6. 2 * Limit - 1 + m \in Int /\ Limit + n \in Int
    BY <2>1, <2>5
  <2>7. Cardinality(U) <= (2 * Limit - 1 + m) + (Limit + n) /\ U \in SUBSET Request
    BY <2>2, <2>4, <2>6, Covered
  <2>8. (3 + restarts) * Limit = 3 * Limit + restarts * Limit
    BY <2>5
  <2>9. Cardinality(U) <= (3 + restarts) * Limit - 1
    BY <2>1, <2>5, <2>7, <2>8, Countable
  <2>10. QED
    BY <2>9 DEF U
<1>2. QED
  BY <1>1, Invariance, PTL

\* Refusals feed no refusal: whoever is refused spent the limit within the
\* last window (redis_client.py:95-115, rate_limit.py:113-120).
THEOREM RefusalsAreDeserved == Spec => RefusalDeserved
<1> DEFINE Deserved(r) ==
      \/ req'[r].by = "redis" /\ Cardinality(Spent) >= Limit
      \/ req'[r].by = "worker" /\ Cardinality(Decided(mine, now)) >= Limit
<1>1. ASSUME IInv, [Next]_vars, NEW r \in Request, Refuses(r)
      PROVE  Deserved(r)
  <2>1. PICK q \in Request : Count(q) \/ CountLost(q) \/ Unreachable(q) \/ AllowLocal(q)
    BY <1>1 DEF Next, vars, Refuses, RedisRestart, WorkerRestart, Tick
  <2>2. q = r /\ (Count(r) \/ AllowLocal(r))
    BY <1>1, <2>1 DEF Count, CountLost, Unreachable, AllowLocal, Refuses, IInv, TypeOK, RequestState
  <2>3. CASE Count(r)
    <3>1. ~Within(Incremented) /\ req'[r].by = "redis"
      BY <1>1, <2>3 DEF Count, Refuses, IInv, TypeOK
    <3>2. Alive /\ hits >= Limit
      BY <1>1, <3>1, LimitAssumption DEF Within, Incremented, IInv, TypeOK
    <3>3. Cardinality(Spent) >= Limit
      BY <1>1, <3>2 DEF IInv, CounterHonest
    <3>4. QED
      BY <3>1, <3>3
  <2>4. CASE AllowLocal(r)
    <3>1. ~(Cardinality(Recent) < Limit) /\ req'[r].by = "worker"
      BY <1>1, <2>4 DEF AllowLocal, Refuses, IInv, TypeOK, RequestState
    <3>2. Recent = Decided(mine, now) /\ Recent \in SUBSET Request
      BY <1>1, RecentIsDecided DEF IInv, Recent, TypeOK
    <3>3. QED
      BY <3>1, <3>2, Countable, LimitAssumption
  <2>5. QED
    BY <2>2, <2>3, <2>4
<1>2. IInv /\ [Next]_vars => [\A r \in Request : Refuses(r) => Deserved(r)]_vars
  BY <1>1
<1>3. QED
  BY <1>2, Invariance, PTL DEF Spec, RefusalDeserved

============================================================================

--------------------------- MODULE WebAuthnProofs ---------------------------
(***************************************************************************)
(* Proofs about the ceremonies of WebAuthn, for any sets of requests,      *)
(* users and credentials: the invariant IInv is inductive, and the safety  *)
(* properties follow from it.                                              *)
(***************************************************************************)
EXTENDS WebAuthn, TLAPS

----------------------------------------------------------------------------
(* What steps leave alone *)

\* Rows and counters change in one direction only, and so do users.
Grows ==
    /\ users \subseteq users'
    /\ \A d \in Request : Present(d) =>
         Present(d)' /\ device'[d].user = device[d].user /\ device'[d].cred = device[d].cred
    /\ \A k \in Credential : counter[k] <= counter'[k]

\* A used challenge stays as it is, except that it may still be answered.
UsedStays ==
    \A c \in Request : challenge[c].status = "gone" =>
        /\ challenge'[c].status = "gone"
        /\ challenge'[c].purpose = challenge[c].purpose
        /\ challenge'[c].dev = challenge[c].dev /\ challenge'[c].user = challenge[c].user
        /\ challenge[c].sig # Unsigned => challenge'[c].sig = challenge[c].sig

\* Answered requests stay as they are.
AnsweredStays == \A q \in Request : req[q].pc \in Answered => req'[q] = req[q]

LEMMA DeviceFrame ==
    ASSUME IInv, TypeOK', Grows, AnsweredStays, NEW d \in Request, device'[d] = device[d]
    PROVE  DeviceHonest(d)'
<1>1. CASE ~Present(d)
  BY <1>1 DEF DeviceHonest, Present
<1>2. CASE Present(d)
  <2>1. DeviceHonest(d)
    BY DEF IInv
  <2>2. req'[d] = req[d]
    BY <1>2, <2>1 DEF DeviceHonest, AnsweredStays, Answered
  <2>3. device[d].count \in Nat
    BY DEF IInv, TypeOK, DeviceRow
  <2>4. device'[d].count <= counter'[device'[d].cred]
    <3>1. device[d].cred \in Credential /\ counter[device[d].cred] \in Nat
      BY <1>2, <2>1 DEF DeviceHonest, IInv, TypeOK
    <3>2. counter[device[d].cred] <= counter'[device[d].cred]
      BY <3>1 DEF Grows
    <3>3. device[d].count <= counter[device[d].cred]
      BY <1>2, <2>1 DEF DeviceHonest
    <3>4. counter'[device[d].cred] \in Nat
      BY <3>1 DEF TypeOK
    <3>5. QED
      BY <2>3, <3>1, <3>2, <3>3, <3>4
  <2>5. device'[d].count > 0 =>
          \E r \in Request : /\ req'[r].pc = "loggedIn" /\ req'[r].dev = d
                             /\ req'[r].count = device'[d].count
    <3>1. SUFFICES ASSUME device[d].count > 0
                   PROVE  \E r \in Request : /\ req'[r].pc = "loggedIn" /\ req'[r].dev = d
                                             /\ req'[r].count = device[d].count
      OBVIOUS
    <3>2. PICK r \in Request : /\ req[r].pc = "loggedIn" /\ req[r].dev = d
                               /\ req[r].count = device[d].count
      BY <1>2, <2>1, <3>1 DEF DeviceHonest
    <3>3. req'[r] = req[r]
      BY <3>2 DEF AnsweredStays, Answered
    <3>4. QED
      BY <3>2, <3>3
  <2>6. QED
    BY <1>2, <2>1, <2>2, <2>4, <2>5 DEF DeviceHonest
<1>3. QED
  BY <1>1, <1>2

LEMMA ChallengeFrame ==
    ASSUME IInv, TypeOK', Grows, NEW c \in Request,
           challenge'[c].purpose = challenge[c].purpose,
           challenge'[c].dev = challenge[c].dev,
           challenge'[c].user = challenge[c].user,
           challenge'[c].sig = challenge[c].sig,
           req'[c].pc = "options" => req[c].pc = "options",
           req'[c].pc = "store" => req'[c] = req[c]
    PROVE  ChallengeHonest(c)'
<1>1. ChallengeHonest(c)
  BY DEF IInv
<1>2. CASE challenge[c].purpose = "authentication"
  <2>1. /\ challenge[c].dev \in Request /\ Present(challenge[c].dev)
        /\ device[challenge[c].dev].user = challenge[c].user
        /\ challenge[c].sig <= counter[device[challenge[c].dev].cred]
    BY <1>1, <1>2 DEF ChallengeHonest
  <2>2. device[challenge[c].dev].cred \in Credential
    BY <2>1 DEF IInv, DeviceHonest
  <2>3. /\ challenge[c].sig \in Int
        /\ counter[device[challenge[c].dev].cred] \in Nat
        /\ counter'[device[challenge[c].dev].cred] \in Nat
    BY <2>2 DEF IInv, TypeOK, ChallengeEntry, Unsigned
  <2>4. counter[device[challenge[c].dev].cred] <= counter'[device[challenge[c].dev].cred]
    BY <2>2 DEF Grows
  <2>5. challenge[c].sig <= counter'[device[challenge[c].dev].cred]
    BY <2>1, <2>3, <2>4
  <2>6. Present(challenge[c].dev)' /\ device'[challenge[c].dev].user = challenge[c].user
        /\ device'[challenge[c].dev].cred = device[challenge[c].dev].cred
    BY <2>1 DEF Grows, Present
  <2>7. QED
    BY <1>2, <2>1, <2>5, <2>6 DEF ChallengeHonest, Present
<1>3. CASE challenge[c].purpose = "registration"
  BY <1>1, <1>3 DEF ChallengeHonest, Grows
<1>4. QED
  BY <1>2, <1>3 DEF IInv, TypeOK, ChallengeEntry

LEMMA RequestFrame ==
    ASSUME IInv, TypeOK', Grows, UsedStays, AnsweredStays,
           NEW q \in Request, req'[q] = req[q]
    PROVE  RequestHonest(q)'
<1>1. RequestHonest(q)
  BY DEF IInv
<1>2. req[q].pc \in {"flush", "put", "store"} => req[q].user \in User
  BY <1>1 DEF RequestHonest
<1>3. req[q].pc = "aput" => /\ req[q].dev \in Request /\ Present(req[q].dev)'
                            /\ device'[req[q].dev].user = req[q].user
  BY <1>1 DEF RequestHonest, Grows
<1>4. req[q].chal # None => /\ challenge'[req[q].chal].status = "gone"
                            /\ req'[req[q].chal].pc = "options"
  <2>1. SUFFICES ASSUME req[q].chal # None
                 PROVE  /\ challenge'[req[q].chal].status = "gone"
                        /\ req'[req[q].chal].pc = "options"
    OBVIOUS
  <2>2. /\ req[q].chal \in Request /\ challenge[req[q].chal].status = "gone"
        /\ req[req[q].chal].pc = "options"
    BY <1>1, <2>1 DEF RequestHonest, IInv, TypeOK, RequestState
  <2>3. QED
    BY <2>2 DEF UsedStays, AnsweredStays, Answered
<1>5. req[q].pc \in {"load", "clear", "commit", "loggedIn"} =>
         /\ req[q].chal # None
         /\ challenge'[req[q].chal].purpose = "authentication"
         /\ challenge'[req[q].chal].dev = req[q].dev
         /\ challenge'[req[q].chal].user = req[q].user
         /\ req[q].pc # "load" => challenge'[req[q].chal].sig = req[q].count
  <2>1. SUFFICES ASSUME req[q].pc \in {"load", "clear", "commit", "loggedIn"}
                 PROVE  /\ req[q].chal # None
                        /\ challenge'[req[q].chal].purpose = "authentication"
                        /\ challenge'[req[q].chal].dev = req[q].dev
                        /\ challenge'[req[q].chal].user = req[q].user
                        /\ req[q].pc # "load" => challenge'[req[q].chal].sig = req[q].count
    OBVIOUS
  <2>2. /\ req[q].chal # None
        /\ challenge[req[q].chal].purpose = "authentication"
        /\ challenge[req[q].chal].dev = req[q].dev /\ challenge[req[q].chal].user = req[q].user
        /\ req[q].pc # "load" => challenge[req[q].chal].sig = req[q].count
        /\ challenge[req[q].chal].status = "gone"
    BY <1>1, <2>1 DEF RequestHonest
  <2>3. req[q].chal \in Request /\ req[q].count \in Nat /\ req[q].count # Unsigned
    BY <2>2 DEF IInv, TypeOK, RequestState, Unsigned
  <2>4. QED
    BY <2>2, <2>3 DEF UsedStays
<1>6. req[q].pc \in {"check", "insert"} =>
        req[q].user \in users' /\ req[q].cred \in Credential /\ req[q].count <= counter'[req[q].cred]
  <2>1. SUFFICES ASSUME req[q].pc \in {"check", "insert"}
                 PROVE  req[q].user \in users' /\ req[q].cred \in Credential
                        /\ req[q].count <= counter'[req[q].cred]
    OBVIOUS
  <2>2. req[q].user \in users /\ req[q].cred \in Credential /\ req[q].count <= counter[req[q].cred]
    BY <1>1, <2>1 DEF RequestHonest
  <2>3. req[q].count \in Nat /\ counter[req[q].cred] \in Nat /\ counter'[req[q].cred] \in Nat
    BY <2>2 DEF IInv, TypeOK, RequestState
  <2>4. counter[req[q].cred] <= counter'[req[q].cred]
    BY <2>2 DEF Grows
  <2>5. QED
    BY <2>2, <2>3, <2>4 DEF Grows
<1>7. req[q].pc \in {"check", "insert"} =>
        /\ req[q].chal # None
        /\ challenge'[req[q].chal].purpose = "registration"
        /\ challenge'[req[q].chal].user = req[q].user
  <2>1. SUFFICES ASSUME req[q].pc \in {"check", "insert"}
                 PROVE  /\ req[q].chal # None
                        /\ challenge'[req[q].chal].purpose = "registration"
                        /\ challenge'[req[q].chal].user = req[q].user
    OBVIOUS
  <2>2. /\ req[q].chal # None /\ challenge[req[q].chal].status = "gone"
        /\ challenge[req[q].chal].purpose = "registration"
        /\ challenge[req[q].chal].user = req[q].user
    BY <1>1, <2>1 DEF RequestHonest
  <2>3. req[q].chal \in Request
    BY <2>2 DEF IInv, TypeOK, RequestState
  <2>4. QED
    BY <2>2, <2>3 DEF UsedStays
<1>8. req[q].pc \in {"new", "flush", "put", "store", "aput", "options"} => req[q].chal = None
  BY <1>1 DEF RequestHonest
<1>9. QED
  BY <1>2, <1>3, <1>4, <1>5, <1>6, <1>7, <1>8 DEF RequestHonest, Present

----------------------------------------------------------------------------
(* Types *)

LEMMA BeginType ==
    ASSUME TypeOK, NEW r \in Request, NEW q \in RequestState, Begin(r, q)
    PROVE  req' \in [Request -> RequestState]
BY DEF TypeOK, Begin

LEMMA GotoType ==
    ASSUME TypeOK, NEW r \in Request, NEW pc \in Pending \cup Answered, Goto(r, pc)
    PROVE  req' \in [Request -> RequestState]
<1>1. [req[r] EXCEPT !.pc = pc] \in RequestState
  BY DEF TypeOK, RequestState
<1>2. QED
  BY <1>1 DEF TypeOK, Goto

LEMMA TakeType ==
    ASSUME TypeOK, NEW c \in Request, Take(c)
    PROVE  challenge' \in [Request -> ChallengeEntry]
<1>1. [challenge[c] EXCEPT !.status = "gone"] \in ChallengeEntry
  BY DEF TypeOK, ChallengeEntry
<1>2. QED
  BY <1>1 DEF TypeOK, Take

LEMMA TypeStep == IInv /\ [Next]_vars => TypeOK'
<1> SUFFICES ASSUME IInv, [Next]_vars PROVE TypeOK'
  OBVIOUS
<1>0. TypeOK
  BY DEF IInv
<1> USE <1>0 DEF TypeOK, RequestState, Fresh
<1>1. ASSUME NEW r \in Request, NEW u \in User, RegRead(r, u)
      PROVE  TypeOK'
  BY <1>1 DEF RegRead, Begin, Answered, Pending
<1>2. ASSUME NEW r \in Request, NEW u \in User, AuthRead(r, u)
      PROVE  TypeOK'
  <2>1. ASSUME NEW d \in Request
        PROVE  [Fresh("aput") EXCEPT !.user = u, !.dev = d] \in RequestState
    BY DEF Pending
  <2>2. [Fresh("denied") EXCEPT !.user = u] \in RequestState
    BY DEF Answered
  <2>3. req' \in [Request -> RequestState]
    BY <1>2, <2>1, <2>2, BeginType DEF AuthRead, ActiveDevices
  <2>4. QED
    BY <1>2, <2>3 DEF AuthRead
<1>3. ASSUME NEW r \in Request, NEW c \in Request, AuthTake(r, c)
      PROVE  TypeOK'
  <2>1. [Fresh("load") EXCEPT !.user = challenge[c].user, !.dev = challenge[c].dev,
                              !.chal = c] \in RequestState
    BY DEF Pending, ChallengeEntry
  <2>2. Fresh("denied") \in RequestState
    BY DEF Answered
  <2>3. req' \in [Request -> RequestState]
    BY <1>3, <2>1, <2>2, BeginType DEF AuthTake
  <2>4. challenge' \in [Request -> ChallengeEntry]
    BY <1>3, TakeType DEF AuthTake
  <2>5. QED
    BY <1>3, <2>3, <2>4 DEF AuthTake
<1>4. ASSUME NEW r \in Request, NEW c \in Request, NEW k \in Credential, RegTake(r, c, k)
      PROVE  TypeOK'
  <2>1. [Fresh("check") EXCEPT !.user = challenge[c].user, !.chal = c, !.cred = k,
                               !.count = counter[k]] \in RequestState
    BY DEF Pending, ChallengeEntry
  <2>2. Fresh("denied") \in RequestState
    BY DEF Answered
  <2>3. req' \in [Request -> RequestState]
    BY <1>4, <2>1, <2>2, BeginType DEF RegTake
  <2>4. challenge' \in [Request -> ChallengeEntry]
    BY <1>4, TakeType DEF RegTake
  <2>5. QED
    BY <1>4, <2>3, <2>4 DEF RegTake
<1>5. ASSUME NEW r \in Request, RegFlush(r)
      PROVE  TypeOK'
  BY <1>5 DEF RegFlush, Goto, Answered, Pending
<1>6. ASSUME NEW r \in Request, RegPut(r)
      PROVE  TypeOK'
  BY <1>6 DEF RegPut, Put, Goto, Answered, Pending, ChallengeEntry
<1>7. ASSUME NEW r \in Request, RegCommit(r)
      PROVE  TypeOK'
  <2>1. req[r].user \in User
    BY <1>7 DEF RegCommit, IInv, RequestHonest
  <2>2. QED
    BY <1>7, <2>1 DEF RegCommit, Goto, Answered, Pending
<1>8. ASSUME NEW r \in Request, AuthPut(r)
      PROVE  TypeOK'
  BY <1>8 DEF AuthPut, Put, Goto, Answered, Pending, ChallengeEntry
<1>9. ASSUME NEW r \in Request, AuthLoad(r)
      PROVE  TypeOK'
  BY <1>9 DEF AuthLoad, Accepted, Unsigned, Goto, Answered, Pending, ChallengeEntry, IInv, RequestHonest
<1>10. ASSUME NEW r \in Request, AuthClear(r)
       PROVE  TypeOK'
  BY <1>10 DEF AuthClear, Goto, Answered, Pending
<1>11. ASSUME NEW r \in Request, AuthCommit(r)
       PROVE  TypeOK'
  <2>1. \A d \in Request : [device[d] EXCEPT !.count = req[r].count] \in DeviceRow
    BY DEF DeviceRow
  <2>2. device' \in [Request -> DeviceRow]
    BY <1>11, <2>1 DEF AuthCommit
  <2>3. req' \in [Request -> RequestState]
    BY <1>11, GotoType DEF AuthCommit, Answered
  <2>4. QED
    BY <1>11, <2>2, <2>3 DEF AuthCommit
<1>12. ASSUME NEW r \in Request, RegCheck(r)
       PROVE  TypeOK'
  BY <1>12 DEF RegCheck, Goto, Answered, Pending
<1>13. ASSUME NEW r \in Request, RegInsert(r)
       PROVE  TypeOK'
  <2>1. [status |-> "active", user |-> req[r].user, cred |-> req[r].cred,
         count |-> req[r].count] \in DeviceRow
    BY DEF DeviceRow
  <2>2. device' \in [Request -> DeviceRow]
    BY <1>13, <2>1 DEF RegInsert
  <2>3. req' \in [Request -> RequestState]
    BY <1>13, GotoType DEF RegInsert, Answered
  <2>4. QED
    BY <1>13, <2>2, <2>3 DEF RegInsert
<1>14. ASSUME NEW r \in Request, Fail(r)
       PROVE  TypeOK'
  BY <1>14 DEF Fail, Goto, Answered, Pending
<1>15. ASSUME NEW c \in Request, Sign(c)
       PROVE  TypeOK'
  <2>1. device[challenge[c].dev].cred \in Credential
    BY <1>15 DEF Sign, IInv, ChallengeHonest, DeviceHonest
  <2>2. counter[device[challenge[c].dev].cred] + 1 \in Nat
    BY <2>1
  <2>3. QED
    BY <1>15, <2>1, <2>2 DEF Sign, ChallengeEntry
<1>16. ASSUME NEW c \in Request, Expire(c)
       PROVE  TypeOK'
  BY <1>16 DEF Expire, ChallengeEntry
<1>17. ASSUME NEW d \in Request, Deactivate(d)
       PROVE  TypeOK'
  BY <1>17 DEF Deactivate, DeviceRow
<1>18. ASSUME NEW d \in Request, Flag(d)
       PROVE  TypeOK'
  BY <1>18 DEF Flag
<1>19. CASE UNCHANGED vars
  BY <1>19 DEF vars
<1>20. QED
  BY <1>1, <1>2, <1>3, <1>4, <1>5, <1>6, <1>7, <1>8, <1>9, <1>10, <1>11,
     <1>12, <1>13, <1>14, <1>15, <1>16, <1>17, <1>18, <1>19
  DEF Next, Arrive, Continue

----------------------------------------------------------------------------
(* Which steps change which variable *)

LEMMA DeviceCases ==
    ASSUME [Next]_vars
    PROVE  \/ UNCHANGED device
           \/ \E r \in Request : AuthCommit(r) \/ RegInsert(r) \/ Deactivate(r)
BY DEF Next, Arrive, Continue, RegRead, AuthRead, AuthTake, RegTake, RegFlush, RegPut,
       RegCommit, AuthPut, AuthLoad, AuthClear, RegCheck, Fail, Sign, Expire, Flag, vars

LEMMA ChallengeCases ==
    ASSUME [Next]_vars
    PROVE  \/ UNCHANGED challenge
           \/ \E c \in Request : challenge[c].status = "stored" /\ (Take(c) \/ Expire(c))
           \/ \E r \in Request : RegPut(r) \/ AuthPut(r) \/ Sign(r)
<1>1. ASSUME NEW r \in Request, NEW c \in Request, AuthTake(r, c)
      PROVE  UNCHANGED challenge \/ (challenge[c].status = "stored" /\ Take(c))
  BY <1>1 DEF AuthTake
<1>2. ASSUME NEW r \in Request, NEW c \in Request, NEW k \in Credential, RegTake(r, c, k)
      PROVE  UNCHANGED challenge \/ (challenge[c].status = "stored" /\ Take(c))
  BY <1>2 DEF RegTake
<1>3. ASSUME NEW c \in Request, Expire(c)
      PROVE  challenge[c].status = "stored"
  BY <1>3 DEF Expire
<1>4. QED
  BY <1>1, <1>2, <1>3
  DEF Next, Arrive, Continue, RegRead, AuthRead, RegFlush, RegCommit, AuthLoad,
      AuthClear, AuthCommit, RegCheck, RegInsert, Fail, Deactivate, Flag, vars

LEMMA CounterCases ==
    ASSUME [Next]_vars
    PROVE  UNCHANGED counter \/ \E c \in Request : Sign(c)
BY DEF Next, Arrive, Continue, RegRead, AuthRead, AuthTake, RegTake, RegFlush, RegPut,
       RegCommit, AuthPut, AuthLoad, AuthClear, AuthCommit, RegCheck, RegInsert, Fail,
       Expire, Deactivate, Flag, vars

\* r was not answered yet, and is the only request that the step moves.
Moves(r) ==
    /\ req[r].pc \in {"new"} \cup Pending
    /\ req[r].pc = "store" => req'[r].pc \in {"options", "lost"}
    /\ \A q \in Request : q # r => req'[q] = req[q]

\* Only its own steps move a request, and none after its answer.
LEMMA StepMoves ==
    ASSUME IInv, NEW r \in Request, Arrive(r) \/ Continue(r) \/ Fail(r)
    PROVE  Moves(r)
<1>0. req \in [Request -> RequestState]
  BY DEF IInv, TypeOK
<1>1. ASSUME NEW q, Begin(r, q)
      PROVE  Moves(r)
  BY <1>0, <1>1 DEF Begin, Moves
<1>2. ASSUME NEW pc, Goto(r, pc), req[r].pc \in Pending,
             req[r].pc = "store" => pc \in {"options", "lost"}
      PROVE  Moves(r)
  BY <1>0, <1>2 DEF Goto, Moves
<1>3. CASE Arrive(r)
  <2>1. ASSUME NEW u \in User, RegRead(r, u)
        PROVE  Moves(r)
    BY <1>1, <2>1 DEF RegRead
  <2>2. ASSUME NEW u \in User, AuthRead(r, u)
        PROVE  Moves(r)
    BY <1>1, <2>2 DEF AuthRead
  <2>3. ASSUME NEW c \in Request, AuthTake(r, c)
        PROVE  Moves(r)
    BY <1>1, <2>3 DEF AuthTake
  <2>4. ASSUME NEW c \in Request, NEW k \in Credential, RegTake(r, c, k)
        PROVE  Moves(r)
    BY <1>1, <2>4 DEF RegTake
  <2>5. QED
    BY <1>3, <2>1, <2>2, <2>3, <2>4 DEF Arrive
<1>4. CASE Continue(r) \/ Fail(r)
  <2>1. CASE AuthLoad(r)
    BY <1>0, <2>1 DEF AuthLoad, Goto, Moves, Pending
  <2>2. CASE RegFlush(r)
    BY <1>2, <2>2 DEF RegFlush, Pending
  <2>3. CASE RegPut(r) \/ RegCommit(r) \/ AuthPut(r) \/ AuthClear(r) \/ AuthCommit(r)
    BY <1>2, <2>3 DEF RegPut, RegCommit, AuthPut, AuthClear, AuthCommit, Pending
  <2>4. CASE RegCheck(r) \/ RegInsert(r) \/ Fail(r)
    BY <1>2, <2>4 DEF RegCheck, RegInsert, Fail, Pending
  <2>5. QED
    BY <1>4, <2>1, <2>2, <2>3, <2>4 DEF Continue
<1>5. QED
  BY <1>3, <1>4

LEMMA RequestCases ==
    ASSUME IInv, [Next]_vars
    PROVE  \/ UNCHANGED req
           \/ \E r \in Request : Moves(r) /\ (Arrive(r) \/ Continue(r) \/ Fail(r))
BY StepMoves DEF Next, Sign, Expire, Deactivate, Flag, vars

\* A request enters the states where its challenge is known or about to be in
\* the three steps that say so.
LEMMA PublishCases ==
    ASSUME IInv, [Next]_vars, NEW c \in Request, ~(RegPut(c) \/ AuthPut(c) \/ RegCommit(c))
    PROVE  /\ req'[c].pc = "options" => req[c].pc = "options"
           /\ req'[c].pc = "store" => req'[c] = req[c]
<1> DEFINE Kept == /\ req'[c].pc = "options" => req[c].pc = "options"
                   /\ req'[c].pc = "store" => req'[c] = req[c]
<1>0. req \in [Request -> RequestState]
  BY DEF IInv, TypeOK
<1>1. ASSUME NEW r \in Request, NEW state, Begin(r, state), state.pc \notin {"options", "store"}
      PROVE  Kept
  BY <1>0, <1>1 DEF Begin
<1>2. ASSUME NEW r \in Request, NEW pc, Goto(r, pc), r = c => pc \notin {"options", "store"}
      PROVE  Kept
  BY <1>0, <1>2 DEF Goto, RequestState
<1>3. ASSUME NEW r \in Request, Arrive(r)
      PROVE  Kept
  <2>1. ASSUME NEW u \in User, RegRead(r, u)
        PROVE  Kept
    BY <1>1, <2>1 DEF RegRead, Fresh
  <2>2. ASSUME NEW u \in User, AuthRead(r, u)
        PROVE  Kept
    <3>1. CASE Begin(r, [Fresh("denied") EXCEPT !.user = u])
      BY <1>1, <3>1 DEF Fresh
    <3>2. CASE \E d \in ActiveDevices(u) :
                 Begin(r, [Fresh("aput") EXCEPT !.user = u, !.dev = d])
      BY <1>1, <3>2 DEF Fresh
    <3>3. QED
      BY <2>2, <3>1, <3>2 DEF AuthRead
  <2>3. ASSUME NEW b \in Request, AuthTake(r, b)
        PROVE  Kept
    <3>1. CASE Begin(r, Fresh("denied"))
      BY <1>1, <3>1 DEF Fresh
    <3>2. CASE ~Begin(r, Fresh("denied"))
      BY <1>1, <2>3, <3>2 DEF AuthTake, Fresh
    <3>3. QED
      BY <3>1, <3>2
  <2>4. ASSUME NEW b \in Request, NEW k \in Credential, RegTake(r, b, k)
        PROVE  Kept
    <3>1. CASE Begin(r, Fresh("denied"))
      BY <1>1, <3>1 DEF Fresh
    <3>2. CASE ~Begin(r, Fresh("denied"))
      BY <1>1, <2>4, <3>2 DEF RegTake, Fresh
    <3>3. QED
      BY <3>1, <3>2
  <2>5. QED
    BY <1>3, <2>1, <2>2, <2>3, <2>4 DEF Arrive
<1>4. ASSUME NEW r \in Request, Continue(r) \/ Fail(r)
      PROVE  Kept
  <2>1. CASE AuthLoad(r)
    BY <1>0, <2>1 DEF AuthLoad, Goto, RequestState
  <2>2. CASE RegPut(r) \/ AuthPut(r) \/ RegCommit(r)
    BY <1>2, <2>2 DEF RegPut, AuthPut, RegCommit
  <2>3. CASE RegFlush(r) \/ AuthClear(r) \/ AuthCommit(r)
    BY <1>2, <2>3 DEF RegFlush, AuthClear, AuthCommit
  <2>4. CASE RegCheck(r) \/ RegInsert(r) \/ Fail(r)
    BY <1>2, <2>4 DEF RegCheck, RegInsert, Fail
  <2>5. QED
    BY <1>4, <2>1, <2>2, <2>3, <2>4 DEF Continue
<1>5. ASSUME NEW r \in Request, Sign(r) \/ Expire(r) \/ Deactivate(r) \/ Flag(r)
      PROVE  Kept
  BY <1>5 DEF Sign, Expire, Deactivate, Flag
<1>6. QED
  BY <1>3, <1>4, <1>5 DEF Next, vars

LEMMA AnsweredStep ==
    ASSUME IInv, [Next]_vars
    PROVE  AnsweredStays
<1>1. CASE UNCHANGED req
  BY <1>1 DEF AnsweredStays
<1>2. ASSUME NEW r \in Request, Moves(r)
      PROVE  AnsweredStays
  BY <1>2 DEF Moves, AnsweredStays, Answered, Pending
<1>3. QED
  BY <1>1, <1>2, RequestCases

LEMMA UsedStep ==
    ASSUME IInv, [Next]_vars
    PROVE  UsedStays
<1>0. challenge \in [Request -> ChallengeEntry]
  BY DEF IInv, TypeOK
<1>1. CASE UNCHANGED challenge
  BY <1>1 DEF UsedStays
<1>2. ASSUME NEW c \in Request, Take(c) \/ Expire(c)
      PROVE  UsedStays
  BY <1>0, <1>2 DEF Take, Expire, UsedStays, ChallengeEntry
<1>3. ASSUME NEW r \in Request, Sign(r)
      PROVE  UsedStays
  BY <1>0, <1>3 DEF Sign, UsedStays, ChallengeEntry
<1>4. ASSUME NEW r \in Request, RegPut(r) \/ AuthPut(r)
      PROVE  UsedStays
  <2>1. challenge[r].status = "none"
    BY <1>4 DEF RegPut, AuthPut, IInv, StoredOnce
  <2>2. QED
    BY <1>0, <1>4, <2>1 DEF RegPut, AuthPut, Put, UsedStays
<1>5. QED
  BY <1>1, <1>2, <1>3, <1>4, ChallengeCases

LEMMA GrowStep ==
    ASSUME IInv, TypeOK', [Next]_vars
    PROVE  Grows
<1>1. users \subseteq users'
  BY DEF Next, Arrive, Continue, RegRead, AuthRead, AuthTake, RegTake, RegFlush, RegPut,
         RegCommit, AuthPut, AuthLoad, AuthClear, AuthCommit, RegCheck, RegInsert, Fail,
         Sign, Expire, Deactivate, Flag, vars
<1>2. \A d \in Request : Present(d) =>
         Present(d)' /\ device'[d].user = device[d].user /\ device'[d].cred = device[d].cred
  <2>1. CASE UNCHANGED device
    BY <2>1 DEF Present
  <2>2. ASSUME NEW r \in Request, AuthCommit(r)
        PROVE  \A d \in Request : Present(d) =>
         Present(d)' /\ device'[d].user = device[d].user /\ device'[d].cred = device[d].cred
    BY <2>2 DEF AuthCommit, Present, IInv, TypeOK, DeviceRow
  <2>3. ASSUME NEW r \in Request, RegInsert(r)
        PROVE  \A d \in Request : Present(d) =>
         Present(d)' /\ device'[d].user = device[d].user /\ device'[d].cred = device[d].cred
    <3>1. ~Present(r)
      BY <2>3 DEF IInv, DeviceHonest, RegInsert
    <3>2. QED
      BY <2>3, <3>1 DEF RegInsert, Present, IInv, TypeOK
  <2>4. ASSUME NEW r \in Request, Deactivate(r)
        PROVE  \A d \in Request : Present(d) =>
         Present(d)' /\ device'[d].user = device[d].user /\ device'[d].cred = device[d].cred
    BY <2>4 DEF Deactivate, Present, IInv, TypeOK, DeviceRow
  <2>5. QED
    BY <2>1, <2>2, <2>3, <2>4, DeviceCases
<1>3. \A k \in Credential : counter[k] <= counter'[k]
  <2>1. \A k \in Credential : counter[k] \in Nat
    BY DEF IInv, TypeOK
  <2>2. CASE UNCHANGED counter
    BY <2>1, <2>2
  <2>3. ASSUME NEW c \in Request, Sign(c)
        PROVE  \A k \in Credential : counter[k] <= counter'[k]
    BY <2>1, <2>3 DEF Sign, IInv, TypeOK
  <2>4. QED
    BY <2>2, <2>3, CounterCases
<1>4. QED
  BY <1>1, <1>2, <1>3 DEF Grows

----------------------------------------------------------------------------
(* The conjuncts of the invariant, one by one *)

LEMMA OneActiveStep ==
    ASSUME IInv, TypeOK', [Next]_vars
    PROVE  OneActiveDevice'
<1>0. OneActiveDevice /\ device \in [Request -> DeviceRow]
  BY DEF IInv, TypeOK
<1>1. CASE UNCHANGED device
  BY <1>0, <1>1 DEF OneActiveDevice
<1>2. ASSUME NEW r \in Request, AuthCommit(r)
      PROVE  OneActiveDevice'
  BY <1>0, <1>2 DEF AuthCommit, OneActiveDevice, DeviceRow
<1>3. ASSUME NEW r \in Request, RegInsert(r)
      PROVE  OneActiveDevice'
  BY <1>0, <1>3 DEF RegInsert, Insertable, ActiveDevices, OneActiveDevice
<1>4. ASSUME NEW r \in Request, Deactivate(r)
      PROVE  OneActiveDevice'
  BY <1>0, <1>4 DEF Deactivate, OneActiveDevice, DeviceRow
<1>5. QED
  BY <1>1, <1>2, <1>3, <1>4, DeviceCases

LEMMA CredentialsStep ==
    ASSUME IInv, TypeOK', [Next]_vars
    PROVE  CredentialsDiffer'
<1>0. CredentialsDiffer /\ device \in [Request -> DeviceRow]
  BY DEF IInv, TypeOK
<1>1. CASE UNCHANGED device
  BY <1>0, <1>1 DEF CredentialsDiffer, Present
<1>2. ASSUME NEW r \in Request, AuthCommit(r)
      PROVE  CredentialsDiffer'
  BY <1>0, <1>2 DEF AuthCommit, CredentialsDiffer, Present, DeviceRow
<1>3. ASSUME NEW r \in Request, RegInsert(r)
      PROVE  CredentialsDiffer'
  BY <1>0, <1>3 DEF RegInsert, Insertable, Registered, CredentialsDiffer, Present
<1>4. ASSUME NEW r \in Request, Deactivate(r)
      PROVE  CredentialsDiffer'
  BY <1>0, <1>4 DEF Deactivate, CredentialsDiffer, Present, DeviceRow
<1>5. QED
  BY <1>1, <1>2, <1>3, <1>4, DeviceCases

LEMMA UnregisteredStep ==
    ASSUME IInv, TypeOK', Grows, [Next]_vars
    PROVE  UnregisteredUnused'
<1>1. ASSUME NEW k \in Credential, Registered(k)
      PROVE  Registered(k)'
  BY <1>1 DEF Registered, Grows, Present
<1>2. CASE UNCHANGED counter
  BY <1>1, <1>2 DEF IInv, UnregisteredUnused
<1>3. ASSUME NEW c \in Request, Sign(c)
      PROVE  UnregisteredUnused'
  <2>1. Registered(device[challenge[c].dev].cred)
    BY <1>3 DEF Sign, IInv, ChallengeHonest, Present, Registered
  <2>2. \A k \in Credential : k # device[challenge[c].dev].cred => counter'[k] = counter[k]
    BY <1>3 DEF Sign, IInv, TypeOK
  <2>3. QED
    BY <1>1, <2>1, <2>2 DEF IInv, UnregisteredUnused
<1>4. QED
  BY <1>2, <1>3, CounterCases

LEMMA StoredOnceStep ==
    ASSUME IInv, TypeOK', AnsweredStays, [Next]_vars
    PROVE  StoredOnce'
<1>0. challenge \in [Request -> ChallengeEntry]
  BY DEF IInv, TypeOK
<1>1. \A c \in Request : req[c].pc \in {"store", "options", "lost"} =>
        req'[c].pc \in {"store", "options", "lost"}
  <2>1. CASE UNCHANGED req
    BY <2>1
  <2>2. ASSUME NEW r \in Request, Moves(r)
        PROVE  \A c \in Request : req[c].pc \in {"store", "options", "lost"} =>
                 req'[c].pc \in {"store", "options", "lost"}
    BY <2>2 DEF Moves, Pending
  <2>3. QED
    BY <2>1, <2>2, RequestCases
<1>2. ASSUME NEW r \in Request, RegPut(r) \/ AuthPut(r)
      PROVE  StoredOnce'
  <2>1. req'[r].pc \in {"store", "options"}
    <3>1. req \in [Request -> RequestState]
      BY DEF IInv, TypeOK
    <3>2. CASE RegPut(r)
      BY <3>1, <3>2 DEF RegPut, Goto
    <3>3. CASE AuthPut(r)
      BY <3>1, <3>3 DEF AuthPut, Goto
    <3>4. QED
      BY <1>2, <3>2, <3>3
  <2>2. /\ challenge'[r].status = "stored"
        /\ \A c \in Request : c # r => challenge'[c] = challenge[c]
    BY <1>0, <1>2 DEF RegPut, AuthPut, Put
  <2>3. QED
    BY <1>1, <2>1, <2>2 DEF IInv, StoredOnce
<1>3. ASSUME \A c \in Request :
               /\ challenge'[c].status = "none" <=> challenge[c].status = "none"
               /\ challenge'[c].purpose = challenge[c].purpose
      PROVE  StoredOnce'
  BY <1>1, <1>3 DEF IInv, StoredOnce
<1>4. ASSUME NEW c \in Request, challenge[c].status = "stored", Take(c) \/ Expire(c)
      PROVE  StoredOnce'
  BY <1>0, <1>3, <1>4 DEF Take, Expire, ChallengeEntry
<1>5. ASSUME NEW c \in Request, Sign(c)
      PROVE  StoredOnce'
  BY <1>0, <1>3, <1>5 DEF Sign, ChallengeEntry
<1>6. QED
  BY <1>2, <1>3, <1>4, <1>5, ChallengeCases

LEMMA SingleUseStep ==
    ASSUME IInv, [Next]_vars
    PROVE  ChallengeSingleUse'
<1>0. req \in [Request -> RequestState]
  BY DEF IInv, TypeOK
<1>1. ASSUME \A q \in Request : req'[q].chal \in {None, req[q].chal}
      PROVE  ChallengeSingleUse'
  BY <1>1 DEF IInv, ChallengeSingleUse
<1>2. ASSUME NEW r \in Request, NEW c \in Request, challenge[c].status = "stored",
             req'[r].chal \in {None, c}, \A q \in Request : q # r => req'[q] = req[q]
      PROVE  ChallengeSingleUse'
  <2>1. None \notin Request /\ \A q \in Request : req[q].chal # c
    BY <1>2, SetAssumption DEF IInv, RequestHonest
  <2>2. QED
    BY <1>2, <2>1 DEF IInv, ChallengeSingleUse
<1>3. ASSUME NEW r \in Request, NEW pc, Goto(r, pc)
      PROVE  ChallengeSingleUse'
  BY <1>0, <1>1, <1>3 DEF Goto, RequestState
<1>4. ASSUME NEW r \in Request, NEW state, Begin(r, state), state.chal = None
      PROVE  ChallengeSingleUse'
  BY <1>0, <1>1, <1>4 DEF Begin
<1>5. ASSUME NEW r \in Request, NEW c \in Request, AuthTake(r, c)
      PROVE  ChallengeSingleUse'
  <2>1. CASE challenge[c].status # "stored"
    BY <1>4, <1>5, <2>1 DEF AuthTake, Fresh
  <2>2. CASE challenge[c].status = "stored"
    <3>1. ASSUME NEW state, Begin(r, state), state.chal \in {None, c}
          PROVE  ChallengeSingleUse'
      BY <1>0, <1>2, <2>2, <3>1 DEF Begin
    <3>2. CASE challenge[c].purpose = "authentication"
      BY <1>5, <2>2, <3>1, <3>2 DEF AuthTake, Fresh
    <3>3. CASE challenge[c].purpose # "authentication"
      BY <1>5, <2>2, <3>1, <3>3 DEF AuthTake, Fresh
    <3>4. QED
      BY <3>2, <3>3
  <2>3. QED
    BY <2>1, <2>2
<1>6. ASSUME NEW r \in Request, NEW c \in Request, NEW k \in Credential, RegTake(r, c, k)
      PROVE  ChallengeSingleUse'
  <2>1. CASE challenge[c].status # "stored"
    BY <1>4, <1>6, <2>1 DEF RegTake, Fresh
  <2>2. CASE challenge[c].status = "stored"
    <3>1. ASSUME NEW state, Begin(r, state), state.chal \in {None, c}
          PROVE  ChallengeSingleUse'
      BY <1>0, <1>2, <2>2, <3>1 DEF Begin
    <3>2. CASE Begin(r, Fresh("denied"))
      BY <3>1, <3>2 DEF Fresh
    <3>3. CASE ~Begin(r, Fresh("denied"))
      BY <1>6, <2>2, <3>1, <3>3 DEF RegTake, Fresh
    <3>4. QED
      BY <3>2, <3>3
  <2>3. QED
    BY <2>1, <2>2
<1>7. ASSUME NEW r \in Request, NEW u \in User, RegRead(r, u) \/ AuthRead(r, u)
      PROVE  ChallengeSingleUse'
  <2>1. CASE RegRead(r, u)
    BY <1>4, <2>1 DEF RegRead, Fresh
  <2>2. CASE AuthRead(r, u)
    <3>1. CASE Begin(r, [Fresh("denied") EXCEPT !.user = u])
      BY <1>4, <3>1 DEF Fresh
    <3>2. CASE \E d \in ActiveDevices(u) :
                 Begin(r, [Fresh("aput") EXCEPT !.user = u, !.dev = d])
      BY <1>4, <3>2 DEF Fresh
    <3>3. QED
      BY <2>2, <3>1, <3>2 DEF AuthRead
  <2>3. QED
    BY <1>7, <2>1, <2>2
<1>8. ASSUME NEW r \in Request, AuthLoad(r)
      PROVE  ChallengeSingleUse'
  BY <1>0, <1>1, <1>3, <1>8 DEF AuthLoad, RequestState
<1>9. ASSUME NEW r \in Request, Continue(r) \/ Fail(r)
      PROVE  ChallengeSingleUse'
  BY <1>3, <1>8, <1>9 DEF Continue, Fail, RegFlush, RegPut, RegCommit, AuthPut,
                          AuthClear, AuthCommit, RegCheck, RegInsert
<1>10. CASE UNCHANGED req
  BY <1>1, <1>10
<1>11. QED
  BY <1>5, <1>6, <1>7, <1>9, <1>10 DEF Next, Arrive, Sign, Expire, Deactivate, Flag, vars

LEMMA AnswersStep ==
    ASSUME IInv, TypeOK', [Next]_vars
    PROVE  AnswersDiffer'
<1>0. AnswersDiffer /\ challenge \in [Request -> ChallengeEntry]
  BY DEF IInv, TypeOK
<1>1. CASE UNCHANGED challenge
  BY <1>0, <1>1 DEF AnswersDiffer
<1>2. ASSUME NEW c \in Request, Take(c) \/ Expire(c)
      PROVE  AnswersDiffer'
  BY <1>0, <1>2 DEF Take, Expire, AnswersDiffer, ChallengeEntry
<1>3. ASSUME NEW r \in Request, RegPut(r) \/ AuthPut(r)
      PROVE  AnswersDiffer'
  BY <1>0, <1>3 DEF RegPut, AuthPut, Put, AnswersDiffer, Unsigned
<1>4. ASSUME NEW c \in Request, Sign(c)
      PROVE  AnswersDiffer'
  <2>1. PICK s \in Nat : challenge' = [challenge EXCEPT ![c].sig = s]
                         /\ (s > 0 => s > counter[device[challenge[c].dev].cred])
    <3>1. counter[device[challenge[c].dev].cred] \in Nat
      BY <1>4 DEF Sign, IInv, TypeOK, ChallengeHonest, DeviceHonest
    <3>2. CASE device[challenge[c].dev].cred \in Counterless
      BY <1>4, <3>2 DEF Sign
    <3>3. CASE device[challenge[c].dev].cred \notin Counterless
      <4>1. /\ counter[device[challenge[c].dev].cred] + 1 \in Nat
            /\ counter[device[challenge[c].dev].cred] + 1
                 > counter[device[challenge[c].dev].cred]
        BY <3>1
      <4>2. challenge' = [challenge EXCEPT ![c].sig =
                            counter[device[challenge[c].dev].cred] + 1]
        BY <1>4, <3>3 DEF Sign
      <4>3. QED
        BY <4>1, <4>2
    <3>4. QED
      BY <3>2, <3>3
  <2>2. /\ challenge'[c].sig = s /\ challenge'[c].purpose = "authentication"
        /\ challenge'[c].dev = challenge[c].dev
        /\ \A b \in Request : b # c => challenge'[b] = challenge[b]
    BY <1>0, <1>4, <2>1 DEF ChallengeEntry, Sign
  <2>3. ASSUME NEW b \in Request, b # c, s > 0, challenge[b].purpose = "authentication",
               challenge[b].dev = challenge[c].dev
        PROVE  challenge[b].sig # s
    <3>1. challenge[b].sig <= counter[device[challenge[c].dev].cred]
      BY <2>3 DEF IInv, ChallengeHonest
    <3>2. counter[device[challenge[c].dev].cred] \in Nat
      BY <1>4 DEF Sign, IInv, TypeOK, ChallengeHonest, DeviceHonest
    <3>3. QED
      BY <2>1, <2>3, <3>1, <3>2 DEF Unsigned
  <2>4. QED
    BY <1>0, <2>2, <2>3 DEF AnswersDiffer
<1>5. QED
  BY <1>1, <1>2, <1>3, <1>4, ChallengeCases

LEMMA DeviceStep ==
    ASSUME IInv, TypeOK', Grows, AnsweredStays, [Next]_vars, NEW d \in Request
    PROVE  DeviceHonest(d)'
<1>0. device \in [Request -> DeviceRow] /\ req \in [Request -> RequestState] /\ DeviceHonest(d)
  BY DEF IInv, TypeOK
<1>1. CASE device'[d] = device[d]
  BY <1>1, DeviceFrame
<1>2. ASSUME NEW r \in Request, AuthCommit(r), device'[d] # device[d]
      PROVE  DeviceHonest(d)'
  <2>1. /\ d = req[r].dev /\ req[r].count # 0
        /\ device'[d] = [device[d] EXCEPT !.count = req[r].count]
    BY <1>0, <1>2 DEF AuthCommit
  <2>2. LET c == req[r].chal IN
        /\ c \in Request /\ challenge[c].purpose = "authentication"
        /\ challenge[c].dev = d /\ challenge[c].sig = req[r].count
    BY <1>0, <1>2, <2>1 DEF AuthCommit, IInv, RequestHonest, RequestState
  <2>3. Present(d) /\ req[r].count <= counter[device[d].cred]
    BY <2>2 DEF IInv, ChallengeHonest
  <2>4. req[d].pc = "registered" /\ req'[d] = req[d] /\ UNCHANGED counter
    BY <1>0, <1>2, <2>3 DEF DeviceHonest, AnsweredStays, Answered, AuthCommit
  <2>5. req'[r].pc = "loggedIn" /\ req'[r].dev = d /\ req'[r].count = req[r].count
    BY <1>0, <1>2, <2>1 DEF AuthCommit, Goto, RequestState
  <2>6. /\ device'[d].user = device[d].user /\ device'[d].cred = device[d].cred
        /\ device'[d].count = req[r].count
    BY <1>0, <2>1 DEF DeviceRow
  <2>7. QED
    BY <1>0, <2>3, <2>4, <2>5, <2>6 DEF DeviceHonest
<1>3. ASSUME NEW r \in Request, RegInsert(r), device'[d] # device[d]
      PROVE  DeviceHonest(d)'
  <2>1. /\ d = r /\ req[r].pc = "insert" /\ Insertable(req[r].user, req[r].cred)
        /\ device'[r] = [status |-> "active", user |-> req[r].user,
                         cred |-> req[r].cred, count |-> req[r].count]
        /\ req'[r].pc = "registered" /\ UNCHANGED counter
    <3>1. Insertable(req[r].user, req[r].cred)
      BY <1>3 DEF RegInsert
    <3>2. d = r
      BY <1>0, <1>3, <3>1 DEF RegInsert
    <3>3. req'[r].pc = "registered"
      BY <1>0, <1>3, <3>1 DEF RegInsert, Goto, RequestState
    <3>4. QED
      BY <1>0, <1>3, <3>1, <3>2, <3>3 DEF RegInsert
  <2>2. req[r].user \in User /\ req[r].cred \in Credential /\ req[r].count <= counter[req[r].cred]
    BY <2>1 DEF IInv, RequestHonest, TypeOK
  <2>3. counter[req[r].cred] = 0 /\ req[r].count \in Nat
    BY <1>0, <2>1, <2>2 DEF IInv, UnregisteredUnused, Insertable, RequestState
  <2>4. QED
    BY <2>1, <2>2, <2>3 DEF DeviceHonest
<1>4. ASSUME NEW r \in Request, Deactivate(r), device'[d] # device[d]
      PROVE  DeviceHonest(d)'
  <2>1. /\ d = r /\ device[d].status = "active" /\ UNCHANGED <<req, counter>>
        /\ device'[d].user = device[d].user /\ device'[d].cred = device[d].cred
        /\ device'[d].count = device[d].count
    BY <1>0, <1>4 DEF Deactivate, DeviceRow
  <2>2. QED
    BY <1>0, <2>1 DEF DeviceHonest, Present
<1>5. QED
  BY <1>1, <1>2, <1>3, <1>4, DeviceCases

LEMMA ChallengeStep ==
    ASSUME IInv, TypeOK', Grows, AnsweredStays, [Next]_vars, NEW c \in Request
    PROVE  ChallengeHonest(c)'
<1>0. /\ challenge \in [Request -> ChallengeEntry] /\ req \in [Request -> RequestState]
      /\ ChallengeHonest(c)
  BY DEF IInv, TypeOK
<1>1. ASSUME challenge'[c] = challenge[c],
             req'[c].pc = "options" => req[c].pc = "options",
             req'[c].pc = "store" => req'[c] = req[c]
      PROVE  ChallengeHonest(c)'
  BY <1>1, ChallengeFrame
<1>2. CASE RegPut(c)
  <2>1. /\ challenge'[c].purpose = "registration" /\ challenge'[c].sig = Unsigned
        /\ challenge'[c].user = req'[c].user /\ req'[c].pc = "store"
    BY <1>0, <1>2 DEF RegPut, Put, Goto, RequestState
  <2>2. QED
    BY <2>1 DEF ChallengeHonest
<1>3. CASE AuthPut(c)
  <2>1. /\ challenge'[c].purpose = "authentication" /\ challenge'[c].sig = Unsigned
        /\ challenge'[c].user = req[c].user /\ challenge'[c].dev = req[c].dev
        /\ UNCHANGED <<device, counter>>
    BY <1>0, <1>3 DEF AuthPut, Put
  <2>2. req[c].dev \in Request /\ Present(req[c].dev) /\ device[req[c].dev].user = req[c].user
    BY <1>3 DEF AuthPut, IInv, RequestHonest
  <2>3. counter[device[req[c].dev].cred] \in Nat
    BY <2>2 DEF IInv, DeviceHonest, TypeOK
  <2>4. QED
    BY <2>1, <2>2, <2>3 DEF ChallengeHonest, Present, Unsigned
<1>4. CASE RegCommit(c)
  <2>1. /\ req'[c].pc = "options" /\ req[c].pc = "store" /\ users' = users \cup {req[c].user}
        /\ UNCHANGED <<device, challenge, counter>>
    BY <1>0, <1>4 DEF RegCommit, Goto, RequestState
  <2>2. QED
    BY <1>0, <2>1 DEF ChallengeHonest, Present
<1>5. CASE Sign(c)
  <2>1. /\ challenge[c].purpose = "authentication"
        /\ challenge'[c].purpose = "authentication"
        /\ challenge'[c].dev = challenge[c].dev /\ challenge'[c].user = challenge[c].user
        /\ UNCHANGED <<device, req>>
    BY <1>0, <1>5 DEF Sign, ChallengeEntry
  <2>2. /\ challenge[c].dev \in Request /\ Present(challenge[c].dev)
        /\ device[challenge[c].dev].user = challenge[c].user
        /\ device[challenge[c].dev].cred \in Credential
    BY <1>0, <2>1 DEF ChallengeHonest, IInv, DeviceHonest
  <2>3. challenge'[c].sig <= counter'[device[challenge[c].dev].cred]
    <3>1. counter \in [Credential -> Nat]
      BY DEF IInv, TypeOK
    <3>2. CASE device[challenge[c].dev].cred \in Counterless
      BY <1>0, <1>5, <2>2, <3>1, <3>2 DEF Sign, ChallengeEntry
    <3>3. CASE device[challenge[c].dev].cred \notin Counterless
      BY <1>0, <1>5, <2>2, <3>1, <3>3 DEF Sign, ChallengeEntry
    <3>4. QED
      BY <3>2, <3>3
  <2>4. QED
    BY <2>1, <2>2, <2>3 DEF ChallengeHonest, Present
<1>6. ASSUME NEW b \in Request, challenge[b].status = "stored", Take(b) \/ Expire(b)
      PROVE  /\ challenge'[c].purpose = challenge[c].purpose
             /\ challenge'[c].dev = challenge[c].dev /\ challenge'[c].user = challenge[c].user
             /\ challenge'[c].sig = challenge[c].sig
  BY <1>0, <1>6 DEF Take, Expire, ChallengeEntry
<1>7. CASE ~(RegPut(c) \/ AuthPut(c) \/ RegCommit(c) \/ Sign(c))
  <2>1. /\ challenge'[c].purpose = challenge[c].purpose
        /\ challenge'[c].dev = challenge[c].dev /\ challenge'[c].user = challenge[c].user
        /\ challenge'[c].sig = challenge[c].sig
    <3>1. ASSUME NEW b \in Request, b # c, RegPut(b) \/ AuthPut(b) \/ Sign(b)
          PROVE  challenge'[c] = challenge[c]
      BY <1>0, <3>1 DEF RegPut, AuthPut, Put, Sign
    <3>2. QED
      BY <1>6, <1>7, <3>1, ChallengeCases
  <2>2. /\ req'[c].pc = "options" => req[c].pc = "options"
        /\ req'[c].pc = "store" => req'[c] = req[c]
    BY <1>7, PublishCases
  <2>3. QED
    BY <2>1, <2>2, ChallengeFrame
<1>8. QED
  BY <1>2, <1>3, <1>4, <1>5, <1>7

\* The challenge a request has consumed stays consumed.
LEMMA ChalFrame ==
    ASSUME IInv, UsedStays, AnsweredStays, NEW q \in Request, req'[q].chal = req[q].chal
    PROVE  req'[q].chal # None => /\ challenge'[req'[q].chal].status = "gone"
                                  /\ req'[req'[q].chal].pc = "options"
<1>1. SUFFICES ASSUME req[q].chal # None
               PROVE  /\ challenge'[req[q].chal].status = "gone"
                      /\ req'[req[q].chal].pc = "options"
  OBVIOUS
<1>2. /\ req[q].chal \in Request /\ challenge[req[q].chal].status = "gone"
      /\ req[req[q].chal].pc = "options"
  BY <1>1 DEF IInv, RequestHonest, TypeOK, RequestState
<1>3. QED
  BY <1>2 DEF UsedStays, AnsweredStays, Answered

LEMMA ArriveHonest ==
    ASSUME IInv, TypeOK', Grows, AnsweredStays, NEW r \in Request, Arrive(r)
    PROVE  RequestHonest(r)'
<1>0. /\ req \in [Request -> RequestState] /\ challenge \in [Request -> ChallengeEntry]
      /\ users \subseteq User /\ counter \in [Credential -> Nat]
  BY DEF IInv, TypeOK
<1>1. ASSUME NEW pc \in {"conflict", "denied"}, NEW u \in User \cup {None},
             Begin(r, [Fresh(pc) EXCEPT !.user = u])
      PROVE  RequestHonest(r)'
  BY <1>0, <1>1 DEF Begin, Fresh, RequestHonest
<1>2. ASSUME Begin(r, Fresh("denied"))
      PROVE  RequestHonest(r)'
  BY <1>0, <1>2 DEF Begin, Fresh, RequestHonest
<1>3. ASSUME NEW u \in User, RegRead(r, u)
      PROVE  RequestHonest(r)'
  <2>1. req'[r].user = u /\ req'[r].chal = None /\ req'[r].pc \in {"flush", "conflict", "put"}
    BY <1>0, <1>3 DEF RegRead, Begin, Fresh
  <2>2. QED
    BY <2>1 DEF RequestHonest
<1>4. ASSUME NEW u \in User, AuthRead(r, u)
      PROVE  RequestHonest(r)'
  <2>1. ASSUME NEW d \in ActiveDevices(u), Begin(r, [Fresh("aput") EXCEPT !.user = u, !.dev = d])
        PROVE  RequestHonest(r)'
    <3>1. /\ req'[r].user = u /\ req'[r].dev = d /\ req'[r].chal = None
          /\ req'[r].pc = "aput"
      BY <1>0, <2>1 DEF Begin, Fresh
    <3>2. d \in Request /\ device[d].user = u /\ Present(d) /\ UNCHANGED device
      BY <1>4 DEF ActiveDevices, Present, AuthRead
    <3>3. QED
      BY <3>1, <3>2 DEF RequestHonest, Present
  <2>2. QED
    BY <1>1, <1>4, <2>1 DEF AuthRead
<1>5. ASSUME NEW c \in Request, AuthTake(r, c)
      PROVE  RequestHonest(r)'
  <2>1. CASE Begin(r, Fresh("denied"))
    BY <1>2, <2>1
  <2>2. CASE ~Begin(r, Fresh("denied"))
    <3>1. /\ Begin(r, [Fresh("load") EXCEPT !.user = challenge[c].user,
                         !.dev = challenge[c].dev, !.chal = c])
          /\ Take(c) /\ challenge[c].purpose = "authentication" /\ Known(c)
      BY <1>5, <2>2 DEF AuthTake
    <3>2. /\ req'[r].user = challenge[c].user /\ req'[r].dev = challenge[c].dev
          /\ req'[r].chal = c /\ req'[r].pc = "load"
      BY <1>0, <3>1 DEF Begin, Fresh
    <3>3. /\ challenge'[c].status = "gone" /\ challenge'[c].purpose = "authentication"
          /\ challenge'[c].dev = challenge[c].dev /\ challenge'[c].user = challenge[c].user
      BY <1>0, <3>1 DEF Take, ChallengeEntry
    <3>4. req'[c].pc = "options" /\ c # None
      BY <3>1, SetAssumption DEF Known, AnsweredStays, Answered
    <3>5. QED
      BY <3>2, <3>3, <3>4 DEF RequestHonest
  <2>3. QED
    BY <2>1, <2>2
<1>6. ASSUME NEW c \in Request, NEW k \in Credential, RegTake(r, c, k)
      PROVE  RequestHonest(r)'
  <2>1. CASE Begin(r, Fresh("denied"))
    BY <1>2, <2>1
  <2>2. CASE ~Begin(r, Fresh("denied"))
    <3>1. /\ Begin(r, [Fresh("check") EXCEPT !.user = challenge[c].user,
                         !.chal = c, !.cred = k, !.count = counter[k]])
          /\ Take(c) /\ challenge[c].purpose = "registration" /\ Known(c)
          /\ UNCHANGED <<users, counter>>
      BY <1>6, <2>2 DEF RegTake
    <3>2. /\ req'[r].user = challenge[c].user /\ req'[r].cred = k
          /\ req'[r].count = counter[k] /\ req'[r].chal = c /\ req'[r].pc = "check"
      BY <1>0, <3>1 DEF Begin, Fresh
    <3>3. /\ challenge'[c].status = "gone" /\ challenge'[c].purpose = "registration"
          /\ challenge'[c].user = challenge[c].user
      BY <1>0, <3>1 DEF Take, ChallengeEntry
    <3>4. req'[c].pc = "options" /\ c # None
      BY <3>1, SetAssumption DEF Known, AnsweredStays, Answered
    <3>5. challenge[c].user \in users
      BY <3>1 DEF Known, IInv, ChallengeHonest
    <3>6. QED
      BY <1>0, <3>1, <3>2, <3>3, <3>4, <3>5 DEF RequestHonest
  <2>3. QED
    BY <2>1, <2>2
<1>7. QED
  BY <1>3, <1>4, <1>5, <1>6 DEF Arrive

LEMMA ContinueHonest ==
    ASSUME IInv, TypeOK', Grows, UsedStays, AnsweredStays,
           NEW r \in Request, Continue(r) \/ Fail(r)
    PROVE  RequestHonest(r)'
<1>0. req \in [Request -> RequestState] /\ RequestHonest(r)
  BY DEF IInv, TypeOK
<1>1. ASSUME NEW pc, Goto(r, pc)
      PROVE  /\ req'[r].pc = pc /\ req'[r].user = req[r].user /\ req'[r].dev = req[r].dev
             /\ req'[r].chal = req[r].chal /\ req'[r].cred = req[r].cred
             /\ req'[r].count = req[r].count
  BY <1>0, <1>1 DEF Goto, RequestState
\* Requests that are answered, except by a login.
<1>2. ASSUME NEW pc \in {"registered", "denied", "conflict", "lost"}, Goto(r, pc)
      PROVE  RequestHonest(r)'
  <2>1. req'[r].pc = pc /\ req'[r].chal = req[r].chal
    BY <1>1, <1>2
  <2>2. req'[r].chal # None => /\ challenge'[req'[r].chal].status = "gone"
                               /\ req'[req'[r].chal].pc = "options"
    BY <2>1, ChalFrame
  <2>3. QED
    BY <1>2, <2>1, <2>2 DEF RequestHonest
\* Options on their way.
<1>3. ASSUME NEW pc \in {"put", "store", "options"}, Goto(r, pc),
             pc # "options" => req[r].user \in User, req[r].chal = None
      PROVE  RequestHonest(r)'
  <2>1. req'[r].pc = pc /\ req'[r].chal = req[r].chal /\ req'[r].user = req[r].user
    BY <1>1, <1>3
  <2>2. req'[r].chal # None => /\ challenge'[req'[r].chal].status = "gone"
                               /\ req'[req'[r].chal].pc = "options"
    BY <2>1, ChalFrame
  <2>3. QED
    BY <1>3, <2>1, <2>2 DEF RequestHonest
\* Logins past the verification.
<1>4. ASSUME req[r].pc \in {"load", "clear", "commit"},
             req'[r].pc \in {"clear", "commit", "loggedIn"},
             req'[r].user = req[r].user, req'[r].dev = req[r].dev,
             req'[r].chal = req[r].chal, UNCHANGED challenge,
             challenge[req[r].chal].sig = req'[r].count
      PROVE  RequestHonest(r)'
  <2>1. req'[r].chal # None => /\ challenge'[req'[r].chal].status = "gone"
                               /\ req'[req'[r].chal].pc = "options"
    BY <1>4, ChalFrame
  <2>2. /\ req[r].chal # None /\ challenge[req[r].chal].purpose = "authentication"
        /\ challenge[req[r].chal].dev = req[r].dev /\ challenge[req[r].chal].user = req[r].user
    BY <1>0, <1>4 DEF RequestHonest
  <2>3. QED
    BY <1>4, <2>1, <2>2 DEF RequestHonest
<1>5. CASE RegFlush(r)
  BY <1>0, <1>2, <1>3, <1>5 DEF RegFlush, RequestHonest
<1>6. CASE RegPut(r)
  BY <1>0, <1>3, <1>6 DEF RegPut, RequestHonest
<1>7. CASE RegCommit(r) \/ AuthPut(r) \/ Fail(r)
  BY <1>0, <1>2, <1>3, <1>7 DEF RegCommit, AuthPut, Fail, RequestHonest
<1>8. CASE AuthLoad(r)
  <2>1. CASE Goto(r, "denied")
    BY <1>2, <2>1
  <2>2. CASE ~Goto(r, "denied")
    <3>1. req[r].pc = "load" /\ UNCHANGED challenge
          /\ req' = [req EXCEPT ![r].pc = "clear", ![r].count = challenge[req[r].chal].sig]
      BY <1>8, <2>2 DEF AuthLoad
    <3>2. /\ req'[r].pc = "clear" /\ req'[r].user = req[r].user /\ req'[r].dev = req[r].dev
          /\ req'[r].chal = req[r].chal /\ req'[r].count = challenge[req[r].chal].sig
      BY <1>0, <3>1 DEF RequestState
    <3>3. QED
      BY <1>4, <3>1, <3>2
  <2>3. QED
    BY <2>1, <2>2
<1>9. CASE AuthClear(r) \/ AuthCommit(r)
  <2>1. /\ req[r].pc \in {"clear", "commit"} /\ UNCHANGED challenge
        /\ req'[r].pc \in {"commit", "loggedIn"}
        /\ req'[r].user = req[r].user /\ req'[r].dev = req[r].dev
        /\ req'[r].chal = req[r].chal /\ req'[r].count = req[r].count
    BY <1>1, <1>9 DEF AuthClear, AuthCommit
  <2>2. challenge[req[r].chal].sig = req[r].count
    BY <1>0, <2>1 DEF RequestHonest
  <2>3. QED
    BY <1>4, <2>1, <2>2
<1>10. CASE RegCheck(r)
  <2>1. CASE Goto(r, "conflict")
    BY <1>2, <2>1
  <2>2. CASE Goto(r, "insert")
    <3>1. /\ req'[r].pc = "insert" /\ req'[r].user = req[r].user /\ req'[r].chal = req[r].chal
          /\ req'[r].cred = req[r].cred /\ req'[r].count = req[r].count
          /\ UNCHANGED <<users, counter>>
      BY <1>1, <1>10, <2>2 DEF RegCheck
    <3>2. req'[r].chal # None => /\ challenge'[req'[r].chal].status = "gone"
                                 /\ req'[req'[r].chal].pc = "options"
      BY <3>1, ChalFrame
    <3>3. /\ req[r].user \in users /\ req[r].cred \in Credential /\ req[r].count <= counter[req[r].cred]
          /\ req[r].chal # None /\ challenge[req[r].chal].purpose = "registration"
          /\ challenge[req[r].chal].user = req[r].user /\ UNCHANGED challenge
      BY <1>0, <1>10 DEF RegCheck, RequestHonest
    <3>4. QED
      BY <3>1, <3>2, <3>3 DEF RequestHonest
  <2>3. QED
    BY <1>10, <2>1, <2>2 DEF RegCheck
<1>11. CASE RegInsert(r)
  BY <1>2, <1>11 DEF RegInsert
<1>12. QED
  BY <1>5, <1>6, <1>7, <1>8, <1>9, <1>10, <1>11 DEF Continue

LEMMA RequestStep ==
    ASSUME IInv, TypeOK', Grows, UsedStays, AnsweredStays, [Next]_vars, NEW q \in Request
    PROVE  RequestHonest(q)'
<1>1. CASE req'[q] = req[q]
  BY <1>1, RequestFrame
<1>2. CASE Arrive(q)
  BY <1>2, ArriveHonest
<1>3. CASE Continue(q) \/ Fail(q)
  BY <1>3, ContinueHonest
<1>4. ASSUME req'[q] # req[q]
      PROVE  Arrive(q) \/ Continue(q) \/ Fail(q)
  BY <1>4, RequestCases DEF Moves
<1>5. QED
  BY <1>1, <1>2, <1>3, <1>4

----------------------------------------------------------------------------
(* The theorems *)

LEMMA Inductive == IInv /\ [Next]_vars => IInv'
<1> SUFFICES ASSUME IInv, [Next]_vars
             PROVE  IInv'
  OBVIOUS
<1>1. TypeOK'
  BY TypeStep
<1>2. Grows /\ UsedStays /\ AnsweredStays
  BY <1>1, GrowStep, UsedStep, AnsweredStep
<1>3. OneActiveDevice' /\ CredentialsDiffer'
  BY <1>1, OneActiveStep, CredentialsStep
<1>4. UnregisteredUnused' /\ StoredOnce'
  BY <1>1, <1>2, UnregisteredStep, StoredOnceStep
<1>5. ChallengeSingleUse' /\ AnswersDiffer'
  BY <1>1, SingleUseStep, AnswersStep
<1>6. \A r \in Request : DeviceHonest(r)' /\ ChallengeHonest(r)' /\ RequestHonest(r)'
  BY <1>1, <1>2, DeviceStep, ChallengeStep, RequestStep
<1>7. QED
  BY <1>1, <1>3, <1>4, <1>5, <1>6 DEF IInv

LEMMA Initial == Init => IInv
<1> SUFFICES ASSUME Init
             PROVE  IInv
  OBVIOUS
<1> DEFINE Holds(E, owner, cred) ==
      /\ \A r, q \in E : owner[r] = owner[q] \/ cred[r] = cred[q] => r = q
      /\ users = {owner[r] : r \in E}
      /\ device = [r \in Request |->
           IF r \in E
           THEN [status |-> "active", user |-> owner[r], cred |-> cred[r], count |-> 0]
           ELSE [status |-> "absent", user |-> None, cred |-> None, count |-> 0]]
      /\ req = [r \in Request |-> Fresh(IF r \in E THEN "registered"
                                       ELSE IF r \in Enrolled THEN "lost" ELSE "new")]
<1>0. PICK E \in SUBSET Enrolled :
        \E owner \in [E -> User], cred \in [E -> Credential] : Holds(E, owner, cred)
  BY DEF Init
<1>1. PICK owner \in [E -> User], cred \in [E -> Credential] : Holds(E, owner, cred)
  BY <1>0
<1>2. /\ challenge = [r \in Request |->
           [status |-> "none", purpose |-> "registration", user |-> None,
            dev |-> None, sig |-> Unsigned]]
      /\ counter = [k \in Credential |-> 0] /\ flagged = {}
  BY DEF Init
<1>3. E \subseteq Request
  BY SetAssumption
<1>4. TypeOK
  <2>1. users \subseteq User /\ device \in [Request -> DeviceRow]
    BY <1>1, <1>3 DEF DeviceRow
  <2>2. challenge \in [Request -> ChallengeEntry]
    BY <1>2 DEF ChallengeEntry, Unsigned
  <2>3. req \in [Request -> RequestState]
    BY <1>1 DEF Fresh, RequestState, Answered
  <2>4. QED
    BY <1>2, <2>1, <2>2, <2>3 DEF TypeOK
<1>5. OneActiveDevice /\ CredentialsDiffer
  BY <1>1 DEF OneActiveDevice, CredentialsDiffer, Present
<1>6. ChallengeSingleUse /\ \A r \in Request : RequestHonest(r)
  <2>1. \A r \in Request :
          req[r].chal = None /\ req[r].pc \in {"registered", "lost", "new"}
    BY <1>1 DEF Fresh
  <2>2. QED
    BY <2>1 DEF ChallengeSingleUse, RequestHonest
<1>7. UnregisteredUnused
  BY <1>2 DEF UnregisteredUnused
<1>8. StoredOnce /\ AnswersDiffer /\ \A c \in Request : ChallengeHonest(c)
  <2>1. \A c \in Request : /\ challenge[c].status = "none" /\ challenge[c].sig = Unsigned
                           /\ challenge[c].purpose = "registration"
                           /\ req[c].pc \in {"registered", "lost", "new"}
    BY <1>1, <1>2 DEF Fresh
  <2>2. QED
    BY <2>1 DEF StoredOnce, AnswersDiffer, ChallengeHonest
<1>9. \A d \in Request : DeviceHonest(d)
  <2>1. ASSUME NEW d \in Request, Present(d)
        PROVE  /\ req[d].pc = "registered" /\ device[d].user \in User
               /\ device[d].cred \in Credential /\ device[d].count = 0
    BY <1>1, <2>1 DEF Present, Fresh
  <2>2. QED
    BY <1>2, <2>1 DEF DeviceHonest
<1>10. QED
  BY <1>4, <1>5, <1>6, <1>7, <1>8, <1>9 DEF IInv

\* Every reachable state satisfies the inductive invariant.
THEOREM Invariance == Spec => []IInv
BY Initial, Inductive, PTL DEF Spec

\* The variables keep their types: in particular a row, a challenge and a
\* counter never mix their fields up, and the answers stay in their sets.
THEOREM Typing == Spec => []TypeOK
BY Invariance, PTL DEF IInv

\* A user never has two active devices, in however many registrations at once.
THEOREM SingleDevice == Spec => []OneActiveDevice
BY Invariance, PTL DEF IInv

\* However many requests present a challenge, one of them at most consumes it.
THEOREM SingleUse == Spec => []ChallengeSingleUse
BY Invariance, PTL DEF IInv

\* A login that passed the verification consumed a challenge made for its
\* device and its user, which the authenticator of that device has answered.
THEOREM ProvenLogins == Spec => []LoginProven
<1>1. ASSUME IInv
      PROVE  LoginProven
  <2>1. SUFFICES ASSUME NEW r \in Request, req[r].pc \in {"clear", "commit", "loggedIn"}
                 PROVE  LET c == challenge[req[r].chal] IN
                        /\ c.status = "gone" /\ c.purpose = "authentication"
                        /\ c.dev = req[r].dev /\ c.user = req[r].user
                        /\ c.sig = req[r].count /\ device[c.dev].user = c.user
    BY DEF LoginProven
  <2>2. LET c == challenge[req[r].chal] IN
        /\ req[r].chal # None /\ c.status = "gone" /\ c.purpose = "authentication"
        /\ c.dev = req[r].dev /\ c.user = req[r].user /\ c.sig = req[r].count
    BY <1>1, <2>1 DEF IInv, RequestHonest
  <2>3. req[r].chal \in Request
    BY <1>1, <2>2 DEF IInv, TypeOK, RequestState
  <2>4. QED
    BY <1>1, <2>2, <2>3 DEF IInv, ChallengeHonest
<1>2. QED
  BY <1>1, Invariance, PTL

\* A registration being verified has a committed owner, so that the foreign
\* key of its insert holds.
THEOREM CommittedOwners == Spec => []OwnerCommitted
<1>1. IInv => OwnerCommitted
  BY DEF IInv, RequestHonest, OwnerCommitted
<1>2. QED
  BY <1>1, Invariance, PTL

\* The newest answer of an authenticator passes the counter rule: the stored
\* counter could only reject it if another login had stored the same value,
\* and then that login would have consumed the same challenge.
THEOREM NoLockout == Spec => []NewestAnswerAccepted
<1>1. ASSUME IInv
      PROVE  NewestAnswerAccepted
  <2>1. SUFFICES ASSUME NEW r \in Request, req[r].pc = "load",
                        challenge[req[r].chal].sig # Unsigned,
                        challenge[req[r].chal].sig = counter[device[req[r].dev].cred]
                 PROVE  Accepted(challenge[req[r].chal].sig, device[req[r].dev].count)
    BY DEF NewestAnswerAccepted
  <2> DEFINE c == req[r].chal
             d == req[r].dev
  <2>2. /\ c \in Request /\ challenge[c].purpose = "authentication"
        /\ challenge[c].dev = d
    BY <1>1, <2>1 DEF IInv, RequestHonest, TypeOK, RequestState
  <2>3. d \in Request /\ Present(d)
    BY <1>1, <2>2 DEF IInv, ChallengeHonest
  <2>4. /\ device[d].count \in Nat /\ challenge[c].sig \in Nat
        /\ device[d].count <= challenge[c].sig
    <3>1. device[d].count <= counter[device[d].cred] /\ device[d].cred \in Credential
      BY <1>1, <2>3 DEF IInv, DeviceHonest
    <3>2. device[d].count \in Nat /\ counter[device[d].cred] \in Nat
      BY <1>1, <2>3, <3>1 DEF IInv, TypeOK, DeviceRow
    <3>3. QED
      BY <2>1, <3>1, <3>2
  <2>5. ASSUME device[d].count = challenge[c].sig, device[d].count > 0
        PROVE  FALSE
    <3>1. PICK q \in Request : /\ req[q].pc = "loggedIn" /\ req[q].dev = d
                               /\ req[q].count = device[d].count
      BY <1>1, <2>3, <2>5 DEF IInv, DeviceHonest
    <3>2. /\ req[q].chal \in Request /\ challenge[req[q].chal].purpose = "authentication"
          /\ challenge[req[q].chal].dev = d /\ challenge[req[q].chal].sig = req[q].count
      BY <1>1, <3>1 DEF IInv, RequestHonest, TypeOK, RequestState
    <3>3. req[q].chal = c
      BY <1>1, <2>2, <2>5, <3>1, <3>2 DEF IInv, AnswersDiffer
    <3>4. q = r
      BY <1>1, <2>2, <3>3, SetAssumption DEF IInv, ChallengeSingleUse
    <3>5. QED
      BY <2>1, <3>1, <3>4
  <2>6. QED
    BY <2>1, <2>4, <2>5 DEF Accepted
<1>2. QED
  BY <1>1, Invariance, PTL


----------------------------------------------------------------------------
(* The refinement of Ceremonies *)

\* What the ceremonies see of the state, and where two states look the same.
Phases == [r \in Request |-> PhaseSeen(req[r].pc, req[r].chal)]
Spent == [r \in Request |-> req[r].chal]
Devices == [d \in Request |-> DeviceSeen(device[d])]
Challenges == [c \in Request |-> ChallengeSeen(challenge[c])]
Approvals == {c \in Request : challenge[c].sig # Unsigned}

\* Only request r moves.
Alone(r) ==
    /\ req' \in [Request -> RequestState]
    /\ \A q \in Request : q # r => req'[q] = req[q]

LEMMA AloneStep ==
    ASSUME IInv, TypeOK', NEW r \in Request, Arrive(r) \/ Continue(r) \/ Fail(r)
    PROVE  Alone(r)
BY StepMoves DEF Moves, Alone, TypeOK

LEMMA BeginAlone ==
    ASSUME TypeOK, TypeOK', NEW r \in Request, NEW state, Begin(r, state)
    PROVE  Alone(r) /\ req[r].pc = "new" /\ req'[r] = state
BY DEF TypeOK, Begin, Alone

LEMMA GotoAlone ==
    ASSUME TypeOK, TypeOK', NEW r \in Request, NEW pc, Goto(r, pc)
    PROVE  /\ Alone(r) /\ req'[r].pc = pc /\ req'[r].chal = req[r].chal
           /\ req'[r].user = req[r].user /\ req'[r].dev = req[r].dev
           /\ req'[r].cred = req[r].cred /\ req'[r].count = req[r].count
BY DEF TypeOK, RequestState, Goto, Alone

LEMMA PhasesStep ==
    ASSUME NEW r \in Request, Alone(r),
           NEW ph, PhaseSeen(req'[r].pc, req'[r].chal) = ph
    PROVE  Phases' = [Phases EXCEPT ![r] = ph]
BY DEF Alone, Phases

LEMMA SpentStep ==
    ASSUME NEW r \in Request, Alone(r), NEW c, req'[r].chal = c
    PROVE  Spent' = [Spent EXCEPT ![r] = c]
BY DEF Alone, Spent

LEMMA SpentSame ==
    ASSUME NEW r \in Request, Alone(r), req'[r].chal = req[r].chal
    PROVE  Spent' = Spent
BY DEF Alone, Spent

LEMMA ChallengesSame ==
    ASSUME UNCHANGED challenge
    PROVE  Challenges' = Challenges /\ Approvals' = Approvals
BY DEF Challenges, Approvals

LEMMA DevicesSame ==
    ASSUME UNCHANGED device
    PROVE  Devices' = Devices
BY DEF Devices

\* A request that keeps its challenge and leaves the tables alone moves as
\* Move says.
LEMMA SeenMove ==
    ASSUME NEW r \in Request, Alone(r), UNCHANGED <<users, challenge>>, Devices' = Devices,
           req'[r].chal = req[r].chal, NEW from, NEW to,
           PhaseSeen(req[r].pc, req[r].chal) \in from,
           PhaseSeen(req'[r].pc, req'[r].chal) = to
    PROVE  Contract!Move(r, from, to)
<1>1. Phases' = [Phases EXCEPT ![r] = to]
  BY PhasesStep
<1>2. Spent' = Spent /\ Challenges' = Challenges /\ Approvals' = Approvals
  BY SpentSame, ChallengesSame
<1>3. QED
  BY <1>1, <1>2 DEF Contract!Move, Phases, Spent, Devices, Challenges, Approvals

\* One that keeps its phase too is not seen to move.
LEMMA SeenQuiet ==
    ASSUME NEW r \in Request, Alone(r), UNCHANGED <<users, challenge, device>>,
           req'[r].chal = req[r].chal,
           PhaseSeen(req'[r].pc, req'[r].chal) = PhaseSeen(req[r].pc, req[r].chal)
    PROVE  UNCHANGED Contract!vars
<1>1. Phases' = Phases
  BY DEF Alone, Phases
<1>2. Spent' = Spent /\ Challenges' = Challenges /\ Approvals' = Approvals
      /\ Devices' = Devices
  BY SpentSame, ChallengesSame, DevicesSame
<1>3. QED
  BY <1>1, <1>2 DEF Contract!vars, Phases, Spent, Devices, Challenges, Approvals

\* A request that arrives without a challenge of its own is not seen.
LEMMA BeginQuiet ==
    ASSUME IInv, TypeOK', NEW r \in Request, NEW state, Begin(r, state), state.chal = None,
           state.pc \in {"flush", "put", "aput", "denied", "conflict"},
           UNCHANGED <<users, challenge, device>>
    PROVE  UNCHANGED Contract!vars
<1>1. TypeOK /\ RequestHonest(r)
  BY DEF IInv
<1>2. Alone(r) /\ req[r].pc = "new" /\ req'[r] = state
  BY <1>1, BeginAlone
<1>3. req[r].chal = None
  BY <1>1, <1>2 DEF RequestHonest
<1>4. PhaseSeen(req'[r].pc, req'[r].chal) = PhaseSeen(req[r].pc, req[r].chal)
  BY <1>2, <1>3 DEF PhaseSeen
<1>5. QED
  BY <1>2, <1>3, <1>4, SeenQuiet

LEMMA OptionsReadRefines ==
    ASSUME IInv, TypeOK', NEW r \in Request, NEW u \in User, RegRead(r, u) \/ AuthRead(r, u)
    PROVE  UNCHANGED Contract!vars
<1>1. CASE RegRead(r, u)
  BY <1>1, BeginQuiet DEF RegRead, Fresh
<1>2. CASE AuthRead(r, u)
  <2>1. UNCHANGED <<users, challenge, device>>
    BY <1>2 DEF AuthRead
  <2>2. CASE Begin(r, [Fresh("denied") EXCEPT !.user = u])
    BY <2>1, <2>2, BeginQuiet DEF Fresh
  <2>3. ASSUME NEW d \in Request, Begin(r, [Fresh("aput") EXCEPT !.user = u, !.dev = d])
        PROVE  UNCHANGED Contract!vars
    BY <2>1, <2>3, BeginQuiet DEF Fresh
  <2>4. QED
    BY <1>2, <2>2, <2>3 DEF AuthRead, ActiveDevices
<1>3. QED
  BY <1>1, <1>2

\* GETDEL of a stored challenge.
LEMMA TakeSeen ==
    ASSUME TypeOK, NEW c \in Request, challenge[c].status = "stored", Take(c)
    PROVE  Approvals' = Approvals /\ Contract!Gone(c)
<1>1. /\ challenge \in [Request -> ChallengeEntry]
      /\ challenge' = [challenge EXCEPT ![c].status = "gone"]
  BY DEF TypeOK, Take
<1>2. /\ \A b \in Request : b # c => challenge'[b] = challenge[b]
      /\ challenge'[c].status = "gone"
      /\ challenge'[c].purpose = challenge[c].purpose /\ challenge'[c].sig = challenge[c].sig
      /\ challenge'[c].user = challenge[c].user /\ challenge'[c].dev = challenge[c].dev
  BY <1>1 DEF ChallengeEntry
<1>3. Approvals' = Approvals
  BY <1>2 DEF Approvals
<1>4. Challenges' = [Challenges EXCEPT ![c].status = "gone"]
  BY <1>2 DEF Challenges, ChallengeSeen
<1>5. Challenges[c].status = "stored"
  BY DEF Challenges, ChallengeSeen
<1>6. QED
  BY <1>3, <1>4, <1>5 DEF Contract!Gone, Challenges

\* A request that consumes a challenge and is turned away wastes it.
LEMMA TakeDenied ==
    ASSUME IInv, TypeOK', NEW r \in Request, NEW c \in Request,
           challenge[c].status = "stored", Take(c), Begin(r, Fresh("denied")),
           UNCHANGED <<users, device>>
    PROVE  Contract!Waste(c)
<1>1. TypeOK /\ RequestHonest(r)
  BY DEF IInv
<1>2. Alone(r) /\ req[r].pc = "new" /\ req'[r] = Fresh("denied")
  BY <1>1, BeginAlone
<1>3. req[r].chal = None /\ req'[r].pc = "denied" /\ req'[r].chal = None
  BY <1>1, <1>2 DEF RequestHonest, Fresh
<1>4. PhaseSeen(req'[r].pc, req'[r].chal) = PhaseSeen(req[r].pc, req[r].chal)
  BY <1>2, <1>3 DEF PhaseSeen
<1>5. Phases' = Phases /\ Spent' = Spent
  BY <1>2, <1>3, <1>4 DEF Alone, Phases, Spent
<1>6. Approvals' = Approvals /\ Contract!Gone(c) /\ Devices' = Devices
  BY <1>1, TakeSeen, DevicesSame
<1>7. QED
  BY <1>5, <1>6 DEF Contract!Waste, Phases, Spent, Approvals, Devices

\* One that can go on spends it.
LEMMA TakeSpends ==
    ASSUME IInv, TypeOK', NEW r \in Request, NEW c \in Request,
           challenge[c].status = "stored", Take(c),
           NEW state, Begin(r, state), state.chal = c,
           state.pc = IF challenge[c].purpose = "authentication" THEN "load" ELSE "check",
           UNCHANGED <<users, device>>
    PROVE  Contract!Spend(r, c)
<1>1. TypeOK /\ RequestHonest(r)
  BY DEF IInv
<1>2. Alone(r) /\ req[r].pc = "new" /\ req'[r] = state
  BY <1>1, BeginAlone
<1>3. Phases[r] = "idle"
  BY <1>1, <1>2 DEF RequestHonest, PhaseSeen, Phases
<1>4. PhaseSeen(req'[r].pc, req'[r].chal)
        = IF challenge[c].purpose = "authentication" THEN "proving" ELSE "adding"
  BY <1>2 DEF PhaseSeen
<1>5. Phases' = [Phases EXCEPT ![r] =
         IF Challenges[c].purpose = "authentication" THEN "proving" ELSE "adding"]
  BY <1>2, <1>4, PhasesStep DEF Challenges, ChallengeSeen
<1>6. Spent' = [Spent EXCEPT ![r] = c]
  BY <1>2, SpentStep
<1>7. Approvals' = Approvals /\ Contract!Gone(c) /\ Devices' = Devices
  BY <1>1, TakeSeen, DevicesSame
<1>8. QED
  BY <1>3, <1>5, <1>6, <1>7
  DEF Contract!Spend, Phases, Spent, Approvals, Devices, Challenges

LEMMA AuthTakeRefines ==
    ASSUME IInv, TypeOK', NEW r \in Request, NEW c \in Request, AuthTake(r, c)
    PROVE  Contract!Next \/ UNCHANGED Contract!vars
<1>1. UNCHANGED <<users, device>>
  BY DEF AuthTake
<1>2. CASE challenge[c].status # "stored"
  BY <1>1, <1>2, BeginQuiet DEF AuthTake, Fresh
<1>3. CASE challenge[c].status = "stored" /\ challenge[c].purpose = "authentication"
  <2>1. Take(c) /\ Begin(r, [Fresh("load") EXCEPT !.user = challenge[c].user,
                                !.dev = challenge[c].dev, !.chal = c])
    BY <1>3 DEF AuthTake
  <2>2. Contract!Spend(r, c)
    BY <1>1, <1>3, <2>1, TakeSpends DEF Fresh
  <2>3. QED
    BY <2>2 DEF Contract!Next
<1>4. CASE challenge[c].status = "stored" /\ challenge[c].purpose # "authentication"
  <2>1. Take(c) /\ Begin(r, Fresh("denied"))
    BY <1>4 DEF AuthTake
  <2>2. Contract!Waste(c)
    BY <1>1, <1>4, <2>1, TakeDenied
  <2>3. QED
    BY <2>2 DEF Contract!Next
<1>5. QED
  BY <1>2, <1>3, <1>4

LEMMA RegTakeRefines ==
    ASSUME IInv, TypeOK', NEW r \in Request, NEW c \in Request, NEW k \in Credential,
           RegTake(r, c, k)
    PROVE  Contract!Next \/ UNCHANGED Contract!vars
<1>1. UNCHANGED <<users, device>>
  BY DEF RegTake
<1>2. CASE challenge[c].status # "stored"
  BY <1>1, <1>2, BeginQuiet DEF RegTake, Fresh
<1>3. CASE challenge[c].status = "stored" /\ Begin(r, Fresh("denied"))
  <2>1. Take(c)
    BY <1>3 DEF RegTake
  <2>2. Contract!Waste(c)
    BY <1>1, <1>3, <2>1, TakeDenied
  <2>3. QED
    BY <2>2 DEF Contract!Next
<1>4. CASE challenge[c].status = "stored" /\ ~Begin(r, Fresh("denied"))
  <2>1. /\ Take(c) /\ challenge[c].purpose = "registration"
        /\ Begin(r, [Fresh("check") EXCEPT !.user = challenge[c].user,
                       !.chal = c, !.cred = k, !.count = counter[k]])
    BY <1>4 DEF RegTake
  <2>2. Contract!Spend(r, c)
    BY <1>1, <1>4, <2>1, TakeSpends DEF Fresh
  <2>3. QED
    BY <2>2 DEF Contract!Next
<1>5. QED
  BY <1>2, <1>3, <1>4

\* A step of a request that spends nothing and has spent nothing.
LEMMA OptionsQuiet ==
    ASSUME IInv, TypeOK', NEW r \in Request, req[r].chal = None,
           NEW pc \in {"put", "store", "options", "lost"}, Goto(r, pc),
           req[r].pc \in {"flush", "put", "store", "aput"}
    PROVE  Phases' = Phases /\ Spent' = Spent
<1>1. Alone(r) /\ req'[r].pc = pc /\ req'[r].chal = None
  BY GotoAlone DEF IInv
<1>2. PhaseSeen(req'[r].pc, req'[r].chal) = PhaseSeen(req[r].pc, req[r].chal)
  BY <1>1 DEF PhaseSeen
<1>3. QED
  BY <1>1, <1>2 DEF Alone, Phases, Spent

LEMMA RegFlushRefines ==
    ASSUME IInv, TypeOK', NEW r \in Request, RegFlush(r)
    PROVE  UNCHANGED Contract!vars
<1>1. req[r].chal = None
  BY DEF IInv, RequestHonest, RegFlush
<1>2. Phases' = Phases /\ Spent' = Spent
  BY <1>1, OptionsQuiet DEF RegFlush
<1>3. QED
  BY <1>2, ChallengesSame, DevicesSame
  DEF RegFlush, Contract!vars, Phases, Spent, Challenges, Approvals, Devices

\* A challenge is stored for the first time.
LEMMA PutSeen ==
    ASSUME TypeOK, NEW r \in Request, NEW purpose, NEW d, Put(r, purpose, d),
           challenge[r].status = "none", challenge[r].sig = Unsigned
    PROVE  /\ Approvals' = Approvals
           /\ Challenges' = [Challenges EXCEPT ![r] =
                [status |-> "stored", purpose |-> purpose, user |-> req[r].user, dev |-> d]]
           /\ Challenges[r].status = "none"
<1>1. /\ challenge \in [Request -> ChallengeEntry]
      /\ challenge' = [challenge EXCEPT ![r] =
           [status |-> "stored", purpose |-> purpose, user |-> req[r].user,
            dev |-> d, sig |-> Unsigned]]
  BY DEF TypeOK, Put
<1>2. Approvals' = Approvals
  BY <1>1 DEF Approvals
<1>3. Challenges' = [Challenges EXCEPT ![r] =
        [status |-> "stored", purpose |-> purpose, user |-> req[r].user, dev |-> d]]
  BY <1>1 DEF Challenges, ChallengeSeen
<1>4. QED
  BY <1>2, <1>3 DEF Challenges, ChallengeSeen

LEMMA RegPutRefines ==
    ASSUME IInv, TypeOK', NEW r \in Request, RegPut(r)
    PROVE  Contract!Next
<1>1. TypeOK /\ req[r].chal = None /\ req[r].user \in User
  BY DEF IInv, RequestHonest, RegPut
<1>2. challenge[r].status = "none" /\ challenge[r].sig = Unsigned
  BY DEF IInv, StoredOnce, ChallengeHonest, RegPut
<1>3. Phases' = Phases /\ Spent' = Spent /\ Devices' = Devices
  BY <1>1, OptionsQuiet, DevicesSame DEF RegPut
<1>4. PICK u \in User : req[r].user = u
  BY <1>1
<1>5. /\ Approvals' = Approvals /\ Challenges[r].status = "none"
      /\ Challenges' = [Challenges EXCEPT ![r] =
           [status |-> "stored", purpose |-> "registration", user |-> u, dev |-> None]]
  BY <1>1, <1>2, <1>4, PutSeen DEF RegPut
<1>6. Contract!OfferRegistration(r, u)
  BY <1>3, <1>5
  DEF RegPut, Contract!OfferRegistration, Contract!Offer, Phases, Spent, Approvals,
      Devices, Challenges
<1>7. QED
  BY <1>6 DEF Contract!Next

LEMMA AuthPutRefines ==
    ASSUME IInv, TypeOK', NEW r \in Request, AuthPut(r)
    PROVE  Contract!Next
<1>1. /\ TypeOK /\ req[r].chal = None /\ req[r].dev \in Request
      /\ Present(req[r].dev) /\ device[req[r].dev].user = req[r].user
  BY DEF IInv, RequestHonest, AuthPut
<1>2. challenge[r].status = "none" /\ challenge[r].sig = Unsigned
  BY DEF IInv, StoredOnce, ChallengeHonest, AuthPut
<1>3. Phases' = Phases /\ Spent' = Spent /\ Devices' = Devices
  BY <1>1, OptionsQuiet, DevicesSame DEF AuthPut
<1>4. PICK d \in Request : req[r].dev = d
  BY <1>1
<1>5. Devices[d].status # "absent" /\ Devices[d].user = req[r].user
  BY <1>1, <1>4 DEF Devices, DeviceSeen, Present
<1>6. /\ Approvals' = Approvals /\ Challenges[r].status = "none"
      /\ Challenges' = [Challenges EXCEPT ![r] =
           [status |-> "stored", purpose |-> "authentication", user |-> Devices[d].user,
            dev |-> d]]
  BY <1>1, <1>2, <1>4, <1>5, PutSeen DEF AuthPut
<1>7. Contract!OfferLogin(r, d)
  BY <1>3, <1>5, <1>6
  DEF AuthPut, Contract!OfferLogin, Contract!Offer, Phases, Spent, Approvals,
      Devices, Challenges
<1>8. QED
  BY <1>7 DEF Contract!Next

LEMMA RegCommitRefines ==
    ASSUME IInv, TypeOK', NEW r \in Request, RegCommit(r)
    PROVE  Contract!Next
<1>1. req[r].chal = None /\ req[r].user \in User
  BY DEF IInv, RequestHonest, RegCommit
<1>2. Phases' = Phases /\ Spent' = Spent /\ Devices' = Devices
      /\ Challenges' = Challenges /\ Approvals' = Approvals
  BY <1>1, OptionsQuiet, DevicesSame, ChallengesSame DEF RegCommit
<1>3. Contract!OpenAccount(req[r].user)
  BY <1>2
  DEF RegCommit, Contract!OpenAccount, Phases, Spent, Approvals, Devices, Challenges
<1>4. QED
  BY <1>1, <1>3 DEF Contract!Next

LEMMA AuthLoadRefines ==
    ASSUME IInv, TypeOK', NEW r \in Request, AuthLoad(r)
    PROVE  Contract!Next
<1>1. /\ req[r].pc = "load" /\ UNCHANGED <<users, challenge, device>>
      /\ req[r].chal \in Request /\ challenge[req[r].chal].dev = req[r].dev
      /\ req[r].dev \in Request
  <2>1. req[r].pc = "load" /\ UNCHANGED <<users, challenge, device>>
    BY DEF AuthLoad
  <2>2. /\ req[r].chal \in Request /\ challenge[req[r].chal].dev = req[r].dev
        /\ challenge[req[r].chal].purpose = "authentication"
    BY <2>1 DEF IInv, RequestHonest, TypeOK, RequestState
  <2>3. QED
    BY <2>1, <2>2 DEF IInv, ChallengeHonest
<1>2. Devices' = Devices /\ PhaseSeen(req[r].pc, req[r].chal) = "proving"
  BY <1>1, DevicesSame DEF PhaseSeen
<1>3. CASE Goto(r, "denied")
  <2>1. Alone(r) /\ req'[r].pc = "denied" /\ req'[r].chal = req[r].chal
    BY <1>3, GotoAlone DEF IInv
  <2>2. PhaseSeen(req'[r].pc, req'[r].chal) = "over"
    BY <1>1, <2>1, SetAssumption DEF PhaseSeen
  <2>3. Contract!GiveUp(r)
    BY <1>1, <1>2, <2>1, <2>2, SeenMove DEF Contract!GiveUp
  <2>4. QED
    BY <2>3 DEF Contract!Next
<1>4. CASE ~Goto(r, "denied")
  <2>1. /\ device[req[r].dev].status = "active" /\ challenge[req[r].chal].sig # Unsigned
        /\ req' = [req EXCEPT ![r].pc = "clear", ![r].count = challenge[req[r].chal].sig]
    BY <1>4 DEF AuthLoad, Accepted
  <2>2. Alone(r)
    BY AloneStep DEF Continue
  <2>3. req'[r].pc = "clear" /\ req'[r].chal = req[r].chal
    BY <2>1 DEF IInv, TypeOK, RequestState
  <2>4. PhaseSeen(req'[r].pc, req'[r].chal) = "proven"
    BY <2>3 DEF PhaseSeen
  <2>5. Contract!Move(r, {"proving"}, "proven")
    BY <1>1, <1>2, <2>2, <2>3, <2>4, SeenMove
  <2>6. Spent[r] = req[r].chal /\ Spent[r] \in Approvals
    BY <1>1, <2>1 DEF Spent, Approvals
  <2>7. Devices[Challenges[Spent[r]].dev].status = "active"
    BY <1>1, <2>1, <2>6 DEF Devices, DeviceSeen, Challenges, ChallengeSeen
  <2>8. Contract!Prove(r)
    BY <2>5, <2>6, <2>7 DEF Contract!Prove, Spent, Approvals, Devices, Challenges
  <2>9. QED
    BY <2>8 DEF Contract!Next
<1>5. QED
  BY <1>3, <1>4

LEMMA AuthClearRefines ==
    ASSUME IInv, TypeOK', NEW r \in Request, AuthClear(r)
    PROVE  UNCHANGED Contract!vars
<1>1. /\ Alone(r) /\ req[r].pc = "clear" /\ req'[r].pc = "commit"
      /\ req'[r].chal = req[r].chal /\ UNCHANGED <<users, challenge, device>>
  BY GotoAlone DEF AuthClear, IInv
<1>2. PhaseSeen(req'[r].pc, req'[r].chal) = PhaseSeen(req[r].pc, req[r].chal)
  BY <1>1 DEF PhaseSeen
<1>3. QED
  BY <1>1, <1>2, SeenQuiet

\* The counter is nothing the ceremonies see.
LEMMA AuthCommitRefines ==
    ASSUME IInv, TypeOK', NEW r \in Request, AuthCommit(r)
    PROVE  Contract!Next
<1>1. /\ Alone(r) /\ req[r].pc = "commit" /\ req'[r].pc = "loggedIn"
      /\ req'[r].chal = req[r].chal /\ UNCHANGED <<users, challenge>>
  BY GotoAlone DEF AuthCommit, IInv
<1>2. \A d \in Request : DeviceSeen(device'[d]) = DeviceSeen(device[d])
  BY DEF AuthCommit, IInv, TypeOK, DeviceRow, DeviceSeen
<1>3. Devices' = Devices
  BY <1>2 DEF Devices
<1>4. /\ PhaseSeen(req[r].pc, req[r].chal) = "proven"
      /\ PhaseSeen(req'[r].pc, req'[r].chal) = "loggedIn"
  BY <1>1 DEF PhaseSeen
<1>5. Contract!LogIn(r)
  BY <1>1, <1>3, <1>4, SeenMove DEF Contract!LogIn
<1>6. QED
  BY <1>5 DEF Contract!Next

\* A registration that is turned away gives up.
LEMMA AddingGivesUp ==
    ASSUME IInv, TypeOK', NEW r \in Request, req[r].pc \in {"check", "insert"},
           Goto(r, "conflict"), UNCHANGED <<users, challenge, device>>
    PROVE  Contract!Next
<1>1. Alone(r) /\ req'[r].pc = "conflict" /\ req'[r].chal = req[r].chal
  BY GotoAlone DEF IInv
<1>2. req[r].chal # None
  BY DEF IInv, RequestHonest
<1>3. /\ PhaseSeen(req[r].pc, req[r].chal) = "adding"
      /\ PhaseSeen(req'[r].pc, req'[r].chal) = "over"
  BY <1>1, <1>2 DEF PhaseSeen
<1>4. Contract!GiveUp(r)
  BY <1>1, <1>3, SeenMove, DevicesSame DEF Contract!GiveUp
<1>5. QED
  BY <1>4 DEF Contract!Next

LEMMA RegCheckRefines ==
    ASSUME IInv, TypeOK', NEW r \in Request, RegCheck(r)
    PROVE  Contract!Next \/ UNCHANGED Contract!vars
<1>1. req[r].pc = "check" /\ UNCHANGED <<users, challenge, device>>
  BY DEF RegCheck
<1>2. CASE Goto(r, "conflict")
  BY <1>1, <1>2, AddingGivesUp
<1>3. CASE Goto(r, "insert")
  <2>1. Alone(r) /\ req'[r].pc = "insert" /\ req'[r].chal = req[r].chal
    BY <1>3, GotoAlone DEF IInv
  <2>2. PhaseSeen(req'[r].pc, req'[r].chal) = PhaseSeen(req[r].pc, req[r].chal)
    BY <1>1, <2>1 DEF PhaseSeen
  <2>3. QED
    BY <1>1, <2>1, <2>2, SeenQuiet
<1>4. QED
  BY <1>2, <1>3 DEF RegCheck

LEMMA RegInsertRefines ==
    ASSUME IInv, TypeOK', NEW r \in Request, RegInsert(r)
    PROVE  Contract!Next
<1>1. CASE ~Insertable(req[r].user, req[r].cred)
  BY <1>1, AddingGivesUp DEF RegInsert
<1>2. CASE Insertable(req[r].user, req[r].cred)
  <2>1. /\ Alone(r) /\ req[r].pc = "insert" /\ req'[r].pc = "registered"
        /\ req'[r].chal = req[r].chal /\ UNCHANGED <<users, challenge>>
    BY <1>2, GotoAlone DEF RegInsert, IInv
  <2>2. /\ req[r].chal \in Request /\ req[r].cred \in Credential
        /\ challenge[req[r].chal].user = req[r].user
    BY <2>1 DEF IInv, RequestHonest, TypeOK, RequestState
  <2>3. PICK u \in User \cup {None}, k \in Credential : req[r].user = u /\ req[r].cred = k
    BY <2>2 DEF IInv, TypeOK, RequestState
  <2>4. Devices' = [Devices EXCEPT ![r] = [status |-> "active", user |-> u, cred |-> k]]
    <3>1. device \in [Request -> DeviceRow]
      BY DEF IInv, TypeOK
    <3>2. device' = [device EXCEPT ![r] =
                       [status |-> "active", user |-> u, cred |-> k, count |-> req[r].count]]
      BY <1>2, <2>3 DEF RegInsert
    <3>3. QED
      BY <3>1, <3>2 DEF Devices, DeviceSeen
  <2>5. /\ u \in users
        /\ {d \in Request : Devices[d].status = "active" /\ Devices[d].user = u} = {}
        /\ \A d \in Request : Devices[d].status = "absent" \/ Devices[d].cred # k
    BY <1>2, <2>3 DEF Insertable, ActiveDevices, Registered, Devices, DeviceSeen
  <2>6. Phases[r] = "adding" /\ Phases' = [Phases EXCEPT ![r] = "added"]
    <3>1. PhaseSeen(req[r].pc, req[r].chal) = "adding"
          /\ PhaseSeen(req'[r].pc, req'[r].chal) = "added"
      BY <2>1 DEF PhaseSeen
    <3>2. QED
      BY <2>1, <3>1, PhasesStep DEF Phases
  <2>7. Challenges[Spent[r]].user = u
    BY <2>2, <2>3 DEF Challenges, ChallengeSeen, Spent
  <2>8. Spent' = Spent /\ Challenges' = Challenges /\ Approvals' = Approvals
    BY <2>1, SpentSame, ChallengesSame
  <2>9. Contract!AddDevice(r, k)
    BY <2>1, <2>4, <2>5, <2>6, <2>7, <2>8
    DEF Contract!AddDevice, Contract!InUse, Contract!Added, Phases, Spent, Approvals,
        Devices, Challenges
  <2>10. QED
    BY <2>3, <2>9 DEF Contract!Next
<1>3. QED
  BY <1>1, <1>2

LEMMA FailRefines ==
    ASSUME IInv, TypeOK', NEW r \in Request, Fail(r)
    PROVE  Contract!Next \/ UNCHANGED Contract!vars
<1>1. /\ Alone(r) /\ req[r].pc \in Pending /\ req'[r].pc = "lost"
      /\ req'[r].chal = req[r].chal /\ UNCHANGED <<users, challenge, device>>
  BY GotoAlone DEF Fail, IInv
<1>2. RequestHonest(r)
  BY DEF IInv
<1>3. CASE req[r].pc \in {"flush", "put", "store", "aput"}
  <2>1. PhaseSeen(req'[r].pc, req'[r].chal) = PhaseSeen(req[r].pc, req[r].chal)
    BY <1>1, <1>2, <1>3 DEF PhaseSeen, RequestHonest
  <2>2. QED
    BY <1>1, <2>1, SeenQuiet
<1>4. CASE req[r].pc \in {"load", "clear", "commit", "check", "insert"}
  <2>1. req[r].chal # None
    BY <1>2, <1>4 DEF RequestHonest
  <2>2. /\ PhaseSeen(req[r].pc, req[r].chal) \in {"proving", "proven", "adding"}
        /\ PhaseSeen(req'[r].pc, req'[r].chal) = "over"
    BY <1>1, <1>4, <2>1 DEF PhaseSeen
  <2>3. Contract!GiveUp(r)
    BY <1>1, <2>2, SeenMove, DevicesSame DEF Contract!GiveUp
  <2>4. QED
    BY <2>3 DEF Contract!Next
<1>5. QED
  BY <1>1, <1>3, <1>4 DEF Pending

LEMMA SignRefines ==
    ASSUME IInv, NEW c \in Request, Sign(c)
    PROVE  Contract!Next
<1>1. /\ challenge \in [Request -> ChallengeEntry] /\ counter \in [Credential -> Nat]
      /\ challenge[c].purpose = "authentication" /\ UNCHANGED <<users, device, req>>
      /\ device[challenge[c].dev].cred \in Credential
  BY DEF Sign, IInv, TypeOK, ChallengeHonest, DeviceHonest
<1>2. PICK s \in Nat : challenge' = [challenge EXCEPT ![c].sig = s]
  <2>1. counter[device[challenge[c].dev].cred] + 1 \in Nat
    BY <1>1
  <2>2. CASE device[challenge[c].dev].cred \in Counterless
    BY <2>2 DEF Sign
  <2>3. CASE device[challenge[c].dev].cred \notin Counterless
    BY <2>1, <2>3 DEF Sign
  <2>4. QED
    BY <2>2, <2>3
<1>3. Approvals' = Approvals \cup {c}
  <2>1. challenge'[c].sig = s /\ s # Unsigned
    BY <1>1, <1>2 DEF ChallengeEntry, Unsigned
  <2>2. \A b \in Request : b # c => challenge'[b] = challenge[b]
    BY <1>1, <1>2
  <2>3. QED
    BY <2>1, <2>2 DEF Approvals
<1>4. Challenges' = Challenges /\ Challenges[c].purpose = "authentication"
  BY <1>1, <1>2 DEF Challenges, ChallengeSeen, ChallengeEntry
<1>5. Phases' = Phases /\ Spent' = Spent /\ Devices' = Devices
  BY <1>1 DEF Phases, Spent, Devices
<1>6. Contract!Approve(c)
  BY <1>1, <1>3, <1>4, <1>5
  DEF Contract!Approve, Phases, Spent, Approvals, Devices, Challenges
<1>7. QED
  BY <1>6 DEF Contract!Next

LEMMA ExpireRefines ==
    ASSUME IInv, NEW c \in Request, Expire(c)
    PROVE  Contract!Next
<1>1. /\ TypeOK /\ challenge[c].status = "stored" /\ Take(c)
      /\ UNCHANGED <<users, device, req>>
  BY DEF Expire, Take, IInv
<1>2. Approvals' = Approvals /\ Contract!Gone(c)
  BY <1>1, TakeSeen
<1>3. Phases' = Phases /\ Spent' = Spent /\ Devices' = Devices
  BY <1>1 DEF Phases, Spent, Devices
<1>4. Contract!Waste(c)
  BY <1>1, <1>2, <1>3 DEF Contract!Waste, Phases, Spent, Approvals, Devices
<1>5. QED
  BY <1>4 DEF Contract!Next

LEMMA DeactivateRefines ==
    ASSUME IInv, NEW d \in Request, Deactivate(d)
    PROVE  Contract!Next
<1>1. device \in [Request -> DeviceRow]
  BY DEF IInv, TypeOK
<1>2. Devices[d].status = "active" /\ Devices' = [Devices EXCEPT ![d].status = "inactive"]
  BY <1>1 DEF Deactivate, Devices, DeviceSeen, DeviceRow
<1>3. Phases' = Phases /\ Spent' = Spent /\ Challenges' = Challenges /\ Approvals' = Approvals
  BY ChallengesSame DEF Deactivate, Phases, Spent
<1>4. Contract!Deactivate(d)
  BY <1>2, <1>3
  DEF Deactivate, Contract!Deactivate, Phases, Spent, Approvals, Devices, Challenges
<1>5. QED
  BY <1>4 DEF Contract!Next

\* Every step of the handlers is a step of the ceremonies, or not seen there.
LEMMA StepRefines == IInv /\ [Next]_vars => [Contract!Next]_(Contract!vars)
<1> SUFFICES ASSUME IInv, [Next]_vars
             PROVE  Contract!Next \/ UNCHANGED Contract!vars
  OBVIOUS
<1>0. TypeOK'
  BY TypeStep
<1>1. ASSUME NEW r \in Request, Arrive(r)
      PROVE  Contract!Next \/ UNCHANGED Contract!vars
  BY <1>0, <1>1, OptionsReadRefines, AuthTakeRefines, RegTakeRefines DEF Arrive
<1>2. ASSUME NEW r \in Request, Continue(r)
      PROVE  Contract!Next \/ UNCHANGED Contract!vars
  BY <1>0, <1>2, RegFlushRefines, RegPutRefines, RegCommitRefines, AuthPutRefines,
     AuthLoadRefines, AuthClearRefines, AuthCommitRefines, RegCheckRefines,
     RegInsertRefines
  DEF Continue
<1>3. ASSUME NEW r \in Request, Fail(r)
      PROVE  Contract!Next \/ UNCHANGED Contract!vars
  BY <1>0, <1>3, FailRefines
<1>4. ASSUME NEW r \in Request, Sign(r) \/ Expire(r) \/ Deactivate(r)
      PROVE  Contract!Next
  BY <1>4, SignRefines, ExpireRefines, DeactivateRefines
<1>5. ASSUME UNCHANGED <<users, challenge, device, req>>
      PROVE  UNCHANGED Contract!vars
  BY <1>5 DEF Contract!vars
<1>6. QED
  BY <1>1, <1>2, <1>3, <1>4, <1>5 DEF Next, Flag, vars

LEMMA InitRefines == Init => Contract!Init
<1> SUFFICES ASSUME Init
             PROVE  Contract!Init
  OBVIOUS
<1>1. IInv
  BY Initial
<1>2. \A d \in Request :
        \/ /\ device[d].status = "absent" /\ device[d].user = None /\ device[d].cred = None
           /\ req[d].pc \in {"lost", "new"}
        \/ /\ device[d].status = "active" /\ device[d].user \in users
           /\ req[d].pc = "registered"
  BY SetAssumption DEF Init, Fresh
<1>3. \A d \in Request : req[d].chal = None
  BY DEF Init, Fresh
<1>4. \A d \in Request :
        \/ Devices[d] = [status |-> "absent", user |-> None, cred |-> None]
        \/ /\ Devices[d].status = "active" /\ Devices[d].user \in users
           /\ {e \in Request : Devices[e].status = "active" /\ Devices[e].user = Devices[d].user}
                = {d}
           /\ \A e \in Request \ {d} : Devices[e].cred # Devices[d].cred
  <2>1. SUFFICES ASSUME NEW d \in Request, device[d].status = "active"
                 PROVE  /\ Devices[d].status = "active" /\ Devices[d].user \in users
                        /\ {e \in Request : /\ Devices[e].status = "active"
                                            /\ Devices[e].user = Devices[d].user} = {d}
                        /\ \A e \in Request \ {d} : Devices[e].cred # Devices[d].cred
    BY <1>2 DEF Devices, DeviceSeen
  <2>2. device[d].user \in users /\ device[d].cred \in Credential
    BY <1>1, <1>2, <2>1 DEF IInv, DeviceHonest, Present
  <2>3. \A e \in Request : device[e].status = "active" /\ device[e].user = device[d].user => e = d
    BY <1>1, <2>1 DEF IInv, OneActiveDevice
  <2>4. \A e \in Request \ {d} : device[e].cred # device[d].cred
    <3>1. ASSUME NEW e \in Request \ {d}, device[e].cred = device[d].cred
          PROVE  FALSE
      <4>1. device[e].cred # None
        BY <2>2, <3>1, SetAssumption
      <4>2. Present(e) /\ Present(d)
        BY <1>2, <2>1, <4>1 DEF Present
      <4>3. QED
        BY <1>1, <3>1, <4>2 DEF IInv, CredentialsDiffer
    <3>2. QED
      BY <3>1
  <2>5. QED
    BY <2>1, <2>2, <2>3, <2>4 DEF Devices, DeviceSeen
<1>5. /\ Challenges = [c \in Request |-> [status |-> "none", purpose |-> "registration",
                                          user |-> None, dev |-> None]]
      /\ Approvals = {}
  BY DEF Init, Challenges, ChallengeSeen, Approvals
<1>6. Phases = [r \in Request |-> IF Devices[r].status = "absent" THEN "idle" ELSE "added"]
  BY <1>2, <1>3 DEF Phases, PhaseSeen, Devices, DeviceSeen
<1>7. Spent = [r \in Request |-> None]
  BY <1>3 DEF Spent
<1>8. QED
  BY <1>4, <1>5, <1>6, <1>7
  DEF Contract!Init, Contract!InUse, Phases, Spent, Approvals, Devices, Challenges

\* The handlers, with their awaits, their unique indexes and a Redis that
\* loses challenges, implement Ceremonies: whoever logs in has spent a
\* challenge made for that device, approved and active since, and a device is
\* added only to an account that has none in use (service.py:37-322).
THEOREM Refinement == Spec => ImplementsCeremonies
<1>1. IInv /\ [Next]_vars => [Contract!Next]_(Contract!vars)
  BY StepRefines
<1>2. QED
  BY <1>1, InitRefines, Invariance, PTL DEF Spec, ImplementsCeremonies, Contract!Spec
============================================================================

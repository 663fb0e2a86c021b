--------------------------- MODULE VaultApiProofs ---------------------------
(***************************************************************************)
(* Proofs about the vault endpoints of VaultApi, for any sets of requests, *)
(* blobs and payloads and any window: the invariant IInv is inductive, and *)
(* the safety properties follow from it.                                   *)
(***************************************************************************)
EXTENDS VaultApi, TLAPS

----------------------------------------------------------------------------
(* Types *)

LEMMA BeginType ==
    ASSUME TypeOK, NEW r \in Request, NEW pc \in Pending \cup Answered,
           NEW s \in Request, NEW new \in Content, NEW old \in Content,
           Begin(r, pc, s, new, old)
    PROVE  req' \in [Request -> RequestState]
<1>1. [pc |-> pc, id |-> s, new |-> new, old |-> old, ivAt |-> 0, blobAt |-> 0]
        \in RequestState
  BY DEF RequestState
<1>2. QED
  BY <1>1 DEF Begin, TypeOK

LEMMA GotoType ==
    ASSUME TypeOK, NEW r \in Request, NEW pc \in Pending \cup Answered, Goto(r, pc)
    PROVE  req' \in [Request -> RequestState]
<1>1. [req[r] EXCEPT !.pc = pc] \in RequestState
  BY DEF TypeOK, RequestState
<1>2. QED
  BY <1>1 DEF TypeOK, Goto

LEMMA BlankType == Blank \in Content
BY DEF Blank, Content

LEMMA ParsedType ==
    ASSUME NEW r \in Request
    PROVE  Parsed(r) \in {"invalid", "insert", "update"}
BY DEF Parsed, Write

LEMMA ClaimedType ==
    ASSUME now \in Nat, NEW deadline \in Nat
    PROVE  Claimed(deadline) \in Nat
BY TimeAssumption DEF Claimed

\* What an update writes is made of its payload and the row.
LEMMA MergedType ==
    ASSUME TypeOK, NEW r \in Request, NEW content \in Content
    PROVE  Merged(r, content) \in Content
<1>1. req[r].new \in Content
  BY DEF TypeOK, RequestState
<1>2. DOMAIN Blank = {"name", "pwd", "notes"}
  BY DEF Blank
<1>3. /\ req[r].new.name \in Name \cup {None} /\ content.name \in Name \cup {None}
      /\ req[r].new.pwd \in Blob \cup {Malformed, None}
      /\ content.pwd \in Blob \cup {Malformed, None}
      /\ req[r].new.notes \in Blob \cup {Malformed, None}
      /\ content.notes \in Blob \cup {Malformed, None}
  BY <1>1 DEF Content
<1>4. QED
  BY <1>2, <1>3 DEF Merged, Content

LEMMA TypeStep == IInv /\ [Next]_vars => TypeOK'
<1> SUFFICES ASSUME IInv, [Next]_vars PROVE TypeOK'
  OBVIOUS
<1>0. TypeOK
  BY DEF IInv
<1>1. ASSUME NEW r \in Request, NEW c \in Payload, Create(r, c)
      PROVE  TypeOK'
  BY <1>0, <1>1, BeginType, BlankType, PayloadAssumption
  DEF Create, TypeOK, Pending, Answered, Refused
<1>2. ASSUME NEW r \in Request, NEW s \in Request, NEW c \in Payload, Update(r, s, c)
      PROVE  TypeOK'
  <2>1. row[s].content \in Content
    BY <1>0 DEF TypeOK, VaultRow
  <2>2. QED
    BY <1>0, <1>2, <2>1, BeginType, PayloadAssumption
    DEF Update, TypeOK, Pending, Answered, Refused
<1>3. ASSUME NEW r \in Request, NEW s \in Request, Delete(r, s)
      PROVE  TypeOK'
  BY <1>0, <1>3, BeginType, BlankType DEF Delete, TypeOK, Pending, Answered, Refused
<1>4. ASSUME NEW r \in Request, CheckIv(r)
      PROVE  TypeOK'
  <2>1. IvOf[req[r].new.pwd] \in Iv
    BY <1>4, BlobAssumption DEF CheckIv, IInv, RequestHonest
  <2>2. ivKey' \in [Iv -> Nat]
    BY <1>0, <1>4, <2>1, ClaimedType DEF CheckIv, TypeOK
  <2>3. ASSUME NEW pc \in {"replay", "ivConflict"}
        PROVE  [req[r] EXCEPT !.pc = pc, !.ivAt = now] \in RequestState
    BY <1>0 DEF TypeOK, RequestState, Pending, Answered, Refused
  <2>4. req' \in [Request -> RequestState]
    BY <1>0, <1>4, <2>3 DEF CheckIv, TypeOK
  <2>5. QED
    BY <1>0, <1>4, <2>2, <2>4 DEF CheckIv, TypeOK
<1>5. ASSUME NEW r \in Request, CheckReplay(r)
      PROVE  TypeOK'
  <2>1. req[r].new.pwd \in Blob
    BY <1>5 DEF CheckReplay, IInv, RequestHonest
  <2>2. replayKey' \in [Blob -> Nat]
    BY <1>0, <1>5, <2>1, ClaimedType DEF CheckReplay, TypeOK
  <2>3. ASSUME NEW pc \in {"invalid", "insert", "update", "replayed"}
        PROVE  [req[r] EXCEPT !.pc = pc, !.blobAt = now] \in RequestState
    BY <1>0 DEF TypeOK, RequestState, Pending, Answered, Refused
  <2>4. req' \in [Request -> RequestState]
    BY <1>0, <1>5, <2>3, ParsedType DEF CheckReplay, TypeOK
  <2>5. QED
    BY <1>0, <1>5, <2>2, <2>4 DEF CheckReplay, TypeOK
<1>6. ASSUME NEW r \in Request, Insert(r)
      PROVE  TypeOK'
  <2>1. [status |-> "stored", content |-> req[r].new] \in VaultRow
    BY <1>0 DEF TypeOK, RequestState, VaultRow
  <2>2. QED
    BY <1>0, <1>6, <2>1, GotoType DEF Insert, TypeOK, Pending
<1>7. ASSUME NEW r \in Request, UpdateCommit(r)
      PROVE  TypeOK'
  <2>1. req' \in [Request -> RequestState]
    BY <1>0, <1>7, GotoType DEF UpdateCommit, Pending, Answered
  <2>2. ASSUME NEW s \in Request
        PROVE  [status |-> "stored", content |-> Merged(r, row[s].content)] \in VaultRow
    BY <1>0, MergedType DEF TypeOK, VaultRow
  <2>3. row' \in [Request -> VaultRow]
    BY <1>0, <1>7, <2>2 DEF UpdateCommit, TypeOK
  <2>4. QED
    BY <1>0, <1>7, <2>1, <2>3 DEF UpdateCommit, TypeOK
<1>8. ASSUME NEW r \in Request, Refresh(r)
      PROVE  TypeOK'
  BY <1>0, <1>8, GotoType DEF Refresh, TypeOK, Answered
<1>9. ASSUME NEW r \in Request, Erase(r)
      PROVE  TypeOK'
  <2>1. \A s \in Request : [row[s] EXCEPT !.status = "deleted"] \in VaultRow
    BY <1>0 DEF TypeOK, VaultRow
  <2>2. row' \in [Request -> VaultRow]
    BY <1>0, <1>9, <2>1 DEF Erase, TypeOK
  <2>3. req' \in [Request -> RequestState]
    BY <1>0, <1>9, GotoType DEF Erase, Answered
  <2>4. QED
    BY <1>0, <1>9, <2>2, <2>3 DEF Erase, TypeOK
<1>10. ASSUME NEW r \in Request, Fail(r)
       PROVE  TypeOK'
  BY <1>0, <1>10, GotoType DEF Fail, TypeOK, Answered
<1>11. CASE Tick
  BY <1>0, <1>11 DEF Tick, TypeOK
<1>12. CASE UNCHANGED vars
  BY <1>0, <1>12 DEF vars, TypeOK
<1>13. QED
  BY <1>1, <1>2, <1>3, <1>4, <1>5, <1>6, <1>7, <1>8, <1>9, <1>10, <1>11, <1>12
  DEF Next, Continue

----------------------------------------------------------------------------
(* What a step does to a request, and what it leaves alone *)

\* How a request that has begun goes on, but for the claim of its IV.
GoesOn(q) ==
    /\ req'[q].id = req[q].id /\ req'[q].new = req[q].new
    /\ req'[q].old = req[q].old /\ req'[q].ivAt = req[q].ivAt
    /\ \/ req[q].pc \in Pending /\ req'[q].pc = "lost"
       \/ req[q].pc = "replay" /\ req'[q].pc \in {"replayed", "invalid", "insert", "update"}
       \/ req[q].pc \in {"insert", "update"} /\ req'[q].pc = "refresh"
       \/ req[q].pc = "refresh" /\ req'[q].pc = "written"
       \/ req[q].pc = "erase" /\ req'[q].pc = "deleted"

\* q is the only request the step moves.
Alone(q) == \A p \in Request : p # q => req'[p] = req[p]

LEMMA GotoFrame ==
    ASSUME TypeOK, NEW r \in Request, NEW pc, Goto(r, pc)
    PROVE  /\ Alone(r) /\ req'[r].pc = pc
           /\ req'[r].id = req[r].id /\ req'[r].new = req[r].new
           /\ req'[r].old = req[r].old /\ req'[r].ivAt = req[r].ivAt
BY DEF TypeOK, RequestState, Goto, Alone

LEMMA ContinueCases ==
    ASSUME TypeOK, NEW r \in Request, Continue(r) \/ Fail(r)
    PROVE  Alone(r) /\ (CheckIv(r) \/ GoesOn(r))
<1>1. CASE CheckIv(r)
  BY <1>1 DEF TypeOK, CheckIv, Alone
<1>2. CASE CheckReplay(r)
  <2>1. PICK pc \in {"replayed", "invalid", "insert", "update"} :
          req' = [req EXCEPT ![r].pc = pc, ![r].blobAt = now]
    BY <1>2, ParsedType DEF CheckReplay
  <2>2. QED
    BY <1>2, <2>1 DEF TypeOK, RequestState, CheckReplay, Alone, GoesOn
<1>3. CASE Insert(r)
  BY <1>3, GotoFrame DEF Insert, GoesOn
<1>4. CASE UpdateCommit(r)
  BY <1>4, GotoFrame DEF UpdateCommit, GoesOn, Pending
<1>5. CASE Refresh(r)
  BY <1>5, GotoFrame DEF Refresh, GoesOn, Pending
<1>6. CASE Erase(r)
  BY <1>6, GotoFrame DEF Erase, GoesOn
<1>7. CASE Fail(r)
  BY <1>7, GotoFrame DEF Fail, GoesOn
<1>8. QED
  BY <1>1, <1>2, <1>3, <1>4, <1>5, <1>6, <1>7 DEF Continue

\* The steps that begin a request.
Begins(r) ==
    \/ \E c \in Payload : Create(r, c) \/ \E s \in Request : Update(r, s, c)
    \/ \E s \in Request : Delete(r, s)

LEMMA BeginFrame ==
    ASSUME TypeOK, NEW r \in Request, Begins(r)
    PROVE  /\ Alone(r) /\ req[r].pc = "new"
           /\ req'[r].pc \in {"iv", "invalid", "missing", "update", "erase"}
           /\ req'[r].pc = "update" => req'[r].new.pwd = None
           /\ UNCHANGED <<now, row, ivKey, replayKey>>
<1>1. ASSUME NEW pc, NEW s, NEW new, NEW old, Begin(r, pc, s, new, old)
      PROVE  Alone(r) /\ req[r].pc = "new" /\ req'[r].pc = pc /\ req'[r].new = new
  BY <1>1 DEF TypeOK, Begin, Alone
<1>2. ASSUME NEW c \in Payload, Create(r, c)
      PROVE  /\ Alone(r) /\ req[r].pc = "new" /\ req'[r].pc \in {"iv", "invalid"}
             /\ UNCHANGED <<now, row, ivKey, replayKey>>
  BY <1>1, <1>2 DEF Create
<1>3. ASSUME NEW c \in Payload, NEW s \in Request, Update(r, s, c)
      PROVE  /\ Alone(r) /\ req[r].pc = "new"
             /\ req'[r].pc \in {"iv", "invalid", "missing", "update"}
             /\ req'[r].pc = "update" => req'[r].new.pwd = None
             /\ UNCHANGED <<now, row, ivKey, replayKey>>
  BY <1>1, <1>3 DEF Update
<1>4. ASSUME NEW s \in Request, Delete(r, s)
      PROVE  /\ Alone(r) /\ req[r].pc = "new" /\ req'[r].pc \in {"missing", "erase"}
             /\ UNCHANGED <<now, row, ivKey, replayKey>>
  BY <1>1, <1>4 DEF Delete
<1>5. QED
  BY <1>2, <1>3, <1>4 DEF Begins

LEMMA NextCases ==
    ASSUME [Next]_vars
    PROVE  \/ UNCHANGED <<row, ivKey, req>> /\ (Tick \/ UNCHANGED now)
           \/ \E r \in Request : Begins(r) \/ Continue(r) \/ Fail(r)
BY DEF Next, Begins, Tick, vars

\* Rows come into being and are deleted, never the other way round.
RowsStay ==
    \A s \in Request : /\ row[s].status # "absent" => row'[s].status # "absent"
                       /\ row[s].status = "deleted" => row'[s].status = "deleted"

\* Who has spent an IV keeps to it; the clock and the keys go forward.
Stays ==
    /\ RowsStay
    /\ \A q \in Request, i \in Iv : Spent(q, i) => Spent(q, i)' /\ req'[q].ivAt = req[q].ivAt
    /\ now' \in Nat /\ now <= now'
    /\ \A i \in Iv : ivKey[i] <= ivKey'[i]

LEMMA StaysStep ==
    ASSUME IInv, TypeOK', [Next]_vars
    PROVE  Stays
<1>0. TypeOK
  BY DEF IInv
<1>1. RowsStay
  <2>1. CASE UNCHANGED row
    BY <2>1 DEF RowsStay
  <2>2. ASSUME NEW r \in Request, Insert(r)
        PROVE  \A s \in Request : row[s].status # "absent" => row'[s] = row[s]
    <3>1. row[r].status = "absent"
      BY <2>2 DEF Insert, IInv, RequestHonest
    <3>2. QED
      BY <1>0, <2>2, <3>1 DEF Insert, TypeOK
  <2>3. ASSUME NEW r \in Request, UpdateCommit(r)
        PROVE  \A s \in Request : row'[s].status = row[s].status
    BY <1>0, <2>3 DEF UpdateCommit, Writable, Stored, TypeOK
  <2>4. ASSUME NEW r \in Request, Erase(r)
        PROVE  \A s \in Request : row'[s].status \in {row[s].status, "deleted"}
    BY <1>0, <2>4 DEF Erase, TypeOK, VaultRow
  <2>5. UNCHANGED row \/ \E r \in Request : Insert(r) \/ UpdateCommit(r) \/ Erase(r)
    BY <1>0, NextCases, BeginFrame DEF Continue, CheckIv, CheckReplay, Refresh, Fail
  <2>6. QED
    BY <2>1, <2>2, <2>3, <2>4, <2>5 DEF RowsStay
<1>2. \A q \in Request, i \in Iv : Spent(q, i) => Spent(q, i)' /\ req'[q].ivAt = req[q].ivAt
  <2>1. SUFFICES ASSUME NEW q \in Request, NEW i \in Iv, Spent(q, i), req'[q] # req[q]
                 PROVE  Spent(q, i)' /\ req'[q].ivAt = req[q].ivAt
    BY DEF Spent
  <2>2. GoesOn(q)
    BY <1>0, <2>1, NextCases, BeginFrame, ContinueCases DEF Alone, Spent, CheckIv
  <2>3. QED
    BY <2>1, <2>2 DEF GoesOn, Spent, Pending
<1>3. now' \in Nat /\ now <= now'
  <2>1. now' \in {now, now + 1}
    BY <1>0, NextCases, BeginFrame
    DEF Tick, Continue, CheckIv, CheckReplay, Insert, UpdateCommit, Refresh, Erase, Fail
  <2>2. QED
    BY <1>0, <2>1 DEF TypeOK
<1>4. \A i \in Iv : ivKey[i] <= ivKey'[i]
  <2>1. \A i \in Iv : ivKey[i] \in Nat /\ now \in Nat
    BY <1>0 DEF TypeOK
  <2>2. CASE UNCHANGED ivKey
    BY <2>1, <2>2
  <2>3. ASSUME NEW r \in Request, CheckIv(r)
        PROVE  \A i \in Iv : ivKey[i] <= ivKey'[i]
    BY <1>0, <2>1, <2>3, TimeAssumption DEF CheckIv, Claimed, Free, TypeOK
  <2>4. UNCHANGED ivKey \/ \E r \in Request : CheckIv(r)
    BY <1>0, NextCases, BeginFrame
    DEF Continue, CheckReplay, Insert, UpdateCommit, Refresh, Erase, Fail
  <2>5. QED
    BY <2>2, <2>3, <2>4
<1>5. QED
  BY <1>1, <1>2, <1>3, <1>4 DEF Stays

----------------------------------------------------------------------------
(* The conjuncts of the invariant, one by one *)

\* A request is granted an IV by CheckIv, at an instant at which its key is
\* free; it keeps the grant, or is refused later.
LEMMA GrantCases ==
    ASSUME IInv, [Next]_vars, NEW q \in Request, q \in IvGranted'
    PROVE  \/ /\ q \in IvGranted /\ req'[q].new = req[q].new
              /\ req'[q].ivAt = req[q].ivAt
           \/ /\ CheckIv(q) /\ Alone(q) /\ Free(ivKey[IvOf[req[q].new.pwd]])
              /\ req'[q].new = req[q].new /\ req'[q].ivAt = now
<1>0. TypeOK
  BY DEF IInv
<1>1. CASE req'[q] = req[q]
  BY <1>1 DEF IvGranted
<1>2. CASE GoesOn(q)
  BY <1>2 DEF GoesOn, IvGranted, Pending, IInv, RequestHonest
<1>3. CASE CheckIv(q) /\ Alone(q)
  BY <1>0, <1>3 DEF CheckIv, IvGranted, TypeOK, RequestState
<1>4. ASSUME Begins(q)
      PROVE  FALSE
  BY <1>0, <1>4, BeginFrame, BlobAssumption DEF IvGranted
<1>5. QED
  BY <1>0, <1>1, <1>2, <1>3, <1>4, NextCases, BeginFrame, ContinueCases DEF Alone

LEMMA SpacingStep ==
    ASSUME IInv, TypeOK', [Next]_vars
    PROVE  IvSpacing'
<1> DEFINE At(q, i) == req[q].new.pwd \in Blob /\ IvOf[req[q].new.pwd] = i
<1>1. SUFFICES ASSUME NEW q \in IvGranted', NEW r \in IvGranted', q # r,
                      IvOf[req'[q].new.pwd] = IvOf[req'[r].new.pwd]
               PROVE  \/ req'[q].ivAt + Window <= req'[r].ivAt
                      \/ req'[r].ivAt + Window <= req'[q].ivAt
  BY DEF IvSpacing
<1>2. q \in Request /\ r \in Request
  BY DEF IvGranted
\* The later of two grants finds the key free, and so the earlier one over.
<1>3. ASSUME NEW p \in Request, NEW g \in IvGranted, Free(ivKey[IvOf[req[p].new.pwd]]),
             IvOf[req[g].new.pwd] = IvOf[req[p].new.pwd]
      PROVE  req[g].ivAt + Window <= now
  <2>1. /\ g \in Request /\ req[g].new.pwd \in Blob
        /\ req[g].ivAt + Window <= ivKey[IvOf[req[p].new.pwd]]
    BY <1>3 DEF IvGranted, IInv, GrantHonest
  <2>2. IvOf[req[p].new.pwd] \in Iv
    BY <1>3, <2>1, BlobAssumption
  <2>3. /\ ivKey[IvOf[req[p].new.pwd]] \in Nat /\ now \in Nat /\ req[g].ivAt \in Nat
        /\ Window \in Nat
    BY <2>1, <2>2, TimeAssumption DEF IInv, TypeOK, RequestState
  <2>4. QED
    BY <1>3, <2>1, <2>3 DEF Free
<1>4. CASE q \in IvGranted /\ r \in IvGranted
           /\ req'[q].new = req[q].new /\ req'[q].ivAt = req[q].ivAt
           /\ req'[r].new = req[r].new /\ req'[r].ivAt = req[r].ivAt
  BY <1>1, <1>4 DEF IInv, IvSpacing
<1>5. CASE /\ CheckIv(q) /\ Alone(q) /\ Free(ivKey[IvOf[req[q].new.pwd]])
           /\ req'[q].new = req[q].new /\ req'[q].ivAt = now
  <2>1. req'[r] = req[r] /\ r \in IvGranted
    BY <1>1, <1>2, <1>5 DEF Alone, IvGranted
  <2>2. QED
    BY <1>1, <1>2, <1>3, <1>5, <2>1
<1>6. CASE /\ CheckIv(r) /\ Alone(r) /\ Free(ivKey[IvOf[req[r].new.pwd]])
           /\ req'[r].new = req[r].new /\ req'[r].ivAt = now
  <2>1. req'[q] = req[q] /\ q \in IvGranted
    BY <1>1, <1>2, <1>6 DEF Alone, IvGranted
  <2>2. QED
    BY <1>1, <1>2, <1>3, <1>6, <2>1
<1>7. QED
  BY <1>2, <1>4, <1>5, <1>6, GrantCases

LEMMA GrantStep ==
    ASSUME IInv, TypeOK', Stays, [Next]_vars, NEW r \in Request
    PROVE  GrantHonest(r)'
<1>1. SUFFICES ASSUME r \in IvGranted'
               PROVE  /\ req'[r].ivAt <= now'
                      /\ req'[r].ivAt + Window <= ivKey'[IvOf[req'[r].new.pwd]]
  BY DEF GrantHonest
<1>2. /\ req'[r].new.pwd \in Blob /\ IvOf[req'[r].new.pwd] \in Iv
      /\ ivKey'[IvOf[req'[r].new.pwd]] \in Nat /\ now' \in Nat
  BY <1>1, BlobAssumption DEF IvGranted, TypeOK
<1>3. now \in Nat /\ Window \in Nat /\ req[r].ivAt \in Nat /\ ivKey \in [Iv -> Nat]
  BY TimeAssumption DEF IInv, TypeOK, RequestState
<1>4. CASE r \in IvGranted /\ req'[r].new = req[r].new /\ req'[r].ivAt = req[r].ivAt
  <2>1. /\ req[r].ivAt <= now
        /\ req[r].ivAt + Window <= ivKey[IvOf[req'[r].new.pwd]]
    BY <1>4 DEF IInv, GrantHonest
  <2>2. now <= now' /\ ivKey[IvOf[req'[r].new.pwd]] <= ivKey'[IvOf[req'[r].new.pwd]]
    BY <1>2 DEF Stays
  <2>3. ivKey[IvOf[req'[r].new.pwd]] \in Nat
    BY <1>2, <1>3
  <2>4. QED
    BY <1>2, <1>3, <1>4, <2>1, <2>2, <2>3
<1>5. CASE /\ CheckIv(r) /\ Free(ivKey[IvOf[req[r].new.pwd]])
           /\ req'[r].new = req[r].new /\ req'[r].ivAt = now
  <2>1. ivKey'[IvOf[req'[r].new.pwd]] = now + Window /\ now' = now
    BY <1>2, <1>3, <1>5 DEF CheckIv, Claimed
  <2>2. QED
    BY <1>3, <1>5, <2>1
<1>6. QED
  BY <1>1, <1>4, <1>5, GrantCases

\* What becomes of the key of an IV.
LEMMA KeyCases ==
    ASSUME IInv, [Next]_vars, NEW i \in Iv
    PROVE  \/ ivKey'[i] = ivKey[i]
           \/ \E r \in Request : /\ CheckIv(r) /\ IvOf[req[r].new.pwd] = i
                                 /\ Free(ivKey[i]) /\ ivKey'[i] = now + Window
<1>0. TypeOK
  BY DEF IInv
<1>1. UNCHANGED ivKey \/ \E r \in Request : CheckIv(r)
  BY <1>0, NextCases, BeginFrame
  DEF Continue, CheckReplay, Insert, UpdateCommit, Refresh, Erase, Fail
<1>2. ASSUME NEW r \in Request, CheckIv(r)
      PROVE  \/ ivKey'[i] = ivKey[i]
             \/ IvOf[req[r].new.pwd] = i /\ Free(ivKey[i]) /\ ivKey'[i] = now + Window
  BY <1>0, <1>2 DEF CheckIv, Claimed, TypeOK
<1>3. QED
  BY <1>1, <1>2

LEMMA KeyStep ==
    ASSUME IInv, TypeOK', Stays, [Next]_vars, NEW i \in Iv
    PROVE  KeyHonest(i)'
<1>0. now \in Nat /\ now' \in Nat /\ now <= now' /\ ivKey[i] \in Nat /\ Window \in Nat
  BY TimeAssumption DEF IInv, TypeOK, Stays
<1>1. CASE ivKey'[i] = ivKey[i]
  <2>1. SUFFICES ASSUME ivKey[i] > now'
                 PROVE  \E q \in Request : Spent(q, i)' /\ req'[q].ivAt <= now'
                                           /\ ivKey'[i] = req'[q].ivAt + Window
    BY <1>1 DEF KeyHonest
  <2>2. ivKey[i] > now
    BY <1>0, <2>1
  <2>3. PICK q \in Request : Spent(q, i) /\ req[q].ivAt <= now
                             /\ ivKey[i] = req[q].ivAt + Window
    BY <2>2 DEF IInv, KeyHonest
  <2>4. Spent(q, i)' /\ req'[q].ivAt = req[q].ivAt
    BY <2>3 DEF Stays
  <2>5. req[q].ivAt \in Nat
    BY DEF IInv, TypeOK, RequestState
  <2>6. QED
    BY <1>0, <1>1, <2>3, <2>4, <2>5
<1>2. ASSUME NEW r \in Request, CheckIv(r), IvOf[req[r].new.pwd] = i, Free(ivKey[i]),
             ivKey'[i] = now + Window
      PROVE  KeyHonest(i)'
  <2>1. req[r].new.pwd \in Blob
    BY <1>2 DEF CheckIv, IInv, RequestHonest
  <2>2. req'[r].pc = "replay" /\ req'[r].ivAt = now /\ req'[r].new = req[r].new /\ now' = now
    BY <1>2 DEF CheckIv, IInv, TypeOK, RequestState
  <2>3. Spent(r, i)'
    BY <1>2, <2>1, <2>2 DEF Spent
  <2>4. QED
    BY <1>0, <1>2, <2>2, <2>3 DEF KeyHonest
<1>3. QED
  BY <1>1, <1>2, KeyCases

LEMMA ConflictStep ==
    ASSUME IInv, TypeOK', Stays, [Next]_vars
    PROVE  ConflictDeserved'
<1>0. TypeOK
  BY DEF IInv
<1>1. SUFFICES ASSUME NEW r \in Request, req'[r].pc = "ivConflict"
               PROVE  \E q \in Request \ {r} :
                        /\ Spent(q, IvOf[req[r].new.pwd])'
                        /\ req'[q].ivAt <= req'[r].ivAt
                        /\ req'[r].ivAt < req'[q].ivAt + Window
  BY DEF ConflictDeserved
<1>2. CASE req'[r] = req[r]
  <2>1. req[r].new.pwd \in Blob /\ IvOf[req[r].new.pwd] \in Iv
    BY <1>1, <1>2, BlobAssumption DEF IInv, RequestHonest
  <2>2. PICK q \in Request \ {r} : /\ Spent(q, IvOf[req[r].new.pwd])
                                   /\ req[q].ivAt <= req[r].ivAt
                                   /\ req[r].ivAt < req[q].ivAt + Window
    BY <1>1, <1>2 DEF IInv, ConflictDeserved
  <2>3. Spent(q, IvOf[req[r].new.pwd])' /\ req'[q].ivAt = req[q].ivAt
    BY <1>2, <2>1, <2>2 DEF Stays, Spent
  <2>4. QED
    BY <1>2, <2>2, <2>3
<1>3. CASE CheckIv(r)
  <2>1. req[r].new.pwd \in Blob /\ IvOf[req[r].new.pwd] \in Iv
    BY <1>3, BlobAssumption DEF CheckIv, IInv, RequestHonest
  <2>2. /\ ~Free(ivKey[IvOf[req[r].new.pwd]]) /\ req'[r].ivAt = now
        /\ req'[r].new = req[r].new
    BY <1>0, <1>1, <1>3 DEF CheckIv, TypeOK, RequestState
  <2>3. ivKey[IvOf[req[r].new.pwd]] \in Nat /\ now \in Nat
    BY <1>0, <2>1 DEF TypeOK
  <2>4. ivKey[IvOf[req[r].new.pwd]] > now
    BY <2>2, <2>3 DEF Free
  <2>5. PICK q \in Request : /\ Spent(q, IvOf[req[r].new.pwd]) /\ req[q].ivAt <= now
                             /\ ivKey[IvOf[req[r].new.pwd]] = req[q].ivAt + Window
    BY <2>1, <2>4 DEF IInv, KeyHonest
  <2>6. q # r
    BY <1>3, <2>5 DEF CheckIv, Spent
  <2>7. Spent(q, IvOf[req[r].new.pwd])' /\ req'[q].ivAt = req[q].ivAt
    BY <2>1, <2>2, <2>5 DEF Stays, Spent
  <2>8. QED
    BY <2>2, <2>3, <2>4, <2>5, <2>6, <2>7
<1>4. QED
  BY <1>0, <1>1, <1>2, <1>3, NextCases, BeginFrame, ContinueCases DEF Alone, GoesOn

LEMMA DeletionStep ==
    ASSUME IInv, TypeOK', RowsStay, [Next]_vars
    PROVE  DeletionFinal'
<1>0. TypeOK
  BY DEF IInv
<1>1. SUFFICES ASSUME NEW r \in Request, req'[r].pc = "deleted"
               PROVE  row'[req'[r].id].status = "deleted"
  BY DEF DeletionFinal
<1>2. CASE req'[r] = req[r]
  BY <1>1, <1>2 DEF IInv, DeletionFinal, RequestHonest, RowsStay
<1>3. CASE Erase(r)
  <2>1. req[r].id \in Request /\ req'[r].id = req[r].id
    BY <1>0, <1>3, GotoFrame DEF Erase, IInv, RequestHonest
  <2>2. QED
    BY <1>0, <1>3, <2>1 DEF Erase, TypeOK, VaultRow
<1>4. ASSUME Continue(r) \/ Fail(r), ~Erase(r)
      PROVE  FALSE
  <2>1. ASSUME NEW pc, Goto(r, pc), pc # "deleted"
        PROVE  FALSE
    BY <1>0, <1>1, <2>1, GotoFrame
  <2>2. CASE CheckIv(r) \/ CheckReplay(r)
    BY <1>0, <1>1, <2>2, ParsedType DEF CheckIv, CheckReplay, TypeOK, RequestState
  <2>3. QED
    BY <1>4, <2>1, <2>2 DEF Continue, Insert, UpdateCommit, Refresh, Fail
<1>5. QED
  BY <1>0, <1>1, <1>2, <1>3, <1>4, NextCases, BeginFrame, ContinueCases DEF Alone

\* Rows change by the three commits; only its insertion brings one about.
LEMMA RowCases ==
    ASSUME IInv, [Next]_vars
    PROVE  UNCHANGED row \/ \E r \in Request : Insert(r) \/ UpdateCommit(r) \/ Erase(r)
BY NextCases, BeginFrame DEF IInv, Continue, CheckIv, CheckReplay, Refresh, Fail

LEMMA RowBorn ==
    ASSUME IInv, [Next]_vars, NEW s \in Request,
           row[s].status = "absent", row'[s].status # "absent"
    PROVE  Insert(s)
<1>0. row \in [Request -> VaultRow]
  BY DEF IInv, TypeOK
<1>1. ASSUME NEW r \in Request, UpdateCommit(r)
      PROVE  FALSE
  BY <1>0, <1>1 DEF UpdateCommit, Writable, Stored
<1>2. ASSUME NEW r \in Request, Erase(r)
      PROVE  FALSE
  BY <1>0, <1>2 DEF Erase, IInv, RequestHonest
<1>3. ASSUME NEW r \in Request, Insert(r), r # s
      PROVE  FALSE
  BY <1>0, <1>3 DEF Insert
<1>4. QED
  BY <1>1, <1>2, <1>3, RowCases

LEMMA RequestStep ==
    ASSUME IInv, TypeOK', RowsStay, [Next]_vars, NEW r \in Request
    PROVE  RequestHonest(r)'
<1>0. TypeOK /\ RequestHonest(r)
  BY DEF IInv
<1>1. Malformed \notin Blob /\ None \notin Blob /\ Malformed # None
  BY BlobAssumption
\* The row that r names.
<1>2. row'[r].status # "absent" => req'[r].pc \in {"refresh", "written", "lost"}
  <2>1. CASE Insert(r)
    BY <1>0, <2>1, GotoFrame DEF Insert
  <2>2. ASSUME row[r].status # "absent"
        PROVE  req'[r].pc \in {"refresh", "written", "lost"}
    <3>1. req[r].pc \in {"refresh", "written", "lost"}
      BY <1>0, <2>2 DEF RequestHonest
    <3>2. req'[r] = req[r] \/ GoesOn(r)
      BY <1>0, <3>1, NextCases, BeginFrame, ContinueCases DEF Alone, CheckIv
    <3>3. QED
      BY <3>1, <3>2 DEF GoesOn
  <2>3. QED
    BY <2>1, <2>2, RowBorn
\* What r has checked, and the row it works on.
<1> DEFINE Checked ==
      /\ req'[r].pc \in {"iv", "replay", "insert", "ivConflict"} => req'[r].new.pwd \in Blob
      /\ req'[r].pc \in {"insert", "update"} =>
           req'[r].new.pwd # Malformed /\ req'[r].new.notes # Malformed
      /\ req'[r].pc = "insert" => req'[r].id = r
      /\ req'[r].pc \in {"iv", "replay"} /\ req'[r].id # r =>
           req'[r].id \in Request /\ row'[req'[r].id].status # "absent"
      /\ req'[r].pc \in {"update", "erase", "refresh", "deleted"} =>
           req'[r].id \in Request /\ row'[req'[r].id].status # "absent"
<1>3. ASSUME req'[r] = req[r]
      PROVE  Checked
  BY <1>0, <1>3 DEF RequestHonest, RowsStay
<1>4. ASSUME NEW pc, NEW s, NEW new, NEW old, Begin(r, pc, s, new, old)
      PROVE  req'[r].pc = pc /\ req'[r].id = s /\ req'[r].new = new
  BY <1>0, <1>4 DEF TypeOK, Begin
<1>5. ASSUME NEW c \in Payload, Create(r, c)
      PROVE  Checked
  <2>1. c.pwd \in Blob \cup {Malformed, None}
    BY PayloadAssumption DEF Content
  <2>2. QED
    BY <1>4, <1>5, <2>1 DEF Create
<1>6. ASSUME NEW c \in Payload, NEW s \in Request, Update(r, s, c)
      PROVE  Checked
  <2>1. c.pwd \in Blob \cup {Malformed, None} /\ c.notes \in Blob \cup {Malformed, None}
    BY PayloadAssumption DEF Content
  <2>2. /\ req'[r].id = s /\ req'[r].new = c /\ row'[s].status # "absent"
        /\ req'[r].pc = IF ~Stored(s) THEN "missing"
                        ELSE IF c.pwd = Malformed THEN "invalid"
                        ELSE IF c.pwd # None THEN "iv"
                        ELSE IF c.notes = Malformed THEN "invalid" ELSE "update"
    BY <1>4, <1>6 DEF Update
  <2>3. QED
    BY <2>1, <2>2
<1>7. ASSUME NEW s \in Request, Delete(r, s)
      PROVE  Checked
  BY <1>4, <1>7 DEF Delete
<1>8. ASSUME CheckIv(r)
      PROVE  Checked
  <2>1. /\ req'[r].pc \in {"replay", "ivConflict"} /\ req[r].pc = "iv"
        /\ req'[r].id = req[r].id /\ req'[r].new = req[r].new
    BY <1>0, <1>8 DEF CheckIv, TypeOK, RequestState
  <2>2. QED
    BY <1>0, <2>1 DEF RequestHonest, RowsStay
<1>9. ASSUME CheckReplay(r)
      PROVE  Checked
  <2>1. /\ req'[r].pc \in {"replayed", Parsed(r)} /\ req[r].pc = "replay"
        /\ req'[r].id = req[r].id /\ req'[r].new = req[r].new
    BY <1>0, <1>9 DEF CheckReplay, TypeOK, RequestState
  <2>2. req[r].new.notes \in Blob \cup {Malformed, None}
    BY <1>0 DEF TypeOK, RequestState, Content
  <2>3. req[r].new.pwd \in Blob
    BY <1>0, <2>1 DEF RequestHonest
  <2>4. req[r].id # r => req[r].id \in Request /\ row'[req[r].id].status # "absent"
    BY <1>0, <2>1 DEF RequestHonest, RowsStay
  <2>5. QED
    BY <1>1, <2>1, <2>2, <2>3, <2>4 DEF Parsed, Write
<1>10. ASSUME Insert(r)
       PROVE  Checked
  <2>1. req'[r].pc = "refresh" /\ req'[r].id = r
    BY <1>0, <1>10, GotoFrame DEF Insert, RequestHonest
  <2>2. row'[r].status # "absent"
    BY <1>0, <1>10 DEF Insert, TypeOK
  <2>3. QED
    BY <2>1, <2>2
<1>11. ASSUME UpdateCommit(r) \/ Erase(r) \/ Refresh(r) \/ Fail(r)
       PROVE  Checked
  <2>1. /\ req'[r].id = req[r].id
        /\ \/ req'[r].pc \in {"lost", "written"}
           \/ req[r].pc \in {"update", "erase"} /\ req'[r].pc \in {"refresh", "deleted"}
    BY <1>0, <1>11, GotoFrame DEF UpdateCommit, Erase, Refresh, Fail
  <2>2. QED
    BY <1>0, <2>1 DEF RequestHonest, RowsStay
<1> HIDE DEF Checked
<1>12. Checked
  BY <1>0, <1>3, <1>5, <1>6, <1>7, <1>8, <1>9, <1>10, <1>11,
     NextCases, BeginFrame, ContinueCases DEF Alone, Begins, Continue
<1>13. QED
  BY <1>2, <1>12 DEF RequestHonest, Checked

LEMMA TraceStep ==
    ASSUME IInv, TypeOK', [Next]_vars
    PROVE  RefusedLeaveNoTrace'
<1>0. TypeOK
  BY DEF IInv
<1>1. DOMAIN Blank = {"name", "pwd", "notes"}
  BY DEF Blank
<1> DEFINE Giver(r, s, k, v) ==
      req[r].id = s /\ req[r].new[k] = v /\ req[r].pc \in {"refresh", "written", "lost"}
           GiverNext(r, s, k, v) ==
      req'[r].id = s /\ req'[r].new[k] = v /\ req'[r].pc \in {"refresh", "written", "lost"}
<1> SUFFICES ASSUME NEW s \in Request, Stored(s)'
             PROVE  /\ row'[s].content.pwd \in Blob /\ row'[s].content.notes # Malformed
                    /\ \A k \in DOMAIN Blank : row'[s].content[k] # None =>
                         \E r \in Request : GiverNext(r, s, k, row'[s].content[k])
  BY DEF RefusedLeaveNoTrace
\* Who has given a column remains its giver.
<1>2. ASSUME NEW k \in DOMAIN Blank, NEW v, \E r \in Request : Giver(r, s, k, v)
      PROVE  \E r \in Request : GiverNext(r, s, k, v)
  <2>1. PICK r \in Request : Giver(r, s, k, v)
    BY <1>2
  <2>2. req'[r] = req[r] \/ GoesOn(r)
    BY <1>0, <2>1, NextCases, BeginFrame, ContinueCases DEF Alone, CheckIv
  <2>3. GiverNext(r, s, k, v)
    BY <2>1, <2>2 DEF GoesOn
  <2>4. QED
    BY <2>3
<1>3. ASSUME Stored(s)
      PROVE  /\ row[s].content.pwd \in Blob /\ row[s].content.notes # Malformed
             /\ \A k \in DOMAIN Blank : row[s].content[k] # None =>
                  \E r \in Request : Giver(r, s, k, row[s].content[k])
  BY <1>3 DEF IInv, RefusedLeaveNoTrace
<1>4. CASE row'[s] = row[s]
  <2>1. Stored(s)
    BY <1>4 DEF Stored
  <2>2. ASSUME NEW k \in DOMAIN Blank, row'[s].content[k] # None
        PROVE  \E r \in Request : GiverNext(r, s, k, row'[s].content[k])
    <3>1. row[s].content[k] # None
      BY <1>4, <2>2
    <3>2. \E r \in Request : Giver(r, s, k, row[s].content[k])
      BY <1>3, <2>1, <3>1
    <3>3. QED
      BY <1>2, <1>4, <3>2
  <2>3. QED
    BY <1>3, <1>4, <2>1, <2>2
<1>5. CASE Insert(s)
  <2>1. row'[s].content = req[s].new
    BY <1>0, <1>5 DEF Insert, TypeOK
  <2>2. /\ req[s].id = s /\ req[s].new.pwd \in Blob /\ req[s].new.notes \in Blob \cup {None}
    BY <1>5 DEF Insert, IInv, RequestHonest, TypeOK, RequestState, Content
  <2>3. req'[s].pc = "refresh" /\ req'[s].id = s /\ req'[s].new = req[s].new
    BY <1>0, <1>5, <2>2, GotoFrame DEF Insert
  <2>4. \A k \in DOMAIN Blank : GiverNext(s, s, k, row'[s].content[k])
    BY <2>1, <2>3
  <2>5. QED
    BY <2>1, <2>2, <2>4, BlobAssumption
<1>6. ASSUME NEW r \in Request, UpdateCommit(r), row'[s] # row[s]
      PROVE  /\ row'[s].content.pwd \in Blob /\ row'[s].content.notes # Malformed
             /\ \A k \in DOMAIN Blank : row'[s].content[k] # None =>
                  \E q \in Request : GiverNext(q, s, k, row'[s].content[k])
  <2>1. /\ req[r].id = s /\ Stored(s) /\ req[r].pc = "update"
        /\ row'[s].content = Merged(r, row[s].content)
        /\ Goto(r, "refresh")
    BY <1>0, <1>6 DEF UpdateCommit, Writable, TypeOK
  <2>2. req'[r].pc = "refresh" /\ req'[r].id = s /\ req'[r].new = req[r].new
    BY <1>0, <2>1, GotoFrame
  <2>3. req[r].new.pwd \in Blob \cup {None} /\ req[r].new.notes \in Blob \cup {None}
    BY <2>1 DEF IInv, RequestHonest, TypeOK, RequestState, Content
  <2>4. ASSUME NEW k \in DOMAIN Blank
        PROVE  /\ row'[s].content[k] = req[r].new[k] /\ req[r].new[k] # None
               \/ row'[s].content[k] = row[s].content[k]
    BY <1>1, <2>1 DEF Merged, Changed
  <2>5. row'[s].content.pwd \in Blob /\ row'[s].content.notes # Malformed
    BY <1>1, <1>3, <2>1, <2>3, <2>4, BlobAssumption
  <2>6. ASSUME NEW k \in DOMAIN Blank, row'[s].content[k] # None
        PROVE  \E q \in Request : GiverNext(q, s, k, row'[s].content[k])
    <3>1. CASE row'[s].content[k] = req[r].new[k]
      <4>1. GiverNext(r, s, k, row'[s].content[k])
        BY <2>2, <3>1
      <4>2. QED
        BY <4>1
    <3>2. CASE row'[s].content[k] = row[s].content[k]
      BY <1>2, <1>3, <2>1, <2>6, <3>2
    <3>3. QED
      BY <2>4, <3>1, <3>2
  <2>7. QED
    BY <2>5, <2>6
<1>7. ASSUME NEW r \in Request, Erase(r)
      PROVE  row'[s] = row[s]
  BY <1>0, <1>7 DEF Erase, Stored, TypeOK, VaultRow
<1>8. ASSUME NEW r \in Request, Insert(r), r # s
      PROVE  row'[s] = row[s]
  BY <1>0, <1>8 DEF Insert, TypeOK
<1>9. QED
  BY <1>4, <1>5, <1>6, <1>7, <1>8, RowCases

----------------------------------------------------------------------------
(* The theorems *)

LEMMA Inductive == IInv /\ [Next]_vars => IInv'
<1> SUFFICES ASSUME IInv, [Next]_vars
             PROVE  IInv'
  OBVIOUS
<1>1. TypeOK'
  BY TypeStep
<1>2. Stays /\ RowsStay
  BY <1>1, StaysStep DEF Stays
<1>3. IvSpacing' /\ RefusedLeaveNoTrace'
  BY <1>1, SpacingStep, TraceStep
<1>4. DeletionFinal' /\ ConflictDeserved'
  BY <1>1, <1>2, DeletionStep, ConflictStep
<1>5. \A r \in Request : RequestHonest(r)' /\ GrantHonest(r)'
  BY <1>1, <1>2, RequestStep, GrantStep
<1>6. \A i \in Iv : KeyHonest(i)'
  BY <1>1, <1>2, KeyStep
<1>7. QED
  BY <1>1, <1>3, <1>4, <1>5, <1>6 DEF IInv

LEMMA Initial == Init => IInv
<1> SUFFICES ASSUME Init
             PROVE  IInv
  OBVIOUS
<1>1. TypeOK
  <2>1. [pc |-> "new", id |-> None, new |-> Blank, old |-> Blank, ivAt |-> 0, blobAt |-> 0]
          \in RequestState
    BY BlankType DEF RequestState
  <2>2. [status |-> "absent", content |-> Blank] \in VaultRow
    BY BlankType DEF VaultRow
  <2>3. QED
    BY <2>1, <2>2 DEF Init, TypeOK
<1>2. \A r \in Request : req[r].pc = "new" /\ row[r].status = "absent"
  BY DEF Init
<1>3. IvSpacing /\ DeletionFinal /\ RefusedLeaveNoTrace /\ ConflictDeserved
  BY <1>2 DEF IvSpacing, IvGranted, DeletionFinal, RefusedLeaveNoTrace, Stored,
              ConflictDeserved
<1>4. \A r \in Request : RequestHonest(r) /\ GrantHonest(r)
  BY <1>2 DEF RequestHonest, GrantHonest, IvGranted
<1>5. \A i \in Iv : KeyHonest(i)
  BY DEF Init, KeyHonest
<1>6. QED
  BY <1>1, <1>3, <1>4, <1>5 DEF IInv

\* Every reachable state satisfies the inductive invariant.
THEOREM Invariance == Spec => []IInv
BY Initial, Inductive, PTL DEF Spec

\* The variables keep their types: rows, cache deadlines and requests in every
\* state of their handlers.
THEOREM Typing == Spec => []TypeOK
BY Invariance, PTL DEF IInv

\* Two writes that were granted the same IV are a window apart.
THEOREM SpacedIvs == Spec => []IvSpacing
BY Invariance, PTL DEF IInv

\* An item whose deletion was answered never comes back, whatever updates had
\* read it before.
THEOREM FinalDeletions == Spec => []DeletionFinal
BY Invariance, PTL DEF IInv

\* Stored columns come from requests for that row that passed every check.
THEOREM NoTrace == Spec => []RefusedLeaveNoTrace
BY Invariance, PTL DEF IInv

\* A conflict is answered only within a window of the grant that it is with.
THEOREM DeservedConflicts == Spec => []ConflictDeserved
BY Invariance, PTL DEF IInv

\* An update writes only what it was asked to write, so that concurrent
\* updates of different columns both survive.
THEOREM ColumnsSurvive == Spec => NoLostColumn
<1>1. ASSUME IInv, [Next]_vars, NEW r \in Request, NEW s \in Request,
             NEW k \in DOMAIN Blank, req[r].pc = "update", req'[r].pc = "refresh",
             row'[s].content[k] # row[s].content[k]
      PROVE  row'[s].content[k] = req[r].new[k]
  <2>0. TypeOK
    BY <1>1 DEF IInv
  <2>1. UpdateCommit(r)
    <3>1. Continue(r) \/ Fail(r)
      BY <1>1, <2>0, NextCases, BeginFrame, ContinueCases DEF Alone
    <3>2. ~Fail(r)
      BY <1>1, <2>0, GotoFrame DEF Fail
    <3>3. QED
      BY <1>1, <3>1, <3>2 DEF Continue, CheckIv, CheckReplay, Insert, Refresh, Erase
  <2>2. req[r].id = s /\ row'[s].content = Merged(r, row[s].content)
    BY <1>1, <2>0, <2>1 DEF UpdateCommit, TypeOK
  <2>3. QED
    BY <1>1, <2>2 DEF Merged, Changed
<1>2. IInv /\ [Next]_vars =>
        [\A r, s \in Request : \A k \in DOMAIN Blank :
           /\ req[r].pc = "update" /\ req'[r].pc = "refresh"
           /\ row'[s].content[k] # row[s].content[k]
           => row'[s].content[k] = req[r].new[k]]_vars
  BY <1>1
<1>3. QED
  BY <1>2, Invariance, PTL DEF Spec, NoLostColumn


----------------------------------------------------------------------------
(* Refinement *)

\* What the store sees of a step that moves one request only.
LEMMA SeenStep ==
    ASSUME NEW r \in Request, Alone(r)
    PROVE  /\ [q \in Request |-> PhaseSeen(req'[q].pc)]
                = [[q \in Request |-> PhaseSeen(req[q].pc)]
                     EXCEPT ![r] = PhaseSeen(req'[r].pc)]
           /\ [q \in Request |-> req'[q].id]
                = [[q \in Request |-> req[q].id] EXCEPT ![r] = req'[r].id]
           /\ [q \in Request |-> Wished(req'[q].new)]
                = [[q \in Request |-> Wished(req[q].new)] EXCEPT ![r] = Wished(req'[r].new)]
           /\ [q \in Request |-> DueSeen(q)']
                = [[q \in Request |-> DueSeen(q)] EXCEPT ![r] = DueSeen(r)']
<1>1. \A q \in Request : q # r => req'[q] = req[q] /\ DueSeen(q)' = DueSeen(q)
  BY DEF Alone, DueSeen, Changed
<1>2. QED
  BY <1>1

\* A request that keeps its payload and its row, and has nothing left to
\* write, moves as Move says.
LEMMA SeenMove ==
    ASSUME NEW r \in Request, Alone(r), UNCHANGED row,
           req'[r].id = req[r].id, req'[r].new = req[r].new,
           NEW from, NEW to, PhaseSeen(req[r].pc) \in from, PhaseSeen(req'[r].pc) = to,
           to # "open"
    PROVE  Store!Move(r, from, to)
<1>1. DueSeen(r)' = {}
  BY DEF DueSeen
<1>2. /\ [q \in Request |-> req'[q].id] = [q \in Request |-> req[q].id]
      /\ [q \in Request |-> Wished(req'[q].new)] = [q \in Request |-> Wished(req[q].new)]
  BY DEF Alone
<1>3. [s \in Request |-> ItemSeen(s)'] = [s \in Request |-> ItemSeen(s)]
  BY DEF ItemSeen, Stored
<1>4. QED
  BY <1>1, <1>2, <1>3, SeenStep DEF Store!Move

\* A request that arrives is an arrival at the store.
LEMMA SeenBegin ==
    ASSUME TypeOK, NEW r \in Request, NEW pc, NEW s, NEW new, NEW old,
           Begin(r, pc, s, new, old)
    PROVE  /\ Alone(r) /\ req[r].pc = "new" /\ req'[r].pc = pc
           /\ req'[r].id = s /\ req'[r].new = new /\ req'[r].old = old
BY DEF TypeOK, Begin, Alone

LEMMA SeenArrive ==
    ASSUME TypeOK, NEW r \in Request, NEW pc, NEW s, NEW new, NEW old,
           Begin(r, pc, s, new, old), UNCHANGED row,
           NEW columns, DueSeen(r)' = columns,
           NEW ph, PhaseSeen(pc) = ph
    PROVE  Store!Arrive(r, s, Wished(new), ph, columns)
<1>1. PhaseSeen(req[r].pc) = "idle"
  BY SeenBegin DEF PhaseSeen
<1>2. [q \in Request |-> ItemSeen(q)'] = [q \in Request |-> ItemSeen(q)]
  BY DEF ItemSeen, Stored
<1>3. /\ Alone(r) /\ req'[r].pc = pc /\ req'[r].id = s /\ req'[r].new = new
  BY SeenBegin
<1>4. /\ [q \in Request |-> PhaseSeen(req'[q].pc)]
           = [[q \in Request |-> PhaseSeen(req[q].pc)] EXCEPT ![r] = ph]
      /\ [q \in Request |-> DueSeen(q)']
           = [[q \in Request |-> DueSeen(q)] EXCEPT ![r] = columns]
  BY <1>3, SeenStep
<1>5. /\ [q \in Request |-> req'[q].id] = [[q \in Request |-> req[q].id] EXCEPT ![r] = s]
      /\ [q \in Request |-> Wished(req'[q].new)]
           = [[q \in Request |-> Wished(req[q].new)] EXCEPT ![r] = Wished(new)]
  BY <1>3, SeenStep
<1>6. QED
  BY <1>1, <1>2, <1>4, <1>5 DEF Store!Arrive

\* A request that has just arrived works on a row it did not insert.
LEMMA NotOwnRow ==
    ASSUME IInv, NEW r \in Request, req[r].pc = "new"
    PROVE  row[r].status = "absent"
BY DEF IInv, RequestHonest

LEMMA CreateRefines ==
    ASSUME IInv, NEW r \in Request, NEW c \in Payload, Create(r, c)
    PROVE  Store!Next
<1>1. PICK pc \in {"invalid", "iv"} : Begin(r, pc, r, c, Blank)
  BY DEF Create
<1>2. TypeOK /\ UNCHANGED row
  BY DEF Create, IInv
<1>3. /\ req'[r].pc = pc /\ req'[r].id = r /\ req'[r].new = c
      /\ req[r].pc = "new"
  BY <1>1, <1>2, SeenBegin
<1>4. Wished(c) \in {Wished(d) : d \in Payload}
  OBVIOUS
<1>5. CASE pc = "invalid"
  <2>1. PhaseSeen(pc) = "refused" /\ DueSeen(r)' = {}
    BY <1>3, <1>5 DEF PhaseSeen, Refused, DueSeen
  <2>2. Store!TurnAway(r, r, Wished(c))
    BY <1>1, <1>2, <2>1, SeenArrive DEF Store!TurnAway
  <2>3. QED
    BY <1>4, <2>2 DEF Store!Next
<1>6. CASE pc = "iv"
  <2>1. PhaseSeen(pc) = "open" /\ DueSeen(r)' = Given(c)
    BY <1>3, <1>6 DEF PhaseSeen, DueSeen
  <2>2. row[r].status = "absent"
    BY <1>3, NotOwnRow
  <2>3. ItemSeen(r) = [status |-> "absent", content |-> Blank]
    BY <2>2 DEF ItemSeen, Stored
  <2>4. Given(c) = {k \in DOMAIN Wished(c) :
                      Wished(c)[k] # [q \in Request |-> ItemSeen(q)][r].content[k]}
    BY <2>3 DEF Given, Wished, Blank
  <2>5. Store!Arrive(r, r, Wished(c), "open", Given(c))
    BY <1>1, <1>2, <2>1, SeenArrive
  <2>6. Store!Ask(r, r, Wished(c))
    BY <2>3, <2>4, <2>5 DEF Store!Ask, Store!Open, Store!Arrive
  <2>7. QED
    BY <1>4, <2>6 DEF Store!Next
<1>7. QED
  BY <1>5, <1>6

LEMMA UpdateRefines ==
    ASSUME IInv, NEW r \in Request, NEW s \in Request, NEW c \in Payload, Update(r, s, c)
    PROVE  Store!Next
<1>1. PICK pc \in {"missing", "invalid", "iv", "update"} :
        /\ Begin(r, pc, s, c, row[s].content)
        /\ pc \in {"iv", "update"} => Stored(s)
  BY DEF Update
<1>2. TypeOK /\ UNCHANGED row /\ row[s].status # "absent"
  BY DEF Update, IInv
<1>3. /\ req'[r].pc = pc /\ req'[r].id = s /\ req'[r].new = c
      /\ req'[r].old = row[s].content /\ req[r].pc = "new"
  BY <1>1, <1>2, SeenBegin
<1>4. Wished(c) \in {Wished(d) : d \in Payload}
  OBVIOUS
<1>5. CASE pc \in {"missing", "invalid"}
  <2>1. PhaseSeen(pc) = "refused" /\ DueSeen(r)' = {}
    BY <1>3, <1>5 DEF PhaseSeen, Refused, DueSeen
  <2>2. Store!TurnAway(r, s, Wished(c))
    BY <1>1, <1>2, <2>1, SeenArrive DEF Store!TurnAway
  <2>3. QED
    BY <1>4, <2>2 DEF Store!Next
<1>6. CASE pc \in {"iv", "update"}
  <2>1. s # r /\ Stored(s)
    BY <1>1, <1>2, <1>3, <1>6, NotOwnRow
  <2>2. ItemSeen(s) = [status |-> "stored", content |-> row[s].content]
    BY <2>1 DEF ItemSeen, Stored
  <2>3. PhaseSeen(pc) = "open" /\ DueSeen(r)' = Changed(r)'
    BY <1>3, <1>6, <2>1 DEF PhaseSeen, DueSeen
  <2>4. PICK columns :
          columns = {k \in DOMAIN Blank : c[k] \notin {None, row[s].content[k]}}
    OBVIOUS
  <2>5. DueSeen(r)' = columns
    BY <1>3, <2>3, <2>4 DEF Changed
  <2>6. columns = {k \in DOMAIN Wished(c) :
                     Wished(c)[k] # [q \in Request |-> ItemSeen(q)][s].content[k]}
    BY <2>2, <2>4 DEF Given, Wished
  <2>7. Store!Arrive(r, s, Wished(c), "open", columns)
    <3>1. PhaseSeen(pc) = "open"
      BY <2>3
    <3>2. QED
      BY <1>1, <1>2, <2>5, <3>1, SeenArrive
  <2>8. Store!Ask(r, s, Wished(c))
    <3>1. Store!Open(r, s)
      BY <2>1, <2>2 DEF Store!Open
    <3>2. QED
      BY <2>6, <2>7, <3>1 DEF Store!Ask, Store!Arrive
  <2>9. QED
    BY <1>4, <2>8 DEF Store!Next
<1>7. QED
  BY <1>5, <1>6

LEMMA DeleteRefines ==
    ASSUME IInv, NEW r \in Request, NEW s \in Request, Delete(r, s)
    PROVE  Store!Next
<1>1. PICK pc \in {"erase", "missing"} :
        /\ Begin(r, pc, s, Blank, Blank)
        /\ pc = "erase" => Stored(s)
  BY DEF Delete
<1>2. TypeOK /\ UNCHANGED row
  BY DEF Delete, IInv
<1>3. Wished(Blank) = Store!NoWish
  BY DEF Wished, Given, Blank, Store!NoWish
<1>4. DueSeen(r)' = {} /\ PhaseSeen(pc) = IF pc = "erase" THEN "erasing" ELSE "refused"
  BY <1>1, <1>2, SeenBegin DEF PhaseSeen, Refused, DueSeen
<1>5. CASE pc = "erase"
  <2>1. ItemSeen(s).status = "stored"
    BY <1>1, <1>5 DEF ItemSeen, Stored
  <2>2. Store!Arrive(r, s, Store!NoWish, "erasing", {})
    BY <1>1, <1>2, <1>3, <1>4, <1>5, SeenArrive
  <2>3. Store!AskErase(r, s)
    BY <2>1, <2>2 DEF Store!AskErase
  <2>4. QED
    BY <2>3 DEF Store!Next
<1>6. CASE pc = "missing"
  <2>1. Store!Arrive(r, s, Store!NoWish, "refused", {})
    BY <1>1, <1>2, <1>3, <1>4, <1>6, SeenArrive
  <2>2. Store!TurnAway(r, s, Store!NoWish)
    BY <2>1 DEF Store!TurnAway
  <2>3. QED
    BY <2>2 DEF Store!Next
<1>7. QED
  BY <1>5, <1>6

\* A step the store does not see.
LEMMA SeenQuiet ==
    ASSUME NEW r \in Request, Alone(r), UNCHANGED row,
           req'[r].id = req[r].id, req'[r].new = req[r].new, req'[r].old = req[r].old,
           PhaseSeen(req'[r].pc) = PhaseSeen(req[r].pc)
    PROVE  UNCHANGED Store!vars
<1>1. \A q \in Request : /\ DueSeen(q)' = DueSeen(q)
                         /\ PhaseSeen(req'[q].pc) = PhaseSeen(req[q].pc)
                         /\ req'[q].id = req[q].id /\ req'[q].new = req[q].new
  BY DEF Alone, DueSeen, Changed
<1>2. \A s \in Request : ItemSeen(s)' = ItemSeen(s)
  BY DEF ItemSeen, Stored
<1>3. /\ [q \in Request |-> DueSeen(q)'] = [q \in Request |-> DueSeen(q)]
      /\ [q \in Request |-> PhaseSeen(req'[q].pc)] = [q \in Request |-> PhaseSeen(req[q].pc)]
      /\ [q \in Request |-> req'[q].id] = [q \in Request |-> req[q].id]
      /\ [q \in Request |-> Wished(req'[q].new)] = [q \in Request |-> Wished(req[q].new)]
      /\ [q \in Request |-> ItemSeen(q)'] = [q \in Request |-> ItemSeen(q)]
  BY <1>1, <1>2
<1>4. QED
  BY <1>3 DEF Store!vars

\* The checks of a write refuse it or are not seen.
LEMMA CheckRefines ==
    ASSUME TypeOK, NEW r \in Request, CheckIv(r) \/ CheckReplay(r)
    PROVE  Store!Next \/ UNCHANGED Store!vars
<1>1. /\ Alone(r) /\ req[r].pc \in {"iv", "replay"}
      /\ req'[r].pc \in {"replay", "ivConflict", "replayed", "invalid", "insert", "update"}
      /\ req'[r].id = req[r].id /\ req'[r].new = req[r].new /\ req'[r].old = req[r].old
      /\ UNCHANGED row
  <2>1. CASE CheckIv(r)
    BY <2>1 DEF TypeOK, RequestState, CheckIv, Alone
  <2>2. CASE CheckReplay(r)
    <3>1. PICK pc \in {"replayed", "invalid", "insert", "update"} :
            req' = [req EXCEPT ![r].pc = pc, ![r].blobAt = now]
      BY <2>2, ParsedType DEF CheckReplay
    <3>2. QED
      BY <2>2, <3>1 DEF TypeOK, RequestState, CheckReplay, Alone
  <2>3. QED
    BY <2>1, <2>2
<1>2. PhaseSeen(req[r].pc) = "open"
  BY <1>1 DEF PhaseSeen
<1>3. CASE req'[r].pc \in {"replay", "insert", "update"}
  <2>1. PhaseSeen(req'[r].pc) = "open"
    BY <1>3 DEF PhaseSeen
  <2>2. QED
    BY <1>1, <1>2, <2>1, SeenQuiet
<1>4. CASE req'[r].pc \in {"ivConflict", "replayed", "invalid"}
  <2>1. PhaseSeen(req'[r].pc) = "refused"
    BY <1>4 DEF PhaseSeen, Refused
  <2>2. Store!Refuse(r)
    BY <1>1, <1>2, <2>1, SeenMove DEF Store!Refuse
  <2>3. QED
    BY <2>2 DEF Store!Next
<1>5. QED
  BY <1>1, <1>3, <1>4

\* A request that fails, or finds its row gone, is lost.
LEMMA LoseRefines ==
    ASSUME TypeOK, NEW r \in Request, req[r].pc \in Pending, Goto(r, "lost"), UNCHANGED row
    PROVE  Store!Next
<1>1. Alone(r) /\ req'[r].pc = "lost" /\ req'[r].id = req[r].id /\ req'[r].new = req[r].new
  BY GotoFrame
<1>2. PhaseSeen(req[r].pc) \in {"open", "erasing", "applied"}
  BY DEF Pending, PhaseSeen
<1>3. PhaseSeen(req'[r].pc) = "lost"
  BY <1>1 DEF PhaseSeen, Refused
<1>4. Store!Lose(r)
  BY <1>1, <1>2, <1>3, SeenMove DEF Store!Lose
<1>5. QED
  BY <1>4 DEF Store!Next

\* What a write may still apply is well formed, and a write that ends as an
\* insertion is the only one of its row.
LEMMA WishHonest ==
    ASSUME IInv, NEW r \in Request, req[r].pc \in {"insert", "update"}
    PROVE  /\ \A k \in DOMAIN Wished(req[r].new) : Wished(req[r].new)[k] # Malformed
           /\ req[r].pc = "insert" =>
                req[r].id = r /\ row[r].status = "absent" /\ Given(req[r].new) # {}
           /\ req[r].pc = "update" => req[r].id \in Request \ {r}
<1>1. /\ req[r].new.pwd # Malformed /\ req[r].new.notes # Malformed
      /\ req[r].pc = "insert" => req[r].id = r /\ req[r].new.pwd \in Blob
      /\ req[r].pc = "update" => req[r].id \in Request /\ row[req[r].id].status # "absent"
      /\ row[r].status = "absent"
  BY DEF IInv, RequestHonest
<1>2. req[r].new \in Content
  BY DEF IInv, TypeOK, RequestState
<1>3. req[r].new.name # Malformed
  BY <1>2, BlobAssumption DEF Content
<1>4. \A k \in DOMAIN Wished(req[r].new) : Wished(req[r].new)[k] # Malformed
  BY <1>1, <1>3 DEF Wished, Given, Blank
<1>5. req[r].new.pwd \in Blob => "pwd" \in Given(req[r].new)
  BY BlobAssumption DEF Given, Blank
<1>6. QED
  BY <1>1, <1>4, <1>5

\* A commit that writes columns is the effect the store asks for.
LEMMA SeenApply ==
    ASSUME NEW r \in Request, NEW s \in Request, NEW content,
           Alone(r), req[r].id = s, req'[r].id = s, req'[r].new = req[r].new,
           PhaseSeen(req[r].pc) = "open", PhaseSeen(req'[r].pc) = "applied",
           \A k \in DOMAIN Wished(req[r].new) : Wished(req[r].new)[k] # Malformed,
           DueSeen(r) # {}, Store!Open(r, s),
           content = [k \in DOMAIN Blank |->
                        IF k \in DueSeen(r) THEN Wished(req[r].new)[k]
                        ELSE ItemSeen(s).content[k]],
           ItemSeen(s)' = [status |-> "stored", content |-> content],
           \A t \in Request : t # s => ItemSeen(t)' = ItemSeen(t)
    PROVE  Store!Next
<1>1. [t \in Request |-> ItemSeen(t)']
        = [[t \in Request |-> ItemSeen(t)] EXCEPT ![s] =
             [status |-> "stored", content |-> content]]
  OBVIOUS
<1>2. DueSeen(r)' = {}
  BY DEF DueSeen
<1>3. /\ [q \in Request |-> req'[q].id] = [q \in Request |-> req[q].id]
      /\ [q \in Request |-> Wished(req'[q].new)] = [q \in Request |-> Wished(req[q].new)]
  BY DEF Alone
<1>4. /\ [q \in Request |-> PhaseSeen(req'[q].pc)]
           = [[q \in Request |-> PhaseSeen(req[q].pc)] EXCEPT ![r] = "applied"]
      /\ [q \in Request |-> DueSeen(q)'] = [[q \in Request |-> DueSeen(q)] EXCEPT ![r] = {}]
  BY <1>2, SeenStep
<1>5. content = Store!Written(r, [t \in Request |-> ItemSeen(t)][s].content)
  BY DEF Store!Written
<1>6. [q \in Request |-> req[q].id][r] = s /\ [q \in Request |-> DueSeen(q)][r] # {}
  OBVIOUS
<1>7. [t \in Request |-> ItemSeen(t)']
        = [[t \in Request |-> ItemSeen(t)] EXCEPT ![s] =
             [status |-> "stored", content |-> Store!Written(r, @.content)]]
  BY <1>1, <1>5
<1>8. Store!Apply(r)
  BY <1>3, <1>4, <1>6, <1>7 DEF Store!Apply
<1>9. QED
  BY <1>8 DEF Store!Next

LEMMA InsertRefines ==
    ASSUME IInv, NEW r \in Request, Insert(r)
    PROVE  Store!Next
<1>1. /\ req[r].pc = "insert" /\ req[r].id = r /\ row[r].status = "absent"
      /\ Given(req[r].new) # {}
      /\ \A k \in DOMAIN Wished(req[r].new) : Wished(req[r].new)[k] # Malformed
  BY WishHonest DEF Insert
<1>2. TypeOK /\ req[r].new \in Content
  BY DEF IInv, TypeOK, RequestState
<1>3. PICK content : content = req[r].new
  OBVIOUS
<1>4. /\ Alone(r) /\ req'[r].pc = "refresh" /\ req'[r].id = r /\ req'[r].new = req[r].new
  BY <1>1, <1>2, GotoFrame DEF Insert
<1>5. /\ PhaseSeen(req[r].pc) = "open" /\ PhaseSeen(req'[r].pc) = "applied"
      /\ DueSeen(r) = Given(content)
  BY <1>1, <1>3, <1>4 DEF PhaseSeen, DueSeen
<1>6. ItemSeen(r) = [status |-> "absent", content |-> Blank]
  BY <1>1 DEF ItemSeen, Stored
<1>7. content = [k \in DOMAIN Blank |->
                   IF k \in Given(content) THEN Wished(content)[k] ELSE Blank[k]]
  BY <1>2, <1>3 DEF Content, Given, Wished, Blank
<1>8. ItemSeen(r)' = [status |-> "stored", content |-> content]
  BY <1>2, <1>3 DEF Insert, TypeOK, ItemSeen, Stored
<1>9. \A s \in Request : s # r => ItemSeen(s)' = ItemSeen(s)
  BY <1>2 DEF Insert, TypeOK, ItemSeen, Stored
<1>10. Store!Open(r, r)
  BY <1>6 DEF Store!Open
<1>11. content = [k \in DOMAIN Blank |->
                    IF k \in DueSeen(r) THEN Wished(req[r].new)[k]
                    ELSE ItemSeen(r).content[k]]
  BY <1>3, <1>5, <1>6, <1>7
<1>12. QED
  BY <1>1, <1>3, <1>4, <1>5, <1>8, <1>9, <1>10, <1>11, SeenApply

LEMMA UpdateCommitRefines ==
    ASSUME IInv, NEW r \in Request, UpdateCommit(r)
    PROVE  Store!Next
<1>1. PICK s \in Request : req[r].id = s /\ s # r
  BY WishHonest DEF UpdateCommit
<1>2. /\ TypeOK /\ req[r].pc = "update"
      /\ \A k \in DOMAIN Wished(req[r].new) : Wished(req[r].new)[k] # Malformed
  BY WishHonest DEF UpdateCommit, IInv
<1>3. PhaseSeen(req[r].pc) = "open" /\ DueSeen(r) = Changed(r)
  BY <1>1, <1>2 DEF PhaseSeen, DueSeen
<1>4. CASE Changed(r) # {} /\ ~Stored(s)
  BY <1>1, <1>2, <1>4, LoseRefines DEF UpdateCommit, Writable, Pending
<1>5. ASSUME Changed(r) = {} \/ Stored(s)
      PROVE  /\ Alone(r) /\ req'[r].pc = "refresh" /\ req'[r].id = s
             /\ req'[r].new = req[r].new /\ PhaseSeen(req'[r].pc) = "applied"
  BY <1>1, <1>2, <1>5, GotoFrame DEF UpdateCommit, Writable, PhaseSeen
<1>6. CASE Changed(r) = {}
  <2>1. UNCHANGED row
    BY <1>6 DEF UpdateCommit
  <2>2. /\ [q \in Request |-> req'[q].id] = [q \in Request |-> req[q].id]
        /\ [q \in Request |-> Wished(req'[q].new)] = [q \in Request |-> Wished(req[q].new)]
        /\ [q \in Request |-> ItemSeen(q)'] = [q \in Request |-> ItemSeen(q)]
    BY <1>1, <1>5, <1>6, <2>1 DEF Alone, ItemSeen, Stored
  <2>3. DueSeen(r)' = {}
    BY <1>5, <1>6 DEF DueSeen
  <2>4. /\ [q \in Request |-> PhaseSeen(req'[q].pc)]
             = [[q \in Request |-> PhaseSeen(req[q].pc)] EXCEPT ![r] = "applied"]
        /\ [q \in Request |-> DueSeen(q)'] = [[q \in Request |-> DueSeen(q)] EXCEPT ![r] = {}]
    BY <1>5, <1>6, <2>3, SeenStep
  <2>5. Store!Apply(r)
    BY <1>2, <1>3, <1>6, <2>2, <2>4 DEF Store!Apply
  <2>6. QED
    BY <2>5 DEF Store!Next
<1>7. CASE Changed(r) # {} /\ Stored(s)
  <2>1. PICK content : content = Merged(r, row[s].content)
    OBVIOUS
  <2>2. row' = [row EXCEPT ![s] = [status |-> "stored", content |-> content]]
    BY <1>1, <1>7, <2>1 DEF UpdateCommit, Writable
  <2>3. ItemSeen(s) = [status |-> "stored", content |-> row[s].content]
    BY <1>7 DEF ItemSeen, Stored
  <2>4. ItemSeen(s)' = [status |-> "stored", content |-> content]
    BY <1>2, <2>2 DEF TypeOK, ItemSeen, Stored
  <2>5. \A t \in Request : t # s => ItemSeen(t)' = ItemSeen(t)
    BY <1>2, <2>2 DEF TypeOK, ItemSeen, Stored
  <2>6. \A k \in Changed(r) : Wished(req[r].new)[k] = req[r].new[k]
    BY DEF Changed, Wished, Given
  <2>7. content = [k \in DOMAIN Blank |->
                     IF k \in DueSeen(r) THEN Wished(req[r].new)[k]
                     ELSE ItemSeen(s).content[k]]
    BY <1>3, <2>1, <2>3, <2>6 DEF Merged
  <2>8. Store!Open(r, s)
    BY <1>1, <2>3 DEF Store!Open
  <2>9. QED
    BY <1>1, <1>2, <1>3, <1>5, <1>7, <2>4, <2>5, <2>7, <2>8, SeenApply
<1>8. QED
  BY <1>4, <1>6, <1>7

LEMMA RefreshRefines ==
    ASSUME IInv, NEW r \in Request, Refresh(r)
    PROVE  Store!Next
<1>1. TypeOK /\ UNCHANGED row /\ req[r].pc = "refresh" /\ req[r].id \in Request
  BY DEF Refresh, IInv, RequestHonest
<1>2. CASE Stored(req[r].id)
  <2>1. /\ Alone(r) /\ req'[r].pc = "written"
        /\ req'[r].id = req[r].id /\ req'[r].new = req[r].new
    BY <1>1, <1>2, GotoFrame DEF Refresh
  <2>2. PhaseSeen(req[r].pc) = "applied" /\ PhaseSeen(req'[r].pc) = "written"
    BY <1>1, <2>1 DEF PhaseSeen, Refused
  <2>3. Store!Move(r, {"applied"}, "written")
    BY <1>1, <2>1, <2>2, SeenMove
  <2>4. Store!Confirm(r)
    BY <1>1, <1>2, <2>3 DEF Store!Confirm, ItemSeen, Stored
  <2>5. QED
    BY <2>4 DEF Store!Next
<1>3. CASE ~Stored(req[r].id)
  BY <1>1, <1>3, LoseRefines DEF Refresh, Pending
<1>4. QED
  BY <1>2, <1>3

LEMMA EraseRefines ==
    ASSUME IInv, NEW r \in Request, Erase(r)
    PROVE  Store!Next
<1>1. PICK s \in Request : req[r].id = s
  BY DEF Erase, IInv, RequestHonest
<1>2. /\ TypeOK /\ Alone(r) /\ req[r].pc = "erase" /\ req'[r].pc = "deleted"
      /\ req'[r].id = s /\ req'[r].new = req[r].new
  BY <1>1, GotoFrame DEF Erase, IInv
<1>3. /\ PhaseSeen(req[r].pc) = "erasing" /\ PhaseSeen(req'[r].pc) = "deleted"
      /\ DueSeen(r) = {} /\ DueSeen(r)' = {}
  BY <1>2 DEF PhaseSeen, Refused, DueSeen
<1>4. /\ ItemSeen(s)' = [status |-> "deleted", content |-> Blank]
      /\ \A t \in Request : t # s => ItemSeen(t)' = ItemSeen(t)
  BY <1>1, <1>2 DEF Erase, TypeOK, VaultRow, ItemSeen, Stored
<1>5. [t \in Request |-> ItemSeen(t)']
        = [[t \in Request |-> ItemSeen(t)] EXCEPT ![s] =
             [status |-> "deleted", content |-> Blank]]
  BY <1>4
<1>6. /\ [q \in Request |-> req'[q].id] = [q \in Request |-> req[q].id]
      /\ [q \in Request |-> Wished(req'[q].new)] = [q \in Request |-> Wished(req[q].new)]
  BY <1>1, <1>2 DEF Alone
<1>7. /\ [q \in Request |-> PhaseSeen(req'[q].pc)]
           = [[q \in Request |-> PhaseSeen(req[q].pc)] EXCEPT ![r] = "deleted"]
      /\ [q \in Request |-> DueSeen(q)'] = [q \in Request |-> DueSeen(q)]
  <2>1. \A q \in Request : DueSeen(q)' = DueSeen(q)
    BY <1>2, <1>3 DEF Alone, DueSeen, Changed
  <2>2. QED
    BY <1>2, <1>3, <2>1, SeenStep
<1>8. Store!Nothing = Blank
  BY DEF Store!Nothing, Blank
<1>9. Store!Erase(r)
  BY <1>1, <1>3, <1>5, <1>6, <1>7, <1>8 DEF Store!Erase
<1>10. QED
  BY <1>9 DEF Store!Next

\* Every step of the endpoints is a step of the store or not seen there.
LEMMA StepRefines == IInv /\ [Next]_vars => [Store!Next]_(Store!vars)
<1> SUFFICES ASSUME IInv, [Next]_vars
             PROVE  Store!Next \/ UNCHANGED Store!vars
  OBVIOUS
<1>1. ASSUME UNCHANGED <<row, req>>
      PROVE  UNCHANGED Store!vars
  BY <1>1 DEF Store!vars, ItemSeen, Stored, DueSeen, Changed
<1>2. ASSUME NEW r \in Request, Begins(r)
      PROVE  Store!Next
  BY <1>2, CreateRefines, UpdateRefines, DeleteRefines DEF Begins
<1>3. ASSUME NEW r \in Request, Continue(r)
      PROVE  Store!Next \/ UNCHANGED Store!vars
  BY <1>3, CheckRefines, InsertRefines, UpdateCommitRefines, RefreshRefines, EraseRefines
  DEF Continue, IInv
<1>4. ASSUME NEW r \in Request, Fail(r)
      PROVE  Store!Next
  BY <1>4, LoseRefines DEF Fail, IInv
<1>5. QED
  BY <1>1, <1>2, <1>3, <1>4, NextCases

LEMMA InitRefines == Init => Store!Init
<1> SUFFICES ASSUME Init
             PROVE  Store!Init
  OBVIOUS
<1>1. Blank = Store!Nothing /\ Wished(Blank) = Store!NoWish
  BY DEF Store!Nothing, Store!NoWish, Wished, Given, Blank
<1>2. \A s \in Request : ItemSeen(s) = [status |-> "absent", content |-> Blank]
  BY DEF Init, ItemSeen, Stored
<1>3. \A r \in Request : /\ PhaseSeen(req[r].pc) = "idle" /\ req[r].id = None
                         /\ req[r].new = Blank /\ DueSeen(r) = {}
  BY DEF Init, PhaseSeen, DueSeen
<1>4. QED
  BY <1>1, <1>2, <1>3 DEF Store!Init

\* The endpoints, with their caches, their separate reads and commits and
\* their failures, implement a store whose writes are atomic and take effect
\* at most once, for any number of concurrent requests (router.py:76-250).
THEOREM Refinement == Spec => ImplementsStore
<1>1. IInv /\ [Next]_vars => [Store!Next]_(Store!vars)
  BY StepRefines
<1>2. QED
  BY <1>1, InitRefines, Invariance, PTL DEF Spec, ImplementsStore, Store!Spec
=============================================================================

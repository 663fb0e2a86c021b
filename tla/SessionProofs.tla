--------------------------- MODULE SessionProofs ---------------------------
(***************************************************************************)
(* Theorems about Session, for any set of requests and devices and any     *)
(* time limits.                                                            *)
(***************************************************************************)
EXTENDS Session, TLAPS

\* The verdict of a refresh names a state of a request.
LEMMA VerdictType ==
    \A s, t : RotateVerdict(s, t) \in {"reuse", "denied", "expire", "idle", "check"}
BY DEF RotateVerdict

\* Writing the pc of a request keeps the type of req.
LEMMA GotoType ==
    ASSUME TypeOK, NEW r \in Request,
           NEW pc \in {"new"} \cup Pending \cup Answered, Goto(r, pc)
    PROVE  req' \in [Request -> RequestState]
BY DEF TypeOK, Goto, RequestState

\* Writing fields of one row keeps the type of the table.
LEMMA RowType ==
    ASSUME TypeOK, NEW s, NEW row, s \in Request => row \in SessionRow,
           session' = [session EXCEPT ![s] = row]
    PROVE  session' \in [Request -> SessionRow]
<1>1. CASE s \in Request
  BY <1>1 DEF TypeOK
<1>2. CASE s \notin Request
  BY <1>2 DEF TypeOK
<1>3. QED
  BY <1>1, <1>2

\* Type correctness: no handler leaves the state space (service.py:29-277).
THEOREM Typing == Spec => []TypeOK
<1>1. Init => TypeOK
  BY NoneAssumption DEF Init, TypeOK, SessionRow, AbsentRow, RequestState
<1>2. TypeOK /\ [Next]_vars => TypeOK'
  <2> SUFFICES ASSUME TypeOK, [Next]_vars PROVE TypeOK'
    OBVIOUS
  <2> USE DEF TypeOK
  <2>1. ASSUME NEW r \in Request, NEW d \in Device, CreateInsert(r, d)
        PROVE  TypeOK'
    BY <2>1, TimeAssumption
    DEF CreateInsert, Begin, NewRow, SessionRow, RequestState, Pending
  <2>2. ASSUME NEW r \in Request, NEW t \in Request, RotateRead(r, t)
        PROVE  TypeOK'
    BY <2>2, VerdictType
    DEF RotateRead, Begin, Matching, RequestState, Pending, Revoking, Rotating, Answered
  <2>3. ASSUME NEW r \in Request, NEW t \in Request, RevokeRead(r, t)
        PROVE  TypeOK'
    BY <2>3 DEF RevokeRead, Begin, Matching, RequestState, Pending, Revoking, Answered
  <2>4. ASSUME NEW r \in Request, NEW q \in Request, ValidateBegin(r, q)
        PROVE  TypeOK'
    BY <2>4 DEF ValidateBegin, Begin, RequestState, Pending, Answered
  <2>5. ASSUME NEW r \in Request, CreateClear(r)
        PROVE  TypeOK'
    BY <2>5 DEF CreateClear, RequestState, Answered
  <2>6. ASSUME NEW r \in Request, RotateCheck(r)
        PROVE  TypeOK'
    <3>1. IF IsFlagged(session[req[r].sid].dev) THEN Goto(r, "reauth")
                                                ELSE Goto(r, "rotate")
      BY <2>6 DEF RotateCheck
    <3>2. req' \in [Request -> RequestState]
      BY <3>1, GotoType DEF Pending, Rotating, Answered
    <3>3. QED
      BY <2>6, <3>2 DEF RotateCheck
  <2>7. ASSUME NEW r \in Request, RotateCommit(r)
        PROVE  TypeOK'
    <3>1. req[r].sid \in Request =>
            RotatedRow(session[req[r].sid], r) \in SessionRow
      <4> SUFFICES ASSUME req[r].sid \in Request
                   PROVE  RotatedRow(session[req[r].sid], r) \in SessionRow
        OBVIOUS
      <4>1. session[req[r].sid] \in SessionRow /\ req[r] \in RequestState
        OBVIOUS
      <4>2. QED
        BY <4>1 DEF RotatedRow, SessionRow, RequestState
    <3>2. session' \in [Request -> SessionRow]
      BY <2>7, <3>1, RowType DEF RotateCommit
    <3>3. req' \in [Request -> RequestState]
      BY <2>7 DEF RotateCommit, RequestState, Answered
    <3>4. QED
      BY <2>7, <3>2, <3>3 DEF RotateCommit
  <2>8. ASSUME NEW r \in Request, RevokeCommit(r)
        PROVE  TypeOK'
    <3>1. AfterRevoke[req[r].pc] \in {"new"} \cup Pending \cup Answered
      BY <2>8 DEF RevokeCommit, AfterRevoke, Revoking, Pending, Answered
    <3>2. req' \in [Request -> RequestState]
      BY <2>8, <3>1, GotoType DEF RevokeCommit
    <3>3. req[r].sid \in Request =>
            [session[req[r].sid] EXCEPT !.status = "revoked"] \in SessionRow
      BY DEF SessionRow
    <3>4. session' \in [Request -> SessionRow]
      BY <2>8, <3>3, RowType DEF RevokeCommit
    <3>5. QED
      BY <2>8, <3>2, <3>4 DEF RevokeCommit
  <2>9. ASSUME NEW r \in Request, SetFlag(r)
        PROVE  TypeOK'
    <3> DEFINE d == session[req[r].sid].dev
    <3>1. now + FlagLife \in Nat
      BY TimeAssumption
    <3>2. flagged' \in [Device -> Nat]
      <4>1. CASE d \in Device
        BY <2>9, <3>1, <4>1 DEF SetFlag
      <4>2. CASE d \notin Device
        BY <2>9, <4>2 DEF SetFlag
      <4>3. QED
        BY <4>1, <4>2
    <3>3. req' \in [Request -> RequestState]
      BY <2>9, GotoType DEF SetFlag, Answered
    <3>4. QED
      BY <2>9, <3>2, <3>3 DEF SetFlag
  <2>10. ASSUME NEW r \in Request, ValidateLock(r)
         PROVE  TypeOK'
    <3>1. ValidateVerdict(req[r].sid, req[r].at)
             \in {"new"} \cup Pending \cup Answered
      BY DEF ValidateVerdict, Pending, Locking, Answered
    <3>2. req' \in [Request -> RequestState]
      BY <2>10, <3>1, GotoType DEF ValidateLock
    <3>3. req[r].sid \in Request =>
            [session[req[r].sid] EXCEPT !.status = "revoked"] \in SessionRow
      BY DEF SessionRow
    <3>4. \/ session' = session
          \/ session' = [session EXCEPT ![req[r].sid] =
                             [session[req[r].sid] EXCEPT !.status = "revoked"]]
      BY <2>10 DEF ValidateLock
    <3>5. session' \in [Request -> SessionRow]
      BY <3>3, <3>4, RowType
    <3>6. QED
      BY <2>10, <3>2, <3>5 DEF ValidateLock
  <2>11. ASSUME NEW r \in Request, ValidateCheck(r)
         PROVE  TypeOK'
    <3>1. IF IsFlagged(session[req[r].sid].dev) THEN Goto(r, "reauth")
                                                ELSE Goto(r, "vcommit")
      BY <2>11 DEF ValidateCheck
    <3>2. req' \in [Request -> RequestState]
      BY <3>1, GotoType DEF Pending, Locking, Answered
    <3>3. QED
      BY <2>11, <3>2 DEF ValidateCheck
  <2>12. ASSUME NEW r \in Request, ValidateCommit(r)
         PROVE  TypeOK'
    <3>1. req[r].sid \in Request =>
            [session[req[r].sid] EXCEPT !.last = req[r].at] \in SessionRow
      BY DEF SessionRow, RequestState
    <3>2. session' \in [Request -> SessionRow]
      BY <2>12, <3>1, RowType DEF ValidateCommit
    <3>3. req' \in [Request -> RequestState]
      BY <2>12, GotoType DEF ValidateCommit, Answered
    <3>4. QED
      BY <2>12, <3>2, <3>3 DEF ValidateCommit
  <2>13. ASSUME NEW r \in Request, Fail(r)
         PROVE  TypeOK'
    BY <2>13 DEF Fail, Goto, RequestState, Answered
  <2>14. ASSUME NEW d \in Device, Deactivate(d)
         PROVE  TypeOK'
    BY <2>14 DEF Deactivate
  <2>15. CASE Tick
    BY <2>15 DEF Tick
  <2>16. CASE UNCHANGED vars
    BY <2>16 DEF vars
  <2>17. ASSUME NEW d \in Device, LoginClear(d)
         PROVE  TypeOK'
    BY <2>17 DEF LoginClear
  <2>18. QED
    BY <2>1, <2>2, <2>3, <2>4, <2>5, <2>6, <2>7, <2>8, <2>9, <2>10, <2>11,
       <2>12, <2>13, <2>14, <2>15, <2>16, <2>17 DEF Next, Arrive, Continue
<1>3. QED
  BY <1>1, <1>2, PTL DEF Spec

\* A row whose token in force a step leaves alone keeps SpentIsGone.
LEMMA SpentKeeps ==
    ASSUME IInv, NEW r \in Request, \A q \in Request \ {r} : req'[q] = req[q],
           req'[r].pc # "rotated",
           \A s \in Request : Stored(s) => session'[s].ref = session[s].ref
    PROVE  SpentIsGone'
<1> SUFFICES ASSUME NEW q \in Request, req'[q].pc = "rotated"
             PROVE  session'[req'[q].sid].ref \notin {req'[q].sid, req'[q].tok}
  BY DEF SpentIsGone
<1>1. q # r /\ req'[q] = req[q]
  OBVIOUS
<1>2. req[q].sid \in Request /\ Stored(req[q].sid)
  BY <1>1 DEF IInv, RequestsBelong, RequestBelongs
<1>3. QED
  BY <1>1, <1>2 DEF IInv, SpentIsGone

LEMMA SpentStep ==
    ASSUME IInv, [Next]_vars
    PROVE  SpentIsGone'
<1> USE DEF IInv
<1>1. ASSUME NEW r \in Request, NEW d \in Device, CreateInsert(r, d)
      PROVE  SpentIsGone'
  <2>1. /\ req[r].pc = "new" /\ req'[r].pc = "create"
        /\ \A q \in Request \ {r} : req'[q] = req[q]
    BY <1>1 DEF CreateInsert, Begin, TypeOK, RequestState
  <2>2. \A s \in Request \ {r} : session'[s] = session[s]
    BY <1>1 DEF CreateInsert, TypeOK
  <2>3. ~Stored(r)
    BY <2>1 DEF TokensBelong
  <2>4. QED
    BY <2>1, <2>2, <2>3, SpentKeeps
<1>2. ASSUME NEW r \in Request, NEW t \in Request,
             RotateRead(r, t) \/ RevokeRead(r, t) \/ ValidateBegin(r, t)
      PROVE  SpentIsGone'
  <2>1. PICK pc, s : Begin(r, pc, req'[r].tok, s) /\ pc # "rotated"
    BY <1>2, VerdictType DEF RotateRead, RevokeRead, ValidateBegin, Begin, TypeOK
  <2>2. UNCHANGED session
    BY <1>2 DEF RotateRead, RevokeRead, ValidateBegin
  <2>3. req'[r].pc # "rotated" /\ \A q \in Request \ {r} : req'[q] = req[q]
    BY <2>1 DEF Begin, TypeOK
  <2>4. QED
    BY <2>2, <2>3, SpentKeeps
<1>3. ASSUME NEW r \in Request,
             \/ CreateClear(r) \/ RotateCheck(r) \/ SetFlag(r)
             \/ ValidateCheck(r) \/ Fail(r)
      PROVE  SpentIsGone'
  <2>1. /\ req'[r].pc # "rotated" /\ UNCHANGED session
        /\ \A q \in Request \ {r} : req'[q] = req[q]
    BY <1>3 DEF CreateClear, RotateCheck, SetFlag, ValidateCheck, Fail, Goto, TypeOK,
       RequestState
  <2>2. QED
    BY <2>1, SpentKeeps
<1>4. ASSUME NEW r \in Request, RevokeCommit(r)
      PROVE  SpentIsGone'
  <2>1. /\ req'[r].pc # "rotated" /\ \A q \in Request \ {r} : req'[q] = req[q]
    BY <1>4 DEF RevokeCommit, Goto, AfterRevoke, Revoking, TypeOK, RequestState
  <2>2. \A s \in Request : session'[s].ref = session[s].ref
    BY <1>4 DEF RevokeCommit, TypeOK, SessionRow
  <2>3. QED
    BY <2>1, <2>2, SpentKeeps
<1>5. ASSUME NEW r \in Request, ValidateLock(r) \/ ValidateCommit(r)
      PROVE  SpentIsGone'
  <2>1. /\ req'[r].pc # "rotated" /\ \A q \in Request \ {r} : req'[q] = req[q]
    BY <1>5 DEF ValidateLock, ValidateCommit, ValidateVerdict, Goto, TypeOK, RequestState
  <2>2. \/ session' = session
        \/ session' = [session EXCEPT ![req[r].sid].status = "revoked"]
        \/ session' = [session EXCEPT ![req[r].sid].last = req[r].at]
    BY <1>5 DEF ValidateLock, ValidateCommit
  <2>3. \A s \in Request : session'[s].ref = session[s].ref
    BY <2>2 DEF TypeOK, SessionRow
  <2>4. QED
    BY <2>1, <2>3, SpentKeeps
<1>6. ASSUME NEW r \in Request, RotateCommit(r)
      PROVE  SpentIsGone'
  <2>1. PICK s \in Request : s = req[r].sid /\ Stored(s)
    BY <1>6 DEF RotateCommit, RequestsBelong, RequestBelongs, Pending, Rotating
  <2>2. /\ req[r].pc = "rotate" /\ req'[r].tok = req[r].tok /\ req'[r].sid = s
        /\ \A q \in Request \ {r} : req'[q] = req[q]
    BY <1>6, <2>1 DEF RotateCommit, TypeOK, RequestState
  <2>3. /\ session'[s].ref = r
        /\ \A u \in Request \ {s} : session'[u] = session[u]
    BY <1>6, <2>1 DEF RotateCommit, RotatedRow, TypeOK, SessionRow
  <2>4. r # s
    BY <2>1, <2>2 DEF TokensBelong
  <2>5. r \notin Delivered
    BY <2>2 DEF Delivered
  <2>6. ASSUME NEW q \in Request, req'[q].pc = "rotated"
        PROVE  session'[req'[q].sid].ref \notin {req'[q].sid, req'[q].tok}
    <3>1. CASE q = r
      <4>1. req[r].tok \in Delivered
        BY <2>2 DEF RequestsBelong, RequestBelongs, Rotating
      <4>2. QED
        BY <2>2, <2>3, <2>4, <2>5, <3>1, <4>1
    <3>2. CASE q # r
      <4>1. req'[q] = req[q] /\ req[q].sid \in Request /\ req[q].tok \in Delivered
        BY <2>2, <2>6, <3>2 DEF RequestsBelong, RequestBelongs
      <4>2. CASE req[q].sid = s
        BY <2>3, <2>4, <2>5, <4>1, <4>2
      <4>3. CASE req[q].sid # s
        BY <2>3, <2>6, <4>1, <4>3 DEF SpentIsGone
      <4>4. QED
        BY <4>2, <4>3
    <3>3. QED
      BY <3>1, <3>2
  <2>7. QED
    BY <2>6 DEF SpentIsGone
<1>7. ASSUME UNCHANGED <<req, session>>
      PROVE  SpentIsGone'
  BY <1>7 DEF SpentIsGone
<1>8. QED
  BY <1>1, <1>2, <1>3, <1>4, <1>5, <1>6, <1>7
  DEF Next, Arrive, Continue, Deactivate, LoginClear, Tick, vars

\* The inductive invariant is preserved by every action.
LEMMA Inductive == IInv /\ TypeOK' /\ [Next]_vars => IInv'
<1> SUFFICES ASSUME IInv, TypeOK', [Next]_vars PROVE IInv'
  OBVIOUS
<1>0. SpentIsGone'
  BY SpentStep
<1> USE DEF IInv
<1>1. ASSUME NEW r \in Request, NEW d \in Device, CreateInsert(r, d)
      PROVE  IInv'
  <2>1. /\ req[r].pc = "new" /\ req'[r].pc = "create" /\ req'[r].sid = r
        /\ \A q \in Request \ {r} : req'[q] = req[q]
    BY <1>1 DEF CreateInsert, Begin, TypeOK, RequestState
  <2>2. /\ session'[r] = NewRow(r, d)
        /\ \A s \in Request \ {r} : session'[s] = session[s]
    BY <1>1 DEF CreateInsert, TypeOK
  <2>3. ~Stored(r)
    BY <2>1 DEF TokensBelong
  <2>4. TokensBelong'
    BY <1>1, <2>1, <2>2, <2>3, NoneAssumption
    DEF TokensBelong, Stored, NewRow, TypeOK, RequestState
  <2>5. RequestsBelong'
    BY <2>1, <2>2, <2>3 DEF RequestsBelong, RequestBelongs, Stored, NewRow, Delivered, Pending,
       Revoking, Rotating, Locking, TypeOK, RequestState
  <2>6. LockProtects'
    <3> SUFFICES ASSUME NEW q \in Request, Holding(q)'
                 PROVE  /\ session'[req'[q].sid].status = "live"
                        /\ active'[session'[req'[q].sid].dev]
      BY DEF LockProtects
    <3>1. q # r /\ Holding(q) /\ req'[q] = req[q]
      BY <2>1 DEF Holding, Locking
    <3>2. req[q].sid \in Request \ {r}
      BY <2>3, <3>1 DEF RequestsBelong, RequestBelongs, Holding, Pending
    <3>3. QED
      BY <1>1, <2>2, <3>1, <3>2 DEF LockProtects, CreateInsert
  <2>7. PredecessorIsRemembered'
    BY <2>1, <2>2 DEF PredecessorIsRemembered, Stored, NewRow, TokensBelong, TypeOK
  <2>8. RevocationAnswered'
    <3> SUFFICES ASSUME NEW q \in Request,
                        \/ req'[q].pc \in {"reused", "flag"}
                        \/ req'[q].pc = "loggedOut" /\ req'[q].sid # None
                 PROVE  session'[req'[q].sid].status = "revoked"
      BY DEF RevocationAnswered
    <3>1. q # r /\ req'[q] = req[q]
      BY <2>1
    <3>2. req[q].sid \in Request \ {r}
      BY <2>3, <3>1 DEF RequestsBelong, RequestBelongs, Pending, TypeOK, RequestState
    <3>3. QED
      BY <2>2, <3>1, <3>2 DEF RevocationAnswered
  <2>9. QED
    BY <1>0, <2>4, <2>5, <2>6, <2>7, <2>8
<1>2. ASSUME NEW r \in Request, NEW t \in Request, RotateRead(r, t)
      PROVE  IInv'
  <2>1. TokensBelong'
    BY <1>2, VerdictType, NoneAssumption DEF TypeOK, RequestState, SessionRow, Pending, Revoking, Rotating, Locking, Answered, RotateRead, Begin, Matching, Delivered, TokensBelong, Stored
  <2>2. RequestsBelong'
    <3>1. req[r].pc = "new" /\ session' = session
      BY <1>2 DEF RotateRead, Begin
    <3>2. \A q \in Request \ {r} : req'[q] = req[q]
      BY <1>2 DEF RotateRead, Begin, TypeOK
    <3>3. \/ req'[r].pc = "denied"
          \/ /\ req'[r].sid \in Request /\ Stored(req'[r].sid)
             /\ req'[r].pc \in {"reuse", "denied", "expire", "idle", "check"}
             /\ req'[r].tok = t
             /\ t \in {session[req'[r].sid].ref, session[req'[r].sid].prev}
      BY <1>2, VerdictType DEF RotateRead, Begin, Matching, TypeOK
    <3>4. t \in Delivered /\ t # r
      BY <1>2, <3>1 DEF RotateRead, Delivered
    <3>5. req'[r].pc = "check" => req[t].sid = req'[r].sid
      BY <3>3 DEF TokensBelong
    <3>6. \A u \in Delivered : u \in Delivered' /\ req'[u] = req[u]
      BY <3>1, <3>2 DEF Delivered
    <3>7. QED
      BY <3>1, <3>2, <3>3, <3>4, <3>5, <3>6 DEF RequestsBelong, RequestBelongs, Stored, Pending,
         Revoking, Rotating, Locking, TypeOK, RequestState, Delivered
  <2>3. LockProtects'
    BY <1>2, VerdictType, NoneAssumption DEF TypeOK, RequestState, SessionRow, Pending, Revoking, Rotating, Locking, Answered, RotateRead, Begin, Matching, Delivered, LockProtects, Holding, RequestsBelong, RequestBelongs, Stored
  <2>4. PredecessorIsRemembered'
    BY <1>2, VerdictType, NoneAssumption DEF TypeOK, RequestState, SessionRow, Pending, Revoking, Rotating, Locking, Answered, RotateRead, Begin, Matching, Delivered, PredecessorIsRemembered, Stored, TokensBelong
  <2>5. RevocationAnswered'
    BY <1>2, VerdictType, NoneAssumption DEF TypeOK, RequestState, SessionRow, Pending, Revoking, Rotating, Locking, Answered, RotateRead, Begin, Matching, Delivered, RevocationAnswered, RequestsBelong, RequestBelongs, Stored
  <2>6. QED
    BY <1>0, <2>1, <2>2, <2>3, <2>4, <2>5
<1>3. ASSUME NEW r \in Request, NEW t \in Request, RevokeRead(r, t)
      PROVE  IInv'
  <2>1. TokensBelong'
    BY <1>3, NoneAssumption DEF TypeOK, RequestState, SessionRow, Pending, Revoking, Rotating, Locking, Answered, RevokeRead, Begin, Matching, Delivered, TokensBelong, Stored
  <2>2. RequestsBelong'
    BY <1>3, NoneAssumption DEF TypeOK, RequestState, SessionRow, Pending, Revoking, Rotating, Locking, Answered, RevokeRead, Begin, Matching, Delivered, RequestsBelong, RequestBelongs, Stored, Delivered
  <2>3. LockProtects'
    BY <1>3, NoneAssumption DEF TypeOK, RequestState, SessionRow, Pending, Revoking, Rotating, Locking, Answered, RevokeRead, Begin, Matching, Delivered, LockProtects, Holding, RequestsBelong, RequestBelongs, Stored
  <2>4. PredecessorIsRemembered'
    BY <1>3, NoneAssumption DEF TypeOK, RequestState, SessionRow, Pending, Revoking, Rotating, Locking, Answered, RevokeRead, Begin, Matching, Delivered, PredecessorIsRemembered, Stored, TokensBelong
  <2>5. RevocationAnswered'
    BY <1>3, NoneAssumption DEF TypeOK, RequestState, SessionRow, Pending, Revoking, Rotating, Locking, Answered, RevokeRead, Begin, Matching, Delivered, RevocationAnswered, RequestsBelong, RequestBelongs, Stored
  <2>6. QED
    BY <1>0, <2>1, <2>2, <2>3, <2>4, <2>5
<1>4. ASSUME NEW r \in Request, NEW t \in Request, ValidateBegin(r, t)
      PROVE  IInv'
  <2>1. TokensBelong'
    BY <1>4, NoneAssumption DEF TypeOK, RequestState, SessionRow, Pending, Revoking, Rotating, Locking, Answered, ValidateBegin, Begin, Delivered, TokensBelong, Stored
  <2>2. RequestsBelong'
    BY <1>4, NoneAssumption DEF TypeOK, RequestState, SessionRow, Pending, Revoking, Rotating, Locking, Answered, ValidateBegin, Begin, Delivered, RequestsBelong, RequestBelongs, Stored, Delivered
  <2>3. LockProtects'
    BY <1>4, NoneAssumption DEF TypeOK, RequestState, SessionRow, Pending, Revoking, Rotating, Locking, Answered, ValidateBegin, Begin, Delivered, LockProtects, Holding, RequestsBelong, RequestBelongs, Stored
  <2>4. PredecessorIsRemembered'
    BY <1>4, NoneAssumption DEF TypeOK, RequestState, SessionRow, Pending, Revoking, Rotating, Locking, Answered, ValidateBegin, Begin, Delivered, PredecessorIsRemembered, Stored, TokensBelong
  <2>5. RevocationAnswered'
    BY <1>4, NoneAssumption DEF TypeOK, RequestState, SessionRow, Pending, Revoking, Rotating, Locking, Answered, ValidateBegin, Begin, Delivered, RevocationAnswered, RequestsBelong, RequestBelongs, Stored
  <2>6. QED
    BY <1>0, <2>1, <2>2, <2>3, <2>4, <2>5
<1>5. ASSUME NEW r \in Request, CreateClear(r)
      PROVE  IInv'
  <2>1. TokensBelong'
    BY <1>5, NoneAssumption DEF TypeOK, RequestState, SessionRow, Pending, Revoking, Rotating, Locking, Answered, CreateClear, TokensBelong, Stored
  <2>2. RequestsBelong'
    BY <1>5, NoneAssumption DEF TypeOK, RequestState, SessionRow, Pending, Revoking, Rotating, Locking, Answered, CreateClear, RequestsBelong, RequestBelongs, Stored, Delivered
  <2>3. LockProtects'
    BY <1>5, NoneAssumption DEF TypeOK, RequestState, SessionRow, Pending, Revoking, Rotating, Locking, Answered, CreateClear, LockProtects, Holding, RequestsBelong, RequestBelongs, Stored
  <2>4. PredecessorIsRemembered'
    BY <1>5, NoneAssumption DEF TypeOK, RequestState, SessionRow, Pending, Revoking, Rotating, Locking, Answered, CreateClear, PredecessorIsRemembered, Stored, TokensBelong
  <2>5. RevocationAnswered'
    BY <1>5, NoneAssumption DEF TypeOK, RequestState, SessionRow, Pending, Revoking, Rotating, Locking, Answered, CreateClear, RevocationAnswered, RequestsBelong, RequestBelongs, Stored
  <2>6. QED
    BY <1>0, <2>1, <2>2, <2>3, <2>4, <2>5
<1>6. ASSUME NEW r \in Request, RotateCheck(r)
      PROVE  IInv'
  <2>1. TokensBelong'
    BY <1>6, NoneAssumption DEF TypeOK, RequestState, SessionRow, Pending, Revoking, Rotating, Locking, Answered, RotateCheck, Goto, TokensBelong, Stored
  <2>2. RequestsBelong'
    BY <1>6, NoneAssumption DEF TypeOK, RequestState, SessionRow, Pending, Revoking, Rotating, Locking, Answered, RotateCheck, Goto, RequestsBelong, RequestBelongs, Stored, Delivered
  <2>3. LockProtects'
    BY <1>6, NoneAssumption DEF TypeOK, RequestState, SessionRow, Pending, Revoking, Rotating, Locking, Answered, RotateCheck, Goto, LockProtects, Holding, RequestsBelong, RequestBelongs, Stored
  <2>4. PredecessorIsRemembered'
    BY <1>6, NoneAssumption DEF TypeOK, RequestState, SessionRow, Pending, Revoking, Rotating, Locking, Answered, RotateCheck, Goto, PredecessorIsRemembered, Stored, TokensBelong
  <2>5. RevocationAnswered'
    BY <1>6, NoneAssumption DEF TypeOK, RequestState, SessionRow, Pending, Revoking, Rotating, Locking, Answered, RotateCheck, Goto, RevocationAnswered, RequestsBelong, RequestBelongs, Stored
  <2>6. QED
    BY <1>0, <2>1, <2>2, <2>3, <2>4, <2>5
<1>7. ASSUME NEW r \in Request, RotateCommit(r)
      PROVE  IInv'
  <2>1. TokensBelong'
    <3> DEFINE s == req[r].sid
    <3>1. /\ s \in Request /\ Stored(s) /\ req[r].tok \in Request \ {r}
          /\ req[r].tok \in Delivered /\ req[req[r].tok].sid = s
      BY <1>7 DEF RotateCommit, RequestsBelong, RequestBelongs, Pending, Rotating, Delivered
    <3>2. /\ req'[r].pc = "rotated" /\ req'[r].sid = s /\ req[r].pc = "rotate"
          /\ \A q \in Request \ {r} : req'[q] = req[q]
      BY <1>7 DEF RotateCommit, TypeOK, RequestState
    <3>3. /\ session'[s].ref = r /\ session'[s].prev = req[r].tok
          /\ session'[s].dev = session[s].dev
          /\ session'[s].status = session[s].status
          /\ \A u \in Request \ {s} : session'[u] = session[u]
      BY <1>7, <3>1 DEF RotateCommit, RotatedRow, TypeOK, SessionRow
    <3>4. QED
      BY <3>1, <3>2, <3>3 DEF TokensBelong, Stored, Delivered
  <2>2. RequestsBelong'
    BY <1>7, NoneAssumption DEF TypeOK, RequestState, SessionRow, Pending, Revoking, Rotating, Locking, Answered, RotateCommit, RotatedRow, RequestsBelong, RequestBelongs, Stored, Delivered
  <2>3. LockProtects'
    BY <1>7, NoneAssumption DEF TypeOK, RequestState, SessionRow, Pending, Revoking, Rotating, Locking, Answered, RotateCommit, RotatedRow, LockProtects, Holding, RequestsBelong, RequestBelongs, Stored
  <2>4. PredecessorIsRemembered'
    BY <1>7, NoneAssumption DEF TypeOK, RequestState, SessionRow, Pending, Revoking, Rotating, Locking, Answered, RotateCommit, RotatedRow, PredecessorIsRemembered, Stored, TokensBelong
  <2>5. RevocationAnswered'
    BY <1>7, NoneAssumption DEF TypeOK, RequestState, SessionRow, Pending, Revoking, Rotating, Locking, Answered, RotateCommit, RotatedRow, RevocationAnswered, RequestsBelong, RequestBelongs, Stored
  <2>6. QED
    BY <1>0, <2>1, <2>2, <2>3, <2>4, <2>5
<1>8. ASSUME NEW r \in Request, RevokeCommit(r)
      PROVE  IInv'
  <2> DEFINE s == req[r].sid
  <2>1. s \in Request /\ Stored(s)
    BY <1>8 DEF RevokeCommit, RequestsBelong, RequestBelongs, Pending
  <2>2. /\ req[r].pc \in Revoking /\ req'[r].sid = s /\ req'[r].tok = req[r].tok
        /\ req'[r].pc \in {"reused", "denied", "flag", "loggedOut"}
        /\ \A q \in Request \ {r} : req'[q] = req[q]
    BY <1>8 DEF RevokeCommit, Goto, AfterRevoke, Revoking, TypeOK, RequestState
  <2>3. /\ session'[s] = [session[s] EXCEPT !.status = "revoked"]
        /\ \A u \in Request \ {s} : session'[u] = session[u]
    BY <1>8, <2>1 DEF RevokeCommit, TypeOK
  <2>4. /\ session'[s].status = "revoked"
        /\ \A u \in Request : /\ session'[u].ref = session[u].ref
                              /\ session'[u].prev = session[u].prev
                              /\ session'[u].dev = session[u].dev
                              /\ Stored(u)' <=> Stored(u)
    BY <2>1, <2>3 DEF Stored, TypeOK, SessionRow
  <2>5. TokensBelong'
    BY <2>2, <2>4 DEF TokensBelong, Revoking
  <2>6. RequestsBelong'
    <3>1. \A u \in Delivered : u # r /\ u \in Delivered' /\ req'[u] = req[u]
      BY <2>2 DEF Delivered, Revoking
    <3>2. RequestBelongs(r)'
      BY <2>1, <2>2, <2>4 DEF RequestBelongs, Pending, Revoking, Rotating, Locking
    <3>3. ASSUME NEW q \in Request, q # r
          PROVE  RequestBelongs(q)'
      <4>1. RequestBelongs(q) /\ req'[q] = req[q]
        BY <2>2, <3>3 DEF RequestsBelong
      <4>2. req[q].sid \in Request \/ req[q].sid = None
        BY DEF TypeOK, RequestState
      <4>3. QED
        BY <2>4, <3>1, <4>1, <4>2, NoneAssumption DEF RequestBelongs
    <3>4. QED
      BY <3>2, <3>3 DEF RequestsBelong
  <2>7. LockProtects'
    BY <1>8, <2>2, <2>3 DEF LockProtects, Holding, Locking, RevokeCommit, RowFree,
       RequestsBelong, RequestBelongs, Pending
  <2>8. PredecessorIsRemembered'
    BY <2>2, <2>4 DEF PredecessorIsRemembered, TokensBelong
  <2>9. RevocationAnswered'
    <3> SUFFICES ASSUME NEW q \in Request,
                        \/ req'[q].pc \in {"reused", "flag"}
                        \/ req'[q].pc = "loggedOut" /\ req'[q].sid # None
                 PROVE  session'[req'[q].sid].status = "revoked"
      BY DEF RevocationAnswered
    <3>1. CASE q = r
      BY <2>2, <2>4, <3>1
    <3>2. CASE q # r
      <4>1. req'[q] = req[q] /\ session[req[q].sid].status = "revoked"
        BY <2>2, <3>2 DEF RevocationAnswered
      <4>2. req[q].sid \in Request
        BY <4>1 DEF RequestsBelong, RequestBelongs, Pending, TypeOK, RequestState
      <4>3. QED
        BY <2>3, <2>4, <4>1, <4>2
    <3>3. QED
      BY <3>1, <3>2
  <2>10. QED
    BY <1>0, <2>5, <2>6, <2>7, <2>8, <2>9
<1>9. ASSUME NEW r \in Request, SetFlag(r)
      PROVE  IInv'
  <2>1. TokensBelong'
    BY <1>9, NoneAssumption DEF TypeOK, RequestState, SessionRow, Pending, Revoking, Rotating, Locking, Answered, SetFlag, Goto, TokensBelong, Stored
  <2>2. RequestsBelong'
    BY <1>9, NoneAssumption DEF TypeOK, RequestState, SessionRow, Pending, Revoking, Rotating, Locking, Answered, SetFlag, Goto, RequestsBelong, RequestBelongs, Stored, Delivered
  <2>3. LockProtects'
    BY <1>9, NoneAssumption DEF TypeOK, RequestState, SessionRow, Pending, Revoking, Rotating, Locking, Answered, SetFlag, Goto, LockProtects, Holding, RequestsBelong, RequestBelongs, Stored
  <2>4. PredecessorIsRemembered'
    BY <1>9, NoneAssumption DEF TypeOK, RequestState, SessionRow, Pending, Revoking, Rotating, Locking, Answered, SetFlag, Goto, PredecessorIsRemembered, Stored, TokensBelong
  <2>5. RevocationAnswered'
    BY <1>9, NoneAssumption DEF TypeOK, RequestState, SessionRow, Pending, Revoking, Rotating, Locking, Answered, SetFlag, Goto, RevocationAnswered, RequestsBelong, RequestBelongs, Stored
  <2>6. QED
    BY <1>0, <2>1, <2>2, <2>3, <2>4, <2>5
<1>10. ASSUME NEW r \in Request, ValidateLock(r)
      PROVE  IInv'
  <2> DEFINE s == req[r].sid
  <2>1. s \in Request /\ Stored(s)
    BY <1>10 DEF ValidateLock, RequestsBelong, RequestBelongs, Pending
  <2>2. /\ req[r].pc = "wait" /\ req'[r].sid = s /\ req'[r].tok = req[r].tok
        /\ req'[r].pc = ValidateVerdict(s, req[r].at)
        /\ \A q \in Request \ {r} : req'[q] = req[q]
    BY <1>10 DEF ValidateLock, Goto, TypeOK, RequestState
  <2>3. req'[r].pc \in {"denied", "vidle", "vcheck"}
    BY <2>2 DEF ValidateVerdict
  <2>4. /\ \A u \in Request : /\ session'[u].ref = session[u].ref
                              /\ session'[u].prev = session[u].prev
                              /\ session'[u].dev = session[u].dev
                              /\ Stored(u)' <=> Stored(u)
                              /\ \/ session'[u].status = session[u].status
                                 \/ /\ u = s /\ req'[r].pc = "denied"
                                    /\ session'[u].status = "revoked"
    <3> DEFINE late == /\ session[s].status = "live" /\ active[session[s].dev]
                       /\ session[s].exp <= req[r].at
    <3>1. CASE late
      <4>1. /\ session'[s] = [session[s] EXCEPT !.status = "revoked"]
            /\ \A u \in Request \ {s} : session'[u] = session[u]
        BY <1>10, <2>1, <3>1 DEF ValidateLock, TypeOK
      <4>2. req'[r].pc = "denied"
        BY <2>2, <3>1 DEF ValidateVerdict
      <4>3. QED
        BY <2>1, <4>1, <4>2 DEF Stored, TypeOK, SessionRow
    <3>2. CASE ~late
      <4>1. session' = session
        BY <1>10, <3>2 DEF ValidateLock
      <4>2. QED
        BY <4>1 DEF Stored
    <3>3. QED
      BY <3>1, <3>2
  <2>5. TokensBelong'
    BY <2>2, <2>3, <2>4 DEF TokensBelong
  <2>6. RequestsBelong'
    <3>1. \A u \in Delivered : u # r /\ u \in Delivered' /\ req'[u] = req[u]
      BY <2>2 DEF Delivered, Revoking
    <3>2. RequestBelongs(r)'
      BY <2>1, <2>2, <2>3, <2>4 DEF RequestBelongs, Pending, Revoking, Rotating, Locking
    <3>3. ASSUME NEW q \in Request, q # r
          PROVE  RequestBelongs(q)'
      <4>1. RequestBelongs(q) /\ req'[q] = req[q]
        BY <2>2, <3>3 DEF RequestsBelong
      <4>2. req[q].sid \in Request \/ req[q].sid = None
        BY DEF TypeOK, RequestState
      <4>3. QED
        BY <2>4, <3>1, <4>1, <4>2, NoneAssumption DEF RequestBelongs
    <3>4. QED
      BY <3>2, <3>3 DEF RequestsBelong
  <2>7. LockProtects'
    <3> SUFFICES ASSUME NEW q \in Request, Holding(q)'
                 PROVE  /\ session'[req'[q].sid].status = "live"
                        /\ active'[session'[req'[q].sid].dev]
      BY DEF LockProtects
    <3>1. active' = active
      BY <1>10 DEF ValidateLock
    <3>2. CASE q = r
      <4>1. req'[r].pc \in {"vidle", "vcheck"}
        BY <2>3, <3>2 DEF Holding, Locking
      <4>2. session[s].status # "revoked" /\ active[session[s].dev]
        BY <2>2, <4>1 DEF ValidateVerdict
      <4>3. session[s].status = "live"
        BY <2>1, <4>2 DEF Stored, TypeOK, SessionRow
      <4>4. QED
        BY <2>1, <2>2, <2>4, <3>1, <3>2, <4>1, <4>2, <4>3
    <3>3. CASE q # r
      <4>1. Holding(q) /\ req'[q].sid = req[q].sid /\ req[q].sid \in Request
        BY <2>2, <3>3 DEF Holding, RequestsBelong, RequestBelongs, Pending
      <4>2. req[q].sid # s
        BY <1>10, <4>1 DEF ValidateLock, DeviceFree
      <4>3. QED
        BY <2>4, <3>1, <4>1, <4>2 DEF LockProtects
    <3>4. QED
      BY <3>2, <3>3
  <2>8. PredecessorIsRemembered'
    BY <2>2, <2>4 DEF PredecessorIsRemembered, TokensBelong
  <2>9. RevocationAnswered'
    <3> SUFFICES ASSUME NEW q \in Request,
                        \/ req'[q].pc \in {"reused", "flag"}
                        \/ req'[q].pc = "loggedOut" /\ req'[q].sid # None
                 PROVE  session'[req'[q].sid].status = "revoked"
      BY DEF RevocationAnswered
    <3>1. CASE q = r
      BY <2>2, <2>3, <2>4, <3>1
    <3>2. CASE q # r
      <4>1. req'[q] = req[q] /\ session[req[q].sid].status = "revoked"
        BY <2>2, <3>2 DEF RevocationAnswered
      <4>2. req[q].sid \in Request
        BY <4>1 DEF RequestsBelong, RequestBelongs, Pending, TypeOK, RequestState
      <4>3. QED
        BY <2>3, <2>4, <4>1, <4>2
    <3>3. QED
      BY <3>1, <3>2
  <2>10. QED
    BY <1>0, <2>5, <2>6, <2>7, <2>8, <2>9
<1>11. ASSUME NEW r \in Request, ValidateCheck(r)
      PROVE  IInv'
  <2>1. TokensBelong'
    BY <1>11, NoneAssumption DEF TypeOK, RequestState, SessionRow, Pending, Revoking, Rotating, Locking, Answered, ValidateCheck, Goto, TokensBelong, Stored
  <2>2. RequestsBelong'
    BY <1>11, NoneAssumption DEF TypeOK, RequestState, SessionRow, Pending, Revoking, Rotating, Locking, Answered, ValidateCheck, Goto, RequestsBelong, RequestBelongs, Stored, Delivered
  <2>3. LockProtects'
    BY <1>11, NoneAssumption DEF TypeOK, RequestState, SessionRow, Pending, Revoking, Rotating, Locking, Answered, ValidateCheck, Goto, LockProtects, Holding, RequestsBelong, RequestBelongs, Stored
  <2>4. PredecessorIsRemembered'
    BY <1>11, NoneAssumption DEF TypeOK, RequestState, SessionRow, Pending, Revoking, Rotating, Locking, Answered, ValidateCheck, Goto, PredecessorIsRemembered, Stored, TokensBelong
  <2>5. RevocationAnswered'
    BY <1>11, NoneAssumption DEF TypeOK, RequestState, SessionRow, Pending, Revoking, Rotating, Locking, Answered, ValidateCheck, Goto, RevocationAnswered, RequestsBelong, RequestBelongs, Stored
  <2>6. QED
    BY <1>0, <2>1, <2>2, <2>3, <2>4, <2>5
<1>12. ASSUME NEW r \in Request, ValidateCommit(r)
      PROVE  IInv'
  <2>1. TokensBelong'
    BY <1>12, NoneAssumption DEF TypeOK, RequestState, SessionRow, Pending, Revoking, Rotating, Locking, Answered, ValidateCommit, Goto, TokensBelong, Stored
  <2>2. RequestsBelong'
    BY <1>12, NoneAssumption DEF TypeOK, RequestState, SessionRow, Pending, Revoking, Rotating, Locking, Answered, ValidateCommit, Goto, RequestsBelong, RequestBelongs, Stored, Delivered
  <2>3. LockProtects'
    BY <1>12, NoneAssumption DEF TypeOK, RequestState, SessionRow, Pending, Revoking, Rotating, Locking, Answered, ValidateCommit, Goto, LockProtects, Holding, RequestsBelong, RequestBelongs, Stored
  <2>4. PredecessorIsRemembered'
    BY <1>12, NoneAssumption DEF TypeOK, RequestState, SessionRow, Pending, Revoking, Rotating, Locking, Answered, ValidateCommit, Goto, PredecessorIsRemembered, Stored, TokensBelong
  <2>5. RevocationAnswered'
    BY <1>12, NoneAssumption DEF TypeOK, RequestState, SessionRow, Pending, Revoking, Rotating, Locking, Answered, ValidateCommit, Goto, RevocationAnswered, RequestsBelong, RequestBelongs, Stored
  <2>6. QED
    BY <1>0, <2>1, <2>2, <2>3, <2>4, <2>5
<1>13. ASSUME NEW r \in Request, Fail(r)
      PROVE  IInv'
  <2>1. TokensBelong'
    BY <1>13, NoneAssumption DEF TypeOK, RequestState, SessionRow, Pending, Revoking, Rotating, Locking, Answered, Fail, Goto, TokensBelong, Stored
  <2>2. RequestsBelong'
    BY <1>13, NoneAssumption DEF TypeOK, RequestState, SessionRow, Pending, Revoking, Rotating, Locking, Answered, Fail, Goto, RequestsBelong, RequestBelongs, Stored, Delivered
  <2>3. LockProtects'
    BY <1>13, NoneAssumption DEF TypeOK, RequestState, SessionRow, Pending, Revoking, Rotating, Locking, Answered, Fail, Goto, LockProtects, Holding, RequestsBelong, RequestBelongs, Stored
  <2>4. PredecessorIsRemembered'
    BY <1>13, NoneAssumption DEF TypeOK, RequestState, SessionRow, Pending, Revoking, Rotating, Locking, Answered, Fail, Goto, PredecessorIsRemembered, Stored, TokensBelong
  <2>5. RevocationAnswered'
    BY <1>13, NoneAssumption DEF TypeOK, RequestState, SessionRow, Pending, Revoking, Rotating, Locking, Answered, Fail, Goto, RevocationAnswered, RequestsBelong, RequestBelongs, Stored
  <2>6. QED
    BY <1>0, <2>1, <2>2, <2>3, <2>4, <2>5
<1>14. ASSUME NEW d \in Device, Deactivate(d)
       PROVE  IInv'
  BY <1>0, <1>14 DEF TypeOK, Deactivate, DeviceFree, TokensBelong, RequestsBelong, RequestBelongs, Delivered, LockProtects, Holding, Stored, PredecessorIsRemembered, RevocationAnswered
<1>15. CASE Tick
  BY <1>0, <1>15 DEF Tick, TokensBelong, RequestsBelong, RequestBelongs, Delivered, LockProtects, Holding, Stored, PredecessorIsRemembered, RevocationAnswered
<1>16. CASE UNCHANGED vars
  BY <1>0, <1>16 DEF vars, TokensBelong, RequestsBelong, RequestBelongs, Delivered, LockProtects, Holding, Stored, PredecessorIsRemembered, RevocationAnswered
<1>17. ASSUME NEW d \in Device, LoginClear(d)
       PROVE  IInv'
  BY <1>0, <1>17 DEF LoginClear, TokensBelong, RequestsBelong, RequestBelongs, Delivered, LockProtects, Holding, Stored, PredecessorIsRemembered, RevocationAnswered
<1>18. QED
  BY <1>1, <1>2, <1>3, <1>4, <1>5, <1>6, <1>7, <1>8, <1>9, <1>10, <1>11,
     <1>12, <1>13, <1>14, <1>15, <1>16, <1>17 DEF Next, Arrive, Continue

\* The inductive invariant holds in every behaviour.
THEOREM Invariance == Spec => []IInv
<1>1. Init => IInv
  BY NoneAssumption
  DEF Init, IInv, TypeOK, SessionRow, AbsentRow, RequestState, TokensBelong, Stored,
      RequestsBelong, RequestBelongs, Pending, Revoking, Rotating, Locking,
      LockProtects, Holding, SpentIsGone, PredecessorIsRemembered, RevocationAnswered
<1>2. IInv /\ TypeOK' /\ [Next]_vars => IInv'
  BY Inductive
<1>3. QED
  BY <1>1, <1>2, Typing, PTL DEF Spec

\* one_or_none() never raises: a hash selects at most one row, and no token
\* in force is its own predecessor (service.py:70, 150-151, 264).
THEOREM TokensIdentify == Spec => []TokenIdentity
<1>1. IInv => TokenIdentity
  BY DEF IInv, TokenIdentity, TokensBelong, Matching
<1>2. QED
  BY <1>1, Invariance, PTL

\* The predecessor of the token in force is the token it was exchanged for,
\* so presenting it again is recognised (service.py:81-95).
THEOREM PredecessorRemembered == Spec => []PredecessorIsRemembered
<1>1. IInv => PredecessorIsRemembered
  BY DEF IInv
<1>2. QED
  BY <1>1, Invariance, PTL

\* An answered reuse, idle refresh or logout leaves its session revoked, for
\* any number of concurrent rotations (service.py:85-95, 140-144, 268-269).
THEOREM RevocationHolds == Spec => []RevocationAnswered
<1>1. IInv => RevocationAnswered
  BY DEF IInv
<1>2. QED
  BY <1>1, Invariance, PTL

----------------------------------------------------------------------------
(* Refinement *)

\* The abstract state of a step that changes neither rows' status, owner,
\* the devices nor the set of requests let through is unchanged.
LEMMA QuietStep ==
    ASSUME UNCHANGED active,
           \A s \in Request : /\ session'[s].status = session[s].status
                              /\ session'[s].dev = session[s].dev,
           \A r \in Request : /\ req'[r].pc = "served" <=> req[r].pc = "served"
                              /\ req[r].pc = "served" => req'[r].sid = req[r].sid
    PROVE  UNCHANGED Contract!vars
<1>1. [s \in Request |-> session'[s].status] = [s \in Request |-> session[s].status]
  OBVIOUS
<1>2. [s \in Request |-> session'[s].dev] = [s \in Request |-> session[s].dev]
  OBVIOUS
<1>3. {<<r, req'[r].sid>> : r \in {q \in Request : req'[q].pc = "served"}}
        = {<<r, req[r].sid>> : r \in {q \in Request : req[q].pc = "served"}}
  OBVIOUS
<1>4. QED
  BY <1>1, <1>2, <1>3 DEF Contract!vars

\* Every step of the service is a step of the contract or changes nothing of it.
LEMMA StepRefines == IInv /\ [Next]_vars => [Contract!Next]_(Contract!vars)
<1> SUFFICES ASSUME IInv, [Next]_vars
             PROVE  Contract!Next \/ UNCHANGED Contract!vars
  OBVIOUS
<1> USE DEF IInv
<1>1. ASSUME NEW r \in Request, NEW d \in Device, CreateInsert(r, d)
      PROVE  Contract!Next
  <2>1. /\ req[r].pc = "new" /\ req'[r].pc = "create"
        /\ \A q \in Request \ {r} : req'[q] = req[q]
    BY <1>1 DEF CreateInsert, Begin, TypeOK, RequestState
  <2>2. /\ session'[r] = NewRow(r, d)
        /\ \A s \in Request \ {r} : session'[s] = session[s]
    BY <1>1 DEF CreateInsert, TypeOK
  <2>3. session[r].status = "absent"
    BY <2>1 DEF TokensBelong, Stored
  <2>4. [s \in Request |-> session'[s].status]
          = [[s \in Request |-> session[s].status] EXCEPT ![r] = "live"]
    <3>1. session'[r].status = "live"
      BY <2>2 DEF NewRow
    <3>2. QED
      BY <2>2, <3>1
  <2>5. [s \in Request |-> session'[s].dev]
          = [[s \in Request |-> session[s].dev] EXCEPT ![r] = d]
    <3>1. session'[r].dev = d
      BY <2>2 DEF NewRow
    <3>2. QED
      BY <2>2, <3>1
  <2>6. {<<q, req'[q].sid>> : q \in {u \in Request : req'[u].pc = "served"}}
          = {<<q, req[q].sid>> : q \in {u \in Request : req[u].pc = "served"}}
    BY <2>1
  <2>7. Contract!Open(r, d)
    BY <1>1, <2>3, <2>4, <2>5, <2>6 DEF CreateInsert, Contract!Open
  <2>8. QED
    BY <2>7 DEF Contract!Next
<1>2. ASSUME NEW r \in Request, NEW t \in Request,
             RotateRead(r, t) \/ RevokeRead(r, t) \/ ValidateBegin(r, t)
      PROVE  UNCHANGED Contract!vars
  <2>1. PICK pc, s : Begin(r, pc, req'[r].tok, s) /\ pc # "served"
    BY <1>2, VerdictType DEF RotateRead, RevokeRead, ValidateBegin, Begin, TypeOK
  <2>2. UNCHANGED <<session, active>>
    BY <1>2 DEF RotateRead, RevokeRead, ValidateBegin
  <2>3. /\ req[r].pc = "new" /\ req'[r].pc = pc
        /\ \A q \in Request \ {r} : req'[q] = req[q]
    BY <2>1 DEF Begin, TypeOK
  <2>4. QED
    BY <2>1, <2>2, <2>3, QuietStep
<1>3. ASSUME NEW r \in Request,
             CreateClear(r) \/ RotateCheck(r) \/ SetFlag(r) \/ ValidateCheck(r) \/ Fail(r)
      PROVE  UNCHANGED Contract!vars
  <2>1. /\ req[r].pc # "served" /\ req'[r].pc # "served"
        /\ \A q \in Request \ {r} : req'[q] = req[q]
    BY <1>3 DEF CreateClear, RotateCheck, SetFlag, ValidateCheck, Fail, Goto, Pending,
       Revoking, Rotating, Locking, TypeOK, RequestState
  <2>2. UNCHANGED <<session, active>>
    BY <1>3 DEF CreateClear, RotateCheck, SetFlag, ValidateCheck, Fail
  <2>3. QED
    BY <2>1, <2>2, QuietStep
<1>4. ASSUME NEW r \in Request, RotateCommit(r)
      PROVE  UNCHANGED Contract!vars
  <2>1. /\ req[r].pc # "served" /\ req'[r].pc # "served"
        /\ \A q \in Request \ {r} : req'[q] = req[q]
    BY <1>4 DEF RotateCommit, TypeOK, RequestState
  <2>2. req[r].sid \in Request
    BY <1>4 DEF RotateCommit, RequestsBelong, RequestBelongs, Pending, Rotating
  <2>3. \A s \in Request : /\ session'[s].status = session[s].status
                           /\ session'[s].dev = session[s].dev
    BY <1>4, <2>2 DEF RotateCommit, RotatedRow, TypeOK, SessionRow
  <2>4. UNCHANGED active
    BY <1>4 DEF RotateCommit
  <2>5. QED
    BY <2>1, <2>3, <2>4, QuietStep
<1>5. ASSUME NEW s \in Request, Stored(s), UNCHANGED active,
             session' = [session EXCEPT ![s].status = "revoked"],
             \A q \in Request : /\ req'[q].pc = "served" <=> req[q].pc = "served"
                                /\ req[q].pc = "served" => req'[q].sid = req[q].sid
      PROVE  Contract!Next \/ UNCHANGED Contract!vars
  <2>1. /\ session'[s].status = "revoked" /\ session'[s].dev = session[s].dev
        /\ \A u \in Request \ {s} : session'[u] = session[u]
    BY <1>5 DEF TypeOK, SessionRow
  <2>2. CASE session[s].status = "revoked"
    BY <1>5, <2>1, <2>2, QuietStep
  <2>3. CASE session[s].status = "live"
    <3>1. [u \in Request |-> session'[u].status]
            = [[u \in Request |-> session[u].status] EXCEPT ![s] = "revoked"]
      BY <2>1
    <3>2. [u \in Request |-> session'[u].dev] = [u \in Request |-> session[u].dev]
      BY <2>1
    <3>3. {<<q, req'[q].sid>> : q \in {u \in Request : req'[u].pc = "served"}}
            = {<<q, req[q].sid>> : q \in {u \in Request : req[u].pc = "served"}}
      BY <1>5
    <3>4. Contract!Close(s)
      BY <1>5, <2>3, <3>1, <3>2, <3>3 DEF Contract!Close
    <3>5. QED
      BY <3>4 DEF Contract!Next
  <2>4. QED
    BY <1>5, <2>2, <2>3 DEF Stored, TypeOK, SessionRow
<1>6. ASSUME NEW r \in Request, RevokeCommit(r)
      PROVE  Contract!Next \/ UNCHANGED Contract!vars
  <2>1. req[r].sid \in Request /\ Stored(req[r].sid)
    BY <1>6 DEF RevokeCommit, RequestsBelong, RequestBelongs, Pending
  <2>2. /\ req[r].pc # "served" /\ req'[r].pc # "served"
        /\ \A q \in Request \ {r} : req'[q] = req[q]
    BY <1>6 DEF RevokeCommit, Goto, AfterRevoke, Revoking, TypeOK, RequestState
  <2>3. QED
    BY <1>5, <1>6, <2>1, <2>2 DEF RevokeCommit
<1>7. ASSUME NEW r \in Request, ValidateLock(r)
      PROVE  Contract!Next \/ UNCHANGED Contract!vars
  <2>1. req[r].sid \in Request /\ Stored(req[r].sid)
    BY <1>7 DEF ValidateLock, RequestsBelong, RequestBelongs, Pending
  <2>2. /\ req[r].pc # "served" /\ req'[r].pc # "served"
        /\ \A q \in Request \ {r} : req'[q] = req[q]
    BY <1>7 DEF ValidateLock, ValidateVerdict, Goto, TypeOK, RequestState
  <2>3. \/ session' = session
        \/ session' = [session EXCEPT ![req[r].sid].status = "revoked"]
    BY <1>7 DEF ValidateLock
  <2>4. UNCHANGED active
    BY <1>7 DEF ValidateLock
  <2>5. CASE session' = session
    BY <2>2, <2>4, <2>5, QuietStep
  <2>6. CASE session' = [session EXCEPT ![req[r].sid].status = "revoked"]
    BY <1>5, <2>1, <2>2, <2>4, <2>6
  <2>7. QED
    BY <2>3, <2>5, <2>6
<1>8. ASSUME NEW r \in Request, ValidateCommit(r)
      PROVE  Contract!Next
  <2>1. PICK s \in Request : s = req[r].sid
    BY <1>8 DEF ValidateCommit, RequestsBelong, RequestBelongs, Pending, Locking
  <2>2. session[s].status = "live" /\ active[session[s].dev]
    BY <1>8, <2>1 DEF ValidateCommit, LockProtects, Holding, Locking
  <2>3. /\ req[r].pc # "served" /\ req'[r].pc = "served" /\ req'[r].sid = s
        /\ \A q \in Request \ {r} : req'[q] = req[q]
    BY <1>8, <2>1 DEF ValidateCommit, Goto, TypeOK, RequestState
  <2>4. /\ \A u \in Request : /\ session'[u].status = session[u].status
                              /\ session'[u].dev = session[u].dev
        /\ UNCHANGED active
    BY <1>8, <2>1 DEF ValidateCommit, TypeOK, SessionRow
  <2>5. {<<q, req'[q].sid>> : q \in {u \in Request : req'[u].pc = "served"}}
          = {<<q, req[q].sid>> : q \in {u \in Request : req[u].pc = "served"}}
              \cup {<<r, s>>}
    <3>1. {u \in Request : req'[u].pc = "served"}
            = {u \in Request : req[u].pc = "served"} \cup {r}
      BY <2>3
    <3>2. \A q \in {u \in Request : req[u].pc = "served"} : req'[q].sid = req[q].sid
      BY <2>3
    <3>3. QED
      BY <2>3, <3>1, <3>2
  <2>6. Contract!Admit(r, s)
    <3>1. [u \in Request |-> session[u].status][s] = "live"
      BY <2>1, <2>2
    <3>2. active[[u \in Request |-> session[u].dev][s]]
      BY <2>1, <2>2
    <3>3. /\ [u \in Request |-> session'[u].status] = [u \in Request |-> session[u].status]
          /\ [u \in Request |-> session'[u].dev] = [u \in Request |-> session[u].dev]
      BY <2>4
    <3>4. QED
      BY <2>4, <2>5, <3>1, <3>2, <3>3 DEF Contract!Admit
  <2>7. QED
    BY <2>6 DEF Contract!Next
<1>9. ASSUME NEW d \in Device, Deactivate(d)
      PROVE  Contract!Next
  BY <1>9 DEF Deactivate, Contract!Next, Contract!Disable
<1>10. CASE Tick
  BY <1>10, QuietStep DEF Tick
<1>11. CASE UNCHANGED vars
  BY <1>11, QuietStep DEF vars
<1>12. ASSUME NEW d \in Device, LoginClear(d)
       PROVE  [Contract!Next]_(Contract!vars)
  BY <1>12, QuietStep DEF LoginClear
<1>13. QED
  BY <1>1, <1>2, <1>3, <1>4, <1>6, <1>7, <1>8, <1>9, <1>10, <1>11, <1>12
  DEF Next, Arrive, Continue

\* The service implements its contract: revocation is for ever, and no
\* request is let through on a revoked session or a deactivated device,
\* for any number of concurrent requests (service.py:165-251).
THEOREM Refinement == Spec => ImplementsContract
<1>1. Init => Contract!Init
  BY DEF Init, Contract!Init, AbsentRow
<1>2. IInv /\ [Next]_vars => [Contract!Next]_(Contract!vars)
  BY StepRefines
<1>3. QED
  BY <1>1, <1>2, Invariance, PTL DEF Spec, ImplementsContract, Contract!Spec

----------------------------------------------------------------------------
(* An idle session stays dead *)

\* A step that leaves last_activity_at of s alone, and that moves only r, by
\* a rejection or to a state that reads the clock afresh, keeps s expired.
LEMMA ExpiredKeeps ==
    ASSUME IInv, NEW s \in Request, Expired(s), NEW r \in Request,
           now' = now, session'[s].last = session[s].last, Stored(s)',
           \A q \in Request \ {r} : req'[q] = req[q],
           req'[r].sid = s =>
              /\ req'[r].pc \notin Rotating \cup {"vcheck", "vcommit"}
              /\ req'[r].pc = "wait" => IdleFor(s, req'[r].at)
    PROVE  Expired(s)'
BY DEF Expired, IdleFor

\* Every step of the service keeps an expired session expired.
LEMMA StepKeepsExpired ==
    ASSUME IInv, [Next]_vars, NEW s \in Request, Expired(s)
    PROVE  Expired(s)'
<1> USE DEF IInv
<1>1. ASSUME NEW r \in Request, NEW d \in Device, CreateInsert(r, d)
      PROVE  Expired(s)'
  <2>1. /\ req[r].pc = "new" /\ req'[r].pc = "create" /\ now' = now
        /\ \A q \in Request \ {r} : req'[q] = req[q]
    BY <1>1 DEF CreateInsert, Begin, TypeOK, RequestState
  <2>2. s # r
    BY <2>1 DEF Expired, TokensBelong
  <2>3. session'[s] = session[s]
    BY <1>1, <2>2 DEF CreateInsert, TypeOK
  <2>4. QED
    BY <2>1, <2>3, ExpiredKeeps DEF Expired, Stored, Rotating
<1>2. ASSUME NEW r \in Request, NEW t \in Request, RotateRead(r, t)
      PROVE  Expired(s)'
  <2>1. UNCHANGED <<now, session>> /\ \A q \in Request \ {r} : req'[q] = req[q]
    BY <1>2 DEF RotateRead, Begin, TypeOK
  <2>2. ASSUME req'[r].sid = s
        PROVE  req'[r].pc \in {"denied", "reuse", "expire", "idle"}
    <3>1. \/ req'[r].pc = "denied"
          \/ \E u \in Request : req'[r].pc = RotateVerdict(u, t) /\ req'[r].sid = u
      BY <1>2 DEF RotateRead, Begin, Matching, TypeOK
    <3>2. RotateVerdict(s, t) # "check"
      BY DEF RotateVerdict, Expired
    <3>3. QED
      BY <2>2, <3>1, <3>2, VerdictType
  <2>3. QED
    BY <2>1, <2>2, ExpiredKeeps DEF Expired, Stored, Rotating
<1>3. ASSUME NEW r \in Request, NEW t \in Request, RevokeRead(r, t)
      PROVE  Expired(s)'
  <2>1. UNCHANGED <<now, session>> /\ \A q \in Request \ {r} : req'[q] = req[q]
    BY <1>3 DEF RevokeRead, Begin, TypeOK
  <2>2. req'[r].pc \in {"loggedOut", "logout"}
    BY <1>3 DEF RevokeRead, Begin, TypeOK
  <2>3. QED
    BY <2>1, <2>2, ExpiredKeeps DEF Expired, Stored, Rotating
<1>4. ASSUME NEW r \in Request, NEW q \in Request, ValidateBegin(r, q)
      PROVE  Expired(s)'
  <2>1. UNCHANGED <<now, session>> /\ \A u \in Request \ {r} : req'[u] = req[u]
    BY <1>4 DEF ValidateBegin, Begin, TypeOK
  <2>2. req'[r].pc \in {"denied", "wait"} /\ req'[r].at = now
    BY <1>4 DEF ValidateBegin, Begin, TypeOK
  <2>3. QED
    BY <2>1, <2>2, ExpiredKeeps DEF Expired, Stored, Rotating
<1>5. ASSUME NEW r \in Request,
             \/ CreateClear(r) \/ RotateCheck(r) \/ SetFlag(r)
             \/ ValidateCheck(r) \/ Fail(r)
      PROVE  Expired(s)'
  <2>1. UNCHANGED <<now, session>> /\ \A q \in Request \ {r} : req'[q] = req[q]
    BY <1>5 DEF CreateClear, RotateCheck, SetFlag, ValidateCheck, Fail, Goto, TypeOK
  <2>2. /\ req'[r].sid = req[r].sid
        /\ \/ req'[r].pc \in {"created", "reauth", "lost"}
           \/ req[r].pc = "check" \/ req[r].pc = "vcheck"
    BY <1>5 DEF CreateClear, RotateCheck, SetFlag, ValidateCheck, Fail, Goto, TypeOK,
       RequestState
  <2>3. QED
    BY <2>1, <2>2, ExpiredKeeps DEF Expired, Stored, Rotating
<1>6. ASSUME NEW r \in Request, RotateCommit(r) \/ ValidateCommit(r)
      PROVE  Expired(s)'
  <2>1. req[r].pc \in {"rotate", "vcommit"} /\ req[r].sid # s
    BY <1>6 DEF RotateCommit, ValidateCommit, Expired, Rotating
  <2>2. session'[s] = session[s] /\ now' = now
    BY <1>6, <2>1 DEF RotateCommit, ValidateCommit, TypeOK
  <2>3. /\ req'[r].sid = req[r].sid
        /\ \A q \in Request \ {r} : req'[q] = req[q]
    BY <1>6 DEF RotateCommit, ValidateCommit, Goto, TypeOK, RequestState
  <2>4. QED
    BY <2>1, <2>2, <2>3, ExpiredKeeps DEF Expired, Stored
<1>7. ASSUME NEW r \in Request, RevokeCommit(r)
      PROVE  Expired(s)'
  <2>1. session'[s].last = session[s].last /\ Stored(s)' /\ now' = now
    BY <1>7 DEF RevokeCommit, Expired, Stored, TypeOK, SessionRow
  <2>2. /\ req'[r].pc \in {"reused", "denied", "flag", "loggedOut"}
        /\ \A q \in Request \ {r} : req'[q] = req[q]
    BY <1>7 DEF RevokeCommit, Goto, AfterRevoke, Revoking, TypeOK, RequestState
  <2>3. QED
    BY <2>1, <2>2, ExpiredKeeps DEF Rotating
<1>8. ASSUME NEW r \in Request, ValidateLock(r)
      PROVE  Expired(s)'
  <2>1. session'[s].last = session[s].last /\ Stored(s)' /\ now' = now
    <3>1. \/ session' = session
          \/ session' = [session EXCEPT ![req[r].sid].status = "revoked"]
      BY <1>8 DEF ValidateLock
    <3>2. now' = now
      BY <1>8 DEF ValidateLock
    <3>3. QED
      BY <3>1, <3>2 DEF Expired, Stored, TypeOK, SessionRow
  <2>2. /\ req[r].pc = "wait" /\ req'[r].sid = req[r].sid
        /\ req'[r].pc = ValidateVerdict(req[r].sid, req[r].at)
        /\ \A q \in Request \ {r} : req'[q] = req[q]
    BY <1>8 DEF ValidateLock, Goto, TypeOK, RequestState
  <2>3. req[r].sid = s => req'[r].pc \in {"denied", "vidle"}
    BY <2>2 DEF ValidateVerdict, Expired
  <2>4. QED
    BY <2>1, <2>2, <2>3, ExpiredKeeps DEF Rotating
<1>9. CASE Tick
  BY <1>9, TimeAssumption DEF Tick, Expired, Stored, IdleFor, TypeOK, SessionRow, RequestState
<1>10. CASE UNCHANGED vars
  BY <1>10 DEF vars, Expired, Stored, IdleFor
<1>11. ASSUME NEW d \in Device, Deactivate(d)
       PROVE  Expired(s)'
  BY <1>11 DEF Deactivate, Expired, Stored, IdleFor
<1>12. ASSUME NEW d \in Device, LoginClear(d)
       PROVE  Expired(s)'
  BY <1>12 DEF LoginClear, Expired, Stored, IdleFor
<1>13. QED
  BY <1>1, <1>2, <1>3, <1>4, <1>5, <1>6, <1>7, <1>8, <1>9, <1>10, <1>11, <1>12
  DEF Next, Arrive, Continue

\* A session that was idle for longer than the timeout, with no request left
\* that had read it in time, is never used again (service.py:139-144, 232-244).
THEOREM IdleIsFinal == Spec => IdleSessionStaysDead
<1>1. IInv /\ [Next]_vars
        => [\A s \in Request : Expired(s) => Expired(s)']_vars
  BY StepKeepsExpired
<1>2. QED
  BY <1>1, Invariance, PTL DEF Spec, IdleSessionStaysDead


----------------------------------------------------------------------------
(* A spent token *)

\* The rows a spent token selects: the session it was exchanged in, and only
\* while that remembers it as the predecessor of the token in force.
LEMMA SpentMatches ==
    ASSUME IInv, NEW q \in Request, req[q].pc = "rotated"
    PROVE  LET s == req[q].sid
               newest == session[s].ref
           IN  /\ s \in Request /\ newest \in Request /\ newest # s
               /\ session[s].prev = req[newest].tok
               /\ Matching(req[q].tok)
                    = IF session[s].prev = req[q].tok THEN {s} ELSE {}
<1> USE DEF IInv
<1>1. /\ req[q].sid \in Request /\ Stored(req[q].sid)
      /\ req[q].tok \in Request /\ req[req[q].tok].sid = req[q].sid
  BY DEF RequestsBelong, RequestBelongs, Delivered
<1>2. session[req[q].sid].ref \in Request \ {req[q].sid, req[q].tok}
  BY <1>1 DEF SpentIsGone, TokensBelong
<1>3. session[req[q].sid].prev = req[session[req[q].sid].ref].tok
  BY <1>1, <1>2 DEF PredecessorIsRemembered
<1>4. \A u \in Matching(req[q].tok) : u = req[q].sid
  BY <1>1 DEF Matching, TokensBelong
<1>5. req[q].sid \in Matching(req[q].tok) <=> session[req[q].sid].prev = req[q].tok
  BY <1>1, <1>2 DEF Matching
<1>6. QED
  BY <1>1, <1>2, <1>3, <1>4, <1>5

\* A refresh that begins with a spent token goes no further than its lookup:
\* no two exchanges of a token follow one another, for any number of requests
\* (service.py:64-95).
THEOREM SpentTokens == Spec => SpentBuysNothing
<1>1. ASSUME IInv, [Next]_vars, NEW q \in Request, NEW r \in Request, Respent(q, r)
      PROVE  req'[r].pc = IF req[session[req[q].sid].ref].tok = req[q].tok
                          THEN "reuse" ELSE "denied"
  <2>1. TypeOK /\ req[q].tok \in Request
    BY <1>1 DEF IInv, Respent, RequestsBelong, RequestBelongs, Delivered
  <2>2. PICK t \in Request : RotateRead(r, t) \/ RevokeRead(r, t) \/ ValidateBegin(r, t)
    <3>1. \A p \in Request : p # r => ~(Arrive(p) \/ Continue(p) \/ Fail(p))
      <4>1. ASSUME NEW p \in Request, p # r, Arrive(p) \/ Continue(p) \/ Fail(p)
            PROVE  req'[r] = req[r]
        BY <2>1, <4>1
        DEF Arrive, Continue, Fail, CreateInsert, RotateRead, RevokeRead, ValidateBegin,
            CreateClear, RotateCheck, RotateCommit, RevokeCommit, SetFlag, ValidateLock,
            ValidateCheck, ValidateCommit, Goto, Begin, TypeOK
      <4>2. QED
        BY <1>1, <4>1 DEF Respent
    <3>2. ~(Continue(r) \/ Fail(r))
      BY <1>1
      DEF Respent, Continue, Fail, CreateClear, RotateCheck, RotateCommit, RevokeCommit,
          SetFlag, ValidateLock, ValidateCheck, ValidateCommit, Pending, Revoking, Rotating,
          Locking
    <3>3. \A d \in Device : ~CreateInsert(r, d)
      BY <1>1, <2>1 DEF Respent, CreateInsert, Begin, TypeOK
    <3>4. req' # req
      BY <1>1 DEF Respent
    <3>5. QED
      BY <1>1, <3>1, <3>2, <3>3, <3>4 DEF Next, Arrive, Tick, Deactivate, LoginClear, vars
  <2>3. RotateRead(r, t) /\ t = req[q].tok
    <3>1. ~RevokeRead(r, t) /\ ~ValidateBegin(r, t)
      BY <1>1, <2>1, NoneAssumption DEF Respent, RevokeRead, ValidateBegin, Begin, TypeOK
    <3>2. RotateRead(r, t) => req'[r].tok = t
      BY <2>1 DEF RotateRead, Begin, TypeOK
    <3>3. QED
      BY <1>1, <2>2, <3>1, <3>2 DEF Respent
  <2>4. PICK s \in Request : s = req[q].sid
    BY <1>1, SpentMatches DEF Respent
  <2>5. /\ session[s].prev = req[session[s].ref].tok
        /\ Matching(t) = IF session[s].prev = t THEN {s} ELSE {}
    BY <1>1, <2>3, <2>4, SpentMatches DEF Respent
  <2>6. CASE session[s].prev = t
    <3>1. Begin(r, RotateVerdict(s, t), t, s)
      BY <2>3, <2>5, <2>6 DEF RotateRead
    <3>2. req'[r].pc = "reuse"
      BY <2>1, <2>6, <3>1 DEF Begin, RotateVerdict, TypeOK
    <3>3. QED
      BY <2>3, <2>4, <2>5, <2>6, <3>2
  <2>7. CASE session[s].prev # t
    <3>1. Begin(r, "denied", t, None)
      BY <2>3, <2>5, <2>7 DEF RotateRead
    <3>2. req'[r].pc = "denied"
      BY <2>1, <3>1 DEF Begin, TypeOK
    <3>3. QED
      BY <2>3, <2>4, <2>5, <2>7, <3>2
  <2>8. QED
    BY <2>6, <2>7
<1>2. IInv /\ [Next]_vars =>
        [\A q, r \in Request : Respent(q, r) =>
           LET newest == session[req[q].sid].ref IN
           req'[r].pc = IF req[newest].tok = req[q].tok THEN "reuse" ELSE "denied"]_vars
  BY <1>1
<1>3. QED
  BY <1>2, Invariance, PTL DEF Spec, SpentBuysNothing

============================================================================

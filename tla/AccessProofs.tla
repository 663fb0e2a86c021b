---------------------------- MODULE AccessProofs ----------------------------
(***************************************************************************)
(* Proofs about Access: the composition implements the module Session, so  *)
(* the theorems of SessionProofs hold of it; and no private handler is     *)
(* reached without the session service's consent.                          *)
(***************************************************************************)
EXTENDS Access, SessionProofs

\* Every step of the composition is a step of the session service, or
\* leaves its variables alone.
LEMMA ServiceSteps == ServiceStep => Next /\ UNCHANGED <<visit, gone>>
<1> SUFFICES ASSUME ServiceStep PROVE Next /\ UNCHANGED <<visit, gone>>
  OBVIOUS
<1>1. UNCHANGED <<visit, gone>>
  BY DEF ServiceStep
<1>2. ASSUME NEW r \in Request, NEW d \in Device, CreateInsert(r, d) PROVE Next
  BY <1>2 DEF Next, Arrive
<1>3. ASSUME NEW r \in Request, NEW t \in Request, RotateRead(r, t) \/ RevokeRead(r, t)
      PROVE  Next
  BY <1>3 DEF Next, Arrive
<1>4. ASSUME NEW r \in Request, Continue(r) \/ Fail(r) PROVE Next
  BY <1>4 DEF Next
<1>5. ASSUME NEW d \in Device, Deactivate(d) \/ LoginClear(d) PROVE Next
  BY <1>5 DEF Next
<1>6. ASSUME Tick PROVE Next
  BY <1>6 DEF Next
<1>7. Next
  BY <1>2, <1>3, <1>4, <1>5, <1>6 DEF ServiceStep
<1>8. QED
  BY <1>1, <1>7

LEMMA EnterSteps ==
    ASSUME NEW r \in Visitor, NEW p \in Private, NEW k \in Token, NEW q \in Request,
           Enter(r, p, k, q)
    PROVE  Next
<1>1. ValidateBegin(r, q)
  BY DEF Enter, Guarded
<1>2. r \in Request
  BY AccessAssumption
<1>3. QED
  BY <1>1, <1>2 DEF Next, Arrive

LEMMA ProceedSteps ==
    ASSUME NEW r \in Visitor, Proceed(r)
    PROVE  UNCHANGED <<vars, gone>>
BY DEF Proceed, Turned, Through, Handle, Gate

LEMMA StepIsSession == [AccessNext]_avars => [Next]_vars
<1> SUFFICES ASSUME [AccessNext]_avars PROVE Next \/ UNCHANGED vars
  OBVIOUS
<1>1. CASE ServiceStep
  BY <1>1, ServiceSteps
<1>2. ASSUME NEW r \in Visitor, NEW p \in Path, VisitBare(r, p)
      PROVE  UNCHANGED vars
  BY <1>2 DEF VisitBare
<1>3. ASSUME NEW r \in Visitor, NEW p \in Private, NEW k \in Token \ {"none"},
             NEW q \in Request, Enter(r, p, k, q)
      PROVE  Next
  BY <1>3, EnterSteps
<1>4. ASSUME NEW r \in Visitor, Proceed(r) PROVE UNCHANGED vars
  BY <1>4, ProceedSteps
<1>5. ASSUME NEW q \in Request, RevokeJti(q) PROVE UNCHANGED vars
  BY <1>5 DEF RevokeJti
<1>6. CASE UNCHANGED avars
  BY <1>6 DEF avars
<1>7. QED
  BY <1>1, <1>2, <1>3, <1>4, <1>5, <1>6 DEF AccessNext, VisitStep

\* The composition implements the session service: what SessionProofs proves
\* of that service holds when its validation is called by the middleware.
THEOREM Composition == AccessSpec => ImplementsSession
<1>1. AccessInit => Init
  BY DEF AccessInit
<1>2. [AccessNext]_avars => [Next]_vars
  BY StepIsSession
<1>3. QED
  BY <1>1, <1>2, PTL DEF AccessSpec, Spec, ImplementsSession

\* A request the middleware lets through has, at that instant, a session
\* that is not revoked on a device that is active.
THEOREM AccessContract == AccessSpec => ImplementsContract
BY Composition, Refinement DEF ImplementsSession

----------------------------------------------------------------------------
(* Typing *)

LEMMA VisitTypes ==
    ASSUME visit \in [Visitor -> Visit], gone \subseteq Request,
           [AccessNext]_avars
    PROVE  visit' \in [Visitor -> Visit] /\ gone' \subseteq Request
<1>1. CASE ServiceStep \/ UNCHANGED avars
  BY <1>1, ServiceSteps DEF avars
<1>2. ASSUME NEW v \in Visit, NEW s \in Underway \cup Over PROVE VisitAt(v, s) \in Visit
  BY DEF VisitAt, Visit, NoVisit, Path, Private, Vault, Token, Underway, Over
<1>3. ASSUME NEW r \in Visitor, NEW s \in Underway \cup Over, Move(r, s)
      PROVE  visit' \in [Visitor -> Visit]
  BY <1>2, <1>3 DEF Move
<1>4. ASSUME NEW r \in Visitor, NEW p \in Path, VisitBare(r, p)
      PROVE  visit' \in [Visitor -> Visit] /\ gone' = gone
  BY <1>3, <1>4 DEF VisitBare, Over
<1>5. ASSUME NEW r \in Visitor, NEW p \in Private, NEW k \in Token \ {"none"},
             NEW q \in Request, Enter(r, p, k, q)
      PROVE  visit' \in [Visitor -> Visit] /\ gone' = gone
  BY <1>5 DEF Enter, Visit, Path, Underway
<1>6. ASSUME NEW r \in Visitor, Proceed(r)
      PROVE  visit' \in [Visitor -> Visit] /\ gone' = gone
  <2>1. gone' = gone
    BY <1>6, ProceedSteps
  <2>2. CASE Turned(r)
    BY <1>3, <2>2 DEF Turned, Answers, Over
  <2>3. CASE Through(r)
    BY <1>3, <2>3 DEF Through, Over, Underway
  <2>4. CASE Handle(r)
    BY <1>3, <2>4 DEF Handle, Over
  <2>5. ASSUME NEW up \in BOOLEAN, Gate(r, up) PROVE visit' \in [Visitor -> Visit]
    BY <1>3, <2>5 DEF Gate, GateVerdict, Over, Underway
  <2>6. QED
    BY <1>6, <2>1, <2>2, <2>3, <2>4, <2>5 DEF Proceed
<1>7. ASSUME NEW q \in Request, RevokeJti(q)
      PROVE  visit' = visit /\ gone' \subseteq Request
  BY <1>7 DEF RevokeJti
<1>8. QED
  BY <1>1, <1>4, <1>5, <1>6, <1>7 DEF AccessNext, VisitStep

\* Types.
THEOREM AccessTyping == AccessSpec => []AccessTypeOK
<1> DEFINE VisitsTyped == visit \in [Visitor -> Visit] /\ gone \subseteq Request
<1>1. AccessInit => VisitsTyped
  BY DEF AccessInit, NoVisit, Visit, Path, Token
<1>2. VisitsTyped /\ [AccessNext]_avars => VisitsTyped'
  BY VisitTypes
<1>3. AccessSpec => []VisitsTyped
  <2> HIDE DEF VisitsTyped
  <2> QED
    BY <1>1, <1>2, PTL DEF AccessSpec
<1>4. AccessSpec => []TypeOK
  BY Composition, Typing DEF ImplementsSession
<1>5. TypeOK /\ VisitsTyped => AccessTypeOK
  BY DEF AccessTypeOK
<1>6. QED
  <2> HIDE DEF VisitsTyped
  <2> QED
    BY <1>3, <1>4, <1>5, PTL

----------------------------------------------------------------------------
(* Admission *)

\* A request keeps the session it took up, and one that was let through or
\* holds tokens has ended.
LEMMA Settled ==
    ASSUME TypeOK, [Next]_vars, NEW r \in Request
    PROVE  /\ req[r].pc # "new" => req'[r].sid = req[r].sid /\ req'[r].pc # "new"
           /\ req[r].pc \in {"served", "created", "rotated"} => req'[r].pc = req[r].pc
<1> DEFINE Keeps ==
      /\ req[r].pc # "new" => req'[r].sid = req[r].sid /\ req'[r].pc # "new"
      /\ req[r].pc \in {"served", "created", "rotated"} => req'[r].pc = req[r].pc
<1>1. req \in [Request -> RequestState] /\ r \in DOMAIN req
  BY DEF TypeOK
<1>2. ASSUME NEW q \in Request, NEW pc, NEW t, NEW s, Begin(q, pc, t, s) PROVE Keeps
  BY <1>1, <1>2 DEF Begin
<1>3. ASSUME NEW q \in Request, NEW pc, Goto(q, pc), pc # "new", req[q].pc \in Pending
      PROVE  Keeps
  <2>1. req[q].pc \notin {"new", "served", "created", "rotated"}
    BY <1>3 DEF Pending, Revoking, Rotating, Locking
  <2>2. CASE q = r
    <3>1. req[r] \in RequestState
      BY <1>1
    <3>2. req'[r] = [req[r] EXCEPT !.pc = pc]
      BY <1>1, <1>3, <2>2 DEF Goto
    <3>3. req'[r].sid = req[r].sid /\ req'[r].pc = pc
      BY <3>1, <3>2 DEF RequestState
    <3>4. QED
      BY <1>3, <2>1, <2>2, <3>3
  <2>3. CASE q # r
    BY <1>1, <1>3, <2>3 DEF Goto
  <2>4. QED
    BY <2>2, <2>3
<1>4. ASSUME NEW q \in Request, CreateClear(q) \/ RotateCommit(q) PROVE Keeps
  <2>1. req[q].pc \in {"create", "rotate"}
    BY <1>4 DEF CreateClear, RotateCommit
  <2>2. \/ req' = [req EXCEPT ![q].pc = "created", ![q].at = now]
        \/ req' = [req EXCEPT ![q].pc = "rotated", ![q].at = now]
    BY <1>4 DEF CreateClear, RotateCommit
  <2>3. CASE q = r
    <3>1. req[r] \in RequestState
      BY <1>1
    <3>2. req'[r].sid = req[r].sid /\ req'[r].pc \in {"created", "rotated"}
      BY <1>1, <2>2, <2>3, <3>1 DEF RequestState
    <3>3. QED
      BY <2>1, <2>3, <3>2
  <2>4. CASE q # r
    BY <1>1, <2>2, <2>4
  <2>5. QED
    BY <2>3, <2>4
<1>5. ASSUME NEW q \in Request, NEW d \in Device, CreateInsert(q, d) PROVE Keeps
  BY <1>2, <1>5 DEF CreateInsert
<1>6. ASSUME NEW q \in Request, NEW t \in Request, RotateRead(q, t) PROVE Keeps
  BY <1>2, <1>6 DEF RotateRead
<1>7. ASSUME NEW q \in Request, NEW t \in Request, RevokeRead(q, t) PROVE Keeps
  BY <1>2, <1>7 DEF RevokeRead
<1>8. ASSUME NEW q \in Request, NEW t \in Request, ValidateBegin(q, t) PROVE Keeps
  BY <1>2, <1>8 DEF ValidateBegin
<1>9. ASSUME NEW q \in Request, RotateCheck(q) PROVE Keeps
  BY <1>3, <1>9 DEF RotateCheck, Pending, Rotating
<1>10. ASSUME NEW q \in Request, RevokeCommit(q) PROVE Keeps
  <2>1. AfterRevoke[req[q].pc] # "new"
    BY <1>10 DEF RevokeCommit, Revoking, AfterRevoke
  <2>2. QED
    BY <1>3, <1>10, <2>1 DEF RevokeCommit, Pending
<1>11. ASSUME NEW q \in Request, SetFlag(q) PROVE Keeps
  BY <1>3, <1>11 DEF SetFlag, Pending, Locking
<1>12. ASSUME NEW q \in Request, ValidateLock(q) PROVE Keeps
  <2>1. ValidateVerdict(req[q].sid, req[q].at) # "new"
    BY DEF ValidateVerdict
  <2>2. QED
    BY <1>3, <1>12, <2>1 DEF ValidateLock, Pending
<1>13. ASSUME NEW q \in Request, ValidateCheck(q) PROVE Keeps
  BY <1>3, <1>13 DEF ValidateCheck, Pending, Locking
<1>14. ASSUME NEW q \in Request, ValidateCommit(q) PROVE Keeps
  BY <1>3, <1>14 DEF ValidateCommit, Pending, Locking
<1>15. ASSUME NEW q \in Request, Fail(q) PROVE Keeps
  BY <1>3, <1>15 DEF Fail
<1>16. ASSUME UNCHANGED req PROVE Keeps
  BY <1>16
<1>17. ASSUME NEW d \in Device, Deactivate(d) \/ LoginClear(d) PROVE UNCHANGED req
  BY <1>17 DEF Deactivate, LoginClear
<1>18. Tick \/ UNCHANGED vars => UNCHANGED req
  BY DEF Tick, vars
<1> HIDE DEF Keeps
<1>19. ASSUME NEW q \in Request, Arrive(q) \/ Continue(q) \/ Fail(q) PROVE Keeps
  BY <1>4, <1>5, <1>6, <1>7, <1>8, <1>9, <1>10, <1>11, <1>12, <1>13, <1>14, <1>15,
     <1>19 DEF Arrive, Continue
<1>20. Keeps
  BY <1>16, <1>17, <1>18, <1>19 DEF Next
<1>21. QED
  BY <1>20 DEF Keeps

\* The visit of r is to a private path, and is past the middleware.
Inside(r) == visit[r].path \in Private /\ visit[r].stage \in {"gate", "inside", "ok"}

\* The session a visit has validated is the one its token names, a vault
\* token that got past the first look at its claims has a scope, and a path
\* that was never entered is not private.
AdmittedFrom(r) ==
    /\ visit[r].stage = "out" => visit[r].path \notin Private
    /\ visit[r].path \in Private /\ visit[r].stage \in Underway \cup {"ok"} =>
         /\ visit[r].of \in Delivered
         /\ req[r].pc # "new"
         /\ req[r].sid = req[visit[r].of].sid
    /\ Inside(r) => req[r].pc = "served"
    /\ Inside(r) /\ visit[r].path \in Vault => Scopes(visit[r].token) # {}

Admitted == \A r \in Visitor : AdmittedFrom(r)

\* What Admitted says of r survives the steps that leave its visit alone.
LEMMA OthersKeep ==
    ASSUME AccessTypeOK, [Next]_vars, NEW r \in Visitor, AdmittedFrom(r),
           visit'[r] = visit[r]
    PROVE  AdmittedFrom(r)'
<1>1. r \in Request /\ visit[r] \in Visit
  BY AccessAssumption DEF AccessTypeOK
<1>2. TypeOK
  BY DEF AccessTypeOK
<1>3. \A q \in Request :
        /\ req[q].pc # "new" => req'[q].sid = req[q].sid /\ req'[q].pc # "new"
        /\ req[q].pc \in {"served", "created", "rotated"} => req'[q].pc = req[q].pc
  BY <1>2, Settled
<1>4. \A q \in Delivered : q \in Delivered' /\ req'[q].sid = req[q].sid
  BY <1>3 DEF Delivered
<1>5. QED
  BY <1>1, <1>3, <1>4 DEF AdmittedFrom, Inside

LEMMA MovedVisit ==
    ASSUME AccessTypeOK, NEW r \in Visitor, NEW s, Move(r, s)
    PROVE  /\ visit'[r] = VisitAt(visit[r], s)
           /\ \A q \in Visitor \ {r} : visit'[q] = visit[q]
BY DEF AccessTypeOK, Move

\* A visit that only moves on inside the composition.
LEMMA MoveKeeps ==
    ASSUME AccessTypeOK, UNCHANGED vars, NEW r \in Visitor, AdmittedFrom(r),
           NEW s \in {"refused", "error", "gate", "inside", "ok"}, Move(r, s),
           visit[r].stage # "out" \/ s \in {"refused", "ok"},
           s \in {"gate", "inside", "ok"} /\ visit[r].path \in Private =>
               /\ visit[r].stage # "out"
               /\ visit[r].stage \in Underway
               /\ req[r].pc = "served"
               /\ visit[r].path \in Vault => Scopes(visit[r].token) # {}
    PROVE  AdmittedFrom(r)'
<1>1. visit[r] \in Visit
  BY DEF AccessTypeOK
<1>2. visit'[r] = VisitAt(visit[r], s)
  BY MovedVisit
<1>3. req' = req /\ Delivered' = Delivered
  BY DEF vars, Delivered
<1>4. CASE s \in {"refused", "error"}
  <2>1. visit'[r] = [NoVisit EXCEPT !.stage = s]
    BY <1>2, <1>4 DEF VisitAt
  <2>2. visit'[r].path = "health" /\ visit'[r].stage = s
    BY <2>1 DEF NoVisit
  <2>3. QED
    BY <1>4, <2>2 DEF AdmittedFrom, Inside, Private, Vault
<1>5. CASE s \in {"gate", "inside", "ok"}
  <2>1. visit'[r] = [visit[r] EXCEPT !.stage = s]
    BY <1>2, <1>5 DEF VisitAt
  <2>2. /\ visit'[r].path = visit[r].path /\ visit'[r].token = visit[r].token
        /\ visit'[r].of = visit[r].of /\ visit'[r].stage = s
    BY <1>1, <2>1 DEF Visit
  <2>3. QED
    BY <1>3, <1>5, <2>2 DEF AdmittedFrom, Inside
<1>6. QED
  BY <1>4, <1>5

LEMMA AdmittedInductive == AccessTypeOK /\ Admitted /\ [AccessNext]_avars => Admitted'
<1> SUFFICES ASSUME AccessTypeOK, Admitted, [AccessNext]_avars, NEW q \in Visitor
             PROVE  AdmittedFrom(q)'
  BY DEF Admitted
<1>1. [Next]_vars /\ AdmittedFrom(q)
  BY StepIsSession DEF Admitted
<1>2. visit'[q] = visit[q] => AdmittedFrom(q)'
  BY <1>1, OthersKeep
<1>3. CASE ServiceStep \/ UNCHANGED avars
  BY <1>2, <1>3, ServiceSteps DEF avars
<1>4. ASSUME NEW c \in Request, RevokeJti(c) PROVE AdmittedFrom(q)'
  BY <1>2, <1>4 DEF RevokeJti
<1>5. ASSUME NEW r \in Visitor, NEW p \in Path, VisitBare(r, p) PROVE AdmittedFrom(q)'
  <2>1. UNCHANGED vars /\ visit[r].stage = "out"
    BY <1>5 DEF VisitBare, Arriving
  <2>2. PICK s \in {"refused", "ok"} : Move(r, s)
    BY <1>5 DEF VisitBare
  <2>3. CASE q # r
    BY <1>2, <2>2, <2>3, MovedVisit
  <2>4. CASE q = r
    <3>1. visit[r].path \notin Private
      BY <1>1, <2>1, <2>4 DEF AdmittedFrom
    <3>2. QED
      BY <1>1, <2>1, <2>2, <2>4, <3>1, MoveKeeps
  <2>5. QED
    BY <2>3, <2>4
<1>6. ASSUME NEW r \in Visitor, NEW p \in Private, NEW k \in Token \ {"none"},
             NEW c \in Request, Enter(r, p, k, c)
      PROVE  AdmittedFrom(q)'
  <2>1. /\ visit' = [visit EXCEPT ![r] =
               [path |-> p, token |-> k, of |-> c, stage |-> "door"]]
        /\ ValidateBegin(r, c) /\ c \in Delivered /\ req[r].pc = "new"
    BY <1>6 DEF Enter, Guarded, Arriving
  <2>2. CASE q # r
    BY <1>2, <2>1, <2>2 DEF AccessTypeOK
  <2>3. CASE q = r
    <3>1. visit'[q] = [path |-> p, token |-> k, of |-> c, stage |-> "door"]
      BY <2>1, <2>3 DEF AccessTypeOK
    <3>2. c # r /\ r \in Request
      BY <2>1, AccessAssumption DEF Delivered
    <3>3. PICK pc \in {"denied", "wait"} : Begin(r, pc, None, req[c].sid)
      BY <2>1 DEF ValidateBegin
    <3>4. req' = [req EXCEPT ![r] =
            [pc |-> pc, tok |-> None, sid |-> req[c].sid, at |-> now]]
      BY <3>3 DEF Begin
    <3>5. req \in [Request -> RequestState]
      BY DEF AccessTypeOK, TypeOK
    <3>6. /\ req'[r].pc = pc /\ req'[r].sid = req[c].sid /\ req'[c] = req[c]
          /\ c \in Delivered'
      BY <2>1, <3>2, <3>4, <3>5 DEF Delivered
    <3>7. QED
      BY <2>3, <3>1, <3>3, <3>6 DEF AdmittedFrom, Inside
  <2>4. QED
    BY <2>2, <2>3
<1>7. ASSUME NEW r \in Visitor, Proceed(r) PROVE AdmittedFrom(q)'
  <2>1. UNCHANGED vars
    BY <1>7, ProceedSteps
  <2>2. ASSUME NEW s, Move(r, s), q # r PROVE AdmittedFrom(q)'
    BY <1>2, <2>2, MovedVisit
  <2>3. CASE Turned(r)
    <3>1. PICK s \in {"refused", "error"} : Move(r, s)
      BY <2>3 DEF Turned, Answers
    <3>2. visit[r].stage # "out"
      BY <2>3 DEF Turned
    <3>3. QED
      BY <1>1, <2>1, <2>2, <3>1, <3>2, MoveKeeps
  <2>4. CASE Through(r)
    <3>1. visit[r].stage = "door" /\ req[r].pc = "served"
      BY <2>4 DEF Through
    <3>2. PICK s \in {"refused", "gate", "inside", "ok"} :
            /\ Move(r, s)
            /\ s # "refused" /\ visit[r].path \in Vault => Scopes(visit[r].token) # {}
      BY <2>4 DEF Through, Vault
    <3>3. QED
      BY <1>1, <2>1, <2>2, <3>1, <3>2, MoveKeeps DEF Underway
  <2>5. CASE Handle(r)
    <3>1. PICK s \in {"refused", "error", "ok"} : Move(r, s)
      BY <2>5 DEF Handle
    <3>2. visit[r].stage = "inside"
      BY <2>5 DEF Handle
    <3>3. QED
      BY <1>1, <2>1, <2>2, <3>1, <3>2, MoveKeeps DEF AdmittedFrom, Inside, Underway
  <2>6. ASSUME NEW up \in BOOLEAN, Gate(r, up) PROVE AdmittedFrom(q)'
    <3>1. PICK s \in {"refused", "inside"} : Move(r, s)
      BY <2>6 DEF Gate, GateVerdict
    <3>2. visit[r].stage = "gate"
      BY <2>6 DEF Gate
    <3>3. QED
      BY <1>1, <2>1, <2>2, <3>1, <3>2, MoveKeeps DEF AdmittedFrom, Inside, Underway
  <2>7. QED
    BY <1>7, <2>3, <2>4, <2>5, <2>6 DEF Proceed
<1>8. QED
  BY <1>3, <1>4, <1>5, <1>6, <1>7 DEF AccessNext, VisitStep

LEMMA AdmittedAlways == AccessSpec => [](AccessTypeOK /\ Admitted)
<1>1. AccessInit => Admitted
  BY DEF AccessInit, Admitted, AdmittedFrom, Inside, NoVisit, Private, Vault, Underway
<1>2. AccessSpec => []AccessTypeOK
  BY AccessTyping
<1>3. QED
  BY <1>1, <1>2, AdmittedInductive, PTL DEF AccessSpec

\* No private handler runs without the session service's consent to this
\* very request (session_middleware.py:45-64).
THEOREM Admission == AccessSpec => []HandledWasAdmitted
<1>1. Admitted => HandledWasAdmitted
  BY DEF Admitted, AdmittedFrom, Inside, HandledWasAdmitted, Underway
<1>2. QED
  BY <1>1, AdmittedAlways, PTL

\* A vault token that was revoked before the gate asked stays out.
THEOREM RevokedStaysOut == AccessSpec => RevokedTokenRefused
<1>1. ASSUME AccessTypeOK, [AccessNext]_avars, NEW q \in Visitor,
             visit[q].stage \in {"door", "gate"}, visit[q].path \in Vault,
             visit[q].of \in gone
      PROVE  visit'[q].stage \notin {"inside", "ok"}
  <2>1. visit'[q] = visit[q] => visit'[q].stage \notin {"inside", "ok"}
    BY <1>1
  <2>2. CASE ServiceStep \/ UNCHANGED avars
    BY <2>1, <2>2, ServiceSteps DEF avars
  <2>3. ASSUME NEW c \in Request, RevokeJti(c) PROVE visit'[q] = visit[q]
    BY <2>3 DEF RevokeJti
  <2>4. ASSUME NEW r \in Visitor, NEW p \in Path, VisitBare(r, p)
        PROVE  visit'[q] = visit[q]
    <3>1. r # q
      BY <1>1, <2>4 DEF VisitBare, Arriving
    <3>2. QED
      BY <1>1, <2>4, <3>1, MovedVisit DEF VisitBare
  <2>5. ASSUME NEW r \in Visitor, NEW p \in Private, NEW k \in Token \ {"none"},
               NEW c \in Request, Enter(r, p, k, c)
        PROVE  visit'[q] = visit[q]
    <3>1. r # q
      BY <1>1, <2>5 DEF Enter, Arriving
    <3>2. QED
      BY <1>1, <2>5, <3>1 DEF Enter, AccessTypeOK
  <2>6. ASSUME NEW r \in Visitor, NEW s, Move(r, s), r # q PROVE visit'[q] = visit[q]
    BY <1>1, <2>6, MovedVisit
  <2>7. ASSUME NEW s, Move(q, s), s \in {"refused", "error", "gate"}
        PROVE  visit'[q].stage \notin {"inside", "ok"}
    <3>1. visit'[q] = VisitAt(visit[q], s)
      BY <1>1, <2>7, MovedVisit
    <3>2. visit[q] \in Visit
      BY <1>1 DEF AccessTypeOK
    <3>3. VisitAt(visit[q], s).stage = s
      BY <2>7, <3>2 DEF VisitAt, NoVisit, Visit
    <3>4. QED
      BY <2>7, <3>1, <3>3
  <2>8. ASSUME NEW r \in Visitor, Proceed(r)
        PROVE  visit'[q].stage \notin {"inside", "ok"}
    <3>1. CASE Turned(r)
      <4>1. PICK s \in {"refused", "error"} : Move(r, s)
        BY <3>1 DEF Turned, Answers
      <4>2. QED
        BY <2>1, <2>6, <2>7, <4>1
    <3>2. CASE Through(r)
      <4>1. PICK s : Move(r, s) /\ (r = q => s \in {"refused", "gate"})
        BY <1>1, <3>2 DEF Through, Vault
      <4>2. QED
        BY <2>1, <2>6, <2>7, <4>1
    <3>3. CASE Handle(r)
      <4>1. r # q /\ \E s : Move(r, s)
        BY <1>1, <3>3 DEF Handle
      <4>2. QED
        BY <2>1, <2>6, <4>1
    <3>4. ASSUME NEW up \in BOOLEAN, Gate(r, up)
          PROVE  visit'[q].stage \notin {"inside", "ok"}
      <4>1. PICK s : Move(r, s) /\ (r = q => s = "refused")
        BY <1>1, <3>4 DEF Gate, GateVerdict
      <4>2. QED
        BY <2>1, <2>6, <2>7, <4>1
    <3>5. QED
      BY <2>8, <3>1, <3>2, <3>3, <3>4 DEF Proceed
  <2>9. QED
    BY <1>1, <2>1, <2>2, <2>3, <2>4, <2>5, <2>8 DEF AccessNext, VisitStep
<1>2. AccessTypeOK /\ [AccessNext]_avars =>
        [\A r \in Visitor :
           /\ visit[r].stage \in {"door", "gate"}
           /\ visit[r].path \in Vault
           /\ visit[r].of \in gone
           => visit'[r].stage \notin {"inside", "ok"}]_avars
  BY <1>1
<1>3. QED
  BY <1>2, AccessTyping, PTL DEF AccessSpec, RevokedTokenRefused
=============================================================================

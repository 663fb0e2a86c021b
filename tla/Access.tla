------------------------------- MODULE Access -------------------------------
(***************************************************************************)
(* Who reaches a handler of the backend: the session middleware            *)
(* (app/core/session_middleware.py), the gate of the vault                 *)
(* (app/core/middleware/auth.py) and the checks of the handlers behind     *)
(* them, composed with the session service whose validate_session_activity *)
(* the middleware calls.                                                   *)
(*                                                                         *)
(* A request of the module Session is either one to a session route        *)
(* (login, refresh, revoke) or, a Visitor's, one to the paths below.       *)
(* The rate limiter, which may refuse a visit to the session list, has its *)
(* own module and is an outcome here.                                      *)
(***************************************************************************)
EXTENDS Session

CONSTANTS
    Visitor,        \* the requests that are no session route's
    Skew            \* CLOCK_SKEW_TOLERANCE_SECONDS, a part of AccessLife

ASSUME AccessAssumption == Visitor \subseteq Request /\ Skew \in 0 .. AccessLife

VARIABLES
    visit,          \* the visit each Visitor makes
    gone            \* Redis revoked:jti:<jti>

avars == <<vars, visit, gone>>

----------------------------------------------------------------------------
(* State *)

Vault == {"read", "write"}                  \* GET / POST, PUT, DELETE /vault
Private == Vault \cup {"list", "test"}      \* GET /session/, /protected/test
Path == Private \cup {"health"}

\* The paths no public prefix covers.  Mutant: the prefix /api/v1/session/.
GuardedSensitive == Private \ {"list"}
Guarded == Private

\* The bearer token of a visit: none, an access token as this backend signs
\* it, or one minted elsewhere with the same key for the same session that
\* also has a jti and one scope.  No code of the backend mints one.
Token == {"none", "issued"} \cup Vault

\* The scopes among a token's claims.  create_access_token adds none.
Scopes(k) == {k} \cap Vault

Underway == {"door", "gate", "inside"}
Over == {"ok", "refused", "error"}
Visit == [path : Path, token : Token, stage : {"out"} \cup Underway \cup Over,
          of : Request \cup {None}]     \* whose claims the token has

AccessTypeOK ==
    /\ TypeOK
    /\ visit \in [Visitor -> Visit]
    /\ gone \subseteq Request

NoVisit == [path |-> "health", token |-> "none", stage |-> "out", of |-> None]

AccessInit ==
    /\ Init
    /\ visit = [r \in Visitor |-> NoVisit]
    /\ gone = {}

----------------------------------------------------------------------------
(* Steps of a visit *)

\* A visit that was turned away or failed is forgotten but for its outcome.
VisitAt(v, stage) == IF stage \in {"refused", "error"}
                     THEN [NoVisit EXCEPT !.stage = stage]
                     ELSE [v EXCEPT !.stage = stage]
Move(r, stage) == visit' = [visit EXCEPT ![r] = VisitAt(visit[r], stage)]
Arriving(r) == visit[r].stage = "out" /\ req[r].pc = "new"

\* No bearer token, or the health check: the middleware lets the request
\* pass, and each private handler refuses it for itself.
VisitBare(r, p) ==
    /\ Arriving(r)
    /\ Move(r, IF p \in Private THEN "refused" ELSE "ok")
    /\ UNCHANGED <<vars, gone>>

\* A bearer token of q: the middleware validates the session before the
\* handler is called, unless a public prefix covers the path.  Mutant: a
\* session found live is trusted without its row lock.
EnterTrusting(r, p, k, q) ==
    /\ Arriving(r)
    /\ q \in Delivered
    /\ Begin(r, IF session[req[q].sid].status = "live" THEN "served" ELSE "denied",
             None, req[q].sid)
    /\ visit' = [visit EXCEPT ![r] =
         [path |-> p, token |-> k, of |-> q, stage |-> "door"]]
    /\ UNCHANGED <<now, session, active, flagged, gone>>
Enter(r, p, k, q) ==
    /\ Arriving(r)
    /\ q \in Delivered
    /\ IF p \in Guarded THEN ValidateBegin(r, q) ELSE UNCHANGED vars
    /\ visit' = [visit EXCEPT ![r] =
         [path |-> p, token |-> k, of |-> q,
          stage |-> IF p \in Guarded THEN "door" ELSE "inside"]]
    /\ UNCHANGED gone

\* The middleware answers what the session service refused; another
\* exception ends the request.
Answers == [denied |-> "refused", reauth |-> "refused", lost |-> "error"]

Turned(r) ==
    /\ visit[r].stage = "door"
    /\ req[r].pc \in DOMAIN Answers
    /\ Move(r, Answers[req[r].pc])
    /\ UNCHANGED <<vars, gone>>

\* The token of r at the gate: no tolerance for its exp.
Lapsed(r) == now > req[visit[r].of].at + AccessLife - Skew

\* The middleware calls the handler's dependencies.  The payload it decoded
\* is all /protected/test wants; the gate asks for scope, jti and exp anew.
Through(r) ==
    /\ visit[r].stage = "door"
    /\ req[r].pc = "served"
    /\ Move(r, CASE visit[r].path = "test" -> "ok"
                 [] visit[r].path = "list" -> "inside"
                 [] OTHER -> IF Scopes(visit[r].token) = {} \/ Lapsed(r)
                             THEN "refused" ELSE "gate")
    /\ UNCHANGED <<vars, gone>>

\* The revocation list is asked, then the scope is compared; a Redis that
\* raises is answered as an invalid token.  Mutant: as a token in force.
GateVerdictOpen(r, up) ==
    IF (up /\ visit[r].of \in gone) \/ visit[r].path \notin Scopes(visit[r].token)
    THEN "refused" ELSE "inside"
GateVerdict(r, up) ==
    IF ~up \/ visit[r].of \in gone \/ visit[r].path \notin Scopes(visit[r].token)
    THEN "refused" ELSE "inside"

Gate(r, up) ==
    /\ visit[r].stage = "gate"
    /\ Move(r, GateVerdict(r, up))
    /\ UNCHANGED <<vars, gone>>

\* The handler answers.  The session list is refused by the rate limiter, or
\* when the token, decoded again, has run out since; any handler may fail.
Handle(r) ==
    /\ visit[r].stage = "inside"
    /\ \/ /\ visit[r].path = "list" => now <= req[visit[r].of].at + AccessLife
          /\ Move(r, "ok")
       \/ visit[r].path = "list" /\ Move(r, "refused")
       \/ Move(r, "error")
    /\ UNCHANGED <<vars, gone>>

\* Whoever minted a vault token puts its jti on the list.  Before the token
\* is presented, or after its last use, that makes no difference.
RevokeJti(q) ==
    /\ \E r \in Visitor : /\ visit[r].stage \in {"door", "gate"}
                          /\ visit[r].of = q /\ visit[r].token \in Vault
    /\ gone' = gone \cup {q}
    /\ UNCHANGED <<vars, visit>>

Proceed(r) == Turned(r) \/ Through(r) \/ Handle(r) \/ \E up \in BOOLEAN : Gate(r, up)

VisitStep(r) ==
    \/ \E p \in Path : VisitBare(r, p)
    \/ \E p \in Private, k \in Token \ {"none"}, q \in Request : Enter(r, p, k, q)
    \/ Proceed(r)

\* The steps of the session service, for its own routes and for visits.
ServiceStep ==
    /\ \/ \E r \in Request \ Visitor :
            \/ \E d \in Device : CreateInsert(r, d)
            \/ \E t \in Request : RotateRead(r, t) \/ RevokeRead(r, t)
       \/ \E r \in Request : Continue(r) \/ Fail(r)
       \/ \E d \in Device : Deactivate(d) \/ LoginClear(d)
       \/ Tick
    /\ UNCHANGED <<visit, gone>>

AccessNext ==
    \/ ServiceStep
    \/ \E r \in Visitor : VisitStep(r)
    \/ \E q \in Request : RevokeJti(q)

AccessSpec == AccessInit /\ [][AccessNext]_avars

\* The event loop resumes every handler, as in Session.
AccessFairSpec ==
    /\ AccessSpec
    /\ \A r \in Request : WF_avars(Continue(r) /\ UNCHANGED <<visit, gone>>)
    /\ \A r \in Visitor : WF_avars(Proceed(r))

----------------------------------------------------------------------------
(* Properties *)

\* The composition is no other session service: what the module Session
\* says of its steps holds when the middleware calls them.
ImplementsSession == Spec

\* Whatever a visit presents, a private handler runs for it only when the
\* session service let this very request through: a path no public prefix
\* covers is never reached on a token alone (session_middleware.py:13-42),
\* and the claims it works with are those of the session validated.
HandledWasAdmitted ==
    \A r \in Visitor :
        visit[r].path \in Private /\ visit[r].stage \in {"gate", "inside", "ok"} =>
            req[r].pc = "served" /\ req[r].sid = req[visit[r].of].sid

\* A token put on the revocation list before the gate asked for it stays
\* out, also when Redis fails at that moment (middleware/auth.py:45-78, 159).
RevokedTokenRefused ==
    [][\A r \in Visitor :
        /\ visit[r].stage \in {"door", "gate"}
        /\ visit[r].path \in Vault
        /\ visit[r].of \in gone
        => visit'[r].stage \notin {"inside", "ok"}]_avars


----------------------------------------------------------------------------
(* What the documentation says, and the code does not do *)

\* The bearer token of the API is a "JWT with the following claims", scope
\* and jti among them (Phase 3.1 Encrypted Data Contract.md:82-88): a visit
\* to the vault whose token, delivered by a login or a refresh, is in force,
\* and whose session was found live, gets through the checks of the claims.
LoginOpensVault ==
    [][\A r \in Visitor :
        /\ visit[r].stage = "door" /\ visit[r].path \in Vault
        /\ visit[r].token = "issued" /\ ~Lapsed(r)
        /\ req[r].pc = "served"
        => visit'[r].stage \in {"door", "gate"}]_avars

=============================================================================

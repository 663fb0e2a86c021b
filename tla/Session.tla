------------------------------ MODULE Session ------------------------------
(***************************************************************************)
(* The session service of the backend (app/modules/session/service.py):    *)
(* creating a session after a login, rotating its refresh token,           *)
(* validating the activity of a request that carries an access token, and  *)
(* revoking.  Every HTTP request is a process of its own; it is one-shot,  *)
(* so "any number of requests" is "any set Request".                       *)
(*                                                                         *)
(* A request reads the row, awaits Redis, and commits in different steps,  *)
(* and other requests run between them.  rotate_session and                *)
(* revoke_session read without a lock; validate_session_activity reads     *)
(* FOR UPDATE and so keeps the session row and the device row locked from  *)
(* its read to its commit or rollback.                                     *)
(*                                                                         *)
(* Names.  secrets.token_bytes(32) and gen_random_uuid() give fresh        *)
(* values, so the refresh token a request makes, and the session it        *)
(* inserts, are named by that request.  Only hashes are stored; the hash   *)
(* is taken to be injective and a token stands for its hash.               *)
(***************************************************************************)
EXTENDS Integers, FiniteSets

CONSTANTS
    Request,        \* HTTP requests, each handled once
    Device,         \* rows of the table devices
    None,           \* SQL NULL
    Inactivity,     \* INACTIVITY_TIMEOUT_SECONDS
    AccessLife,     \* access token life plus the clock skew tolerated
    RefreshLife,    \* REFRESH_TOKEN_EXPIRE_DAYS
    FlagLife,       \* WEBAUTHN_REAUTH_REQUIRED_TTL_SECONDS
    MaxTime         \* bound: the clock stops here

ASSUME NoneAssumption == None \notin Request /\ None \notin Device
ASSUME TimeAssumption ==
    {Inactivity, AccessLife, RefreshLife, FlagLife, MaxTime} \subseteq Nat

VARIABLES
    now,            \* the clock
    session,        \* table sessions; session[s] is the row request s inserted
    active,         \* devices.is_active
    flagged,        \* Redis device:reauth:<d>: the instant the key expires
    req             \* the progress of each request

vars == <<now, session, active, flagged, req>>

----------------------------------------------------------------------------
(* State *)

\* "Absent" rows are not in the table; "revoked" is revoked_at IS NOT NULL.
SessionRow ==
    [status : {"absent", "live", "revoked"}, dev : Device \cup {None},
     ref  : Request \cup {None},    \* refresh_token_hash
     prev : Request \cup {None},    \* previous_token_hash
     last : Nat,                    \* last_activity_at
     exp  : Nat]                    \* expires_at

AbsentRow == [status |-> "absent", dev |-> None, ref |-> None,
              prev |-> None, last |-> 0, exp |-> 0]

\* Where a request is: between its SELECT and its COMMIT ...
Revoking == {"reuse", "expire", "idle", "logout"}
Rotating == {"check", "rotate"}
Locking  == {"vidle", "vcheck", "vcommit"}
Pending  == {"create", "flag", "wait"} \cup Revoking \cup Rotating \cup Locking
\* ... or answered.
Answered == {"created", "rotated", "served", "loggedOut",
             "reused", "denied", "reauth", "lost"}

RequestState == [pc  : {"new"} \cup Pending \cup Answered,
                 tok : Request \cup {None},    \* refresh token presented
                 sid : Request \cup {None},    \* session it works on
                 at  : Nat]                    \* its `now`, then iat of its JWT

TypeOK ==
    /\ now \in Nat
    /\ session \in [Request -> SessionRow]
    /\ active \in [Device -> BOOLEAN]
    /\ flagged \in [Device -> Nat]
    /\ req \in [Request -> RequestState]

Init ==
    /\ now = 0
    /\ session = [s \in Request |-> AbsentRow]
    /\ active = [d \in Device |-> TRUE]
    /\ flagged = [d \in Device |-> 0]
    /\ req = [r \in Request |->
                [pc |-> "new", tok |-> None, sid |-> None, at |-> 0]]

----------------------------------------------------------------------------
(* Helpers *)

Stored(s) == session[s].status # "absent"

\* The rows the lookup of rotate_session and revoke_session selects.
Matching(t) == {s \in Request : Stored(s) /\ t \in {session[s].ref, session[s].prev}}

\* Tokens some client holds: those of an answered login or refresh.
Delivered == {t \in Request : req[t].pc \in {"created", "rotated"}}

\* The transaction of r holds the row locks of SELECT ... FOR UPDATE.
\* Mutants: a plain SELECT; a rejected request that leaves its transaction open.
HoldingNever(r) == FALSE
HoldingLeaky(r) == req[r].pc \in Locking \cup {"reauth"}
Holding(r) == req[r].pc \in Locking

RowFree(s) == \A q \in Request : Holding(q) => req[q].sid # s
DeviceFree(d) ==
    \A q \in Request : Holding(q) => session[req[q].sid].dev # d

IsFlagged(d) == now < flagged[d]
IdleFor(s, t) == t - session[s].last > Inactivity

Goto(r, pc) == req' = [req EXCEPT ![r].pc = pc]
Begin(r, pc, t, s) ==
    /\ req[r].pc = "new"
    /\ req' = [req EXCEPT ![r] = [pc |-> pc, tok |-> t, sid |-> s, at |-> now]]

----------------------------------------------------------------------------
(* create_session *)

NewRow(r, d) ==
    [status |-> "live", dev |-> d, ref |-> r, prev |-> None,
     last |-> now, exp |-> now + RefreshLife]

\* INSERT and COMMIT.  The foreign key check takes a share lock of the
\* device row, which waits for a FOR UPDATE of it.
CreateInsert(r, d) ==
    /\ Begin(r, "create", None, r)
    /\ DeviceFree(d)
    /\ session' = [session EXCEPT ![r] = NewRow(r, d)]
    /\ UNCHANGED <<now, active, flagged>>

\* The reauthentication flag is cleared after the commit; then the access
\* token is signed and both tokens are returned.
CreateClear(r) ==
    /\ req[r].pc = "create"
    /\ flagged' = [flagged EXCEPT ![session[r].dev] = 0]
    /\ req' = [req EXCEPT ![r].pc = "created", ![r].at = now]
    /\ UNCHANGED <<now, session, active>>

----------------------------------------------------------------------------
(* rotate_session *)

\* What the tests on the selected row make of the request, in their order.
\* Mutant: the inactivity gate guards the protected routes only.
RotateVerdictUngated(s, t) ==
    IF session[s].prev = t THEN "reuse"
    ELSE IF session[s].status = "revoked" THEN "denied"
    ELSE IF session[s].exp <= now THEN "expire"
    ELSE IF ~active[session[s].dev] THEN "denied"
    ELSE "check"
RotateVerdict(s, t) ==
    IF session[s].prev = t THEN "reuse"
    ELSE IF session[s].status = "revoked" THEN "denied"
    ELSE IF session[s].exp <= now THEN "expire"
    ELSE IF ~active[session[s].dev] THEN "denied"
    ELSE IF IdleFor(s, now) THEN "idle"
    ELSE "check"

RotateRead(r, t) ==
    /\ t \in Delivered
    /\ \/ Matching(t) = {} /\ Begin(r, "denied", t, None)
       \/ \E s \in Matching(t) : Begin(r, RotateVerdict(s, t), t, s)
    /\ UNCHANGED <<now, session, active, flagged>>

\* GET of the device's reauthentication flag.
RotateCheck(r) ==
    /\ req[r].pc = "check"
    /\ Goto(r, IF IsFlagged(session[req[r].sid].dev) THEN "reauth" ELSE "rotate")
    /\ UNCHANGED <<now, session, active, flagged>>

\* UPDATE of the three changed columns, whatever the row holds by now.  The
\* refresh_token_hash that was read is the hash of the token presented.
\* Mutants: the two assignments swapped; the predecessor not kept; the whole
\* row written back as it was read.
RotatedRowSwapped(row, r) ==
    [row EXCEPT !.prev = r, !.ref = r, !.last = req[r].at]
RotatedRowForgets(row, r) ==
    [row EXCEPT !.ref = r, !.last = req[r].at]
RotatedRowWhole(row, r) ==
    [row EXCEPT !.prev = req[r].tok, !.ref = r, !.last = req[r].at,
                !.status = "live"]
RotatedRow(row, r) ==
    [row EXCEPT !.prev = req[r].tok, !.ref = r, !.last = req[r].at]

RotateCommit(r) ==
    /\ req[r].pc = "rotate"
    /\ RowFree(req[r].sid)
    /\ session' = [session EXCEPT ![req[r].sid] = RotatedRow(@, r)]
    /\ req' = [req EXCEPT ![r].pc = "rotated", ![r].at = now]
    /\ UNCHANGED <<now, active, flagged>>

----------------------------------------------------------------------------
(* revoke_session, and the commits of revoked_at in rotate_session *)

RevokeRead(r, t) ==
    /\ t \in Delivered
    /\ \/ Matching(t) = {} /\ Begin(r, "loggedOut", t, None)
       \/ \E s \in Matching(t) : Begin(r, "logout", t, s)
    /\ UNCHANGED <<now, session, active, flagged>>

AfterRevoke == [reuse |-> "reused", expire |-> "denied",
                idle |-> "flag", logout |-> "loggedOut"]

RevokeCommit(r) ==
    /\ req[r].pc \in Revoking
    /\ RowFree(req[r].sid)
    /\ session' = [session EXCEPT ![req[r].sid].status = "revoked"]
    /\ Goto(r, AfterRevoke[req[r].pc])
    /\ UNCHANGED <<now, active, flagged>>

\* SETEX of the flag, by a refresh after its commit or by an activity check
\* that then closes its transaction without a commit.
SetFlag(r) ==
    /\ req[r].pc \in {"flag", "vidle"}
    /\ flagged' = [flagged EXCEPT ![session[req[r].sid].dev] = now + FlagLife]
    /\ Goto(r, "reauth")
    /\ UNCHANGED <<now, session, active>>

----------------------------------------------------------------------------
(* validate_session_activity *)

\* The access token of q is decoded and `now` is taken, before the row is
\* asked for.
ValidateBegin(r, q) ==
    /\ q \in Delivered
    /\ Begin(r, IF now > req[q].at + AccessLife THEN "denied" ELSE "wait",
             None, req[q].sid)
    /\ UNCHANGED <<now, session, active, flagged>>

ValidateVerdict(s, t) ==
    IF session[s].status = "revoked" \/ ~active[session[s].dev] THEN "denied"
    ELSE IF session[s].exp <= t THEN "denied"
    ELSE IF IdleFor(s, t) THEN "vidle"
    ELSE "vcheck"

\* SELECT ... FOR UPDATE returns the newest row once both locks are free; an
\* expired session is revoked and committed at once.
ValidateLock(r) ==
    LET s == req[r].sid IN
    /\ req[r].pc = "wait"
    /\ DeviceFree(session[s].dev)
    /\ Goto(r, ValidateVerdict(s, req[r].at))
    /\ session' = IF /\ session[s].status = "live" /\ active[session[s].dev]
                     /\ session[s].exp <= req[r].at
                  THEN [session EXCEPT ![s].status = "revoked"]
                  ELSE session
    /\ UNCHANGED <<now, active, flagged>>

ValidateCheck(r) ==
    /\ req[r].pc = "vcheck"
    /\ Goto(r, IF IsFlagged(session[req[r].sid].dev) THEN "reauth" ELSE "vcommit")
    /\ UNCHANGED <<now, session, active, flagged>>

ValidateCommit(r) ==
    /\ req[r].pc = "vcommit"
    /\ session' = [session EXCEPT ![req[r].sid].last = req[r].at]
    /\ Goto(r, "served")
    /\ UNCHANGED <<now, active, flagged>>

----------------------------------------------------------------------------
(* Environment *)

\* Redis or the database raises, or the worker dies: the open transaction
\* is rolled back, so its locks go, and the client gets no answer of use.
Fail(r) ==
    /\ req[r].pc \in Pending
    /\ Goto(r, "lost")
    /\ UNCHANGED <<now, session, active, flagged>>

\* An operator deactivates a device with an UPDATE of its row.
Deactivate(d) ==
    /\ active[d]
    /\ DeviceFree(d)
    /\ active' = [active EXCEPT ![d] = FALSE]
    /\ UNCHANGED <<now, session, flagged, req>>

\* verify_authentication_credential clears the flag before its own commit,
\* which may still fail.
LoginClear(d) ==
    /\ flagged' = [flagged EXCEPT ![d] = 0]
    /\ UNCHANGED <<now, session, active, req>>

Tick ==
    /\ now < MaxTime
    /\ now' = now + 1
    /\ UNCHANGED <<session, active, flagged, req>>

Arrive(r) ==
    \/ \E d \in Device : CreateInsert(r, d)
    \/ \E t \in Request : RotateRead(r, t) \/ RevokeRead(r, t) \/ ValidateBegin(r, t)

Continue(r) ==
    \/ CreateClear(r)
    \/ RotateCheck(r)
    \/ RotateCommit(r)
    \/ RevokeCommit(r)
    \/ SetFlag(r)
    \/ ValidateLock(r)
    \/ ValidateCheck(r)
    \/ ValidateCommit(r)

Next ==
    \/ \E r \in Request : Arrive(r) \/ Continue(r) \/ Fail(r)
    \/ \E d \in Device : Deactivate(d) \/ LoginClear(d)
    \/ Tick

Spec == Init /\ [][Next]_vars

\* The event loop resumes every handler that can go on, and the database
\* grants a lock that stays free.
FairSpec == Spec /\ \A r \in Request : WF_vars(Continue(r))

----------------------------------------------------------------------------
(* Safety *)

\* A hash selects at most one row, so one_or_none() never raises
\* (service.py:70, 264), and the token in force is never taken for its own
\* predecessor, which would revoke a session that did nothing wrong.
TokenIdentity ==
    /\ \A t, s, u \in Request : {s, u} \subseteq Matching(t) => s = u
    /\ \A s \in Request : Stored(s) => session[s].prev # session[s].ref

\* However refreshes interleave, the token in force was exchanged for
\* exactly the token kept as its predecessor: presenting that one again is
\* recognised as reuse (service.py:81-95, 150-151).
PredecessorIsRemembered ==
    \A s \in Request : Stored(s) /\ session[s].ref # s =>
        session[s].prev = req[session[s].ref].tok

\* r begins a refresh with the token that q has exchanged.
Respent(q, r) ==
    /\ req[q].pc = "rotated"
    /\ req[r].pc = "new" /\ req'[r].pc \in {"reuse", "denied", "expire", "idle", "check"}
    /\ req'[r].tok = req[q].tok

\* Two exchanges of one token can only overlap: a refresh that begins after
\* an exchange of its token gets no new tokens, and is told a reuse if that
\* was what the token in force was exchanged for, however many refreshes of
\* the session read and commit in between (service.py:64-95, 149-153).
SpentBuysNothing ==
    [][\A q, r \in Request : Respent(q, r) =>
         LET newest == session[req[q].sid].ref IN
         req'[r].pc = IF req[newest].tok = req[q].tok THEN "reuse" ELSE "denied"]_vars

\* Once reuse, an expired or idle refresh, or a logout that found its
\* session has been answered, the session is revoked, whatever rotations
\* were in flight meanwhile (service.py:85-95, 140-144, 268-269).
RevocationAnswered ==
    \A r \in Request :
        (req[r].pc \in {"reused", "flag"} \/ (req[r].pc = "loggedOut" /\ req[r].sid # None))
            => session[req[r].sid].status = "revoked"

\* The sessions a client of the service sees, and the requests let through.
Contract == INSTANCE SessionContract WITH
    Client   <- Request,
    status   <- [s \in Request |-> session[s].status],
    owner    <- [s \in Request |-> session[s].dev],
    admitted <- {<<r, req[r].sid>> : r \in {q \in Request : req[q].pc = "served"}}

\* Revocation is for ever (no commit based on an older read undoes it), and
\* at the instant a request is let through its session is not revoked and
\* its device is active, although both were read two awaits earlier: what
\* the row lock of service.py:180-185 is for.
ImplementsContract == Contract!Spec

\* s has been idle too long and no request that read it in time is left.
Expired(s) ==
    /\ Stored(s)
    /\ IdleFor(s, now)
    /\ \A r \in Request : req[r].sid = s =>
         /\ req[r].pc \notin Rotating \cup {"vcheck", "vcommit"}
         /\ req[r].pc = "wait" => IdleFor(s, req[r].at)

\* An idle session never comes back: neither a refresh nor a request with a
\* still valid access token revives it; only a new login does.
IdleSessionStaysDead ==
    [][\A s \in Request : Expired(s) => Expired(s)']_vars

----------------------------------------------------------------------------
(* The inductive invariant *)

\* A token kept in a row was made by a request of that very session.
TokensBelong ==
    \A s \in Request : Stored(s) =>
        /\ session[s].dev \in Device
        /\ session[s].ref \in Request
        /\ session[s].prev # session[s].ref
        /\ \A t \in Request : t \in {session[s].ref, session[s].prev} =>
             /\ req[t].sid = s
             /\ req[t].pc \in {"create", "created", "rotated", "lost"}
        /\ req[s].pc \in {"create", "created", "lost"}

\* A request in progress, or one that returned tokens, has its session; a
\* rotation presents a token of that session.
RequestBelongs(r) ==
    /\ req[r].pc \in Pending \cup {"created", "rotated", "served", "reused"} =>
         req[r].sid \in Request /\ Stored(req[r].sid)
    /\ req[r].pc = "create" => req[r].sid = r
    /\ req[r].pc = "loggedOut" /\ req[r].sid # None => Stored(req[r].sid)
    /\ req[r].pc \in Rotating \cup {"rotated"} =>
         /\ req[r].tok \in Delivered
         /\ req[req[r].tok].sid = req[r].sid
RequestsBelong == \A r \in Request : RequestBelongs(r)

\* What was exchanged is no longer in force, nor is the token of the login.
SpentIsGone ==
    \A q \in Request : req[q].pc = "rotated" =>
        session[req[q].sid].ref \notin {req[q].sid, req[q].tok}

\* The rows a transaction holds locked stay as it found them.
LockProtects ==
    \A r \in Request : Holding(r) =>
        /\ session[req[r].sid].status = "live"
        /\ active[session[req[r].sid].dev]

IInv ==
    /\ TypeOK
    /\ TokensBelong
    /\ RequestsBelong
    /\ LockProtects
    /\ SpentIsGone
    /\ PredecessorIsRemembered
    /\ RevocationAnswered

----------------------------------------------------------------------------
(* Liveness *)

\* Every request that reached the service is answered: no wait for a row
\* lock lasts for ever, on the failure paths too.
EveryRequestAnswered ==
    \A r \in Request : req[r].pc \in Pending ~> req[r].pc \in Answered

----------------------------------------------------------------------------
(* What the documentation says, and the code does not do *)

\* "refresh token rotation: mandatory on each session renewal", and reuse is
\* detected: no token is exchanged twice.
RefreshTokenSingleUse ==
    \A q, r \in Request :
        req[q].pc = "rotated" /\ req[r].pc = "rotated" /\ req[q].tok = req[r].tok
            => q = r

\* "refresh token reuse triggers immediate revocation": a refresh with a
\* token that was already exchanged is recognised, unless its session has
\* been revoked before.
ReuseAlwaysDetected ==
    [][\A q, r \in Request :
         Respent(q, r) => \/ req'[r].pc = "reuse"
                          \/ session[req[q].sid].status = "revoked"]_vars

\* "validate_session_activity ... should use a row lock to avoid concurrency
\* issues where multiple requests race and silently overwrite each other's
\* activity updates": a request that is let through leaves a later activity
\* of another one as it is.
ActivityNotOverwritten ==
    [][\A q, r \in Request :
         /\ req[r].pc = "vcommit" /\ req'[r].pc = "served"
         /\ req[q].pc = "served" /\ req[q].sid = req[r].sid
         => req[q].at <= session'[req[r].sid].last]_vars
============================================================================

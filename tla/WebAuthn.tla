------------------------------ MODULE WebAuthn ------------------------------
(***************************************************************************)
(* Registration and login ceremonies (app/modules/auth/service.py): the    *)
(* options requests that store a challenge in Redis, and the verify        *)
(* requests that consume it, check the authenticator's answer and write    *)
(* the device row.  Every HTTP request is a one-shot process; it names the *)
(* challenge or the device row it creates (both get fresh UUIDs).          *)
(*                                                                         *)
(* External, modelled from how the service uses it: the authenticator      *)
(* (its signature counter, and that only it can answer its challenges),    *)
(* the counter rule of verify_authentication_response, and the indexes of  *)
(* the migrations (unique e-mail, unique credential_id, and one active     *)
(* device per user, alembic 0002).  Challenge age is abstracted: a stored  *)
(* challenge may expire at any time.                                       *)
(***************************************************************************)
EXTENDS Integers, FiniteSets

CONSTANTS
    Request,        \* HTTP requests, each handled once
    User,           \* e-mail addresses
    Credential,     \* authenticator credentials
    Counterless,    \* those whose signature counter stays 0
    Enrolled,       \* requests handled before the start
    None,           \* no user, credential or challenge
    MaxSign         \* bound on an authenticator's counter

ASSUME SetAssumption ==
    /\ None \notin Request \cup User \cup Credential
    /\ Counterless \subseteq Credential
    /\ Enrolled \subseteq Request
ASSUME SignAssumption == MaxSign \in Nat

VARIABLES
    users,          \* committed rows of the table users
    device,         \* table devices: device[r] was inserted by request r
    challenge,      \* Redis webauthn:challenge:<r>, made by request r
    counter,        \* signature counter inside each authenticator
    flagged,        \* devices with a reauthentication flag in Redis
    req             \* the progress of each request

vars == <<users, device, challenge, counter, flagged, req>>

----------------------------------------------------------------------------
(* State *)

DeviceRow == [status : {"absent", "active", "inactive"},
              user : User \cup {None}, cred : Credential \cup {None},
              count : Nat]                  \* sign_count

\* sig is the counter value the authenticator signed into its answer.
Unsigned == -1
ChallengeEntry == [status : {"none", "stored", "gone"},
                   purpose : {"registration", "authentication"},
                   user : User \cup {None}, dev : Request \cup {None},
                   sig : Nat \cup {Unsigned}]

Pending == {"flush", "put", "store",            \* register/options
            "aput",                             \* login/options
            "load", "clear", "commit",          \* login/verify
            "check", "insert"}                  \* register/verify
Answered == {"options", "loggedIn", "registered", "denied", "conflict", "lost"}

RequestState == [pc : {"new"} \cup Pending \cup Answered,
                 user : User \cup {None},
                 dev : Request \cup {None},         \* device it logs in
                 chal : Request \cup {None},        \* challenge it consumed
                 cred : Credential \cup {None},     \* credential it registers
                 count : Nat]                       \* counter it was shown

TypeOK ==
    /\ users \subseteq User
    /\ device \in [Request -> DeviceRow]
    /\ challenge \in [Request -> ChallengeEntry]
    /\ counter \in [Credential -> Nat]
    /\ flagged \subseteq Request
    /\ req \in [Request -> RequestState]

Fresh(pc) == [pc |-> pc, user |-> None, dev |-> None, chal |-> None,
              cred |-> None, count |-> 0]

\* The database may hold enrolled devices, one per user and credential: each
\* request handled before registered one of them, or came to nothing.
Init ==
    /\ \E E \in SUBSET Enrolled : \E owner \in [E -> User], cred \in [E -> Credential] :
         /\ \A r, q \in E : owner[r] = owner[q] \/ cred[r] = cred[q] => r = q
         /\ users = {owner[r] : r \in E}
         /\ device = [r \in Request |->
              IF r \in E
              THEN [status |-> "active", user |-> owner[r], cred |-> cred[r], count |-> 0]
              ELSE [status |-> "absent", user |-> None, cred |-> None, count |-> 0]]
         /\ req = [r \in Request |-> Fresh(IF r \in E THEN "registered"
                                          ELSE IF r \in Enrolled THEN "lost" ELSE "new")]
    /\ challenge = [r \in Request |->
         [status |-> "none", purpose |-> "registration", user |-> None,
          dev |-> None, sig |-> Unsigned]]
    /\ counter = [k \in Credential |-> 0]
    /\ flagged = {}

----------------------------------------------------------------------------
(* Helpers *)

ActiveDevices(u) == {d \in Request : device[d].status = "active" /\ device[d].user = u}
Registered(k) == \E d \in Request : device[d].status # "absent" /\ device[d].cred = k

\* A client knows a challenge once its options request was answered.
Known(c) == req[c].pc = "options"

Goto(r, pc) == req' = [req EXCEPT ![r].pc = pc]
Begin(r, state) == req[r].pc = "new" /\ req' = [req EXCEPT ![r] = state]

\* SETEX of the challenge.
Put(r, purpose, d) ==
    challenge' = [challenge EXCEPT ![r] =
        [status |-> "stored", purpose |-> purpose, user |-> req[r].user,
         dev |-> d, sig |-> Unsigned]]

\* GETDEL: the challenge is gone, whatever comes of the ceremony.
Take(c) == challenge' = [challenge EXCEPT ![c].status = "gone"]

----------------------------------------------------------------------------
(* generate_registration_options_for_user *)

RegRead(r, u) ==
    /\ Begin(r, [Fresh(IF u \notin users THEN "flush"
                       ELSE IF ActiveDevices(u) # {} THEN "conflict" ELSE "put")
                 EXCEPT !.user = u])
    /\ UNCHANGED <<users, device, challenge, counter, flagged>>

\* The INSERT of the user waits for an uncommitted one with the same e-mail
\* and fails if that one commits.
\* Mutant: a failed request leaves its transaction open.
InsertingLeaky(u) == \E q \in Request :
    req[q].pc \in {"put", "store", "lost"} /\ req[q].user = u /\ u \notin users
Inserting(u) == \E q \in Request :
    req[q].pc \in {"put", "store"} /\ req[q].user = u /\ u \notin users

RegFlush(r) ==
    /\ req[r].pc = "flush"
    /\ ~Inserting(req[r].user)
    /\ Goto(r, IF req[r].user \in users THEN "lost" ELSE "put")
    /\ UNCHANGED <<users, device, challenge, counter, flagged>>

\* The challenge is in Redis before the transaction commits.
RegPut(r) ==
    /\ req[r].pc = "put"
    /\ Put(r, "registration", None)
    /\ Goto(r, "store")
    /\ UNCHANGED <<users, device, counter, flagged>>

\* Mutant: the flushed user is never committed.
RegCommitNot(r) ==
    /\ req[r].pc = "store"
    /\ Goto(r, "options")
    /\ UNCHANGED <<users, device, challenge, counter, flagged>>
RegCommit(r) ==
    /\ req[r].pc = "store"
    /\ users' = users \cup {req[r].user}
    /\ Goto(r, "options")
    /\ UNCHANGED <<device, challenge, counter, flagged>>

----------------------------------------------------------------------------
(* generate_authentication_options_for_user *)

AuthRead(r, u) ==
    /\ \/ /\ u \notin users \/ ActiveDevices(u) = {}
          /\ Begin(r, [Fresh("denied") EXCEPT !.user = u])
       \/ \E d \in ActiveDevices(u) :
            u \in users /\ Begin(r, [Fresh("aput") EXCEPT !.user = u, !.dev = d])
    /\ UNCHANGED <<users, device, challenge, counter, flagged>>

AuthPut(r) ==
    /\ req[r].pc = "aput"
    /\ Put(r, "authentication", req[r].dev)
    /\ Goto(r, "options")
    /\ UNCHANGED <<users, device, counter, flagged>>

----------------------------------------------------------------------------
(* verify_authentication_credential *)

AuthTake(r, c) ==
    /\ Known(c)
    /\ IF challenge[c].status # "stored"
       THEN Begin(r, Fresh("denied")) /\ UNCHANGED challenge
       ELSE /\ Take(c)
            /\ Begin(r, IF challenge[c].purpose = "authentication"
                        THEN [Fresh("load") EXCEPT !.user = challenge[c].user,
                                !.dev = challenge[c].dev, !.chal = c]
                        ELSE Fresh("denied"))
    /\ UNCHANGED <<users, device, counter, flagged>>

\* The rule of verify_authentication_response: an answer to this very
\* challenge, with a counter above the stored one unless both are 0.
\* Mutant: the result of the verification is not looked at.
AcceptedAny(sig, count) == sig # Unsigned \/ count = 0
Accepted(sig, count) ==
    /\ sig # Unsigned
    /\ sig > 0 \/ count > 0 => sig > count

\* Mutant: whether the device is still active is not looked at again.
AuthLoadInactive(r) ==
    LET sig == challenge[req[r].chal].sig IN
    /\ req[r].pc = "load"
    /\ IF Accepted(sig, device[req[r].dev].count)
       THEN req' = [req EXCEPT ![r].pc = "clear", ![r].count = sig]
       ELSE Goto(r, "denied")
    /\ UNCHANGED <<users, device, challenge, counter, flagged>>
AuthLoad(r) ==
    LET d == req[r].dev  sig == challenge[req[r].chal].sig IN
    /\ req[r].pc = "load"
    /\ IF device[d].status = "active" /\ Accepted(sig, device[d].count)
       THEN req' = [req EXCEPT ![r].pc = "clear", ![r].count = sig]
       ELSE Goto(r, "denied")
    /\ UNCHANGED <<users, device, challenge, counter, flagged>>

AuthClear(r) ==
    /\ req[r].pc = "clear"
    /\ flagged' = flagged \ {req[r].dev}
    /\ Goto(r, "commit")
    /\ UNCHANGED <<users, device, challenge, counter>>

\* UPDATE of sign_count, whatever the row holds by now; a counter of 0 keeps
\* the value read, and so the column is not written at all.
\* Mutant: the counter expected next is stored.
AuthCommitNext(r) ==
    /\ req[r].pc = "commit"
    /\ device' = IF req[r].count = 0 THEN device
                 ELSE [device EXCEPT ![req[r].dev].count = req[r].count + 1]
    /\ Goto(r, "loggedIn")
    /\ UNCHANGED <<users, challenge, counter, flagged>>
AuthCommit(r) ==
    /\ req[r].pc = "commit"
    /\ device' = IF req[r].count = 0 THEN device
                 ELSE [device EXCEPT ![req[r].dev].count = req[r].count]
    /\ Goto(r, "loggedIn")
    /\ UNCHANGED <<users, challenge, counter, flagged>>

----------------------------------------------------------------------------
(* verify_registration_credential *)

\* The client answers with a credential of its own, or with a bad answer.
RegTake(r, c, k) ==
    /\ Known(c)
    /\ IF challenge[c].status # "stored"
       THEN Begin(r, Fresh("denied")) /\ UNCHANGED challenge
       ELSE /\ Take(c)
            /\ \/ Begin(r, Fresh("denied"))
               \/ /\ challenge[c].purpose = "registration"
                  /\ Begin(r, [Fresh("check") EXCEPT !.user = challenge[c].user,
                                 !.chal = c, !.cred = k, !.count = counter[k]])
    /\ UNCHANGED <<users, device, counter, flagged>>

\* The two SELECTs that look for a conflict.
RegCheck(r) ==
    /\ req[r].pc = "check"
    /\ Goto(r, IF Registered(req[r].cred) \/ ActiveDevices(req[r].user) # {}
               THEN "conflict" ELSE "insert")
    /\ UNCHANGED <<users, device, challenge, counter, flagged>>

\* What the unique indexes and the foreign key accept.
\* Mutant: the schema of the models, without the partial index of 0002.
InsertableOrm(u, k) == ~Registered(k) /\ u \in users
Insertable(u, k) == ~Registered(k) /\ u \in users /\ ActiveDevices(u) = {}

RegInsert(r) ==
    /\ req[r].pc = "insert"
    /\ IF Insertable(req[r].user, req[r].cred)
       THEN /\ device' = [device EXCEPT ![r] =
                 [status |-> "active", user |-> req[r].user,
                  cred |-> req[r].cred, count |-> req[r].count]]
            /\ Goto(r, "registered")
       ELSE Goto(r, "conflict") /\ UNCHANGED device
    /\ UNCHANGED <<users, challenge, counter, flagged>>

----------------------------------------------------------------------------
(* Environment *)

\* The authenticator answers a login challenge.
Sign(c) ==
    LET k == device[challenge[c].dev].cred IN
    /\ Known(c)
    /\ challenge[c].purpose = "authentication" /\ challenge[c].sig = Unsigned
    /\ IF k \in Counterless
       THEN challenge' = [challenge EXCEPT ![c].sig = 0] /\ UNCHANGED counter
       ELSE /\ counter[k] < MaxSign
            /\ counter' = [counter EXCEPT ![k] = @ + 1]
            /\ challenge' = [challenge EXCEPT ![c].sig = counter[k] + 1]
    /\ UNCHANGED <<users, device, flagged, req>>

\* The challenge outlives its TTL.
Expire(c) ==
    /\ challenge[c].status = "stored"
    /\ challenge' = [challenge EXCEPT ![c].status = "gone"]
    /\ UNCHANGED <<users, device, counter, flagged, req>>

\* An operator deactivates a device.
Deactivate(d) ==
    /\ device[d].status = "active"
    /\ device' = [device EXCEPT ![d].status = "inactive"]
    /\ UNCHANGED <<users, challenge, counter, flagged, req>>

\* The session service raises the flag (its TTL is modelled there).
Flag(d) ==
    /\ device[d].status # "absent"
    /\ flagged' = flagged \cup {d}
    /\ UNCHANGED <<users, device, challenge, counter, req>>

\* Redis or the database raises, or the worker dies: rolled back.
Fail(r) ==
    /\ req[r].pc \in Pending
    /\ Goto(r, "lost")
    /\ UNCHANGED <<users, device, challenge, counter, flagged>>

Arrive(r) ==
    \/ \E u \in User : RegRead(r, u) \/ AuthRead(r, u)
    \/ \E c \in Request : AuthTake(r, c) \/ \E k \in Credential : RegTake(r, c, k)

Continue(r) ==
    \/ RegFlush(r) \/ RegPut(r) \/ RegCommit(r)
    \/ AuthPut(r)
    \/ AuthLoad(r) \/ AuthClear(r) \/ AuthCommit(r)
    \/ RegCheck(r) \/ RegInsert(r)

Next ==
    \E r \in Request : \/ Arrive(r) \/ Continue(r) \/ Fail(r)
                       \/ Sign(r) \/ Expire(r) \/ Deactivate(r) \/ Flag(r)

Spec == Init /\ [][Next]_vars

\* The event loop resumes every handler that can go on.
FairSpec == Spec /\ \A r \in Request : WF_vars(Continue(r))

----------------------------------------------------------------------------
(* Safety *)

\* "single-device policy": a user never has two active devices, so that
\* scalar_one_or_none() of a login never raises (service.py:116-121),
\* although registrations check it three awaits before they insert.
OneActiveDevice ==
    \A d, e \in Request :
        /\ device[d].status = "active" /\ device[e].status = "active"
        /\ device[d].user = device[e].user
        => d = e

\* A challenge completes at most one ceremony, however many requests present
\* it at once (redis_client.py:61-70).
ChallengeSingleUse ==
    \A q, r \in Request :
        req[q].chal # None /\ req[q].chal = req[r].chal => q = r

\* Past the verification, a login request has used up a login challenge that
\* was made for its device and its user, and that this device's authenticator
\* has answered (service.py:166-223).
LoginProven ==
    \A r \in Request :
        req[r].pc \in {"clear", "commit", "loggedIn"} =>
            LET c == challenge[req[r].chal] IN
            /\ c.status = "gone" /\ c.purpose = "authentication"
            /\ c.dev = req[r].dev /\ c.user = req[r].user /\ c.sig = req[r].count
            /\ device[c.dev].user = c.user

\* The owner of a verified registration is committed: the foreign key of the
\* insert never fails, although the challenge was stored before the commit
\* of the user (service.py:50-53, 95-97, 312-315).
OwnerCommitted ==
    \A r \in Request : req[r].pc \in {"check", "insert"} => req[r].user \in users

\* The newest answer of an authenticator passes the counter rule when it is
\* verified, whatever logins of its device are in flight: a user is never
\* locked out by the stored counter (service.py:206-219).
NewestAnswerAccepted ==
    \A r \in Request :
        LET c == challenge[req[r].chal]  k == device[req[r].dev].cred IN
        req[r].pc = "load" /\ c.sig # Unsigned /\ c.sig = counter[k] =>
            Accepted(c.sig, device[req[r].dev].count)

----------------------------------------------------------------------------
(* The inductive invariant *)

Present(d) == device[d].status # "absent"

\* A stored counter is one its authenticator signed, and unless it is 0 a
\* login of that device has put it there.
DeviceHonest(d) ==
    Present(d) =>
        /\ req[d].pc = "registered"
        /\ device[d].user \in User /\ device[d].cred \in Credential
        /\ device[d].count <= counter[device[d].cred]
        /\ device[d].count > 0 =>
             \E r \in Request : /\ req[r].pc = "loggedIn" /\ req[r].dev = d
                                /\ req[r].count = device[d].count

CredentialsDiffer ==
    \A d, e \in Request :
        Present(d) /\ Present(e) /\ device[d].cred = device[e].cred => d = e

\* An authenticator signs logins of registered devices only.
UnregisteredUnused == \A k \in Credential : Registered(k) \/ counter[k] = 0

\* A challenge of a login is for a device of its user; one of a registration
\* that a client knows is for a committed user.
ChallengeHonest(c) ==
    LET e == challenge[c] IN
    /\ e.purpose = "authentication" =>
         /\ e.dev \in Request /\ Present(e.dev)
         /\ device[e.dev].user = e.user
         /\ e.sig <= counter[device[e.dev].cred]
    /\ e.purpose = "registration" =>
         /\ e.sig = Unsigned
         /\ req[c].pc = "options" => e.user \in users
         /\ req[c].pc = "store" => e.user = req[c].user

\* A challenge is stored once, while the request that makes it is pending;
\* until then it is no login challenge, and nobody answers it.
StoredOnce ==
    \A c \in Request :
        IF challenge[c].status = "none" THEN challenge[c].purpose = "registration"
        ELSE req[c].pc \in {"store", "options", "lost"}

\* No two challenges of a device got the same answer, unless its
\* authenticator does not count.
AnswersDiffer ==
    \A b, c \in Request :
        /\ challenge[b].purpose = "authentication"
        /\ challenge[c].purpose = "authentication"
        /\ challenge[b].dev = challenge[c].dev
        /\ challenge[b].sig = challenge[c].sig /\ challenge[c].sig > 0
        => b = c

\* What a request in progress has read still holds, but for the counter.
RequestHonest(r) ==
    LET q == req[r] IN
    /\ q.pc \in {"flush", "put", "store"} => q.user \in User
    /\ q.pc = "aput" => /\ q.dev \in Request /\ Present(q.dev)
                        /\ device[q.dev].user = q.user
    /\ q.chal # None => /\ challenge[q.chal].status = "gone"
                        /\ req[q.chal].pc = "options"
    /\ q.pc \in {"load", "clear", "commit", "loggedIn"} =>
         /\ q.chal # None
         /\ challenge[q.chal].purpose = "authentication"
         /\ challenge[q.chal].dev = q.dev /\ challenge[q.chal].user = q.user
         /\ q.pc # "load" => challenge[q.chal].sig = q.count
    /\ q.pc \in {"check", "insert"} =>
         /\ q.user \in users /\ q.cred \in Credential /\ q.count <= counter[q.cred]
         /\ q.chal # None
         /\ challenge[q.chal].purpose = "registration" /\ challenge[q.chal].user = q.user
    /\ q.pc \in {"new", "flush", "put", "store", "aput", "options"} => q.chal = None

IInv ==
    /\ TypeOK
    /\ OneActiveDevice
    /\ ChallengeSingleUse
    /\ CredentialsDiffer
    /\ UnregisteredUnused
    /\ StoredOnce
    /\ AnswersDiffer
    /\ \A r \in Request : DeviceHonest(r) /\ ChallengeHonest(r) /\ RequestHonest(r)

----------------------------------------------------------------------------
(* The ceremonies these requests implement *)

DeviceSeen(d) == [status |-> d.status, user |-> d.user, cred |-> d.cred]
ChallengeSeen(e) ==
    [status |-> e.status, purpose |-> e.purpose, user |-> e.user, dev |-> e.dev]

\* A request without a challenge of its own has no part in a ceremony yet.
PhaseSeen(pc, chal) ==
    CASE pc = "load" -> "proving"
      [] pc \in {"clear", "commit"} -> "proven"
      [] pc = "loggedIn" -> "loggedIn"
      [] pc \in {"check", "insert"} -> "adding"
      [] pc = "registered" -> "added"
      [] OTHER -> IF chal = None THEN "idle" ELSE "over"

Contract == INSTANCE Ceremonies WITH
    account <- users,
    device <- [d \in Request |-> DeviceSeen(device[d])],
    challenge <- [c \in Request |-> ChallengeSeen(challenge[c])],
    approved <- {c \in Request : challenge[c].sig # Unsigned},
    phase <- [r \in Request |-> PhaseSeen(req[r].pc, req[r].chal)],
    spent <- [r \in Request |-> req[r].chal]

\* The handlers implement Ceremonies: one challenge buys one login, of the
\* device it was made for, approved and active once the challenge is spent,
\* or one device, for a user that has none in use by then; and nothing else
\* logs anybody in or adds a device (service.py:36-317).
ImplementsCeremonies == Contract!Spec

----------------------------------------------------------------------------
(* Liveness *)

\* Every ceremony request is answered: none waits for ever for the unique
\* index on the e-mail.  (A request is handled once, so all of them are
\* answered in the end just when none is left pending for ever.)
EveryCeremonyAnswered ==
    (\E r \in Request : req[r].pc \in Pending)
        ~> (\A r \in Request : req[r].pc \notin Pending)

============================================================================

------------------------------ MODULE VaultApi ------------------------------
(***************************************************************************)
(* The vault endpoints (app/modules/vault/router.py) and the two Redis     *)
(* caches in front of them, for one user: every row, cache key and query   *)
(* carries the user's id, so users do not interact.                        *)
(*                                                                         *)
(* A write claims the IV of its password blob, then the hash of the blob,  *)
(* then commits; each is an await, and other requests run in between.  An  *)
(* update reads its row first and its UPDATE writes the columns that       *)
(* differ from what it read, whatever the row holds by then.               *)
(*                                                                         *)
(* The blobs are opaque: IvOf gives the twelve bytes after the version, a  *)
(* blob stands for its hash, and Malformed for anything parse_blob_v1      *)
(* rejects.  A row is named by the request that inserts it.                *)
(***************************************************************************)
EXTENDS Integers

CONSTANTS
    Request,        \* HTTP requests, each handled once
    Blob, Iv, IvOf, \* well-formed blobs and their IVs
    Name,           \* values of service_name
    Malformed, None,
    Payload,        \* what clients submit
    Window,         \* REPLAY_CACHE_TTL_SECONDS
    MaxTime         \* bound: the clock stops here

\* The columns a request can write; in a payload, None is "not given".
Content == [name : Name \cup {None},
            pwd : Blob \cup {Malformed, None},
            notes : Blob \cup {Malformed, None}]
Blank == [name |-> None, pwd |-> None, notes |-> None]

ASSUME BlobAssumption ==
    /\ IvOf \in [Blob -> Iv]
    /\ Malformed \notin Blob \cup Name
    /\ None \notin Blob \cup {Malformed} \cup Name \cup Request
ASSUME PayloadAssumption == Payload \subseteq Content
ASSUME TimeAssumption == Window \in Nat \ {0} /\ MaxTime \in Nat

VARIABLES
    now,            \* the clock
    row,            \* table vaults
    ivKey,          \* Redis iv:<user>:<iv>: the instant each key expires
    replayKey,      \* Redis replay:<user>:<hash>: likewise
    req             \* the progress of each request

vars == <<now, row, ivKey, replayKey, req>>

----------------------------------------------------------------------------
(* State *)

VaultRow == [status : {"absent", "stored", "deleted"}, content : Content]

Pending == {"iv", "replay", "insert", "update", "erase", "refresh"}
Refused == {"invalid", "missing", "ivConflict", "replayed"}
Answered == {"written", "deleted", "lost"} \cup Refused

RequestState == [pc : {"new"} \cup Pending \cup Answered,
                 id : Request \cup {None},  \* the row it works on
                 new : Content,             \* the payload; None: not given
                 old : Content,             \* the row an update has read
                 ivAt : Nat,                \* when it asked for its IV
                 blobAt : Nat]              \* when it asked for its hash

TypeOK ==
    /\ now \in Nat
    /\ row \in [Request -> VaultRow]
    /\ ivKey \in [Iv -> Nat]
    /\ replayKey \in [Blob -> Nat]
    /\ req \in [Request -> RequestState]

Init ==
    /\ now = 0
    /\ row = [s \in Request |-> [status |-> "absent", content |-> Blank]]
    /\ ivKey = [i \in Iv |-> 0]
    /\ replayKey = [b \in Blob |-> 0]
    /\ req = [r \in Request |->
                [pc |-> "new", id |-> None, new |-> Blank, old |-> Blank,
                 ivAt |-> 0, blobAt |-> 0]]

----------------------------------------------------------------------------
(* Helpers *)

Stored(s) == row[s].status = "stored"

Goto(r, pc) == req' = [req EXCEPT ![r].pc = pc]
Begin(r, pc, s, new, old) ==
    /\ req[r].pc = "new"
    /\ req' = [req EXCEPT ![r] = [pc |-> pc, id |-> s, new |-> new, old |-> old,
                                  ivAt |-> 0, blobAt |-> 0]]

\* The commit of r: an INSERT for the row it names, an UPDATE otherwise.
Write(r) == IF req[r].id = r THEN "insert" ELSE "update"

\* notes_blob is parsed last; nothing is awaited before the commit.
\* Mutant: they are not parsed.
ParsedNot(r) == Write(r)
Parsed(r) == IF req[r].new.notes = Malformed THEN "invalid" ELSE Write(r)

----------------------------------------------------------------------------
(* create_vault, update_vault, delete_vault: up to the first await *)

Create(r, c) ==
    /\ c.name # None /\ c.pwd # None
    /\ Begin(r, IF c.pwd = Malformed THEN "invalid" ELSE "iv", r, c, Blank)
    /\ UNCHANGED <<now, row, ivKey, replayKey>>

\* The client knows a row once its insertion was answered, or from a list.
Update(r, s, c) ==
    /\ row[s].status # "absent"
    /\ Begin(r, IF ~Stored(s) THEN "missing"
                ELSE IF c.pwd = Malformed THEN "invalid"
                ELSE IF c.pwd # None THEN "iv"
                ELSE IF c.notes = Malformed THEN "invalid" ELSE "update",
             s, c, row[s].content)
    /\ UNCHANGED <<now, row, ivKey, replayKey>>

Delete(r, s) ==
    /\ row[s].status # "absent"
    /\ Begin(r, IF Stored(s) THEN "erase" ELSE "missing", s, Blank, Blank)
    /\ UNCHANGED <<now, row, ivKey, replayKey>>

----------------------------------------------------------------------------
(* check_iv_duplicate and add_replay_blob *)

\* SET NX EX: the deadline of a key, and what a refused SET leaves of it.
Free(deadline) == deadline <= now

\* Mutant: the expiry is renewed by a refused attempt.
ClaimedAnew(deadline) == now + Window
Claimed(deadline) == IF Free(deadline) THEN now + Window ELSE deadline

\* Mutant: the reply of a refused SET, None, is not told from True.
CheckIvNotFalse(r) ==
    /\ req[r].pc = "iv"
    /\ ivKey' = [ivKey EXCEPT ![IvOf[req[r].new.pwd]] = Claimed(@)]
    /\ req' = [req EXCEPT ![r].pc = "replay", ![r].ivAt = now]
    /\ UNCHANGED <<now, row, replayKey>>
CheckIv(r) ==
    LET i == IvOf[req[r].new.pwd] IN
    /\ req[r].pc = "iv"
    /\ ivKey' = [ivKey EXCEPT ![i] = Claimed(@)]
    /\ req' = [req EXCEPT ![r].pc = IF Free(ivKey[i]) THEN "replay" ELSE "ivConflict",
                          ![r].ivAt = now]
    /\ UNCHANGED <<now, row, replayKey>>

CheckReplay(r) ==
    LET b == req[r].new.pwd IN
    /\ req[r].pc = "replay"
    /\ replayKey' = [replayKey EXCEPT ![b] = Claimed(@)]
    /\ req' = [req EXCEPT ![r].pc = IF Free(replayKey[b]) THEN Parsed(r) ELSE "replayed",
                          ![r].blobAt = now]
    /\ UNCHANGED <<now, row, ivKey>>

----------------------------------------------------------------------------
(* Commits *)

Insert(r) ==
    /\ req[r].pc = "insert"
    /\ row' = [row EXCEPT ![r] = [status |-> "stored", content |-> req[r].new]]
    /\ Goto(r, "refresh")
    /\ UNCHANGED <<now, ivKey, replayKey>>

\* The columns the ORM finds changed since the row was read, and the row
\* once they are written.
\* Mutant: the whole object is written.
Changed(r) == {k \in DOMAIN Blank : req[r].new[k] \notin {None, req[r].old[k]}}
MergedWhole(r, content) ==
    [k \in DOMAIN Blank |->
        IF req[r].new[k] = None THEN req[r].old[k] ELSE req[r].new[k]]
Merged(r, content) ==
    [k \in DOMAIN Blank |->
        IF k \in Changed(r) THEN req[r].new[k] ELSE content[k]]

\* An UPDATE of a row that has gone raises StaleDataError; without a changed
\* column there is no UPDATE.
\* Mutant: the object is merged back into the session, which inserts it.
WritableAlways(s) == TRUE
Writable(s) == Stored(s)

UpdateCommit(r) ==
    LET s == req[r].id IN
    /\ req[r].pc = "update"
    /\ IF Changed(r) # {} /\ ~Writable(s)
       THEN Goto(r, "lost") /\ UNCHANGED row
       ELSE /\ Goto(r, "refresh")
            /\ row' = IF Changed(r) = {} THEN row
                      ELSE [row EXCEPT ![s] = [status |-> "stored",
                                               content |-> Merged(r, @.content)]]
    /\ UNCHANGED <<now, ivKey, replayKey>>

\* db.refresh raises if the row has been deleted since the commit.
Refresh(r) ==
    /\ req[r].pc = "refresh"
    /\ Goto(r, IF Stored(req[r].id) THEN "written" ELSE "lost")
    /\ UNCHANGED <<now, row, ivKey, replayKey>>

\* A DELETE that finds no row is only logged.
Erase(r) ==
    /\ req[r].pc = "erase"
    /\ row' = [row EXCEPT ![req[r].id].status = "deleted"]
    /\ Goto(r, "deleted")
    /\ UNCHANGED <<now, ivKey, replayKey>>

----------------------------------------------------------------------------
(* Environment *)

\* Redis or the database raises, or the worker dies: rolled back, while the
\* caches keep what was claimed.
Fail(r) ==
    /\ req[r].pc \in Pending
    /\ Goto(r, "lost")
    /\ UNCHANGED <<now, row, ivKey, replayKey>>

Tick ==
    /\ now < MaxTime
    /\ now' = now + 1
    /\ UNCHANGED <<row, ivKey, replayKey, req>>

Continue(r) ==
    \/ CheckIv(r) \/ CheckReplay(r)
    \/ Insert(r) \/ UpdateCommit(r) \/ Refresh(r) \/ Erase(r)

Next ==
    \/ \E r \in Request :
         \/ \E c \in Payload : Create(r, c) \/ \E s \in Request : Update(r, s, c)
         \/ \E s \in Request : Delete(r, s)
         \/ Continue(r)
         \/ Fail(r)
    \/ Tick

Spec == Init /\ [][Next]_vars

----------------------------------------------------------------------------
(* Safety *)

\* The requests that were granted the IV, and the hash, of their blob.
IvGranted == {r \in Request :
    /\ req[r].new.pwd \in Blob
    /\ req[r].pc \in {"replay", "replayed", "insert", "update", "refresh", "written"}}
Granted == {r \in IvGranted : req[r].pc \notin {"replay", "replayed"}}

\* Two writes accepted with the same IV are a window apart, however their
\* checks and commits interleave (redis_client.py:158-167, router.py:85-91).
\* Less than "must reject duplicate IVs within the same user context" (Phase
\* 3.1 Encrypted Data Contract.md:153): only the IV of password_blob is asked
\* for, and a claim ends with its key.
IvSpacing ==
    \A q, r \in IvGranted :
        q # r /\ IvOf[req[q].new.pwd] = IvOf[req[r].new.pwd] =>
            req[q].ivAt + Window <= req[r].ivAt \/ req[r].ivAt + Window <= req[q].ivAt

\* Whoever deleted an item and was told so never sees it again, although
\* updates that had read the row before were still to commit
\* (router.py:159-206, 242-250).
DeletionFinal ==
    \A r \in Request : req[r].pc = "deleted" => row[req[r].id].status = "deleted"

\* Every column of a stored row was given by a request for that row that
\* passed all its checks: nothing of a refused request is kept, not even of
\* one whose IV and hash were already claimed when its notes were refused,
\* and all blobs are well formed (router.py:76-121, 166-206).
RefusedLeaveNoTrace ==
    \A s \in Request : Stored(s) =>
        /\ row[s].content.pwd \in Blob /\ row[s].content.notes # Malformed
        /\ \A k \in DOMAIN Blank : row[s].content[k] # None =>
             \E r \in Request :
                /\ req[r].id = s /\ req[r].new[k] = row[s].content[k]
                /\ req[r].pc \in {"refresh", "written", "lost"}

\* An update overwrites nothing it was not asked to write: a column changes
\* only to a value that was given for it, so two concurrent updates of
\* different columns both survive (router.py:166-206).
NoLostColumn ==
    [][\A r, s \in Request : \A k \in DOMAIN Blank :
         /\ req[r].pc = "update" /\ req'[r].pc = "refresh"
         /\ row'[s].content[k] # row[s].content[k]
         => row'[s].content[k] = req[r].new[k]]_vars

\* q has asked for IV i, and failed since at most.
Spent(q, i) ==
    /\ req[q].pc \in {"replay", "replayed", "insert", "update", "refresh",
                      "written", "invalid", "lost"}
    /\ req[q].new.pwd \in Blob /\ IvOf[req[q].new.pwd] = i

\* A conflict means that another request was granted that IV less than a
\* window ago: refused attempts do not prolong the refusal.  The other may
\* have failed since, and the IV stays spent (router.py:85-91).
ConflictDeserved ==
    \A r \in Request : req[r].pc = "ivConflict" =>
        \E q \in Request \ {r} :
            /\ Spent(q, IvOf[req[r].new.pwd])
            /\ req[q].ivAt <= req[r].ivAt /\ req[r].ivAt < req[q].ivAt + Window

----------------------------------------------------------------------------
(* The store the endpoints implement *)

Given(c) == {k \in DOMAIN Blank : c[k] # None}
Wished(c) == [k \in Given(c) |-> c[k]]

\* What a user can see of a row, and of a request.
ItemSeen(s) == [status |-> row[s].status,
                content |-> IF Stored(s) THEN row[s].content ELSE Blank]
PhaseSeen(pc) ==
    IF pc = "new" THEN "idle"
    ELSE IF pc \in {"iv", "replay", "insert", "update"} THEN "open"
    ELSE IF pc = "erase" THEN "erasing"
    ELSE IF pc = "refresh" THEN "applied"
    ELSE IF pc \in Refused THEN "refused" ELSE pc
DueSeen(r) ==
    IF PhaseSeen(req[r].pc) # "open" THEN {}
    ELSE IF req[r].id = r THEN Given(req[r].new) ELSE Changed(r)

Store == INSTANCE VaultStore WITH
    Column <- DOMAIN Blank,
    Wish   <- {Wished(c) : c \in Payload},
    Bad    <- Malformed,
    item   <- [s \in Request |-> ItemSeen(s)],
    phase  <- [r \in Request |-> PhaseSeen(req[r].pc)],
    target <- [r \in Request |-> req[r].id],
    wish   <- [r \in Request |-> Wished(req[r].new)],
    due    <- [r \in Request |-> DueSeen(r)]

\* Seen from outside, a write is one atomic step: all its columns together,
\* once, between its arrival and its answer, or none of them if it was
\* refused.  Two writes of one item may leave the name of one and the blob of
\* another, but only like that, column by column in the order of the two
\* commits; and an item answered as written was there when that was said
\* (router.py:76-121, 159-206, 242-250).
ImplementsStore == Store!Spec

----------------------------------------------------------------------------
(* The inductive invariant *)

\* What a request has checked of its payload, and the row it works on.
RequestHonest(r) ==
    LET q == req[r] IN
    /\ q.pc \in {"iv", "replay", "insert"} => q.new.pwd \in Blob
    /\ q.pc \in {"insert", "update"} => q.new.pwd # Malformed /\ q.new.notes # Malformed
    /\ q.pc = "insert" => q.id = r
    /\ q.pc \in {"iv", "replay"} /\ q.id # r => q.id \in Request /\ row[q.id].status # "absent"
    /\ q.pc \in {"update", "erase", "refresh", "deleted"} =>
         q.id \in Request /\ row[q.id].status # "absent"
    /\ q.pc = "ivConflict" => q.new.pwd \in Blob
    /\ row[r].status # "absent" => q.pc \in {"refresh", "written", "lost"}

\* The key of a granted IV lives for a window from the grant at least ...
GrantHonest(r) ==
    r \in IvGranted =>
        req[r].ivAt <= now /\ req[r].ivAt + Window <= ivKey[IvOf[req[r].new.pwd]]

\* ... and no key lives longer than a window after the grant that set it.
KeyHonest(i) ==
    ivKey[i] > now =>
        \E q \in Request :
            Spent(q, i) /\ req[q].ivAt <= now /\ ivKey[i] = req[q].ivAt + Window

IInv ==
    /\ TypeOK
    /\ IvSpacing
    /\ DeletionFinal
    /\ RefusedLeaveNoTrace
    /\ ConflictDeserved
    /\ \A r \in Request : RequestHonest(r) /\ GrantHonest(r)
    /\ \A i \in Iv : KeyHonest(i)

============================================================================

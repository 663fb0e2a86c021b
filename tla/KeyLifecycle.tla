----------------------------- MODULE KeyLifecycle -----------------------------
(***************************************************************************)
(* The client's encryption key: KeyLifecycleService keeps a derived key    *)
(* and its version in memory, SecureStorageService the salt it is derived  *)
(* from and that version in the device's storage.  Nothing serialises the  *)
(* service's asynchronous methods, so calls of them overlap at every       *)
(* await.  A call is a Job, used once; a salt is named by the job that     *)
(* generated it, a key by the password and the salt it is derived from.    *)
(***************************************************************************)
EXTENDS Naturals

CONSTANTS
    Job,        \* calls of unlock, rotateKey and purge
    Password,   \* what a user may type
    Native,     \* whether the platform is ios or android, not web
    None        \* null, and the empty string in associated data

VARIABLES
    storage,    \* the record "master-key" of the device, or None
    memory,     \* cachedKey and cachedKeyVersion
    rotating,   \* keyState().rotating
    job,        \* job[j]: what call j knows, and between which awaits it is
    orderly     \* history: no two jobs overlapped, no put was lost

keyVars == <<storage, memory, rotating, job, orderly>>

Running == {"reading", "storing", "caching", "erasing"}

Material == [salt : Job, version : Nat \ {0}]

Key == [password : Password, salt : Job]

ASSUME KeyAssumption ==
    /\ None \notin Job \cup Password
    /\ None \notin Material
    /\ None \notin Key
    /\ Native \in BOOLEAN

Unlocked(key, version) == [key |-> key, version |-> version]

\* The memory of the service when it is constructed and after lock().
Locked == Unlocked(None, 1)

JobState ==
    [op : {None, "unlock", "rotateKey", "purge"}, pc : Running \cup {"new", "over"},
     password : Password \cup {None}, material : Material \cup {None}]

KeyTypeOK ==
    /\ storage \in Material \cup {None}
    /\ memory \in [key : Key \cup {None}, version : Nat \ {0}]
    /\ rotating \in BOOLEAN
    /\ job \in [Job -> JobState]
    /\ orderly \in BOOLEAN

\* Job j has ended, or not begun: what it knew is gone.
Finished(pc) == [op |-> None, pc |-> pc, password |-> None, material |-> None]

KeyInit ==
    /\ storage = None
    /\ memory = Locked
    /\ rotating = FALSE
    /\ job = [j \in Job |-> Finished("new")]
    /\ orderly = TRUE

-----------------------------------------------------------------------------
\* Job j is called and runs up to its first await.
Begin(j, op, password, pc) ==
    /\ job[j].pc = "new"
    /\ job' = [job EXCEPT ![j] = [op |-> op, pc |-> pc, password |-> password,
                                  material |-> None]]
    /\ orderly' = (orderly /\ \A i \in Job : job[i].pc \notin Running)
    /\ UNCHANGED storage

Unlock(j) ==
    /\ \E password \in Password : Begin(j, "unlock", password, "reading")
    /\ UNCHANGED <<memory, rotating>>

RotateKey(j) ==
    /\ \E password \in Password : Begin(j, "rotateKey", password, "reading")
    /\ rotating' = TRUE
    /\ UNCHANGED memory

Forget ==
    /\ memory' = Locked
    /\ rotating' = FALSE

\* lock() has no await: no other code runs before it is done.
Lock ==
    /\ Forget
    /\ UNCHANGED <<storage, job, orderly>>

\* Mutant: purge() only empties the storage.
PurgeKeepsKey(j) ==
    /\ Begin(j, "purge", None, "erasing")
    /\ UNCHANGED <<memory, rotating>>

\* purge() locks first and then waits for the storage.
Purge(j) ==
    /\ Begin(j, "purge", None, "erasing")
    /\ Forget

-----------------------------------------------------------------------------
\* What getKeyMaterial may return: getNative turns every exception into null.
Seen == {storage} \cup IF Native THEN {None} ELSE {}

\* Mutant: a rotation that keeps the salt.
RotatedOldSalt(j, m) ==
    [salt |-> IF m = None THEN j ELSE m.salt,
     version |-> (IF m = None THEN 1 ELSE m.version) + 1]

\* The material that rotateKey goes on with after it has seen m.
Rotated(j, m) ==
    [salt |-> j, version |-> (IF m = None THEN 1 ELSE m.version) + 1]

\* The storage has answered: unlock takes the salt that is there or, like
\* rotateKey, generates one.  The key is derived from it before the next await
\* that anyone can notice.
Read(j) ==
    /\ job[j].pc = "reading"
    /\ \E m \in Seen :
        LET found == job[j].op = "unlock" /\ m # None
            material == IF job[j].op = "rotateKey" THEN Rotated(j, m)
                        ELSE IF found THEN m ELSE [salt |-> j, version |-> 1]
        IN job' = [job EXCEPT ![j].pc = IF found THEN "caching" ELSE "storing",
                              ![j].material = material]
    /\ UNCHANGED <<storage, memory, rotating, orderly>>

\* The record is written over what is there; the job has not resumed yet.
Store(j) ==
    /\ job[j].pc = "storing"
    /\ job' = [job EXCEPT ![j].pc = "caching"]
    /\ storage' = job[j].material
    /\ UNCHANGED <<memory, rotating, orderly>>

\* idbPut resolves when its request succeeds, and the transaction of that
\* request may still be aborted when it commits.
StoreLost(j) ==
    /\ job[j].pc = "storing"
    /\ job' = [job EXCEPT ![j].pc = "caching"]
    /\ orderly' = FALSE
    /\ UNCHANGED <<storage, memory, rotating>>

\* setKey, which ends the job and says that nothing is rotating.
CacheKey(j) ==
    /\ job[j].pc = "caching"
    /\ job' = [job EXCEPT ![j] = Finished("over")]
    /\ memory' = Unlocked([password |-> job[j].password,
                           salt |-> job[j].material.salt],
                          job[j].material.version)
    /\ rotating' = FALSE
    /\ UNCHANGED <<storage, orderly>>

Erase(j) ==
    /\ job[j].pc = "erasing"
    /\ job' = [job EXCEPT ![j] = Finished("over")]
    /\ storage' = None
    /\ UNCHANGED <<memory, rotating, orderly>>

\* Mutant: rotateKey without its finally clause.
FailJobKeepsRotating(j) ==
    /\ job[j].pc \in Running \ {"caching"}
    /\ job' = [job EXCEPT ![j] = Finished("over")]
    /\ UNCHANGED <<storage, memory, rotating, orderly>>

\* The storage or the derivation of the key throws; rotateKey's finally clause
\* runs.  Nothing can fail between the acknowledged put and setKey.
FailJob(j) ==
    /\ job[j].pc \in Running \ {"caching"}
    /\ job' = [job EXCEPT ![j] = Finished("over")]
    /\ rotating' = (rotating /\ job[j].op # "rotateKey")
    /\ UNCHANGED <<storage, memory, orderly>>

\* The page is loaded again: memory and running jobs are gone.
ForgetJobs ==
    /\ Forget
    /\ job' = [j \in Job |-> IF job[j].pc \in Running
                             THEN Finished("over") ELSE job[j]]
    /\ UNCHANGED <<storage, orderly>>

KeyStep(j) ==
    \/ Unlock(j)
    \/ RotateKey(j)
    \/ Purge(j)
    \/ Read(j)
    \/ Store(j)
    \/ StoreLost(j)
    \/ CacheKey(j)
    \/ Erase(j)
    \/ FailJob(j)

KeyNext ==
    \/ Lock
    \/ \E j \in Job : KeyStep(j)

-----------------------------------------------------------------------------
\* What the key in memory is derived from, with the version that came with it.
InMemory ==
    IF memory.key = None THEN None
    ELSE [salt |-> memory.key.salt, version |-> memory.version]

\* Every place that holds a salt together with a version.
Versions == ({storage, InMemory} \cup {job[j].material : j \in Job}) \ {None}

\* A salt and its version stay together: memory, storage and the jobs between
\* two awaits never pair one salt with two versions, however unlocks, rotations
\* and locks overlap.
SaltFixesVersion ==
    \A m, n \in Versions : m.salt = n.salt => m.version = n.version

\* keyState().rotating is only shown while some rotateKey runs: no failure and
\* no lock leaves the client rotating for ever.
RotatingHonest ==
    rotating => \E j \in Job : job[j].op = "rotateKey" /\ job[j].pc \in Running

\* Calls that never overlap keep memory and storage in step, over failures,
\* unreadable storage, locks, purges and reloads: whenever no job is about to
\* cache its key, the key in memory is one that a later unlock derives again.
MemoryRecoverable ==
    orderly /\ memory.key # None /\ (\A j \in Job : job[j].pc # "caching") =>
        InMemory = storage

-----------------------------------------------------------------------------
\* The inductive invariant of VaultClientProofs, its part for the keys.

\* A job knows a material exactly between its two last awaits, and only a
\* purge erases.
JobsShaped ==
    \A j \in Job :
        /\ job[j].pc \in {"storing", "caching"} <=> job[j].material # None
        /\ job[j].pc \in {"reading", "storing", "caching"} =>
                job[j].op \in {"unlock", "rotateKey"} /\ job[j].password # None
        /\ job[j].pc = "erasing" => job[j].op = "purge"

\* A salt is nowhere to be found before its job has generated it.
SaltsGenerated ==
    \A m \in Versions : job[m.salt].pc \notin {"new", "reading"}

\* As long as jobs do not overlap, a job that is about to cache its key has its
\* material in storage, and a purge has emptied the memory.
OrderlyJobs ==
    orderly =>
        /\ \A i, j \in Job :
            job[i].pc \in Running /\ job[j].pc \in Running => i = j
        /\ \A j \in Job :
            /\ job[j].pc = "caching" => job[j].material = storage
            /\ job[j].pc = "erasing" => memory.key = None

KeyIInv ==
    /\ KeyTypeOK
    /\ JobsShaped
    /\ SaltsGenerated
    /\ SaltFixesVersion
    /\ RotatingHonest
    /\ OrderlyJobs
    /\ MemoryRecoverable
=============================================================================

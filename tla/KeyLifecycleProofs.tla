-------------------------- MODULE KeyLifecycleProofs --------------------------
(***************************************************************************)
(* The invariant of KeyLifecycle is inductive.  VaultClientProofs, whose   *)
(* behaviours interleave these steps with the vault's, builds on it.       *)
(***************************************************************************)
EXTENDS KeyLifecycle, TLAPS

\* A salt keeps its version, and stays generated, over a step that adds at most
\* one pair to those there are, with a salt its job has just generated.
LEMMA SaltsKept ==
  ASSUME SaltsGenerated, SaltFixesVersion,
         NEW n, Versions' \subseteq Versions \cup {n},
         n \in Versions \/ job[n.salt].pc \in {"new", "reading"},
         n \in Versions \/ job'[n.salt].pc \notin {"new", "reading"},
         \A m \in Versions : job[m.salt].pc \notin {"new", "reading"} =>
                               job'[m.salt].pc \notin {"new", "reading"}
  PROVE  SaltsGenerated' /\ SaltFixesVersion'
  BY DEF SaltsGenerated, SaltFixesVersion

\* The versions are in storage, in memory, or with a job.
LEMMA VersionsAre ==
  ASSUME NEW m
  PROVE  /\ m \in Versions <=>
              /\ m # None
              /\ m = storage \/ m = InMemory \/ \E j \in Job : m = job[j].material
         /\ m \in Versions' <=>
              /\ m # None
              /\ m = storage' \/ m = InMemory' \/ \E j \in Job : m = job'[j].material
  BY DEF Versions

\* Every version is a material, and its salt a job.
LEMMA VersionsTyped ==
  ASSUME KeyTypeOK
  PROVE  Versions \subseteq Material
  BY KeyAssumption, VersionsAre DEF KeyTypeOK, JobState, InMemory, Key, Material

\* The keys' invariant holds when the services are constructed.
LEMMA KeyInitial == KeyInit => KeyIInv
<1> SUFFICES ASSUME KeyInit PROVE KeyIInv
  OBVIOUS
<1> USE KeyAssumption DEF KeyInit, Locked, Unlocked, Finished, Running
<1>1. KeyTypeOK
  <2>1. memory \in [key : Key \cup {None}, version : Nat \ {0}]
    OBVIOUS
  <2>2. job \in [Job -> JobState]
    BY DEF JobState
  <2> QED  BY <2>1, <2>2 DEF KeyTypeOK
<1>2. Versions = {}
  BY VersionsAre DEF InMemory
<1>3. SaltsGenerated /\ SaltFixesVersion
  BY <1>2 DEF SaltsGenerated, SaltFixesVersion
<1>4. JobsShaped
  BY DEF JobsShaped
<1> QED  BY <1>1, <1>3, <1>4 DEF KeyIInv, RotatingHonest, OrderlyJobs, MemoryRecoverable

\* The invariant only speaks of the keys' variables.
LEMMA KeyStutter == KeyIInv /\ UNCHANGED keyVars => KeyIInv'
  BY DEF keyVars, KeyIInv, KeyTypeOK, JobState, JobsShaped, SaltsGenerated, SaltFixesVersion,
      RotatingHonest, OrderlyJobs, MemoryRecoverable, Versions, InMemory

\* Locking forgets and breaks nothing.
LEMMA LockKeeps == KeyIInv /\ Lock => KeyIInv'
<1> SUFFICES ASSUME KeyIInv, Lock PROVE KeyIInv'
  OBVIOUS
<1> USE KeyAssumption DEF Lock, Forget, Locked, Unlocked, KeyIInv, Running
<1>0. job' \in [Job -> JobState]
  BY DEF KeyTypeOK, JobState, Material
<1>1. KeyTypeOK'
  <2>1. memory' \in [key : Key \cup {None}, version : Nat \ {0}]
    BY DEF KeyTypeOK, JobState, Material, Key
  <2>2. rotating' \in BOOLEAN /\ orderly' \in BOOLEAN
    BY DEF KeyTypeOK
  <2>3. storage' \in Material \cup {None}
    BY DEF KeyTypeOK, JobState
  <2> QED  BY <1>0, <2>1, <2>2, <2>3 DEF KeyTypeOK
<1>2. JobsShaped'
  BY DEF JobsShaped, KeyTypeOK, JobState
<1>3. SaltsGenerated' /\ SaltFixesVersion'
  <2>1. Versions' \subseteq Versions
    BY VersionsAre DEF InMemory, KeyTypeOK, JobState, JobsShaped
  <2>2. \A i \in Job : job[i].pc \notin {"new", "reading"} =>
                        job'[i].pc \notin {"new", "reading"}
    BY DEF KeyTypeOK, JobState
  <2> QED  BY <2>1, <2>2, VersionsTyped
         DEF SaltsGenerated, SaltFixesVersion, Material
<1>4. RotatingHonest'
  BY DEF RotatingHonest, KeyTypeOK, JobState, JobsShaped
<1>5. OrderlyJobs'
  BY DEF OrderlyJobs, KeyTypeOK, JobState, JobsShaped
<1>6. MemoryRecoverable'
  BY DEF MemoryRecoverable, OrderlyJobs, KeyTypeOK, JobState, JobsShaped, InMemory,
         Material
<1> QED  BY <1>1, <1>2, <1>3, <1>4, <1>5, <1>6 DEF KeyIInv

\* Nor does loading the page again.
LEMMA ForgetKeeps == KeyIInv /\ ForgetJobs => KeyIInv'
<1> SUFFICES ASSUME KeyIInv, ForgetJobs PROVE KeyIInv'
  OBVIOUS
<1> USE KeyAssumption DEF ForgetJobs, Forget, Locked, Unlocked, Finished, KeyIInv, Running
<1>0. job' \in [Job -> JobState]
  BY DEF KeyTypeOK, JobState, Material
<1>1. KeyTypeOK'
  <2>1. memory' \in [key : Key \cup {None}, version : Nat \ {0}]
    BY DEF KeyTypeOK, JobState, Material, Key
  <2>2. rotating' \in BOOLEAN /\ orderly' \in BOOLEAN
    BY DEF KeyTypeOK
  <2>3. storage' \in Material \cup {None}
    BY DEF KeyTypeOK, JobState
  <2> QED  BY <1>0, <2>1, <2>2, <2>3 DEF KeyTypeOK
<1>2. JobsShaped'
  BY DEF JobsShaped, KeyTypeOK, JobState
<1>3. SaltsGenerated' /\ SaltFixesVersion'
  <2>1. Versions' \subseteq Versions
    BY VersionsAre DEF InMemory, KeyTypeOK, JobState, JobsShaped
  <2>2. \A i \in Job : job[i].pc \notin {"new", "reading"} =>
                        job'[i].pc \notin {"new", "reading"}
    BY DEF KeyTypeOK, JobState
  <2> QED  BY <2>1, <2>2, VersionsTyped
         DEF SaltsGenerated, SaltFixesVersion, Material
<1>4. RotatingHonest'
  BY DEF RotatingHonest, KeyTypeOK, JobState, JobsShaped
<1>5. OrderlyJobs'
  BY DEF OrderlyJobs, KeyTypeOK, JobState, JobsShaped
<1>6. MemoryRecoverable'
  BY DEF MemoryRecoverable, OrderlyJobs, KeyTypeOK, JobState, JobsShaped, InMemory,
         Material
<1> QED  BY <1>1, <1>2, <1>3, <1>4, <1>5, <1>6 DEF KeyIInv

\* Job j: Unlock.
LEMMA UnlockKeeps ==
  ASSUME KeyIInv, NEW j \in Job, Unlock(j)
  PROVE  KeyIInv'
<1> USE KeyAssumption DEF Unlock, Begin, KeyIInv, Running
<1>a. PICK password \in Password :
             /\ job[j].pc = "new"
             /\ job' = [job EXCEPT ![j] = [op |-> "unlock", pc |-> "reading",
                                           password |-> password, material |-> None]]
  OBVIOUS
<1>b. orderly' => orderly /\ \A i \in Job : job[i].pc \notin Running
  OBVIOUS
<1>0. job' \in [Job -> JobState]
  BY DEF KeyTypeOK, JobState, Material
<1>1. KeyTypeOK'
  <2>1. memory' \in [key : Key \cup {None}, version : Nat \ {0}]
    BY DEF KeyTypeOK, JobState, Material, Key
  <2>2. rotating' \in BOOLEAN /\ orderly' \in BOOLEAN
    BY DEF KeyTypeOK
  <2>3. storage' \in Material \cup {None}
    BY DEF KeyTypeOK, JobState
  <2> QED  BY <1>0, <2>1, <2>2, <2>3 DEF KeyTypeOK
<1>2. JobsShaped'
  BY <1>a DEF JobsShaped, KeyTypeOK, JobState
<1>3. SaltsGenerated' /\ SaltFixesVersion'
  <2>1. Versions' \subseteq Versions
    BY VersionsAre DEF InMemory, KeyTypeOK, JobState, JobsShaped
  <2>2. \A i \in Job : job[i].pc \notin {"new", "reading"} =>
                        job'[i].pc \notin {"new", "reading"}
    BY DEF KeyTypeOK, JobState
  <2> QED  BY <2>1, <2>2, VersionsTyped
         DEF SaltsGenerated, SaltFixesVersion, Material
<1>4. RotatingHonest'
  BY DEF RotatingHonest, KeyTypeOK, JobState, JobsShaped
<1>5. OrderlyJobs'
  BY <1>a, <1>b DEF OrderlyJobs, KeyTypeOK, JobState, JobsShaped
<1>6. MemoryRecoverable'
  BY DEF MemoryRecoverable, OrderlyJobs, KeyTypeOK, JobState, JobsShaped, InMemory,
         Material
<1> QED  BY <1>1, <1>2, <1>3, <1>4, <1>5, <1>6 DEF KeyIInv

\* Job j: RotateKey.
LEMMA RotateKeyKeeps ==
  ASSUME KeyIInv, NEW j \in Job, RotateKey(j)
  PROVE  KeyIInv'
<1> USE KeyAssumption DEF RotateKey, Begin, KeyIInv, Running
<1>a. PICK password \in Password :
             /\ job[j].pc = "new"
             /\ job' = [job EXCEPT ![j] = [op |-> "rotateKey", pc |-> "reading",
                                           password |-> password, material |-> None]]
  OBVIOUS
<1>b. orderly' => orderly /\ \A i \in Job : job[i].pc \notin Running
  OBVIOUS
<1>0. job' \in [Job -> JobState]
  BY DEF KeyTypeOK, JobState, Material
<1>1. KeyTypeOK'
  <2>1. memory' \in [key : Key \cup {None}, version : Nat \ {0}]
    BY DEF KeyTypeOK, JobState, Material, Key
  <2>2. rotating' \in BOOLEAN /\ orderly' \in BOOLEAN
    BY DEF KeyTypeOK
  <2>3. storage' \in Material \cup {None}
    BY DEF KeyTypeOK, JobState
  <2> QED  BY <1>0, <2>1, <2>2, <2>3 DEF KeyTypeOK
<1>2. JobsShaped'
  BY <1>a DEF JobsShaped, KeyTypeOK, JobState
<1>3. SaltsGenerated' /\ SaltFixesVersion'
  <2>1. Versions' \subseteq Versions
    BY VersionsAre DEF InMemory, KeyTypeOK, JobState, JobsShaped
  <2>2. \A i \in Job : job[i].pc \notin {"new", "reading"} =>
                        job'[i].pc \notin {"new", "reading"}
    BY DEF KeyTypeOK, JobState
  <2> QED  BY <2>1, <2>2, VersionsTyped
         DEF SaltsGenerated, SaltFixesVersion, Material
<1>4. RotatingHonest'
  BY DEF RotatingHonest, KeyTypeOK, JobState, JobsShaped
<1>5. OrderlyJobs'
  BY <1>a, <1>b DEF OrderlyJobs, KeyTypeOK, JobState, JobsShaped
<1>6. MemoryRecoverable'
  BY DEF MemoryRecoverable, OrderlyJobs, KeyTypeOK, JobState, JobsShaped, InMemory,
         Material
<1> QED  BY <1>1, <1>2, <1>3, <1>4, <1>5, <1>6 DEF KeyIInv

\* Job j: Purge.
LEMMA PurgeKeeps ==
  ASSUME KeyIInv, NEW j \in Job, Purge(j)
  PROVE  KeyIInv'
<1> USE KeyAssumption DEF Purge, Begin, Forget, Locked, Unlocked, KeyIInv, Running
<1>0. job' \in [Job -> JobState]
  BY DEF KeyTypeOK, JobState, Material
<1>1. KeyTypeOK'
  <2>1. memory' \in [key : Key \cup {None}, version : Nat \ {0}]
    BY DEF KeyTypeOK, JobState, Material, Key
  <2>2. rotating' \in BOOLEAN /\ orderly' \in BOOLEAN
    BY DEF KeyTypeOK
  <2>3. storage' \in Material \cup {None}
    BY DEF KeyTypeOK, JobState
  <2> QED  BY <1>0, <2>1, <2>2, <2>3 DEF KeyTypeOK
<1>2. JobsShaped'
  BY DEF JobsShaped, KeyTypeOK, JobState
<1>3. SaltsGenerated' /\ SaltFixesVersion'
  <2>1. Versions' \subseteq Versions
    BY VersionsAre DEF InMemory, KeyTypeOK, JobState, JobsShaped
  <2>2. \A i \in Job : job[i].pc \notin {"new", "reading"} =>
                        job'[i].pc \notin {"new", "reading"}
    BY DEF KeyTypeOK, JobState
  <2> QED  BY <2>1, <2>2, VersionsTyped
         DEF SaltsGenerated, SaltFixesVersion, Material
<1>4. RotatingHonest'
  BY DEF RotatingHonest, KeyTypeOK, JobState, JobsShaped
<1>5. OrderlyJobs'
  BY DEF OrderlyJobs, KeyTypeOK, JobState, JobsShaped
<1>6. MemoryRecoverable'
  BY DEF MemoryRecoverable, OrderlyJobs, KeyTypeOK, JobState, JobsShaped, InMemory,
         Material
<1> QED  BY <1>1, <1>2, <1>3, <1>4, <1>5, <1>6 DEF KeyIInv

\* Job j: Read.
LEMMA ReadKeeps ==
  ASSUME KeyIInv, NEW j \in Job, Read(j)
  PROVE  KeyIInv'
<1> USE KeyAssumption DEF KeyIInv, Running
<1>1. PICK m \in Seen, found \in BOOLEAN, material \in Material :
        /\ found => job[j].op = "unlock" /\ m # None /\ material = m
        /\ ~found => material.salt = j
        /\ job' = [job EXCEPT ![j].pc = IF found THEN "caching" ELSE "storing",
                              ![j].material = material]
  <2>1. PICK m \in Seen :
          LET found == job[j].op = "unlock" /\ m # None
              material == IF job[j].op = "rotateKey" THEN Rotated(j, m)
                          ELSE IF found THEN m ELSE [salt |-> j, version |-> 1]
          IN job' = [job EXCEPT ![j].pc = IF found THEN "caching" ELSE "storing",
                                ![j].material = material]
    BY DEF Read
  <2> DEFINE found == job[j].op = "unlock" /\ m # None
             material == IF job[j].op = "rotateKey" THEN Rotated(j, m)
                         ELSE IF found THEN m ELSE [salt |-> j, version |-> 1]
  <2>2. m = None \/ m \in Material
    BY DEF Seen, KeyTypeOK
  <2>3. material \in Material
    BY <2>2 DEF Rotated, Material
  <2>4. ~found => material.salt = j
    BY DEF Rotated
  <2>5. found => material = m
    OBVIOUS
  <2>6. job' = [job EXCEPT ![j].pc = IF found THEN "caching" ELSE "storing",
                           ![j].material = material]
    BY <2>1
  <2>7. found \in BOOLEAN /\ (found => job[j].op = "unlock" /\ m # None)
    OBVIOUS
  <2> HIDE DEF found, material
  <2> QED  BY <2>3, <2>4, <2>5, <2>6, <2>7
<1>2. /\ job[j].pc = "reading"
      /\ UNCHANGED <<storage, memory, rotating, orderly>>
  BY DEF Read
<1>3. found => m = storage
  BY <1>1 DEF Seen
<1>4. job' \in [Job -> JobState]
  <2>1. (IF found THEN "caching" ELSE "storing") \in {"caching", "storing"}
    BY <1>1
  <2>2. job[j] \in JobState
    BY DEF KeyTypeOK
  <2>3. [job[j] EXCEPT !.pc = IF found THEN "caching" ELSE "storing",
                       !.material = material] \in JobState
    BY <1>1, <2>2, <2>1 DEF JobState
  <2>4. job' = [job EXCEPT ![j] = [job[j] EXCEPT
                  !.pc = IF found THEN "caching" ELSE "storing",
                  !.material = material]]
    BY <1>1 DEF KeyTypeOK
  <2> QED  BY <2>3, <2>4 DEF KeyTypeOK
<1>5. KeyTypeOK'
  BY <1>2, <1>4 DEF KeyTypeOK
<1>6. JobsShaped'
  BY <1>1, <1>2 DEF JobsShaped, KeyTypeOK, JobState
<1>7. SaltsGenerated' /\ SaltFixesVersion'
  <2>1. Versions' \subseteq Versions \cup {material}
    BY <1>1, <1>2, VersionsAre DEF InMemory, KeyTypeOK, JobState
  <2>2. CASE found
    <3>1. material \in Versions
      BY <1>1, <1>3, <2>2, VersionsAre
    <3>2. \A i \in Job : job[i].pc \notin {"new", "reading"} =>
                          job'[i].pc \notin {"new", "reading"}
      BY <1>1, <1>2 DEF KeyTypeOK, JobState
    <3> QED  BY <2>1, <3>1, <3>2, VersionsTyped, SaltsKept DEF Material
  <2>3. CASE ~found
    <3>1. material.salt = j /\ job'[j].pc = "storing"
      BY <1>1, <2>3 DEF KeyTypeOK, JobState
    <3>2. \A i \in Job : job[i].pc \notin {"new", "reading"} =>
                          job'[i].pc \notin {"new", "reading"}
      BY <1>1, <1>2 DEF KeyTypeOK, JobState
    <3> QED  BY <1>2, <2>1, <3>1, <3>2, VersionsTyped, SaltsKept DEF Material
  <2> QED  BY <2>2, <2>3
<1>8. RotatingHonest'
  BY <1>1, <1>2 DEF RotatingHonest, KeyTypeOK, JobState
<1>9. OrderlyJobs'
  BY <1>1, <1>2, <1>3 DEF OrderlyJobs, KeyTypeOK, JobState
<1>10. MemoryRecoverable'
  BY <1>1, <1>2 DEF MemoryRecoverable, OrderlyJobs, KeyTypeOK, JobState, InMemory
<1> QED  BY <1>5, <1>6, <1>7, <1>8, <1>9, <1>10

\* Job j: Store.
LEMMA StoreKeeps ==
  ASSUME KeyIInv, NEW j \in Job, Store(j)
  PROVE  KeyIInv'
<1> USE KeyAssumption DEF Store, KeyIInv, Running
<1>0. job' \in [Job -> JobState]
  BY DEF KeyTypeOK, JobState, Material
<1>1. KeyTypeOK'
  <2>1. memory' \in [key : Key \cup {None}, version : Nat \ {0}]
    BY DEF KeyTypeOK, JobState, Material, Key
  <2>2. rotating' \in BOOLEAN /\ orderly' \in BOOLEAN
    BY DEF KeyTypeOK
  <2>3. storage' \in Material \cup {None}
    BY DEF KeyTypeOK, JobState
  <2> QED  BY <1>0, <2>1, <2>2, <2>3 DEF KeyTypeOK
<1>2. JobsShaped'
  BY DEF JobsShaped, KeyTypeOK, JobState
<1>3. SaltsGenerated' /\ SaltFixesVersion'
  <2>1. Versions' \subseteq Versions
    BY VersionsAre DEF InMemory, KeyTypeOK, JobState, JobsShaped
  <2>2. \A i \in Job : job[i].pc \notin {"new", "reading"} =>
                        job'[i].pc \notin {"new", "reading"}
    BY DEF KeyTypeOK, JobState
  <2> QED  BY <2>1, <2>2, VersionsTyped
         DEF SaltsGenerated, SaltFixesVersion, Material
<1>4. RotatingHonest'
  BY DEF RotatingHonest, KeyTypeOK, JobState, JobsShaped
<1>5. OrderlyJobs'
  BY DEF OrderlyJobs, KeyTypeOK, JobState, JobsShaped
<1>6. MemoryRecoverable'
  BY DEF MemoryRecoverable, OrderlyJobs, KeyTypeOK, JobState, JobsShaped, InMemory,
         Material
<1> QED  BY <1>1, <1>2, <1>3, <1>4, <1>5, <1>6 DEF KeyIInv

\* Job j: StoreLost.
LEMMA StoreLostKeeps ==
  ASSUME KeyIInv, NEW j \in Job, StoreLost(j)
  PROVE  KeyIInv'
<1> USE KeyAssumption DEF StoreLost, KeyIInv, Running
<1>0. job' \in [Job -> JobState]
  BY DEF KeyTypeOK, JobState, Material
<1>1. KeyTypeOK'
  <2>1. memory' \in [key : Key \cup {None}, version : Nat \ {0}]
    BY DEF KeyTypeOK, JobState, Material, Key
  <2>2. rotating' \in BOOLEAN /\ orderly' \in BOOLEAN
    BY DEF KeyTypeOK
  <2>3. storage' \in Material \cup {None}
    BY DEF KeyTypeOK, JobState
  <2> QED  BY <1>0, <2>1, <2>2, <2>3 DEF KeyTypeOK
<1>2. JobsShaped'
  BY DEF JobsShaped, KeyTypeOK, JobState
<1>3. SaltsGenerated' /\ SaltFixesVersion'
  <2>1. Versions' \subseteq Versions
    BY VersionsAre DEF InMemory, KeyTypeOK, JobState, JobsShaped
  <2>2. \A i \in Job : job[i].pc \notin {"new", "reading"} =>
                        job'[i].pc \notin {"new", "reading"}
    BY DEF KeyTypeOK, JobState
  <2> QED  BY <2>1, <2>2, VersionsTyped
         DEF SaltsGenerated, SaltFixesVersion, Material
<1>4. RotatingHonest'
  BY DEF RotatingHonest, KeyTypeOK, JobState, JobsShaped
<1>5. OrderlyJobs'
  BY DEF OrderlyJobs, KeyTypeOK, JobState, JobsShaped
<1>6. MemoryRecoverable'
  BY DEF MemoryRecoverable, OrderlyJobs, KeyTypeOK, JobState, JobsShaped, InMemory,
         Material
<1> QED  BY <1>1, <1>2, <1>3, <1>4, <1>5, <1>6 DEF KeyIInv

\* Job j: CacheKey.
LEMMA CacheKeyKeeps ==
  ASSUME KeyIInv, NEW j \in Job, CacheKey(j)
  PROVE  KeyIInv'
<1> USE KeyAssumption DEF CacheKey, Unlocked, Finished, KeyIInv, Running
<1>a. /\ job[j].material \in Material
      /\ job[j].password \in Password
      /\ job[j].material \in Versions
  BY VersionsAre DEF KeyTypeOK, JobState, JobsShaped
<1>b. InMemory' = job[j].material
  <2>0. [password |-> job[j].password, salt |-> job[j].material.salt] \in Key
    BY <1>a DEF Key, Material
  <2>1. memory'.key # None
    BY <2>0
  <2>2. InMemory' = [salt |-> job[j].material.salt, version |-> job[j].material.version]
    BY <2>1 DEF InMemory
  <2> QED  BY <1>a, <2>2 DEF Material
<1>0. job' \in [Job -> JobState]
  BY DEF KeyTypeOK, JobState, Material
<1>1. KeyTypeOK'
  <2>1. memory' \in [key : Key \cup {None}, version : Nat \ {0}]
    BY <1>a DEF KeyTypeOK, JobState, Material, Key
  <2>2. rotating' \in BOOLEAN /\ orderly' \in BOOLEAN
    BY DEF KeyTypeOK
  <2>3. storage' \in Material \cup {None}
    BY DEF KeyTypeOK, JobState
  <2> QED  BY <1>0, <2>1, <2>2, <2>3 DEF KeyTypeOK
<1>2. JobsShaped'
  BY DEF JobsShaped, KeyTypeOK, JobState
<1>3. SaltsGenerated' /\ SaltFixesVersion'
  <2>1. Versions' \subseteq Versions
    BY <1>a, <1>b, VersionsAre DEF KeyTypeOK, JobState
  <2>2. \A i \in Job : job[i].pc \notin {"new", "reading"} =>
                        job'[i].pc \notin {"new", "reading"}
    BY DEF KeyTypeOK, JobState
  <2> QED  BY <2>1, <2>2, VersionsTyped
         DEF SaltsGenerated, SaltFixesVersion, Material
<1>4. RotatingHonest'
  BY DEF RotatingHonest, KeyTypeOK, JobState, JobsShaped
<1>5. OrderlyJobs'
  BY DEF OrderlyJobs, KeyTypeOK, JobState, JobsShaped
<1>6. MemoryRecoverable'
  BY DEF MemoryRecoverable, OrderlyJobs, KeyTypeOK, JobState, JobsShaped, InMemory,
         Material
<1> QED  BY <1>1, <1>2, <1>3, <1>4, <1>5, <1>6 DEF KeyIInv

\* Job j: Erase.
LEMMA EraseKeeps ==
  ASSUME KeyIInv, NEW j \in Job, Erase(j)
  PROVE  KeyIInv'
<1> USE KeyAssumption DEF Erase, Finished, KeyIInv, Running
<1>0. job' \in [Job -> JobState]
  BY DEF KeyTypeOK, JobState, Material
<1>1. KeyTypeOK'
  <2>1. memory' \in [key : Key \cup {None}, version : Nat \ {0}]
    BY DEF KeyTypeOK, JobState, Material, Key
  <2>2. rotating' \in BOOLEAN /\ orderly' \in BOOLEAN
    BY DEF KeyTypeOK
  <2>3. storage' \in Material \cup {None}
    BY DEF KeyTypeOK, JobState
  <2> QED  BY <1>0, <2>1, <2>2, <2>3 DEF KeyTypeOK
<1>2. JobsShaped'
  BY DEF JobsShaped, KeyTypeOK, JobState
<1>3. SaltsGenerated' /\ SaltFixesVersion'
  <2>1. Versions' \subseteq Versions
    BY VersionsAre DEF InMemory, KeyTypeOK, JobState, JobsShaped
  <2>2. \A i \in Job : job[i].pc \notin {"new", "reading"} =>
                        job'[i].pc \notin {"new", "reading"}
    BY DEF KeyTypeOK, JobState
  <2> QED  BY <2>1, <2>2, VersionsTyped
         DEF SaltsGenerated, SaltFixesVersion, Material
<1>4. RotatingHonest'
  BY DEF RotatingHonest, KeyTypeOK, JobState, JobsShaped
<1>5. OrderlyJobs'
  BY DEF OrderlyJobs, KeyTypeOK, JobState, JobsShaped
<1>6. MemoryRecoverable'
  BY DEF MemoryRecoverable, OrderlyJobs, KeyTypeOK, JobState, JobsShaped, InMemory,
         Material
<1> QED  BY <1>1, <1>2, <1>3, <1>4, <1>5, <1>6 DEF KeyIInv

\* Job j: FailJob.
LEMMA FailJobKeeps ==
  ASSUME KeyIInv, NEW j \in Job, FailJob(j)
  PROVE  KeyIInv'
<1> USE KeyAssumption DEF FailJob, Finished, KeyIInv, Running
<1>0. job' \in [Job -> JobState]
  BY DEF KeyTypeOK, JobState, Material
<1>1. KeyTypeOK'
  <2>1. memory' \in [key : Key \cup {None}, version : Nat \ {0}]
    BY DEF KeyTypeOK, JobState, Material, Key
  <2>2. rotating' \in BOOLEAN /\ orderly' \in BOOLEAN
    BY DEF KeyTypeOK
  <2>3. storage' \in Material \cup {None}
    BY DEF KeyTypeOK, JobState
  <2> QED  BY <1>0, <2>1, <2>2, <2>3 DEF KeyTypeOK
<1>2. JobsShaped'
  BY DEF JobsShaped, KeyTypeOK, JobState
<1>3. SaltsGenerated' /\ SaltFixesVersion'
  <2>1. Versions' \subseteq Versions
    BY VersionsAre DEF InMemory, KeyTypeOK, JobState, JobsShaped
  <2>2. \A i \in Job : job[i].pc \notin {"new", "reading"} =>
                        job'[i].pc \notin {"new", "reading"}
    BY DEF KeyTypeOK, JobState
  <2> QED  BY <2>1, <2>2, VersionsTyped
         DEF SaltsGenerated, SaltFixesVersion, Material
<1>4. RotatingHonest'
  BY DEF RotatingHonest, KeyTypeOK, JobState, JobsShaped
<1>5. OrderlyJobs'
  BY DEF OrderlyJobs, KeyTypeOK, JobState, JobsShaped
<1>6. MemoryRecoverable'
  BY DEF MemoryRecoverable, OrderlyJobs, KeyTypeOK, JobState, JobsShaped, InMemory,
         Material
<1> QED  BY <1>1, <1>2, <1>3, <1>4, <1>5, <1>6 DEF KeyIInv

\* No step of the keys breaks their invariant.
LEMMA KeysKeep == KeyIInv /\ KeyNext => KeyIInv'
  BY LockKeeps, UnlockKeeps, RotateKeyKeeps, PurgeKeeps, ReadKeeps, StoreKeeps,
     StoreLostKeeps, CacheKeyKeeps, EraseKeeps, FailJobKeeps
  DEF KeyNext, KeyStep
=============================================================================

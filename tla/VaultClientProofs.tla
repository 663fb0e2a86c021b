--------------------------- MODULE VaultClientProofs ---------------------------
(***************************************************************************)
(* Theorems about VaultClient for any sets of calls, jobs, users, names    *)
(* and passwords, any limit of the counter and any platform.  They follow  *)
(* from the inductive invariant IInv, whose part for the keys is the       *)
(* business of KeyLifecycleProofs.                                         *)
(***************************************************************************)
EXTENDS VaultClient, KeyLifecycleProofs

\* Every call may end, in any of the ways there are.
LEMMA EndedTyped ==
  ASSUME NEW pc \in {"delivered", "undecipherable", "failed", "answered", "new"}
  PROVE  /\ Ended(pc) \in CallState
         /\ Ended(pc) = [Fresh EXCEPT !.pc = pc]
         /\ Ended(pc).answer = {} /\ Ended(pc).pc = pc
  BY DEF Ended, Fresh, CallState, OnItsWay, Row

\* The invariant holds when the page has been loaded.
LEMMA Initial == Init => IInv
<1> SUFFICES ASSUME Init PROVE IInv
  OBVIOUS
<1>1. KeyIInv
  BY KeyInitial DEF Init
<1>2. Fresh \in CallState /\ Fresh.answer = {} /\ Fresh.pc = "new"
  BY DEF Fresh, CallState, OnItsWay
<1>3. TypeOK
  BY <1>1, <1>2 DEF Init, TypeOK, KeyIInv
<1>4. IvCountersFresh /\ CountersBehind
  BY DEF Init, IvCountersFresh, CountersBehind
<1>5. CallsHonest /\ RowsWhole
  BY <1>2 DEF Init, CallsHonest, RowsWhole
<1> QED  BY <1>1, <1>3, <1>4, <1>5 DEF IInv, ClientIInv

\* The part of the state that the calls of the vault change together is kept
\* in order by replacing one call by an honest one.
LEMMA CallReplaced ==
  ASSUME ClientIInv, KeyTypeOK', NEW c \in Call, NEW q \in CallState,
         call' = [call EXCEPT ![c] = q],
         q.pc \in {"sealing", "sent", "adrift"} => HonestCall(c, q),
         \A row \in q.answer : WholeRow(row),
         session' \in [user : User \cup {None}, token : User \cup {None}],
         UNCHANGED <<counter, spent, rows>>
  PROVE  ClientIInv'
<1> USE DEF ClientIInv
<1>1. TypeOK'
  BY DEF TypeOK
<1>2. (IvCountersFresh /\ CountersBehind)'
  BY DEF IvCountersFresh, CountersBehind
<1>3. CallsHonest'
  BY DEF CallsHonest, HonestCall, TypeOK
<1>4. RowsWhole'
  BY DEF RowsWhole, WholeRow, TypeOK
<1> QED  BY <1>1, <1>2, <1>3, <1>4

\* A call goes on up to its next await: the next field, or the request.
LEMMA ProceedKeeps ==
  ASSUME ClientIInv, KeyTypeOK', NEW c \in Call, NEW q \in CallState,
         HonestCall(c, q), \A row \in q.answer : WholeRow(row),
         Proceed(c, q), UNCHANGED <<session, rows>>
  PROVE  ClientIInv'
<1>0. session \in [user : User \cup {None}, token : User \cup {None}]
  BY DEF ClientIInv, TypeOK
<1>1. CASE q.todo = {}
  <2> DEFINE r == [q EXCEPT !.pc = "sent", !.token = session.token]
  <2>0. session.token \in User \cup {None}
    BY <1>0
  <2>1. r \in CallState
    BY <2>0 DEF CallState, OnItsWay
  <2>2. HonestCall(c, r) /\ r.answer = q.answer
    BY DEF CallState, HonestCall
  <2>3. call' = [call EXCEPT ![c] = r] /\ UNCHANGED <<counter, spent>>
    BY <1>1 DEF Proceed
  <2> HIDE DEF r
  <2> QED  BY <1>0, <2>1, <2>2, <2>3, CallReplaced
<1>2. CASE q.todo # {} /\ counter > MaxCounter
  <2>1. /\ call' = [call EXCEPT ![c] = Ended("failed")]
        /\ counter' = counter + 1 /\ UNCHANGED spent
    BY <1>2 DEF Proceed, Draw
  <2>2. TypeOK'
    BY <2>1, EndedTyped DEF ClientIInv, TypeOK
  <2>3. (IvCountersFresh /\ CountersBehind)'
    BY <2>1 DEF ClientIInv, TypeOK, IvCountersFresh, CountersBehind
  <2>4. CallsHonest' /\ RowsWhole'
    BY <2>1, EndedTyped
    DEF ClientIInv, TypeOK, CallsHonest, HonestCall, RowsWhole, WholeRow
  <2> QED  BY <2>2, <2>3, <2>4 DEF ClientIInv
<1>3. CASE q.todo # {} /\ ~(counter > MaxCounter)
  <2> DEFINE r == [q EXCEPT !.pc = "sealing", !.todo = @ \ {Upcoming(q.todo)}]
  <2> DEFINE todo == q.todo \ {Upcoming(q.todo)}
  <2>0. todo \in SUBSET Field
    BY DEF CallState
  <2> HIDE DEF todo
  <2>1. r \in CallState /\ HonestCall(c, r) /\ r.answer = q.answer
    <3>1. r = [q EXCEPT !.pc = "sealing", !.todo = todo]
      BY DEF todo
    <3> HIDE DEF r
    <3>2. r \in CallState
      BY <2>0, <3>1 DEF CallState, OnItsWay
    <3>3. HonestCall(c, r) /\ r.answer = q.answer
      BY <3>1 DEF CallState, HonestCall
    <3> QED  BY <3>2, <3>3
  <2>2. /\ call' = [call EXCEPT ![c] = r]
        /\ counter' = counter + 1 /\ spent' = Append(spent, counter)
    BY <1>3 DEF Proceed, Draw
  <2> HIDE DEF r
  <2>3. TypeOK'
    BY <2>1, <2>2 DEF ClientIInv, TypeOK
  <2>4. (IvCountersFresh /\ CountersBehind)'
    BY <2>2 DEF ClientIInv, TypeOK, IvCountersFresh, CountersBehind
  <2>5. CallsHonest' /\ RowsWhole'
    BY <2>1, <2>2 DEF ClientIInv, TypeOK, CallsHonest, HonestCall, RowsWhole, WholeRow
  <2> QED  BY <2>3, <2>4, <2>5 DEF ClientIInv
<1> QED  BY <1>1, <1>2, <1>3

\* A call that needs a session and a key begins, or is refused.
LEMMA StartKeeps ==
  ASSUME ClientIInv, KeyTypeOK', NEW c \in Call, NEW q,
         SessionActive => q \in CallState /\ HonestCall(c, q) /\ q.answer = {},
         Start(c, q)
  PROVE  ClientIInv'
<1>1. CASE SessionActive
  <2>1. Proceed(c, q) /\ UNCHANGED <<session, rows>>
    BY <1>1 DEF Start
  <2> QED  BY <1>1, <2>1, ProceedKeeps
<1>2. CASE ~SessionActive
  <2>1. /\ call' = [call EXCEPT ![c] = Ended("failed")]
        /\ UNCHANGED <<counter, spent, session, rows>>
    BY <1>2 DEF Start
  <2>2. session' \in [user : User \cup {None}, token : User \cup {None}]
    BY <2>1 DEF ClientIInv, TypeOK
  <2> QED  BY <2>1, <2>2, EndedTyped, CallReplaced
<1> QED  BY <1>1, <1>2

\* While the session is active, a ciphertext is bound to a user and a key.
LEMMA SealedTyped ==
  ASSUME TypeOK, SessionActive,
         NEW item \in Call \cup {None}, NEW name \in Name \cup {None}
  PROVE  /\ Sealed(item, name) \in Blob
         /\ Sealed(item, name).item = item /\ Sealed(item, name).name = name
<1>1. memory.key \in Key
  BY DEF TypeOK, KeyTypeOK, SessionActive
<1>2. session.user \in User
  BY DEF TypeOK, SessionActive
<1> QED  BY <1>1, <1>2 DEF Sealed, Blob

LEMMA ListKeeps ==
  ASSUME ClientIInv, KeyTypeOK', NEW c \in Call, List(c)
  PROVE  ClientIInv'
<1> DEFINE q == [Fresh EXCEPT !.op = "list"]
<1>1. q \in CallState /\ HonestCall(c, q) /\ q.answer = {}
  BY DEF Fresh, CallState, OnItsWay, HonestCall
<1>2. Start(c, q)
  BY DEF List
<1> HIDE DEF q
<1> QED  BY <1>1, <1>2, StartKeeps

LEMMA CreateKeeps ==
  ASSUME ClientIInv, KeyTypeOK', NEW c \in Call, Create(c)
  PROVE  ClientIInv'
<1>1. PICK name \in Name, fields \in {{"password"}, Field} :
        Start(c, [Fresh EXCEPT !.op = "create", !.item = c, !.name = name,
                               !.fields = fields, !.todo = fields,
                               !.blob = Sealed(None, name)])
  BY DEF Create
<1> DEFINE blob == Sealed(None, name)
           q == [Fresh EXCEPT !.op = "create", !.item = c, !.name = name,
                              !.fields = fields, !.todo = fields, !.blob = blob]
<1>2. Start(c, q)
  BY <1>1
<1>3. SessionActive => blob \in Blob
  BY SealedTyped DEF ClientIInv
<1>4. fields \in SUBSET Field
  BY DEF Field
<1> HIDE DEF blob
<1>5. SessionActive => q \in CallState
  BY <1>3, <1>4 DEF Fresh, CallState, OnItsWay
<1>6. SessionActive => HonestCall(c, q) /\ q.answer = {}
  BY <1>3, ClientAssumption DEF Fresh, HonestCall
<1> HIDE DEF q
<1> QED  BY <1>2, <1>5, <1>6, StartKeeps

LEMMA UpdateKeeps ==
  ASSUME ClientIInv, KeyTypeOK', NEW c \in Call, Update(c)
  PROVE  ClientIInv'
<1>1. PICK i \in Call, name \in Name \cup {None}, fields \in SUBSET Field :
        Start(c, [Fresh EXCEPT !.op = "update", !.item = i, !.name = name,
                               !.fields = fields, !.todo = fields,
                               !.blob = Sealed(i, name)])
  BY DEF Update
<1> DEFINE blob == Sealed(i, name)
           q == [Fresh EXCEPT !.op = "update", !.item = i, !.name = name,
                              !.fields = fields, !.todo = fields, !.blob = blob]
<1>2. Start(c, q)
  BY <1>1
<1>3. SessionActive => blob \in Blob /\ blob.item = i /\ blob.name = name
  BY SealedTyped DEF ClientIInv
<1> HIDE DEF blob
<1>4. SessionActive => q \in CallState
  BY <1>3 DEF Fresh, CallState, OnItsWay
<1>5. SessionActive => HonestCall(c, q) /\ q.answer = {}
  BY <1>3, ClientAssumption DEF Fresh, HonestCall
<1> HIDE DEF q
<1> QED  BY <1>2, <1>4, <1>5, StartKeeps

LEMMA DeleteKeeps ==
  ASSUME ClientIInv, KeyTypeOK', NEW c \in Call, Delete(c)
  PROVE  ClientIInv'
<1>1. PICK i \in Call : Proceed(c, [Fresh EXCEPT !.op = "delete", !.item = i])
  BY DEF Delete
<1> DEFINE q == [Fresh EXCEPT !.op = "delete", !.item = i]
<1>2. q \in CallState
  BY DEF Fresh, CallState, OnItsWay
<1>3. HonestCall(c, q) /\ q.answer = {}
  BY ClientAssumption DEF Fresh, HonestCall
<1>4. Proceed(c, q) /\ UNCHANGED <<session, rows>>
  BY <1>1 DEF Delete
<1> HIDE DEF q
<1> QED  BY <1>2, <1>3, <1>4, ProceedKeeps

LEMMA EncryptedKeeps ==
  ASSUME ClientIInv, KeyTypeOK', NEW c \in Call, Encrypted(c)
  PROVE  ClientIInv'
<1>1. call[c] \in CallState /\ HonestCall(c, call[c])
  BY DEF ClientIInv, TypeOK, CallsHonest, Encrypted
<1>2. \A row \in call[c].answer : WholeRow(row)
  BY DEF ClientIInv, RowsWhole
<1>3. Proceed(c, call[c]) /\ UNCHANGED <<session, rows>>
  BY DEF Encrypted
<1> QED  BY <1>1, <1>2, <1>3, ProceedKeeps

\* The backend has read the row of an update: the call knows its name.
LEMMA ReadRowKeeps ==
  ASSUME ClientIInv, KeyTypeOK', NEW c \in Call, ReadRow(c)
  PROVE  ClientIInv'
<1> DEFINE q == [call[c] EXCEPT !.seen = rows[call[c].item].name]
<1>1. /\ call[c].pc \in {"sent", "adrift"} /\ call[c].op = "update"
      /\ rows[call[c].item] # None
      /\ call' = [call EXCEPT ![c].seen = rows[call[c].item].name]
      /\ UNCHANGED <<session, counter, spent, rows>>
  BY DEF ReadRow, Mine
<1>2. call[c] \in CallState /\ HonestCall(c, call[c])
  BY <1>1 DEF ClientIInv, TypeOK, CallsHonest
<1>3. \A row \in call[c].answer : WholeRow(row)
  BY DEF ClientIInv, RowsWhole
<1>4. call[c].item \in Call
  BY <1>1, <1>2 DEF CallState, HonestCall
<1>5. rows[call[c].item].name \in Name
  BY <1>1, <1>4 DEF ClientIInv, TypeOK, Row
<1>6. q \in CallState
  BY <1>2, <1>5 DEF CallState
<1>7. HonestCall(c, q) /\ q.answer = call[c].answer
  BY <1>2 DEF CallState, HonestCall
<1>8. call' = [call EXCEPT ![c] = q]
  BY <1>1
<1>9. session' \in [user : User \cup {None}, token : User \cup {None}]
  BY <1>1 DEF ClientIInv, TypeOK
<1> HIDE DEF q
<1> QED  BY <1>1, <1>3, <1>6, <1>7, <1>8, <1>9, CallReplaced

\* What the backend writes is a row, and whole only if it is.
LEMMA WrittenWhole ==
  ASSUME ClientIInv, NEW c \in Call, call[c].pc \in {"sent", "adrift"},
         call[c].token # None,
         \/ call[c].op = "create"
         \/ call[c].op = "update" /\ rows[call[c].item] # None
  PROVE  /\ Written(c) \in Row /\ WholeRow(Written(c))
         /\ call[c].item \in Call /\ Written(c).item = call[c].item
<1> DEFINE q == call[c]
<1>1. q \in CallState /\ HonestCall(c, q)
  BY DEF ClientIInv, TypeOK, CallsHonest
<1>2. q.item \in Call /\ q.blob \in Blob /\ q.token \in User
  BY <1>1 DEF CallState, HonestCall
<1>3. CASE q.op = "create"
  <2> DEFINE notes == IF "notes" \in q.fields THEN q.blob ELSE None
  <2>1. Written(c) = [item |-> c, owner |-> q.token, name |-> q.name,
                      password |-> q.blob, notes |-> notes, whole |-> FALSE]
    BY <1>3 DEF Written
  <2>2. q.name \in Name /\ q.item = c
    BY <1>1, <1>3 DEF CallState, HonestCall
  <2>3. notes \in Blob \cup {None}
    BY <1>2
  <2> HIDE DEF notes
  <2> QED  BY <1>2, <2>1, <2>2, <2>3 DEF Row, WholeRow
<1>4. CASE q.op = "update" /\ rows[q.item] # None
  <2> DEFINE old == rows[q.item]
             named == q.name \notin {None, q.seen}
             name == IF named THEN q.name ELSE old.name
             password == IF "password" \in q.fields THEN q.blob ELSE old.password
             notes == IF "notes" \in q.fields THEN q.blob ELSE old.notes
             whole == \/ q.fields = Field /\ (named \/ old.name = q.name)
                      \/ old.whole /\ ~named /\ q.fields = {}
  <2>1. old \in Row /\ old.item = q.item /\ WholeRow(old)
    BY <1>2, <1>4 DEF ClientIInv, TypeOK, RowsWhole
  <2>2. Written(c) = [old EXCEPT !.name = name, !.password = password,
                                 !.notes = notes, !.whole = whole]
    BY <1>4 DEF Written
  <2>3. name \in Name /\ password \in Blob /\ notes \in Blob \cup {None}
    BY <1>1, <1>2, <2>1 DEF CallState, Row
  <2>4. whole \in BOOLEAN
    OBVIOUS
  <2>5. q.blob.item = q.item /\ q.blob.name = q.name
    BY <1>1, <1>4 DEF HonestCall
  <2>6. whole => notes = password /\ password.item = q.item /\ password.name = name
    BY <2>1, <2>5 DEF WholeRow, Field
  <2> HIDE DEF named, name, password, notes, whole, old, q
  <2>7. Written(c) \in Row
    BY <2>1, <2>2, <2>3, <2>4 DEF Row
  <2>8. /\ Written(c).item = q.item /\ Written(c).name = name
        /\ Written(c).password = password /\ Written(c).notes = notes
        /\ Written(c).whole = whole
    BY <2>1, <2>2 DEF Row
  <2> QED  BY <1>2, <2>6, <2>7, <2>8 DEF WholeRow, q
<1> QED  BY <1>3, <1>4

\* The backend replaces a row, or removes one, and answers.
LEMMA ServeKeeps ==
  ASSUME ClientIInv, KeyTypeOK', NEW c \in Call, Serve(c)
  PROVE  ClientIInv'
<1> DEFINE q == call[c]
           listed == {rows[i] : i \in {k \in Call : Mine(q, k)}}
           end(answer) == IF q.pc = "adrift" THEN Ended("failed")
                          ELSE [Ended("answered") EXCEPT !.answer = answer]
<1>1. /\ q.pc \in {"sent", "adrift"} /\ q.token # None
      /\ UNCHANGED <<keyVars, session, counter, spent>>
  BY DEF Serve
<1>2. PICK answer \in SUBSET Row, row \in Row \cup {None}, i \in Call :
        /\ call' = [call EXCEPT ![c] = end(answer)]
        /\ \A r \in answer : WholeRow(r)
        /\ rows' = rows \/ rows' = [rows EXCEPT ![i] = row]
        /\ row # None => row.item = i /\ WholeRow(row)
  <2>1. CASE q.op = "list" /\ call' = [call EXCEPT ![c] = end(listed)]
             /\ UNCHANGED rows
    <3>1. listed \in SUBSET Row /\ \A r \in listed : WholeRow(r)
      BY DEF ClientIInv, TypeOK, RowsWhole, Mine
    <3> QED  BY <2>1, <3>1
  <2>2. CASE /\ \/ q.op = "create"
                \/ q.op = "update" /\ q.seen # None /\ rows[q.item] # None
             /\ rows' = [rows EXCEPT ![q.item] = Written(c)]
             /\ call' = [call EXCEPT ![c] = end({Written(c)})]
    <3>1. /\ Written(c) \in Row /\ WholeRow(Written(c))
          /\ q.item \in Call /\ Written(c).item = q.item
      BY <1>1, <2>2, WrittenWhole
    <3> DEFINE written == Written(c)
    <3>2. {written} \in SUBSET Row /\ \A r \in {written} : WholeRow(r)
      BY <3>1
    <3> HIDE DEF written, end
    <3> QED  BY <2>2, <3>1, <3>2 DEF written
  <2>3. CASE /\ q.op = "delete" /\ Mine(q, q.item)
             /\ rows' = [rows EXCEPT ![q.item] = None]
             /\ call' = [call EXCEPT ![c] = end({})]
    <3>1. q.item \in Call
      BY <1>1, <2>3 DEF ClientIInv, TypeOK, CallsHonest, HonestCall, CallState
    <3>2. {} \in SUBSET Row /\ \A r \in {} : WholeRow(r)
      OBVIOUS
    <3> HIDE DEF end
    <3> QED  BY <2>3, <3>1, <3>2
  <2> QED  BY <2>1, <2>2, <2>3 DEF Serve
<1>3. end(answer) \in CallState
  BY EndedTyped DEF CallState, OnItsWay
<1>4. /\ end(answer).pc \in {"failed", "answered"}
      /\ \A r \in end(answer).answer : WholeRow(r)
  BY <1>2, EndedTyped DEF CallState
<1> HIDE DEF end
<1>5. rows' \in [Call -> Row \cup {None}]
  BY <1>2 DEF ClientIInv, TypeOK
<1>6. TypeOK'
  BY <1>1, <1>2, <1>3, <1>5 DEF ClientIInv, TypeOK
<1>7. (IvCountersFresh /\ CountersBehind)'
  BY <1>1 DEF ClientIInv, IvCountersFresh, CountersBehind
<1>8. CallsHonest'
  BY <1>2, <1>4 DEF ClientIInv, TypeOK, CallsHonest, HonestCall
<1>9. RowsWhole'
  <2>1. \A k \in Call : rows'[k] # None => rows'[k].item = k /\ WholeRow(rows'[k])
    BY <1>2 DEF ClientIInv, TypeOK, RowsWhole
  <2>2. \A d \in Call : \A r \in call'[d].answer : WholeRow(r)
    BY <1>2, <1>4 DEF ClientIInv, TypeOK, RowsWhole
  <2> QED  BY <2>1, <2>2 DEF RowsWhole, WholeRow
<1> QED  BY <1>6, <1>7, <1>8, <1>9 DEF ClientIInv

LEMMA HttpErrorKeeps ==
  ASSUME ClientIInv, KeyTypeOK', NEW c \in Call, HttpError(c)
  PROVE  ClientIInv'
<1>1. /\ call' = [call EXCEPT ![c] = Ended("failed")]
      /\ UNCHANGED <<session, counter, spent, rows>>
  BY DEF HttpError
<1>2. session' \in [user : User \cup {None}, token : User \cup {None}]
  BY <1>1 DEF ClientIInv, TypeOK
<1> QED  BY <1>1, <1>2, EndedTyped, CallReplaced

LEMMA RequireReauthenticationKeeps ==
  ASSUME ClientIInv, KeyTypeOK', NEW c \in Call, RequireReauthentication(c)
  PROVE  ClientIInv'
<1>1. /\ call' = [call EXCEPT ![c] = Ended("failed")]
      /\ UNCHANGED <<counter, spent, rows>>
  BY DEF RequireReauthentication
<1>2. session' \in [user : User \cup {None}, token : User \cup {None}]
  BY DEF ClientIInv, TypeOK, RequireReauthentication
<1> QED  BY <1>1, <1>2, EndedTyped, CallReplaced

LEMMA ReceiveKeeps ==
  ASSUME ClientIInv, KeyTypeOK', NEW c \in Call, Receive(c)
  PROVE  ClientIInv'
<1>1. PICK pc \in {"delivered", "undecipherable", "failed"} :
        call' = [call EXCEPT ![c] = Ended(pc)]
  <2> DEFINE reader == [key |-> memory.key, user |-> session.user]
             readable ==
               \A row \in call[c].answer :
                 \A blob \in {row.password, row.notes} \ {None} :
                   Opens(blob, row, reader)
             pc == IF call[c].answer = {} THEN "delivered"
                   ELSE IF ~SessionActive THEN "failed"
                   ELSE IF readable THEN "delivered" ELSE "undecipherable"
  <2>1. call' = [call EXCEPT ![c] = Ended(pc)]
    BY DEF Receive
  <2>2. pc \in {"delivered", "undecipherable", "failed"}
    OBVIOUS
  <2> HIDE DEF pc
  <2> QED  BY <2>1, <2>2
<1>2. UNCHANGED <<session, counter, spent, rows>>
  BY DEF Receive
<1>3. session' \in [user : User \cup {None}, token : User \cup {None}]
  BY <1>2 DEF ClientIInv, TypeOK
<1>4. Ended(pc).pc = pc /\ Ended(pc).answer = {} /\ Ended(pc) \in CallState
  BY EndedTyped
<1> QED  BY <1>1, <1>2, <1>3, <1>4, CallReplaced

\* Only the session changes.
LEMMA SessionReplaced ==
  ASSUME ClientIInv, KeyTypeOK',
         session' \in [user : User \cup {None}, token : User \cup {None}],
         UNCHANGED <<counter, spent, rows, call>>
  PROVE  ClientIInv'
<1>1. TypeOK'
  BY DEF ClientIInv, TypeOK
<1>2. (IvCountersFresh /\ CountersBehind)'
  BY DEF ClientIInv, IvCountersFresh, CountersBehind
<1>3. (CallsHonest /\ RowsWhole)'
  BY DEF ClientIInv, CallsHonest, HonestCall, RowsWhole, WholeRow
<1> QED  BY <1>1, <1>2, <1>3 DEF ClientIInv

\* A new page draws its counters anew, and the requests of the old one go on.
LEMMA ReloadKeeps ==
  ASSUME ClientIInv, KeyTypeOK', Reload
  PROVE  ClientIInv'
<1>1. /\ session' = [user |-> None, token |-> None]
      /\ counter' = 0 /\ spent' = <<>> /\ rows' = rows
      /\ DOMAIN call' = Call
  BY DEF Reload
<1>2. ASSUME NEW c \in Call
      PROVE  \/ call'[c] = Ended("failed")
             \/ call[c].pc = "sent" /\ call'[c] = [call[c] EXCEPT !.pc = "adrift"]
             \/ call'[c] = call[c]
  <2>1. call[c] \in CallState
    BY DEF ClientIInv, TypeOK
  <2>2. call'[c] =
          IF call[c].pc \in {"sealing", "answered"}
          THEN Ended("failed")
          ELSE [call[c] EXCEPT !.pc = IF @ = "sent" THEN "adrift" ELSE @]
    BY DEF Reload, Ended
  <2> QED  BY <2>1, <2>2 DEF CallState
<1>3. ASSUME NEW c \in Call
      PROVE  /\ call'[c] \in CallState
             /\ call'[c].pc \in {"sealing", "sent", "adrift"} =>
                    HonestCall(c, call'[c])
             /\ \A row \in call'[c].answer : WholeRow(row)
  <2>1. call[c] \in CallState /\ \A row \in call[c].answer : WholeRow(row)
    BY DEF ClientIInv, TypeOK, RowsWhole
  <2>2. call[c].pc \in {"sealing", "sent", "adrift"} => HonestCall(c, call[c])
    BY DEF ClientIInv, CallsHonest
  <2>3. CASE call'[c] = Ended("failed")
    BY <2>3, EndedTyped
  <2>4. CASE call[c].pc = "sent" /\ call'[c] = [call[c] EXCEPT !.pc = "adrift"]
    <3> DEFINE r == [call[c] EXCEPT !.pc = "adrift"]
    <3>1. r \in CallState
      BY <2>1 DEF CallState
    <3>2. HonestCall(c, r) /\ r.answer = call[c].answer
      BY <2>1, <2>2, <2>4 DEF CallState, HonestCall
    <3> HIDE DEF r
    <3>3. call'[c] = r
      BY <2>4 DEF r
    <3> QED  BY <2>1, <3>1, <3>2, <3>3
  <2>5. CASE call'[c] = call[c]
    BY <2>1, <2>2, <2>5
  <2> QED  BY <1>2, <2>3, <2>4, <2>5
<1>4. TypeOK'
  BY <1>1, <1>3 DEF ClientIInv, TypeOK
<1>5. (IvCountersFresh /\ CountersBehind)'
  BY <1>1 DEF IvCountersFresh, CountersBehind
<1>6. CallsHonest'
  BY <1>3 DEF CallsHonest, HonestCall
<1>7. RowsWhole'
  BY <1>1, <1>3 DEF ClientIInv, RowsWhole, WholeRow
<1> QED  BY <1>4, <1>5, <1>6, <1>7 DEF ClientIInv

\* The steps of the vault's calls leave the keys alone.
LEMMA CallStepKeeps ==
  ASSUME IInv, NEW c \in Call, CallStep(c)
  PROVE  IInv'
<1>1. UNCHANGED keyVars
  BY DEF CallStep, List, Create, Update, Delete, Start, Encrypted, ReadRow, Serve,
         HttpError, RequireReauthentication, Receive
<1>2. KeyIInv' /\ KeyTypeOK'
  BY <1>1, KeyStutter DEF IInv, KeyIInv
<1>3. ClientIInv'
  BY <1>2, ListKeeps, CreateKeeps, UpdateKeeps, DeleteKeeps, EncryptedKeeps,
     ReadRowKeeps, ServeKeeps, HttpErrorKeeps, RequireReauthenticationKeeps, ReceiveKeeps
  DEF IInv, CallStep
<1> QED  BY <1>2, <1>3 DEF IInv

\* Every step keeps the invariant.
LEMMA Step == IInv /\ [Next]_vars => IInv'
<1> SUFFICES ASSUME IInv, [Next]_vars PROVE IInv'
  OBVIOUS
<1>0. session \in [user : User \cup {None}, token : User \cup {None}]
  BY DEF IInv, ClientIInv, TypeOK
<1>1. CASE KeyNext /\ UNCHANGED clientVars
  <2>1. KeyIInv' /\ KeyTypeOK'
    BY <1>1, KeysKeep DEF IInv, KeyIInv
  <2>2. UNCHANGED <<session, counter, spent, rows, call>>
    BY <1>1 DEF clientVars
  <2> QED  BY <1>0, <2>1, <2>2, SessionReplaced DEF IInv
<1>2. CASE \E c \in Call : CallStep(c)
  BY <1>2, CallStepKeeps
<1>3. CASE (\E u \in User : Login(u)) \/ Logout
  <2>1. UNCHANGED keyVars /\ UNCHANGED <<counter, spent, rows, call>>
    BY <1>3 DEF Login, Logout
  <2>2. session' \in [user : User \cup {None}, token : User \cup {None}]
    BY <1>3 DEF Login, Logout
  <2>3. KeyIInv' /\ KeyTypeOK'
    BY <2>1, KeyStutter DEF IInv, KeyIInv
  <2> QED  BY <2>1, <2>2, <2>3, SessionReplaced DEF IInv
<1>4. CASE Reload
  <2>1. KeyIInv' /\ KeyTypeOK'
    BY <1>4, ForgetKeeps DEF Reload, IInv, KeyIInv
  <2> QED  BY <1>4, <2>1, ReloadKeeps DEF IInv
<1>5. CASE UNCHANGED vars
  <2>1. UNCHANGED keyVars /\ UNCHANGED <<session, counter, spent, rows, call>>
    BY <1>5 DEF vars, clientVars
  <2>2. KeyIInv' /\ KeyTypeOK'
    BY <2>1, KeyStutter DEF IInv, KeyIInv
  <2> QED  BY <1>0, <2>1, <2>2, SessionReplaced DEF IInv
<1> QED  BY <1>1, <1>2, <1>3, <1>4, <1>5 DEF Next

\* The program's variables have their types.
THEOREM Typing == Spec => []TypeOK
<1>1. IInv => TypeOK
  BY DEF IInv, ClientIInv
<1> QED  BY <1>1, Initial, Step, PTL DEF Spec

\* Whatever the clients' asynchronous calls do and in whatever order they resume,
\* the inductive invariant holds.
THEOREM Invariance == Spec => []IInv
  BY Initial, Step, PTL DEF Spec

\* A salt and its version stay together in storage, in memory and in the calls of
\* KeyLifecycleService that have not resumed.
THEOREM SaltVersions == Spec => []SaltFixesVersion
<1>1. IInv => SaltFixesVersion
  BY DEF IInv, KeyIInv
<1> QED  BY <1>1, Initial, Step, PTL DEF Spec

\* keyState().rotating never outlives the calls of rotateKey.
THEOREM RotationsEnd == Spec => []RotatingHonest
<1>1. IInv => RotatingHonest
  BY DEF IInv, KeyIInv
<1> QED  BY <1>1, Initial, Step, PTL DEF Spec

\* While calls of KeyLifecycleService do not overlap and no acknowledged put is
\* lost, the key in memory is derived from what is in storage.
THEOREM Recoverable == Spec => []MemoryRecoverable
<1>1. IInv => MemoryRecoverable
  BY DEF IInv, KeyIInv
<1> QED  BY <1>1, Initial, Step, PTL DEF Spec

\* CryptoService gives no counter to two IVs of one page.
THEOREM FreshCounters == Spec => []IvCountersFresh
<1>1. IInv => IvCountersFresh
  BY DEF IInv, ClientIInv
<1> QED  BY <1>1, Initial, Step, PTL DEF Spec

\* Only the decryption of an answer ends a call that had one, as delivered when
\* all of it opened, else as undecipherable.
LEMMA OnlyReceive ==
  ASSUME IInv, [Next]_vars, NEW c \in Call, call[c].pc = "answered",
         call'[c].pc \in {"delivered", "undecipherable"}
  PROVE  Receive(c)
<1>0. DOMAIN call = Call
  BY DEF IInv, ClientIInv, TypeOK
<1>1. call'[c] # call[c]
  OBVIOUS
<1>2. ~(KeyNext /\ UNCHANGED clientVars) /\ ~UNCHANGED vars /\ ~Logout
      /\ ~\E u \in User : Login(u)
  BY <1>1 DEF clientVars, vars, Logout, Login
<1>3. ~Reload
  BY DEF Reload, Fresh
<1>4. PICK d \in Call : CallStep(d)
  BY <1>2, <1>3 DEF Next
<1>5. d = c
  <2>1. ASSUME NEW q, Start(d, q) PROVE \E r : call' = [call EXCEPT ![d] = r]
    BY <2>1 DEF Start, Proceed, Draw
  <2>2. ASSUME NEW q, Proceed(d, q) PROVE \E r : call' = [call EXCEPT ![d] = r]
    BY <2>2 DEF Proceed, Draw
  <2>3. List(d) \/ Create(d) \/ Update(d) => \E r : call' = [call EXCEPT ![d] = r]
    BY <2>1 DEF List, Create, Update
  <2>4. Delete(d) \/ Encrypted(d) => \E r : call' = [call EXCEPT ![d] = r]
    BY <2>2 DEF Delete, Encrypted
  <2>5. Serve(d) \/ ReadRow(d) => \E r : call' = [call EXCEPT ![d] = r]
    BY DEF Serve, ReadRow
  <2>6. HttpError(d) \/ RequireReauthentication(d) \/ Receive(d) =>
          \E r : call' = [call EXCEPT ![d] = r]
    BY DEF HttpError, RequireReauthentication, Receive
  <2>7. PICK r : call' = [call EXCEPT ![d] = r]
    BY <1>4, <2>3, <2>4, <2>5, <2>6 DEF CallStep
  <2> QED  BY <1>0, <1>1, <2>7
<1>6. ~HttpError(c)
  BY <1>0, EndedTyped DEF HttpError
<1>7. Receive(c)
  BY <1>1, <1>4, <1>5, <1>6 DEF CallStep, List, Create, Update, Delete, Start,
     Encrypted, ReadRow, Serve, RequireReauthentication
<1> QED  BY <1>7

\* Whatever logins, logouts and rotations happen while an answer is on its way,
\* what the user sees was encrypted by the same user.
THEOREM NoForeign == Spec => NoForeignPlaintext
<1>1. ASSUME IInv, [Next]_vars, NEW c \in Call,
             call[c].pc = "answered", call'[c].pc = "delivered",
             NEW row \in call[c].answer,
             NEW blob \in {row.password, row.notes} \ {None}
      PROVE  blob.user = session.user /\ blob.key = memory.key
  <2>1. Receive(c)
    BY <1>1, OnlyReceive
  <2>2. DOMAIN call = Call
    BY <1>1 DEF IInv, ClientIInv, TypeOK
  <2>3. Opens(blob, row, [key |-> memory.key, user |-> session.user])
    BY <1>1, <2>1, <2>2 DEF Receive, Ended, Fresh
  <2> QED  BY <2>3 DEF Opens
<1>2. IInv /\ [Next]_vars =>
        \A c \in Call :
          call[c].pc = "answered" /\ call'[c].pc = "delivered" =>
            \A row \in call[c].answer :
              \A blob \in {row.password, row.notes} \ {None} :
                blob.user = session.user /\ blob.key = memory.key
  BY <1>1
<1> QED  BY <1>2, Initial, Step, PTL DEF Spec, NoForeignPlaintext

\* An item that one update wrote as a whole can be decrypted, unless the user or
\* the key has changed since: the associated data of encryption and decryption
\* agree, whatever other updates of the item the backend carried out between
\* reading the row for this one and writing it, or did between those of others.
THEOREM WholeReadable == Spec => WholeItemsReadable
<1>1. ASSUME IInv, [Next]_vars, NEW c \in Call,
             call[c].pc = "answered", call'[c].pc = "undecipherable"
      PROVE  \E row \in call[c].answer :
               \/ ~row.whole
               \/ row.password.user # session.user
               \/ row.password.key # memory.key
  <2> DEFINE reader == [key |-> memory.key, user |-> session.user]
  <2>1. Receive(c)
    BY <1>1, OnlyReceive
  <2>2. DOMAIN call = Call /\ call[c] \in CallState
    BY <1>1 DEF IInv, ClientIInv, TypeOK
  <2>3. PICK row \in call[c].answer : \E blob \in {row.password, row.notes} \ {None} :
          ~Opens(blob, row, reader)
    BY <1>1, <2>1, <2>2 DEF Receive, Ended, Fresh
  <2>4. row \in Row /\ WholeRow(row)
    BY <1>1, <2>2 DEF IInv, ClientIInv, RowsWhole, CallState
  <2>5. row.password \in Blob
    BY <2>4 DEF Row
  <2>6. SUFFICES ASSUME row.whole, row.password.user = session.user,
                        row.password.key = memory.key
                 PROVE  FALSE
    BY <2>4 DEF Row
  <2>7. row.password = [key |-> memory.key, user |-> session.user,
                        item |-> row.item, name |-> row.name]
    BY <2>4, <2>5, <2>6 DEF WholeRow, Blob
  <2>8. row.notes = row.password
    BY <2>4, <2>6 DEF WholeRow
  <2> QED  BY <2>3, <2>7, <2>8 DEF Opens
<1>2. IInv /\ [Next]_vars =>
        \A c \in Call :
          call[c].pc = "answered" /\ call'[c].pc = "undecipherable" =>
            \E row \in call[c].answer :
               \/ ~row.whole
               \/ row.password.user # session.user
               \/ row.password.key # memory.key
  BY <1>1
<1> QED  BY <1>2, Initial, Step, PTL DEF Spec, WholeItemsReadable
=============================================================================

------------------------------ MODULE VaultClient ------------------------------
(***************************************************************************)
(* One browser tab of the Angular client: the vault service encrypts with  *)
(* the key of KeyLifecycle, under associated data that binds a ciphertext  *)
(* to a user, an item and a service name, and decrypts what the backend    *)
(* answers.  A call of the service is used once and gives way while it     *)
(* encrypts and while it waits for the backend; meanwhile the session may  *)
(* change hands, the key may rotate, the page may be loaded again.         *)
(*                                                                         *)
(* An item is named by the call that created it.  A ciphertext is what it  *)
(* opens under: AES-GCM returns the plaintext for the same key and         *)
(* associated data and fails for any other.  The backend is reduced to its *)
(* table; an update reads its row in one step and writes it in another,    *)
(* any other request is one step; VaultApi models the handlers.            *)
(***************************************************************************)
EXTENDS KeyLifecycle, Sequences

CONSTANTS
    Call,       \* calls of list, create, update and delete
    User,
    Name,       \* service names
    MaxCounter  \* 0xffffffff in the code

VARIABLES
    session,    \* userId and, as the user it was issued to, accessToken
    counter,    \* the counter of CryptoService
    spent,      \* history: the counters that went into IVs of this page
    rows,       \* rows[c]: the vault row inserted by create c, or None
    call        \* call[c]: what call c knows, and where it is

clientVars == <<session, counter, spent, rows, call>>

vars == <<keyVars, clientVars>>

Field == {"password", "notes"}

Blob == [key : Key, user : User, item : Call \cup {None},
         name : Name \cup {None}]

\* whole is history: name, password and notes are those of one update, and no
\* other has written any of them since.
Row == [item : Call, owner : User, name : Name, password : Blob,
        notes : Blob \cup {None}, whole : BOOLEAN]

ASSUME ClientAssumption ==
    /\ None \notin Call \cup User \cup Name
    /\ None \notin Blob
    /\ None \notin Row
    /\ MaxCounter \in Nat

Fresh ==
    [op |-> None, pc |-> "new", name |-> None, fields |-> {}, todo |-> {},
     blob |-> None, token |-> None, item |-> None, seen |-> None,
     answer |-> {}]

\* A call that has ended with pc: what it knew is gone.
Ended(pc) == [Fresh EXCEPT !.pc = pc]

\* adrift: the page is gone, the request is not.
OnItsWay == {"sealing", "sent", "answered"}

\* seen: the name of the row that the backend has read for an update, and that
\* decides whether the update changes the name.
CallState ==
    [op : {None, "list", "create", "update", "delete"},
     pc : OnItsWay \cup {"new", "adrift", "delivered", "undecipherable", "failed"},
     name : Name \cup {None}, fields : SUBSET Field, todo : SUBSET Field,
     blob : Blob \cup {None}, token : User \cup {None},
     item : Call \cup {None}, seen : Name \cup {None}, answer : SUBSET Row]

TypeOK ==
    /\ KeyTypeOK
    /\ session \in [user : User \cup {None}, token : User \cup {None}]
    /\ counter \in Nat
    /\ spent \in Seq(Nat)
    /\ rows \in [Call -> Row \cup {None}]
    /\ DOMAIN call = Call
    /\ \A c \in Call : call[c] \in CallState

Init ==
    /\ KeyInit
    /\ session = [user |-> None, token |-> None]
    /\ counter = 0
    /\ spent = <<>>
    /\ rows = [c \in Call |-> None]
    /\ call = [c \in Call |-> Fresh]

-----------------------------------------------------------------------------
\* requireSession: a user is known and a key is in memory.  It does not ask
\* whether there is an access token.
SessionActive == session.user # None /\ memory.key # None

\* encryptBlob with buildAAD under the present user and key.
Sealed(item, name) ==
    [key |-> memory.key, user |-> session.user, item |-> item, name |-> name]

\* The field that is encrypted next.
Upcoming(todo) == IF "password" \in todo THEN "password" ELSE "notes"

\* Mutant: both fields of an item are encrypted with one IV.
DrawOnce(c, q) ==
    /\ counter' = IF q.todo = Field THEN counter ELSE counter + 1
    /\ IF counter > MaxCounter
       THEN /\ call' = [call EXCEPT ![c] = Ended("failed")]
            /\ UNCHANGED spent
       ELSE /\ call' = [call EXCEPT ![c] =
                          [q EXCEPT !.pc = "sealing",
                                    !.todo = @ \ {Upcoming(q.todo)}]]
            /\ spent' = Append(spent, counter)

\* nextCounter and generateIV, which throws once the counter has run out, and
\* the beginning of encryptBlob: call c, as q, encrypts its next field.
Draw(c, q) ==
    /\ counter' = counter + 1
    /\ IF counter > MaxCounter
       THEN /\ call' = [call EXCEPT ![c] = Ended("failed")]
            /\ UNCHANGED spent
       ELSE /\ call' = [call EXCEPT ![c] =
                          [q EXCEPT !.pc = "sealing",
                                    !.todo = @ \ {Upcoming(q.todo)}]]
            /\ spent' = Append(spent, counter)

\* Call c goes on as q, up to its next await: the next field or, when all are
\* encrypted, the request, to which the interceptor attaches the access token
\* of this moment.
Proceed(c, q) ==
    \/ /\ q.todo # {}
       /\ Draw(c, q)
    \/ /\ q.todo = {}
       /\ call' = [call EXCEPT ![c] = [q EXCEPT !.pc = "sent",
                                                !.token = session.token]]
       /\ UNCHANGED <<counter, spent>>

\* Call c of operation op, which needs a session and a key, begins as q.
Start(c, q) ==
    /\ call[c].pc = "new"
    /\ IF SessionActive THEN Proceed(c, q)
       ELSE /\ call' = [call EXCEPT ![c] = Ended("failed")]
            /\ UNCHANGED <<counter, spent>>
    /\ UNCHANGED <<keyVars, session, rows>>

List(c) == Start(c, [Fresh EXCEPT !.op = "list"])

\* The item has no id yet, so the empty string takes its place.
Create(c) ==
    \E name \in Name, fields \in {{"password"}, Field} :
        Start(c, [Fresh EXCEPT !.op = "create", !.item = c, !.name = name,
                               !.fields = fields, !.todo = fields,
                               !.blob = Sealed(None, name)])

\* Mutant: the associated data never names the service.
UpdateNameless(c) ==
    \E i \in Call, name \in Name \cup {None}, fields \in SUBSET Field :
        /\ rows[i] # None
        /\ Start(c, [Fresh EXCEPT !.op = "update", !.item = i, !.name = name,
                                  !.fields = fields, !.todo = fields,
                                  !.blob = Sealed(i, None)])

\* Any of service_name, password and notes may be left out; without the name
\* (None) the empty string takes its place in the associated data.
Update(c) ==
    \E i \in Call, name \in Name \cup {None}, fields \in SUBSET Field :
        /\ rows[i] # None
        /\ Start(c, [Fresh EXCEPT !.op = "update", !.item = i, !.name = name,
                                  !.fields = fields, !.todo = fields,
                                  !.blob = Sealed(i, name)])

\* delete asks for neither a session nor a key.
Delete(c) ==
    /\ call[c].pc = "new"
    /\ \E i \in Call :
        /\ rows[i] # None
        /\ Proceed(c, [Fresh EXCEPT !.op = "delete", !.item = i])
    /\ UNCHANGED <<keyVars, session, rows>>

\* A field is encrypted.
Encrypted(c) ==
    /\ call[c].pc = "sealing"
    /\ Proceed(c, call[c])
    /\ UNCHANGED <<keyVars, session, rows>>

-----------------------------------------------------------------------------
\* The row is there and belongs to the user of the request.
Mine(q, i) == rows[i] # None /\ rows[i].owner = q.token

\* update_vault reads the row it is going to change.
ReadRow(c) ==
    LET q == call[c]
    IN /\ q.pc \in {"sent", "adrift"} /\ q.op = "update" /\ q.seen = None
       /\ q.token # None /\ Mine(q, q.item)
       /\ call' = [call EXCEPT ![c].seen = rows[q.item].name]
       /\ UNCHANGED <<keyVars, session, counter, spent, rows>>

\* The row of the item after the backend has carried out call c.  An update
\* commits the columns whose values differ from what it has read, which a
\* ciphertext under a new IV always does.
Written(c) ==
    LET q == call[c]
        named == q.name \notin {None, q.seen}
        put(field, old) == IF field \in q.fields THEN q.blob ELSE old
    IN CASE q.op = "create" ->
              [item |-> c, owner |-> q.token, name |-> q.name,
               password |-> q.blob, notes |-> put("notes", None),
               whole |-> FALSE]
         [] q.op = "update" ->
              [rows[q.item] EXCEPT
                  !.name = IF named THEN q.name ELSE @,
                  !.password = put("password", @),
                  !.notes = put("notes", @),
                  !.whole = \/ /\ q.fields = Field
                               /\ named \/ rows[q.item].name = q.name
                            \/ @ /\ ~named /\ q.fields = {}]

\* The backend carries out the request of call c for the user of its token.
\* Requests that outlive their page are carried out all the same.
Serve(c) ==
    LET q == call[c]
        answered(answer) ==
            call' = [call EXCEPT ![c] =
                IF q.pc = "adrift" THEN Ended("failed")
                ELSE [Ended("answered") EXCEPT !.answer = answer]]
    IN /\ q.pc \in {"sent", "adrift"}
       /\ q.token # None
       /\ \/ /\ q.op = "list"
             /\ answered({rows[i] : i \in {k \in Call : Mine(q, k)}})
             /\ UNCHANGED rows
          \/ /\ \/ q.op = "create"
                \/ q.op = "update" /\ q.seen # None /\ rows[q.item] # None
             /\ rows' = [rows EXCEPT ![q.item] = Written(c)]
             /\ answered({Written(c)})
          \/ /\ q.op = "delete" /\ Mine(q, q.item)
             /\ rows' = [rows EXCEPT ![q.item] = None]
             /\ answered({})
       /\ UNCHANGED <<keyVars, session, counter, spent>>

\* An error of the network, or an error answer that asks for nothing.
HttpError(c) ==
    /\ call[c].pc \in {"sent", "answered"}
    /\ call' = [call EXCEPT ![c] = Ended("failed")]
    /\ UNCHANGED <<keyVars, session, counter, spent, rows>>

\* The interceptor on a 401 with ReauthenticationRequired, whatever has become
\* of the session since the request was sent.  userId and deviceId stay.
RequireReauthentication(c) ==
    /\ call[c].pc = "sent" /\ call[c].seen = None
    /\ call' = [call EXCEPT ![c] = Ended("failed")]
    /\ session' = [session EXCEPT !.token = None]
    /\ UNCHANGED <<keyVars, counter, spent, rows>>

\* Mutant: the associated data does not name the user.
OpensForAnyone(blob, row, reader) ==
    blob = [key |-> reader.key, user |-> blob.user, item |-> row.item,
            name |-> row.name]

\* decryptBlob with the associated data of the row and of the reader.
Opens(blob, row, reader) ==
    blob = [key |-> reader.key, user |-> reader.user, item |-> row.item,
            name |-> row.name]

\* decryptItem of every row of the answer, under the user and the key of this
\* moment.  One ciphertext that does not open rejects the whole call.
Receive(c) ==
    LET q == call[c]
        reader == [key |-> memory.key, user |-> session.user]
        readable ==
            \A row \in q.answer :
                \A blob \in {row.password, row.notes} \ {None} :
                    Opens(blob, row, reader)
    IN /\ q.pc = "answered"
       /\ call' = [call EXCEPT ![c] =
            Ended(IF q.answer = {} THEN "delivered"
                  ELSE IF ~SessionActive THEN "failed"
                  ELSE IF readable THEN "delivered" ELSE "undecipherable")]
       /\ UNCHANGED <<keyVars, session, counter, spent, rows>>

-----------------------------------------------------------------------------
\* A login has been verified: handleSuccess replaces the session.
Login(u) ==
    /\ session' = [user |-> u, token |-> u]
    /\ UNCHANGED <<keyVars, counter, spent, rows, call>>

\* AuthService.logout forgets the session and leaves the key in memory.
Logout ==
    /\ session' = [user |-> None, token |-> None]
    /\ UNCHANGED <<keyVars, counter, spent, rows, call>>

\* The page is loaded again: every service is constructed anew.
Reload ==
    /\ ForgetJobs
    /\ session' = [user |-> None, token |-> None]
    /\ counter' = 0
    /\ spent' = <<>>
    /\ call' = [c \in Call |->
            IF call[c].pc \in {"sealing", "answered"}
            THEN [Fresh EXCEPT !.pc = "failed"]
            ELSE [call[c] EXCEPT !.pc = IF @ = "sent" THEN "adrift" ELSE @]]
    /\ UNCHANGED rows

CallStep(c) ==
    \/ List(c)
    \/ Create(c)
    \/ Update(c)
    \/ Delete(c)
    \/ Encrypted(c)
    \/ ReadRow(c)
    \/ Serve(c)
    \/ HttpError(c)
    \/ RequireReauthentication(c)
    \/ Receive(c)

Next ==
    \/ KeyNext /\ UNCHANGED clientVars
    \/ \E c \in Call : CallStep(c)
    \/ \E u \in User : Login(u)
    \/ Logout
    \/ Reload

Spec == Init /\ [][Next]_vars

-----------------------------------------------------------------------------
\* No counter goes into two IVs of one page, however calls that give way between
\* their password and their notes interleave.
IvCountersFresh ==
    \A m, n \in DOMAIN spent : spent[m] = spent[n] => m = n

\* A user sees only what the same user encrypted, although the session may have
\* changed hands while the answer was on its way and although neither logout nor
\* login takes the key out of memory.
NoForeignPlaintext ==
    [][\A c \in Call :
        call[c].pc = "answered" /\ call'[c].pc = "delivered" =>
            \A row \in call[c].answer :
                \A blob \in {row.password, row.notes} \ {None} :
                    blob.user = session.user /\ blob.key = memory.key]_vars

\* An item whose name, password and notes were last written together by an
\* update can be read: a call that fails to decrypt met another item, or a user
\* or key other than the one that encrypted it.
WholeItemsReadable ==
    [][\A c \in Call :
        call[c].pc = "answered" /\ call'[c].pc = "undecipherable" =>
            \E row \in call[c].answer :
                \/ ~row.whole
                \/ row.password.user # session.user
                \/ row.password.key # memory.key]_vars

\* Whatever is stored is encrypted under the associated data that decryption
\* rebuilds from its row.
StoredIsReadable ==
    \A i \in Call : rows[i] # None =>
        \A blob \in {rows[i].password, rows[i].notes} \ {None} :
            blob.item = i /\ blob.name = rows[i].name

-----------------------------------------------------------------------------
\* The inductive invariant of VaultClientProofs, the client's part.

\* The next IV takes a counter that none has had.
CountersBehind == \A m \in DOMAIN spent : spent[m] < counter

\* A call that writes knows its item and has a ciphertext; that of an update is
\* bound to its item and its name.
HonestCall(c, q) ==
    /\ q.op = "create" => q.item = c /\ q.name # None /\ q.blob # None
    /\ q.op = "delete" => q.item # None
    /\ q.op = "update" => /\ q.item # None /\ q.blob # None
                          /\ q.blob.item = q.item /\ q.blob.name = q.name

CallsHonest ==
    \A c \in Call :
        call[c].pc \in {"sealing", "sent", "adrift"} => HonestCall(c, call[c])

\* What one update wrote is one ciphertext, bound to the row as it is.
WholeRow(row) ==
    row.whole => /\ row.notes = row.password
                 /\ row.password.item = row.item
                 /\ row.password.name = row.name

RowsWhole ==
    /\ \A i \in Call : rows[i] # None => rows[i].item = i /\ WholeRow(rows[i])
    /\ \A c \in Call : \A row \in call[c].answer : WholeRow(row)

ClientIInv ==
    /\ TypeOK
    /\ IvCountersFresh
    /\ CountersBehind
    /\ CallsHonest
    /\ RowsWhole

IInv == KeyIInv /\ ClientIInv
=============================================================================

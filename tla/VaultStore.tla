----------------------------- MODULE VaultStore -----------------------------
(***************************************************************************)
(* What the vault endpoints promise about the items of a user, without     *)
(* IVs, caches, blobs or time.  A request asks for some columns of one     *)
(* item and takes effect at most once, between its arrival and its answer, *)
(* on all those columns together.  A column that already holds what is     *)
(* asked for when the item is read counts as written there and then.       *)
(***************************************************************************)
CONSTANTS
    Request,
    Column,
    Wish,       \* what a request may ask for: values for some columns
    Bad,        \* a value that must not be stored
    None        \* a column without a value; no item

VARIABLES
    item,       \* an item is named by the request that added it
    phase,      \* where each request is
    target,     \* the item it is about
    wish,       \* what it asks for
    due         \* the columns it has still to write

vars == <<item, phase, target, wish, due>>

Nothing == [k \in Column |-> None]
NoWish == [k \in {} |-> None]

Init ==
    /\ item = [s \in Request |-> [status |-> "absent", content |-> Nothing]]
    /\ phase = [r \in Request |-> "idle"]
    /\ target = [r \in Request |-> None]
    /\ wish = [r \in Request |-> NoWish]
    /\ due = [r \in Request |-> {}]

Arrive(r, s, w, ph, columns) ==
    /\ phase[r] = "idle"
    /\ phase' = [phase EXCEPT ![r] = ph]
    /\ target' = [target EXCEPT ![r] = s]
    /\ wish' = [wish EXCEPT ![r] = w]
    /\ due' = [due EXCEPT ![r] = columns]
    /\ UNCHANGED item

\* The item a request may still write: one that exists, or its own.
Open(r, s) == item[s].status = IF s = r THEN "absent" ELSE "stored"

Ask(r, s, w) ==
    /\ Arrive(r, s, w, "open", {k \in DOMAIN w : w[k] # item[s].content[k]})
    /\ Open(r, s)

AskErase(r, s) ==
    /\ Arrive(r, s, NoWish, "erasing", {})
    /\ item[s].status = "stored"

TurnAway(r, s, w) == Arrive(r, s, w, "refused", {})

\* The request leaves for good, or goes on, without an effect.
Move(r, from, to) ==
    /\ phase[r] \in from
    /\ phase' = [phase EXCEPT ![r] = to]
    /\ due' = [due EXCEPT ![r] = {}]
    /\ UNCHANGED <<item, target, wish>>

\* The columns still due are written together, the others left alone.
Written(r, content) == [k \in Column |-> IF k \in due[r] THEN wish[r][k] ELSE content[k]]

Apply(r) ==
    /\ phase[r] = "open"
    /\ \A k \in DOMAIN wish[r] : wish[r][k] # Bad
    /\ due[r] # {} => Open(r, target[r])
    /\ item' = IF due[r] = {} THEN item
               ELSE [item EXCEPT ![target[r]] =
                       [status |-> "stored", content |-> Written(r, @.content)]]
    /\ phase' = [phase EXCEPT ![r] = "applied"]
    /\ due' = [due EXCEPT ![r] = {}]
    /\ UNCHANGED <<target, wish>>

Erase(r) ==
    /\ phase[r] = "erasing"
    /\ item' = [item EXCEPT ![target[r]] = [status |-> "deleted", content |-> Nothing]]
    /\ phase' = [phase EXCEPT ![r] = "deleted"]
    /\ UNCHANGED <<target, wish, due>>

Refuse(r) == Move(r, {"open"}, "refused")
Confirm(r) == Move(r, {"applied"}, "written") /\ item[target[r]].status = "stored"
Lose(r) == Move(r, {"open", "erasing", "applied"}, "lost")

Next ==
    \E r \in Request :
        \/ \E s \in Request :
             \/ \E w \in Wish : Ask(r, s, w) \/ TurnAway(r, s, w)
             \/ AskErase(r, s) \/ TurnAway(r, s, NoWish)
        \/ Apply(r) \/ Erase(r)
        \/ Refuse(r) \/ Confirm(r) \/ Lose(r)

Spec == Init /\ [][Next]_vars

=============================================================================

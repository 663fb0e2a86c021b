----------------------------- MODULE Ceremonies -----------------------------
(***************************************************************************)
(* What the registration and login ceremonies promise to the rest of the   *)
(* backend, without Redis, indexes, counters or time.  A challenge is      *)
(* spent once; a request that spends one logs in the device the challenge  *)
(* was made for, if its authenticator approved and the device is active    *)
(* after that, or adds a device to an account that has none in use.        *)
(***************************************************************************)
CONSTANTS Request, User, Credential, None

VARIABLES
    account,    \* the users that exist
    device,     \* a device is named by the request that added it
    challenge,  \* a challenge is named by the request that made it
    approved,   \* the challenges an authenticator has answered
    phase,      \* how far each request got with the challenge it spent
    spent       \* that challenge

vars == <<account, device, challenge, approved, phase, spent>>

InUse(u) == {d \in Request : device[d].status = "active" /\ device[d].user = u}
Added(k) == \E d \in Request : device[d].status # "absent" /\ device[d].cred = k

\* There may be devices already: one per account and credential.
Init ==
    /\ \A d \in Request :
         \/ device[d] = [status |-> "absent", user |-> None, cred |-> None]
         \/ /\ device[d].status = "active" /\ device[d].user \in account
            /\ InUse(device[d].user) = {d}
            /\ \A e \in Request \ {d} : device[e].cred # device[d].cred
    /\ challenge = [c \in Request |->
         [status |-> "none", purpose |-> "registration", user |-> None, dev |-> None]]
    /\ approved = {}
    /\ phase = [r \in Request |-> IF device[r].status = "absent" THEN "idle" ELSE "added"]
    /\ spent = [r \in Request |-> None]

OpenAccount(u) ==
    /\ account' = account \cup {u}
    /\ UNCHANGED <<device, challenge, approved, phase, spent>>

Offer(c, purpose, u, d) ==
    /\ challenge[c].status = "none"
    /\ challenge' = [challenge EXCEPT ![c] =
         [status |-> "stored", purpose |-> purpose, user |-> u, dev |-> d]]
    /\ UNCHANGED <<account, device, approved, phase, spent>>

OfferRegistration(c, u) == Offer(c, "registration", u, None)

OfferLogin(c, d) ==
    /\ Offer(c, "authentication", device[d].user, d)
    /\ device[d].status # "absent"

Approve(c) ==
    /\ challenge[c].purpose = "authentication"
    /\ approved' = approved \cup {c}
    /\ UNCHANGED <<account, device, challenge, phase, spent>>

Gone(c) ==
    /\ challenge[c].status = "stored"
    /\ challenge' = [challenge EXCEPT ![c].status = "gone"]

\* The challenge expires, or is wasted on a request that cannot use it.
Waste(c) == Gone(c) /\ UNCHANGED <<account, device, approved, phase, spent>>

Spend(r, c) ==
    /\ Gone(c)
    /\ phase[r] = "idle"
    /\ phase' = [phase EXCEPT ![r] =
         IF challenge[c].purpose = "authentication" THEN "proving" ELSE "adding"]
    /\ spent' = [spent EXCEPT ![r] = c]
    /\ UNCHANGED <<account, device, approved>>

Move(r, from, to) ==
    /\ phase[r] \in from
    /\ phase' = [phase EXCEPT ![r] = to]
    /\ UNCHANGED <<account, device, challenge, approved, spent>>

Prove(r) ==
    /\ Move(r, {"proving"}, "proven")
    /\ spent[r] \in approved
    /\ device[challenge[spent[r]].dev].status = "active"

LogIn(r) == Move(r, {"proven"}, "loggedIn")
GiveUp(r) == Move(r, {"proving", "proven", "adding"}, "over")

AddDevice(r, k) ==
    LET u == challenge[spent[r]].user IN
    /\ phase[r] = "adding"
    /\ u \in account /\ InUse(u) = {} /\ ~Added(k)
    /\ device' = [device EXCEPT ![r] = [status |-> "active", user |-> u, cred |-> k]]
    /\ phase' = [phase EXCEPT ![r] = "added"]
    /\ UNCHANGED <<account, challenge, approved, spent>>

Deactivate(d) ==
    /\ device[d].status = "active"
    /\ device' = [device EXCEPT ![d].status = "inactive"]
    /\ UNCHANGED <<account, challenge, approved, phase, spent>>

Next ==
    \/ \E u \in User : OpenAccount(u)
    \/ \E r \in Request :
         \/ \E u \in User : OfferRegistration(r, u)
         \/ \E d \in Request : OfferLogin(r, d)
         \/ Approve(r) \/ Waste(r) \/ Deactivate(r)
         \/ \E c \in Request : Spend(r, c)
         \/ Prove(r) \/ LogIn(r) \/ GiveUp(r)
         \/ \E k \in Credential : AddDevice(r, k)

Spec == Init /\ [][Next]_vars

=============================================================================

-------------------------- MODULE SessionContract --------------------------
(***************************************************************************)
(* What the session service promises to the rest of the backend, without   *)
(* tokens, locks, Redis or time: sessions open and close, devices are      *)
(* switched off, and a request is let through only while its session is    *)
(* open and its device is usable.                                          *)
(***************************************************************************)
CONSTANTS Client, Device, None

VARIABLES
    status,     \* of each session: "absent", "live" or "revoked"
    owner,      \* the device of each session
    active,     \* is the device usable
    admitted    \* the requests let through

vars == <<status, owner, active, admitted>>

Init ==
    /\ status = [s \in Client |-> "absent"]
    /\ owner = [s \in Client |-> None]
    /\ active = [d \in Device |-> TRUE]
    /\ admitted = {}

Open(s, d) ==
    /\ status[s] = "absent"
    /\ status' = [status EXCEPT ![s] = "live"]
    /\ owner' = [owner EXCEPT ![s] = d]
    /\ UNCHANGED <<active, admitted>>

Close(s) ==
    /\ status[s] = "live"
    /\ status' = [status EXCEPT ![s] = "revoked"]
    /\ UNCHANGED <<owner, active, admitted>>

Disable(d) ==
    /\ active' = [active EXCEPT ![d] = FALSE]
    /\ UNCHANGED <<status, owner, admitted>>

Admit(r, s) ==
    /\ status[s] = "live"
    /\ active[owner[s]]
    /\ admitted' = admitted \cup {<<r, s>>}
    /\ UNCHANGED <<status, owner, active>>

Next ==
    \/ \E s \in Client, d \in Device : Open(s, d)
    \/ \E s \in Client : Close(s)
    \/ \E d \in Device : Disable(d)
    \/ \E r, s \in Client : Admit(r, s)

Spec == Init /\ [][Next]_vars

============================================================================

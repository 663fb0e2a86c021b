----------------------------- MODULE MCWebAuthn -----------------------------
(***************************************************************************)
(* WebAuthn on a small instance.  The requests are numbers and arrive in    *)
(* their order: they are interchangeable, so that a behaviour in which they *)
(* arrive in another order is one of these with other names.                *)
(***************************************************************************)
EXTENDS WebAuthn

Turn(r) == \A q \in Request : q < r => req[q].pc # "new"

MCNext ==
    \E r \in Request : \/ Turn(r) /\ Arrive(r)
                       \/ Continue(r) \/ Fail(r)
                       \/ Sign(r) \/ Expire(r) \/ Deactivate(r) \/ Flag(r)

MCSpec == Init /\ [][MCNext]_vars /\ \A r \in Request : WF_vars(Continue(r))

=============================================================================

----------------------------- MODULE MCVaultClient -----------------------------
(* Jobs, calls, users, names and passwords are interchangeable. *)
EXTENDS VaultClient, TLC

Symmetry ==
    Permutations(Job) \cup Permutations(Call) \cup Permutations(User)
        \cup Permutations(Name)
=============================================================================

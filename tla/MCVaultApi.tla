----------------------------- MODULE MCVaultApi -----------------------------
\* VaultApi on small instances: b1 and b2 share an IV, b3 has its own.
EXTENDS VaultApi, TLC

CONSTANTS b1, b2, b3, i1, i2, n1, n2

MCBlob == {b1, b2, b3}
MCIvOf == b1 :> i1 @@ b2 :> i1 @@ b3 :> i2

Form(name, pwd, notes) == [name |-> name, pwd |-> pwd, notes |-> notes]

\* Whole items, one with bad notes, one bad throughout; changes of one column.
MCPayload ==
    {Form(n1, b1, None), Form(n2, b2, b3), Form(n1, b3, Malformed),
     Form(n1, Malformed, None),
     Form(n2, None, None), Form(None, b3, None), Form(None, None, b2)}

Symmetry == Permutations(Request)

=============================================================================

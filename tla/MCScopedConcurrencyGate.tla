---------------------- MODULE MCScopedConcurrencyGate ----------------------
(* Two repositories of one installation, an item without a repository and an unscoped one. *)
EXTENDS ScopedConcurrencyGate, TLC

CONSTANTS o1, o2, o3, o4, o5

Keys(i, r) == [installation |-> i, repository |-> r]

MCOps == {o1, o2, o3, o4, o5}

MCScope == o1 :> Keys("i1", "r1") @@ o2 :> Keys("i1", "r1") @@ o3 :> Keys("i1", "r2")
           @@ o4 :> Keys("i1", NoKey) @@ o5 :> Keys(NoKey, NoKey)
=============================================================================

------------------------------- MODULE KeySet -------------------------------
(***************************************************************************)
(* What a search tree promises: a set of keys that changes by one key.     *)
(***************************************************************************)
CONSTANT Keys
VARIABLE keys

Init == keys = {}

Add(k) == k \notin keys /\ keys' = keys \cup {k}

Delete(k) == k \in keys /\ keys' = keys \ {k}

Next == \E k \in Keys : Add(k) \/ Delete(k)

Spec == Init /\ [][Next]_keys
=============================================================================

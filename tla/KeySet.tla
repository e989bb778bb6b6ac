------------------------------- MODULE KeySet -------------------------------
(* What the hash table of a cache server promises: a set of keys that only   *)
(* insertion and deletion change.                                            *)
CONSTANT Keys
VARIABLE keys

Init == keys = {}
Insert(k) == k \notin keys /\ keys' = keys \cup {k}
Delete(k) == k \in keys /\ keys' = keys \ {k}
Next == \E k \in Keys : Insert(k) \/ Delete(k)
Spec == Init /\ [][Next]_keys
=============================================================================

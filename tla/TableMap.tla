------------------------------ MODULE TableMap ------------------------------
(***************************************************************************)
(* What a MemoryTable promises its users: a map from keys to values, where *)
(* an insertion may be refused and nothing else changes what is stored.    *)
(***************************************************************************)
CONSTANTS Key, Value,
          NoValue  \* what a key without a value maps to

VARIABLE map

Init == map = [k \in Key |-> NoValue]

Insert(k, v) == map' = [map EXCEPT ![k] = v]

Remove(k) == map' = [map EXCEPT ![k] = NoValue]

Next == \E k \in Key : Remove(k) \/ \E v \in Value : Insert(k, v)

Spec == Init /\ [][Next]_map
=============================================================================

------------------------------ MODULE LruCache ------------------------------
(***************************************************************************)
(* What the caches of labs/lab2 promise: every set is an LruSet.           *)
(* MemHierarchy keeps its caches like this; LruWays, which keeps the ways  *)
(* and timestamps of the code, implements it.                              *)
(***************************************************************************)
EXTENDS LruSet

CONSTANTS Tag, NumSets, NumWays

VARIABLE sets

Init == sets = [s \in 0 .. NumSets - 1 |-> <<>>]

\* l1_cache_access, and the part of l2_cache_probe that looks a block up
Access(tag) ==
  IF Holds(sets[tag % NumSets], tag)
    THEN sets' = [sets EXCEPT ![tag % NumSets] = Touched(@, tag)]
    ELSE UNCHANGED sets

\* l1_insert_block and l2_insert_block
Insert(tag) == sets' = [sets EXCEPT ![tag % NumSets] = Inserted(@, tag, NumWays)]

Next == \E tag \in Tag : Access(tag) \/ Insert(tag)

Spec == Init /\ [][Next]_sets
=============================================================================

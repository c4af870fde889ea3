--------------------------- MODULE MCMemHierarchy ---------------------------
(* Instances of MemHierarchy for TLC. *)
EXTENDS MemHierarchy

\* the allocator hands out the lowest free address; no code compares addresses
MCMalloc(free) == IF free = {} THEN {} ELSE {CHOOSE p \in free : \A q \in free : p <= q}

MCPointer == 1 .. 9
MCTag3 == 0 .. 2

\* a fully associative instruction cache and a direct-mapped data cache
MCL1Ways == [c \in L1 |-> IF c = "inst" THEN 2 ELSE 1]
MCL1Sets == [c \in L1 |-> IF c = "inst" THEN 1 ELSE 2]
=============================================================================

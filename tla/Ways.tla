-------------------------------- MODULE Ways --------------------------------
(***************************************************************************)
(* A set-associative cache as the code keeps it: each set is an array of   *)
(* ways with valid bits, tags and int timestamps, searched way by way.     *)
(* labs/lab1/src/cache.c, labs/lab2/src/l1_cache.c and l2_cache.c share    *)
(* these data and searches.                                                *)
(***************************************************************************)
EXTENDS Integers

CONSTANTS
  Tag,            \* block numbers; addresses if the cache is disabled
  NumSets,        \* num_sets
  NumWays,        \* num_ways
  IntMin, IntMax  \* range of an int: -2^31 and 2^31 - 1 in the code

VARIABLES
  blocks,
  timestamp,      \* counts accesses, and in labs/lab2 insertions
  overflowed      \* history: has the timestamp overflowed?

Set == 0 .. NumSets - 1
Way == 0 .. NumWays - 1
Int32 == IntMin .. IntMax

ASSUME TagAssumption == Tag \subseteq Nat /\ 0 \in Tag
ASSUME SetAssumption == NumSets \in Nat \ {0}
ASSUME WayAssumption == NumWays \in Nat \ {0}
ASSUME IntAssumption == IntMin \in Int /\ IntMax \in Nat \ {0} /\ IntMin < 0

\* ++ of an int in memory; it overflows, which wraps around in the builds the
\* Makefiles make
Incremented(n) == IF n = IntMax THEN IntMin ELSE n + 1

Index(tag) == tag % NumSets

FirstOf(S) == CHOOSE w \in S : \A v \in S : w <= v

Hits(set, tag) == {w \in Way : set[w].valid /\ set[w].tag = tag}
Invalid(set) == {w \in Way : ~set[w].valid}

\* the first way with the lowest or the highest value of a field
Lowest(set, key) == FirstOf({w \in Way : \A v \in Way : set[w][key] <= set[v][key]})
Highest(set, key) == FirstOf({w \in Way : \A v \in Way : set[v][key] <= set[w][key]})
=============================================================================

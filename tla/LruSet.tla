------------------------------- MODULE LruSet -------------------------------
(***************************************************************************)
(* One set of a cache with LRU replacement, as the sequence of the tags it *)
(* holds, least recently used first.  l1_cache.c and l2_cache.c keep a     *)
(* timestamp in every way instead: LruWays has the ways and the timestamps *)
(* and implements a cache of these sets (LruCache).                        *)
(***************************************************************************)
EXTENDS Integers, SequencesExt

Holds(set, tag) == \E i \in DOMAIN set : set[i] = tag

\* an access that hits promotes the block to the MRU position
Touched(set, tag) ==
  Append(RemoveAt(set, CHOOSE i \in DOMAIN set : set[i] = tag), tag)

\* mutant: a block that is there already is inserted once more
InsertedTwice(set, tag, ways) ==
  IF Len(set) < ways THEN Append(set, tag) ELSE Append(Tail(set), tag)

\* an insertion leaves a block that is there alone, fills an invalid way, or
\* evicts the least recently used block
Inserted(set, tag, ways) ==
  IF Holds(set, tag) THEN set
  ELSE IF Len(set) < ways THEN Append(set, tag)
  ELSE Append(Tail(set), tag)

\* what every set of a cache satisfies: no tag twice, no more tags than ways
WellFormed(set, ways) ==
  /\ Len(set) <= ways
  /\ \A i, j \in DOMAIN set : i # j => set[i] # set[j]
=============================================================================

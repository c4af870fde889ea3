------------------------------ MODULE LruWays ------------------------------
(***************************************************************************)
(* A cache of labs/lab2 (l1_cache.c, l2_cache.c) with its ways and         *)
(* timestamps.  The timestamp counts accesses and insertions of the whole  *)
(* cache; the stages that stall repeat their accesses in every cycle.      *)
(***************************************************************************)
EXTENDS Ways, SequencesExt

lruVars == <<blocks, timestamp, overflowed>>

L1_Cache_Block == [valid : BOOLEAN, tag : Tag, last_access : Int32]

\* write_block, with the timestamp of the access in progress
WriteBlock(s, w, tag) ==
  blocks' = [blocks EXCEPT ![s][w] = [valid |-> TRUE, tag |-> tag, last_access |-> timestamp']]

Tick ==
  /\ timestamp' = Incremented(timestamp)
  /\ overflowed' = (overflowed \/ timestamp' < timestamp)
-----------------------------------------------------------------------------
LruInit ==
  /\ blocks = [s \in Set |-> [w \in Way |-> [valid |-> FALSE, tag |-> 0, last_access |-> 0]]]
  /\ timestamp = 0
  /\ overflowed = FALSE

\* a hit promotes the block, a miss leaves the set alone (and probes the next level)
LruAccess(tag) ==
  LET s == Index(tag)  hits == Hits(blocks[s], tag) IN
    /\ Tick
    /\ IF hits = {} THEN UNCHANGED blocks ELSE WriteBlock(s, FirstOf(hits), tag)

\* mutant: a block that is there already is promoted
InsertPromotes(tag) ==
  LET s == Index(tag)  set == blocks[s] IN
    /\ Tick
    /\ IF Hits(set, tag) # {} THEN WriteBlock(s, FirstOf(Hits(set, tag)), tag)
       ELSE IF Invalid(set) # {} THEN WriteBlock(s, FirstOf(Invalid(set)), tag)
       ELSE WriteBlock(s, Lowest(set, "last_access"), tag)

\* a block that is there already is left alone
LruInsert(tag) ==
  LET s == Index(tag)  set == blocks[s] IN
    /\ Tick
    /\ IF Hits(set, tag) # {} THEN UNCHANGED blocks
       ELSE IF Invalid(set) # {} THEN WriteBlock(s, FirstOf(Invalid(set)), tag)
       ELSE WriteBlock(s, Lowest(set, "last_access"), tag)

LruNext == \E tag \in Tag : LruAccess(tag) \/ LruInsert(tag)

LruSpec == LruInit /\ [][LruNext]_lruVars
-----------------------------------------------------------------------------
\* the valid ways of a set, from the oldest timestamp to the newest
InTimeOrder(set, ways) ==
  /\ \A i, j \in DOMAIN ways : i < j => set[ways[i]].last_access < set[ways[j]].last_access
  /\ {ways[i] : i \in DOMAIN ways} = Way \ Invalid(set)

\* and the tags in them; while the timestamps of a set differ there is one such order
ByTimestamp(set) ==
  LET ways == CHOOSE q \in SeqOf(Way, NumWays) : InTimeOrder(set, q)
  IN [i \in DOMAIN ways |-> set[ways[i]].tag]

Lru == INSTANCE LruCache WITH sets <- [s \in Set |-> ByTimestamp(blocks[s])]

\* As long as the timestamp has not overflowed the cache implements LruCache,
\* operation by operation: the timestamps of the whole cache order every set,
\* those of repeated and of late operations included.
ImplementsLru ==
  /\ Lru!Init
  /\ [][~overflowed' =>
          \A tag \in Tag : /\ LruAccess(tag) => Lru!Access(tag)
                           /\ LruInsert(tag) => Lru!Insert(tag)]_lruVars
=============================================================================

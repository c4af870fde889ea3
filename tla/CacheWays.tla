----------------------------- MODULE CacheWays -----------------------------
(***************************************************************************)
(* The caches of labs/lab1 (cache.c): one cache with any of the six        *)
(* replacement policies, or disabled.  Recency is a timestamp every way    *)
(* keeps of its last access, arrival a counter of insertions.              *)
(***************************************************************************)
EXTENDS Ways

CONSTANT Policies  \* policies the cache may be configured with

ASSUME PolicyAssumption ==
  Policies \subseteq {"LRU_LRU", "LRU_MRU", "MRU_MRU", "MRU_LRU", "FIFO", "LIFO"}

VARIABLES
  enabled,         \* total_size # 0
  policy,
  insert_counter,  \* counts insertions
  result           \* what the last access returned

vars == <<enabled, policy, blocks, timestamp, insert_counter, result, overflowed>>

Cache_Block == [valid : BOOLEAN, tag : Tag, last_access : Int32, insert_timestamp : Int32]
Cache_Result == {"CACHE_MISS", "CACHE_HIT"}
-----------------------------------------------------------------------------
\* write_block
Written(b, tag, t) == [b EXCEPT !.valid = TRUE, !.tag = tag, !.last_access = t]

Inserted(b, tag, t, n) == [Written(b, tag, t) EXCEPT !.insert_timestamp = n]

\* mutant: FIFO goes by the last access
VictimByAccess(set) ==
  CASE policy \in {"LRU_LRU", "LRU_MRU", "FIFO"} -> Lowest(set, "last_access")
    [] policy \in {"MRU_MRU", "MRU_LRU"} -> Highest(set, "last_access")
    [] policy = "LIFO" -> Highest(set, "insert_timestamp")

\* the way a policy evicts
Victim(set) ==
  CASE policy \in {"LRU_LRU", "LRU_MRU"} -> Lowest(set, "last_access")
    [] policy \in {"MRU_MRU", "MRU_LRU"} -> Highest(set, "last_access")
    [] policy = "FIFO" -> Lowest(set, "insert_timestamp")
    [] policy = "LIFO" -> Highest(set, "insert_timestamp")

\* the timestamp of a block that is inserted at the LRU or the MRU position
InsertionTime(set) ==
  IF policy \in {"LRU_LRU", "MRU_LRU"} THEN set[Lowest(set, "last_access")].last_access
                                       ELSE timestamp'

Hit(tag, s) ==
  /\ \E w \in Hits(blocks[s], tag) :
       /\ \A v \in Hits(blocks[s], tag) : w <= v
       /\ blocks' = [blocks EXCEPT ![s][w] = Written(@, tag, timestamp')]
  /\ result' = "CACHE_HIT"
  /\ UNCHANGED insert_counter

FillInvalid(tag, s) ==
  /\ Hits(blocks[s], tag) = {}
  /\ insert_counter' = Incremented(insert_counter)
  /\ \E w \in Invalid(blocks[s]) :
       /\ \A v \in Invalid(blocks[s]) : w <= v
       /\ blocks' = [blocks EXCEPT ![s][w] = Inserted(@, tag, timestamp', insert_counter')]
  /\ result' = "CACHE_MISS"

Replace(tag, s) ==
  /\ Hits(blocks[s], tag) = {} /\ Invalid(blocks[s]) = {}
  /\ IF policy \in {"FIFO", "LIFO"}
       THEN /\ insert_counter' = Incremented(insert_counter)
            /\ blocks' = [blocks EXCEPT ![s][Victim(blocks[s])] =
                            Inserted(@, tag, timestamp', insert_counter')]
       ELSE /\ blocks' = [blocks EXCEPT ![s][Victim(blocks[s])] =
                            Written(@, tag, InsertionTime(blocks[s]))]
            /\ UNCHANGED insert_counter
  /\ result' = "CACHE_MISS"

\* cache_access
Access(tag) ==
  /\ enabled
  /\ timestamp' = Incremented(timestamp)
  /\ overflowed' = (overflowed \/ timestamp' < timestamp)
  /\ Hit(tag, Index(tag)) \/ FillInvalid(tag, Index(tag)) \/ Replace(tag, Index(tag))
  /\ UNCHANGED <<enabled, policy>>

\* mutant: the address is not compared
AccessDisabledAny(addr) ==
  /\ ~enabled
  /\ result' = IF blocks[0][0].valid THEN "CACHE_HIT" ELSE "CACHE_MISS"
  /\ blocks' = [blocks EXCEPT ![0][0] = [@ EXCEPT !.tag = addr, !.valid = (result' = "CACHE_MISS")]]
  /\ UNCHANGED <<enabled, policy, timestamp, insert_counter, overflowed>>

\* cache_access of a disabled cache: a hit on the second access, and the only
\* block is invalid again
AccessDisabled(addr) ==
  /\ ~enabled
  /\ result' = IF blocks[0][0].valid /\ blocks[0][0].tag = addr THEN "CACHE_HIT" ELSE "CACHE_MISS"
  /\ blocks' = [blocks EXCEPT ![0][0] = [@ EXCEPT !.tag = addr, !.valid = (result' = "CACHE_MISS")]]
  /\ UNCHANGED <<enabled, policy, timestamp, insert_counter, overflowed>>
-----------------------------------------------------------------------------
\* cache_init; calloc clears the blocks
Init ==
  /\ enabled \in BOOLEAN
  /\ policy \in Policies
  /\ blocks = [s \in Set |-> [w \in Way |->
                [valid |-> FALSE, tag |-> 0, last_access |-> 0, insert_timestamp |-> 0]]]
  /\ timestamp = 0 /\ insert_counter = 0
  /\ result = "CACHE_MISS"
  /\ overflowed = FALSE

Next == \E tag \in Tag : Access(tag) \/ AccessDisabled(tag)

Spec == Init /\ [][Next]_vars
-----------------------------------------------------------------------------
TypeOK ==
  /\ enabled \in BOOLEAN /\ policy \in Policies
  /\ blocks \in [Set -> [Way -> Cache_Block]]
  /\ timestamp \in Int32 /\ insert_counter \in Int32
  /\ result \in Cache_Result /\ overflowed \in BOOLEAN

\* report_cache.tex: "The cache is disabled for a size of zero, so every request has
\* a memory latency."  The block keeps the address of the last access, and an
\* access hits only if the one before it missed with the same address: no
\* request is answered by what an earlier one, a stall or a redirected fetch
\* left behind.
DisabledWaits ==
  [][~enabled /\ result' = "CACHE_HIT" =>
       result = "CACHE_MISS" /\ blocks'[0][0].tag = blocks[0][0].tag]_vars
=============================================================================

---------------------------- MODULE CachePolicies ----------------------------
(***************************************************************************)
(* CacheWays beside OrderedCache: both see the same accesses, so held and  *)
(* before are history variables that say which blocks the policy by its    *)
(* name would keep, and in which order.                                    *)
(***************************************************************************)
EXTENDS CacheWays

VARIABLES held, before

Order == INSTANCE OrderedCache

allVars == <<vars, held, before>>

OrderInit == Init /\ Order!Init

AccessBoth(tag) == Access(tag) /\ Order!Access(tag)
DisabledBoth(tag) == AccessDisabled(tag) /\ UNCHANGED <<held, before>>

OrderNext == \E tag \in Tag : AccessBoth(tag) \/ DisabledBoth(tag)

OrderSpec == OrderInit /\ [][OrderNext]_allVars
-----------------------------------------------------------------------------
TagsOf(s) == {blocks[s][w].tag : w \in {v \in Way : blocks[s][v].valid}}

\* As long as the timestamps have not overflowed, the cache holds the blocks
\* its policy promises: the comparisons of timestamps and counters find the
\* block in the LRU, MRU, first-in or last-in position ("evict LRU block",
\* "evict MRU block", "insert at LRU location", "insert at MRU location"),
\* whatever hits and replacements in this and other sets wrote before.
SameBlocks == enabled /\ ~overflowed => \A s \in Set : held[s] = TagsOf(s)
=============================================================================

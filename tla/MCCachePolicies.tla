--------------------------- MODULE MCCachePolicies ---------------------------
(* Instances of CachePolicies for TLC. *)
EXTENDS CachePolicies

\* three blocks compete for the two ways of set 0; block 1 is alone in set 1
\* but its accesses and insertion are counted as well
MCTag == {0, 1, 2, 4}

MCIntMin == -1

MCPolicies == Order!Cache_Policy \ {"MRU_LRU"}
=============================================================================

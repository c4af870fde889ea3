----------------------------- MODULE MCLruWays -----------------------------
(* Instances of LruWays for TLC. *)
EXTENDS LruWays

\* four blocks compete for the ways of set 0, block 1 is alone in set 1
MCTag == {0, 1, 2, 4, 6}
MCIntMin == -1
=============================================================================

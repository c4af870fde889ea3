------------------------------ MODULE MCMemory ------------------------------
(* Instances of Memory for TLC. *)
EXTENDS Memory

\* tags 0, 2 and 4 share bank 0 of two, and 0 and 2 share a row as well
MCTag == {0, 1, 2, 4}

\* cache blocks are interchangeable pointers
BlockSymmetry == Permutations(Cache_Block)
=============================================================================

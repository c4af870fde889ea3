------------------------------ MODULE MCMarkov ------------------------------
(* Instances of Markov for TLC. *)
EXTENDS Markov

\* Three pages of one set: the tag of page 0 is that of ways never written.
MCPage == {0, 1, 2}
MCDegree == {2}
=============================================================================

------------------------------- MODULE MCFdp -------------------------------
(* Instances of Fdp for TLC: the five levels of the code.  Two instructions *)
(* share the only entry of the index table.                                *)
EXTENDS Fdp

MCIp == 0 .. 1
MCAddr == 70 .. 72
MCAggressivness == 0 .. 4
MCDistance == <<4, 8, 16, 32, 48>>
MCDegree == <<1, 1, 2, 4, 4>>
MCDistanceTable == [a \in MCAggressivness |-> MCDistance[a + 1]]
MCDegreeTable == [a \in MCAggressivness |-> MCDegree[a + 1]]
=============================================================================

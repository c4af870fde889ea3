---------------------------- MODULE MCController ----------------------------
(* Instances of Controller for TLC: two cores, two banks, two rows in one.  *)
EXTENDS Controller

MCAddr == {"a", "b", "c"}
MCBankOf == [x \in MCAddr |-> IF x = "c" THEN "bank1" ELSE "bank0"]
MCRowOf == [x \in MCAddr |-> IF x = "b" THEN 1 ELSE 0]
W(c, t, a) == [core |-> c, type |-> t, addr |-> a]
MCWorkload == {W(0, "READ", "a"), W(0, "READ", "c"), W(1, "READ", "b"), W(1, "WRITE", "a")}
MCMaxReads == [c \in {0, 1} |-> 2 - c]
AllPolicies == Policy

\* a delay of two leaves one cycle in which the command is not ready
T(level, from, to) == [level : {level}, from : from, to : to, val : {2}]
MCTiming ==
  T("Channel", {"RD"}, {"RD"}) \cup T("Rank", {"WR"}, {"RD", "PREA"})
  \cup T("Rank", {"PREA"}, {"REF"})
  \cup T("Rank", {"REF"}, {"ACT"}) \cup T("Bank", {"ACT"}, {"RD", "WR"})
  \cup T("Bank", {"WR"}, {"PRE"}) \cup T("Bank", {"PRE"}, {"ACT"})
=============================================================================

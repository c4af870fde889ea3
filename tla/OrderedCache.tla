---------------------------- MODULE OrderedCache ----------------------------
(***************************************************************************)
(* What the six replacement policies of labs/lab1 promise, as labelled in  *)
(* the report (<replacement>_<insertion>) and commented in cache.c: every  *)
(* set of the cache is ordered, from the LRU or first-in to the MRU or     *)
(* last-in position, a hit promotes a block to the MRU position, and a     *)
(* miss in a full set replaces the block in one end of the order by one    *)
(* that is inserted at one end.                                            *)
(***************************************************************************)
EXTENDS Integers, FiniteSets

CONSTANTS Tag, NumSets, NumWays

VARIABLES
  policy,  \* replacement policy
  held,    \* the blocks in each set
  before   \* their order: pairs of blocks, the one closer to LRU first

Cache_Policy == {"LRU_LRU", "LRU_MRU", "MRU_MRU", "MRU_LRU", "FIFO", "LIFO"}
EvictsFirst == {"LRU_LRU", "LRU_MRU", "FIFO"}
InsertsFirst == {"LRU_LRU", "MRU_LRU"}
Promotes == Cache_Policy \ {"FIFO", "LIFO"}

Set == 0 .. NumSets - 1
-----------------------------------------------------------------------------
Without(order, tag) == {p \in order : p[1] # tag /\ p[2] # tag}

\* a block not in S is put in front of the blocks in S, or behind them
InFront(order, S, tag) == order \cup ({tag} \X S)
Behind(order, S, tag) == order \cup (S \X {tag})

IsVictim(s, tag) ==
  \A other \in held[s] \ {tag} :
    IF policy \in EvictsFirst THEN <<tag, other>> \in before[s]
                              ELSE <<other, tag>> \in before[s]

Init ==
  /\ policy \in Cache_Policy
  /\ held = [s \in Set |-> {}]
  /\ before = [s \in Set |-> {}]

Hit(s, tag) ==
  /\ tag \in held[s]
  /\ before' = IF policy \in Promotes
                 THEN [before EXCEPT ![s] = Behind(Without(@, tag), held[s] \ {tag}, tag)]
                 ELSE before
  /\ UNCHANGED <<policy, held>>

Fill(s, tag) ==
  /\ tag \notin held[s] /\ Cardinality(held[s]) < NumWays
  /\ held' = [held EXCEPT ![s] = @ \cup {tag}]
  /\ before' = [before EXCEPT ![s] = Behind(@, held[s], tag)]
  /\ UNCHANGED policy

Replace(s, tag, victim) ==
  /\ tag \notin held[s] /\ Cardinality(held[s]) >= NumWays
  /\ victim \in held[s] /\ IsVictim(s, victim)
  /\ held' = [held EXCEPT ![s] = (@ \ {victim}) \cup {tag}]
  /\ before' = [before EXCEPT ![s] =
                  IF policy \in InsertsFirst
                    THEN InFront(Without(@, victim), held[s] \ {victim}, tag)
                    ELSE Behind(Without(@, victim), held[s] \ {victim}, tag)]
  /\ UNCHANGED policy

Access(tag) ==
  LET s == tag % NumSets IN
    Hit(s, tag) \/ Fill(s, tag) \/ \E victim \in held[s] : Replace(s, tag, victim)

Next == \E tag \in Tag : Access(tag)

Spec == Init /\ [][Next]_<<policy, held, before>>
=============================================================================

-------------------------------- MODULE Ghb --------------------------------
(***************************************************************************)
(* The stride prefetcher of labs/lab4 with a global history buffer         *)
(* (inc/ghb.h, class GHB).                                                 *)
(*                                                                         *)
(* ghb is a ring of the last GHB_SIZE loads of all instructions.  The      *)
(* loads of one instruction are chained by prev, from the most recent one, *)
(* which the index table it points to, to older ones; next and it lead     *)
(* back.  A load overwrites the oldest slot, cuts the references to it and *)
(* puts itself in front of the chain of its instruction.  If the last      *)
(* three loads of the chain are equidistant, it predicts the next ones.    *)
(*                                                                         *)
(* Addresses are cache-line addresses: cl_addr in the code.                *)
(***************************************************************************)
EXTENDS Integers

CONSTANTS
  Ip,               \* instruction pointers
  Addr,             \* cache-line addresses
  NULL,
  IT_SIZE, GHB_SIZE,
  PageLines,        \* cache lines per page: 64 in the code
  Aggressivness,    \* aggressivness_t: 0 .. 4 in the code
  MIDDLE_OF_THE_ROAD,
  pf_distance_table, pf_degree_table

It == 0 .. IT_SIZE - 1
Slot == 0 .. GHB_SIZE - 1

ASSUME IpAssumption == Ip \subseteq Nat /\ Addr \subseteq Nat
ASSUME NullAssumption == NULL \notin Ip /\ NULL \notin Addr /\ NULL \notin It /\ NULL \notin Slot
ASSUME SizeAssumption ==
  IT_SIZE \in Nat \ {0} /\ GHB_SIZE \in Nat \ {0} /\ PageLines \in Nat \ {0}
ASSUME TableAssumption ==
  /\ MIDDLE_OF_THE_ROAD \in Aggressivness
  /\ pf_distance_table \in [Aggressivness -> Nat]
  /\ pf_degree_table \in [Aggressivness -> Nat]

VARIABLES
  it,               \* the index table
  ghb,              \* the global history buffer
  ghb_head_idx,     \* slot the next load is written to
  aggressivness, prefetch_distance, prefetch_degree,
  pf_addr_list,     \* what the last load predicted, as a set
  owner             \* history: the instruction whose load is in a slot

level == <<aggressivness, prefetch_distance, prefetch_degree>>
vars == <<it, ghb, ghb_head_idx, level, pf_addr_list, owner>>
-----------------------------------------------------------------------------
Index(ip) == ip % IT_SIZE

\* the index table when the instruction has taken its entry
Taken(ip) ==
  IF it[Index(ip)].ip # ip THEN [it EXCEPT ![Index(ip)] = [ip |-> ip, ghb_ptr |-> NULL]]
                           ELSE it

\* ... and when its reference to the slot to be overwritten is gone
ItCut(ip) ==
  LET i == ghb[ghb_head_idx].it IN
    IF i # NULL THEN [Taken(ip) EXCEPT ![i].ghb_ptr = NULL] ELSE Taken(ip)

\* mutant: the successor of the overwritten slot keeps its prev
ChainKept == ghb

\* the buffer when the successor of the slot to be overwritten has no prev
ChainCut ==
  LET n == ghb[ghb_head_idx].next IN
    IF n # NULL THEN [ghb EXCEPT ![n].prev = NULL] ELSE ghb

\* mutant: the predecessor is not told
LinkedOneWay(addr, i, p) ==
  LET new == [ChainCut EXCEPT ![ghb_head_idx] = [@ EXCEPT !.addr = addr, !.prev = p, !.it = i]]
  IN IF p = NULL THEN new ELSE [new EXCEPT ![p] = [@ EXCEPT !.it = NULL]]

\* the buffer with the new load at the head and in front of the chain at p; the
\* slot keeps the next of the load it held before
Linked(addr, i, p) ==
  LET new == [ChainCut EXCEPT ![ghb_head_idx] = [@ EXCEPT !.addr = addr, !.prev = p, !.it = i]]
  IN IF p = NULL THEN new ELSE [new EXCEPT ![p] = [@ EXCEPT !.next = ghb_head_idx, !.it = NULL]]

\* the distance of the load in slot s to the one before it and of that to its
\* predecessor, 0 if they differ or there are no such loads
Stride(g, s) ==
  LET s1 == g[s].prev
      s2 == IF s1 = NULL THEN NULL ELSE g[s1].prev
  IN IF s2 # NULL /\ g[s].addr - g[s1].addr = g[s1].addr - g[s2].addr
       THEN g[s].addr - g[s1].addr ELSE 0

NextHead == (ghb_head_idx + 1) % GHB_SIZE

Page(addr) == addr \div PageLines

Candidates(addr, stride, distance, degree) ==
  {addr + stride * (distance + k) : k \in 0 .. degree - 1}

\* mutant: predictions may leave the page
PredictedAnywhere(addr, stride, distance, degree) ==
  IF stride = 0 THEN {} ELSE Candidates(addr, stride, distance, degree)

\* The loop stops at the first address outside of the page, and those after it
\* are further away still.
Predicted(addr, stride, distance, degree) ==
  IF stride = 0 THEN {}
  ELSE {a \in Candidates(addr, stride, distance, degree) : Page(a) = Page(addr)}
-----------------------------------------------------------------------------
\* The constructor does not write it and ghb: fresh heap memory is zero, which
\* is no pointer, but ip 0 in every entry.
Init ==
  /\ it = [i \in It |-> [ip |-> 0, ghb_ptr |-> NULL]]
  /\ ghb = [s \in Slot |-> [addr |-> 0, prev |-> NULL, next |-> NULL, it |-> NULL]]
  /\ ghb_head_idx = 0
  /\ aggressivness = MIDDLE_OF_THE_ROAD
  /\ prefetch_distance = 4 /\ prefetch_degree = 4
  /\ pf_addr_list = {}
  /\ owner = [s \in Slot |-> NULL]

\* operate, at the given distance and degree
Load(addr, ip, distance, degree) ==
  LET i == Index(ip)
      p == ItCut(ip)[i].ghb_ptr
      g == Linked(addr, i, p)
  IN /\ it' = [ItCut(ip) EXCEPT ![i].ghb_ptr = ghb_head_idx]
     /\ ghb' = g
     /\ ghb_head_idx' = NextHead
     /\ pf_addr_list' = Predicted(addr, Stride(g, ghb_head_idx), distance, degree)
     /\ owner' = [owner EXCEPT ![ghb_head_idx] = ip]

\* l2c_prefetcher_operate of ghb.l2c_pref: calls other than loads change nothing
Operate(addr, ip) ==
  Load(addr, ip, prefetch_distance, prefetch_degree) /\ UNCHANGED level

\* set_aggressiveness
SetAggressiveness(a) ==
  /\ aggressivness' = a
  /\ prefetch_distance' = pf_distance_table[a]
  /\ prefetch_degree' = pf_degree_table[a]

Next == \E addr \in Addr, ip \in Ip : Operate(addr, ip)

Spec == Init /\ [][Next]_vars
-----------------------------------------------------------------------------
TypeOK ==
  /\ it \in [It -> [ip : Ip \cup {0}, ghb_ptr : Slot \cup {NULL}]]
  /\ ghb \in [Slot -> [addr : Addr \cup {0}, prev : Slot \cup {NULL},
                       next : Slot \cup {NULL}, it : It \cup {NULL}]]
  /\ ghb_head_idx \in Slot
  /\ aggressivness \in Aggressivness /\ prefetch_distance \in Nat /\ prefetch_degree \in Nat
  /\ pf_addr_list \subseteq Int
  /\ owner \in [Slot -> Ip \cup {NULL}]

\* loads since the one in slot s
Age(s) == IF s < ghb_head_idx THEN ghb_head_idx - 1 - s ELSE ghb_head_idx - 1 - s + GHB_SIZE

\* slot s has the last load of ip, t the one of the same instruction before s
Youngest(ip, s) == owner[s] = ip /\ \A r \in Slot : owner[r] = ip => Age(s) <= Age(r)
Before(s, t) ==
  /\ owner[t] = owner[s] /\ Age(s) < Age(t)
  /\ \A r \in Slot : owner[r] = owner[s] => Age(r) <= Age(s) \/ Age(t) <= Age(r)

\* A chain holds loads of one instruction only, the one the index table names,
\* from younger to older, and skips none: although slots are overwritten and
\* index-table entries change hands while references to them are still around,
\* no chain ever leads into the history of another instruction or in a circle.
ChainsPure ==
  /\ \A i \in It, ip \in Ip \cup {0}, s \in Slot :
       it[i] = [ip |-> ip, ghb_ptr |-> s] => Youngest(ip, s)
  /\ \A s, t \in Slot : ghb[s].prev = t => Before(s, t)

\* A load predicts addresses only if it and the last two loads of the same
\* instruction were equidistant, and predicts none outside of its page.
PredictionsJustified ==
  [][\A s \in Slot : s = ghb_head_idx /\ ghb_head_idx' # s /\ pf_addr_list' # {} =>
       /\ \E t, u \in Slot :
            /\ Before(s, t)' /\ Before(t, u)'
            /\ ghb'[s].addr - ghb'[t].addr = ghb'[t].addr - ghb'[u].addr
            /\ ghb'[s].addr # ghb'[t].addr
       /\ \A a \in pf_addr_list' : Page(a) = Page(ghb'[s].addr)]_vars
-----------------------------------------------------------------------------
\* What makes ChainsPure inductive: a chain can be walked back, from a
\* predecessor by next and from the youngest load by it, so that the cuts find
\* every reference to the slot that is overwritten.
BackLinks ==
  /\ \A i \in It, s \in Slot : it[i].ghb_ptr = s => ghb[s].it = i /\ Index(it[i].ip) = i
  /\ \A s, t \in Slot : ghb[s].prev = t => ghb[t].next = s

IInv == TypeOK /\ BackLinks /\ ChainsPure
=============================================================================

-------------------------- MODULE PrefetcherProofs --------------------------
(***************************************************************************)
(* Theorems about the prefetchers of labs/lab4, for every size of their    *)
(* tables: Ghb and Fdp, and Markov.                                        *)
(***************************************************************************)
EXTENDS Fdp, Markov, SeqLemmas

-----------------------------------------------------------------------------
(* Ghb and Fdp: for every number of instructions, table and buffer size,   *)
(* page size and level.  The core is LoadKeeps: a load preserves IInv      *)
(* whatever level it runs at.                                              *)

USE SizeAssumption

\* The head moves to the next slot of the ring.
LEMMA HeadMoves ==
  ASSUME ghb_head_idx \in Slot
  PROVE  /\ NextHead \in Slot
         /\ ghb_head_idx + 1 < GHB_SIZE => NextHead = ghb_head_idx + 1
         /\ ghb_head_idx + 1 = GHB_SIZE => NextHead = 0
<1>1. ghb_head_idx + 1 < GHB_SIZE => (ghb_head_idx + 1) % GHB_SIZE = ghb_head_idx + 1
  BY DEF Slot
<1>2. ghb_head_idx + 1 = GHB_SIZE => (ghb_head_idx + 1) % GHB_SIZE = 0
  BY DEF Slot
<1> QED
  BY <1>1, <1>2 DEF NextHead, Slot

\* A load makes every other load older by one, and is the youngest itself.
LEMMA Ages ==
  ASSUME ghb_head_idx \in Slot, ghb_head_idx' = NextHead
  PROVE  /\ \A s \in Slot \ {ghb_head_idx} : Age(s)' = Age(s) + 1
         /\ \A s \in Slot : s = ghb_head_idx => Age(s)' = 0
         /\ \A s \in Slot : Age(s) \in Nat
<1>1. ASSUME NEW s \in Slot
      PROVE  /\ Age(s)' = IF s < ghb_head_idx' THEN ghb_head_idx' - 1 - s
                                               ELSE ghb_head_idx' - 1 - s + GHB_SIZE
             /\ Age(s) \in Nat
  BY DEF Age, Slot
<1>2. CASE ghb_head_idx + 1 < GHB_SIZE
  <2>1. ghb_head_idx' = ghb_head_idx + 1
    BY <1>2, HeadMoves
  <2> QED
    BY <1>1, <2>1 DEF Age, Slot
<1>3. CASE ghb_head_idx + 1 = GHB_SIZE
  <2>1. ghb_head_idx' = 0
    BY <1>3, HeadMoves
  <2> QED
    BY <1>1, <1>3, <2>1 DEF Age, Slot
<1> QED
  BY <1>2, <1>3 DEF Slot

\* The cuts leave no reference from the index table to the slot to be
\* overwritten, and touch no other reference of an entry that stays.
LEMMA Cuts ==
  ASSUME IInv, NEW ip \in Ip
  PROVE  /\ Index(ip) \in It
         /\ ItCut(ip) \in [It -> [ip : Ip \cup {0}, ghb_ptr : Slot \cup {NULL}]]
         /\ ItCut(ip)[Index(ip)].ip = ip
         /\ \A i \in It : ItCut(ip)[i].ghb_ptr # NULL =>
              ItCut(ip)[i] = it[i] /\ it[i].ghb_ptr # ghb_head_idx
<1>1. Index(ip) \in It
  BY IpAssumption DEF Index, It
<1>2. Taken(ip) \in [It -> [ip : Ip \cup {0}, ghb_ptr : Slot \cup {NULL}]]
  BY <1>1 DEF Taken, IInv, TypeOK
<1>3. /\ Taken(ip)[Index(ip)].ip = ip
      /\ \A i \in It : Taken(ip)[i].ghb_ptr # NULL => Taken(ip)[i] = it[i]
  BY <1>1 DEF Taken, IInv, TypeOK
<1>4. ghb_head_idx \in Slot /\ ghb[ghb_head_idx].it \in It \cup {NULL}
  BY DEF IInv, TypeOK
<1>5. /\ ItCut(ip) \in [It -> [ip : Ip \cup {0}, ghb_ptr : Slot \cup {NULL}]]
      /\ ItCut(ip)[Index(ip)].ip = ip
      /\ \A i \in It : ItCut(ip)[i].ghb_ptr # NULL =>
           ItCut(ip)[i] = Taken(ip)[i] /\ ghb[ghb_head_idx].it # i
  BY <1>1, <1>2, <1>3, <1>4, NullAssumption DEF ItCut
<1>6. \A i \in It : it[i].ghb_ptr = ghb_head_idx => ghb[ghb_head_idx].it = i
  BY <1>4, NullAssumption DEF IInv, BackLinks
<1> QED
  BY <1>1, <1>3, <1>5, <1>6

\* The buffer after a load, slot by slot.
LEMMA Links ==
  ASSUME IInv, NEW addr \in Addr, NEW i \in It, NEW p \in Slot \cup {NULL}, p # ghb_head_idx
  PROVE  LET g == Linked(addr, i, p) IN
         /\ g \in [Slot -> [addr : Addr \cup {0}, prev : Slot \cup {NULL},
                            next : Slot \cup {NULL}, it : It \cup {NULL}]]
         /\ g[ghb_head_idx].addr = addr /\ g[ghb_head_idx].prev = p /\ g[ghb_head_idx].it = i
         /\ p # NULL => g[p].next = ghb_head_idx
         /\ \A s \in Slot \ {ghb_head_idx} :
              /\ g[s].addr = ghb[s].addr
              /\ g[s].prev # NULL => g[s].prev = ghb[s].prev /\ ghb[ghb_head_idx].next # s
              /\ s # p => g[s].it = ghb[s].it /\ g[s].next = ghb[s].next
<1> DEFINE Entry == [addr : Addr \cup {0}, prev : Slot \cup {NULL},
                     next : Slot \cup {NULL}, it : It \cup {NULL}]
<1>1. ghb_head_idx \in Slot /\ ghb \in [Slot -> Entry] /\ ghb[ghb_head_idx].next \in Slot \cup {NULL}
  BY DEF IInv, TypeOK
<1>2. /\ ChainCut \in [Slot -> Entry]
      /\ \A s \in Slot :
           /\ ChainCut[s].addr = ghb[s].addr /\ ChainCut[s].it = ghb[s].it
           /\ ChainCut[s].next = ghb[s].next
           /\ ChainCut[s].prev # NULL =>
                ChainCut[s].prev = ghb[s].prev /\ ghb[ghb_head_idx].next # s
  BY <1>1, NullAssumption DEF ChainCut
<1> DEFINE new == [ChainCut EXCEPT ![ghb_head_idx] =
                     [@ EXCEPT !.addr = addr, !.prev = p, !.it = i]]
<1>3. /\ new \in [Slot -> Entry]
      /\ new[ghb_head_idx].addr = addr /\ new[ghb_head_idx].prev = p /\ new[ghb_head_idx].it = i
      /\ \A s \in Slot \ {ghb_head_idx} : new[s] = ChainCut[s]
  <2>1. i \in It \cup {NULL} /\ addr \in Addr \cup {0} /\ ChainCut \in [Slot -> Entry]
    BY <1>2
  <2> HIDE <1>2
  <2>2. ChainCut[ghb_head_idx] \in Entry
    BY <1>1, <2>1
  <2> DEFINE e == [ChainCut[ghb_head_idx] EXCEPT !.addr = addr, !.prev = p, !.it = i]
  <2>3. e \in Entry /\ e.addr = addr /\ e.prev = p /\ e.it = i
    <3> HIDE <2>1
    <3> QED BY <2>1, <2>2
  <2>4. new = [ChainCut EXCEPT ![ghb_head_idx] = e]
    OBVIOUS
  <2> HIDE DEF new, e
  <2> QED
    BY <1>1, <2>1, <2>3, <2>4
<1>4. CASE p = NULL
  <2>1. Linked(addr, i, p) = new
    BY <1>4 DEF Linked
  <2> HIDE DEF new
  <2> QED
    BY <1>1, <1>2, <1>3, <1>4, <2>1
<1>5. CASE p # NULL
  <2> DEFINE g == [new EXCEPT ![p] = [@ EXCEPT !.next = ghb_head_idx, !.it = NULL]]
  <2>1. Linked(addr, i, p) = g
    BY <1>5 DEF Linked
  <2>2. /\ g \in [Slot -> Entry]
        /\ g[p].next = ghb_head_idx /\ g[p].addr = new[p].addr /\ g[p].prev = new[p].prev
        /\ \A s \in Slot \ {p} : g[s] = new[s]
    <3> DEFINE e == [new[p] EXCEPT !.next = ghb_head_idx, !.it = NULL]
    <3>1. g = [new EXCEPT ![p] = e]
      OBVIOUS
    <3> HIDE DEF new
    <3>2. new[p] \in Entry
      BY <1>3, <1>5
    <3>3. e \in Entry /\ e.next = ghb_head_idx /\ e.addr = new[p].addr /\ e.prev = new[p].prev
      BY <1>1, <3>2
    <3> HIDE DEF e, g
    <3> QED
      BY <1>3, <1>5, <3>1, <3>3
  <2> HIDE DEF g, new
  <2> QED
    BY <1>1, <1>2, <1>3, <1>5, <2>1, <2>2
<1> QED
  BY <1>4, <1>5

\* A load preserves IInv, whatever the distance and degree it runs at.
LEMMA LoadKeeps ==
  ASSUME IInv, NEW addr \in Addr, NEW ip \in Ip, NEW distance \in Nat, NEW degree \in Nat,
         Load(addr, ip, distance, degree),
         aggressivness' \in Aggressivness, prefetch_distance' \in Nat, prefetch_degree' \in Nat
  PROVE  IInv'
<1> DEFINE h == ghb_head_idx
           i == Index(ip)
           p == ItCut(ip)[i].ghb_ptr
           g == Linked(addr, i, p)
<1>1. h \in Slot /\ owner \in [Slot -> Ip \cup {NULL}]
  BY DEF IInv, TypeOK
<1>2. /\ it' = [ItCut(ip) EXCEPT ![i].ghb_ptr = h]
      /\ ghb' = g
      /\ ghb_head_idx' = NextHead
      /\ pf_addr_list' = Predicted(addr, Stride(g, h), distance, degree)
      /\ owner' = [owner EXCEPT ![h] = ip]
  BY DEF Load
<1>3. /\ i \in It
      /\ ItCut(ip) \in [It -> [ip : Ip \cup {0}, ghb_ptr : Slot \cup {NULL}]]
      /\ ItCut(ip)[i].ip = ip
      /\ \A j \in It : ItCut(ip)[j].ghb_ptr # NULL => ItCut(ip)[j] = it[j] /\ it[j].ghb_ptr # h
  BY Cuts
<1>4. p \in Slot \cup {NULL} /\ p # h
  BY <1>1, <1>3, NullAssumption
<1>5. /\ g \in [Slot -> [addr : Addr \cup {0}, prev : Slot \cup {NULL},
                         next : Slot \cup {NULL}, it : It \cup {NULL}]]
      /\ g[h].addr = addr /\ g[h].prev = p /\ g[h].it = i
      /\ p # NULL => g[p].next = h
      /\ \A s \in Slot \ {h} :
           /\ g[s].addr = ghb[s].addr
           /\ g[s].prev # NULL => g[s].prev = ghb[s].prev /\ ghb[h].next # s
           /\ s # p => g[s].it = ghb[s].it /\ g[s].next = ghb[s].next
  <2> HIDE DEF i, p
  <2> QED BY <1>3, <1>4, Links
<1>6. /\ it' \in [It -> [ip : Ip \cup {0}, ghb_ptr : Slot \cup {NULL}]]
      /\ it'[i].ip = ip /\ it'[i].ghb_ptr = h
      /\ \A j \in It \ {i} : it'[j] = ItCut(ip)[j]
  BY <1>1, <1>2, <1>3
<1>7. owner'[h] = ip /\ \A s \in Slot \ {h} : owner'[s] = owner[s]
  BY <1>1, <1>2
<1>8. /\ \A s \in Slot \ {h} : Age(s)' = Age(s) + 1
      /\ \A s \in Slot : s = h => Age(s)' = 0
      /\ \A s \in Slot : Age(s) \in Nat
  BY <1>1, <1>2, Ages
<1>9. NextHead \in Slot
  BY <1>1, HeadMoves
<1> HIDE DEF i, p, g
<1>10. pf_addr_list' \subseteq Int
  <2>1. Stride(g, h) \in Int
    <3>1. \A s \in Slot : g[s].addr \in Int /\ (g[s].prev # NULL => g[s].prev \in Slot)
      <4>1. \A s \in Slot : g[s] \in [addr : Addr \cup {0}, prev : Slot \cup {NULL},
                                     next : Slot \cup {NULL}, it : It \cup {NULL}]
        BY <1>5
      <4>2. Addr \cup {0} \subseteq Int
        BY IpAssumption
      <4> QED
        BY <4>1, <4>2
    <3> QED
      BY <1>1, <3>1 DEF Stride
  <2>2. Candidates(addr, Stride(g, h), distance, degree) \subseteq Int
    BY <2>1, IpAssumption DEF Candidates
  <2> QED
    BY <1>2, <2>2 DEF Predicted
<1>11. TypeOK'
  BY <1>1, <1>2, <1>5, <1>6, <1>9, <1>10 DEF TypeOK
\* the load before, in front of which the new one goes, is the youngest of ip
<1>12. p # NULL => ghb[p].it = i /\ Youngest(ip, p)
  <2>1. SUFFICES ASSUME p # NULL PROVE ghb[p].it = i /\ Youngest(ip, p)
    OBVIOUS
  <2>2. p \in Slot /\ it[i] = [ip |-> ip, ghb_ptr |-> p]
    BY <1>3, <1>4, <2>1 DEF p
  <2> QED
    BY <1>3, <2>2 DEF IInv, BackLinks, ChainsPure
\* an entry of another instruction keeps its youngest load
<1>13. ASSUME NEW j \in It \ {i}, NEW s \in Slot, it'[j].ghb_ptr = s
       PROVE  /\ ghb'[s].it = j /\ Index(it'[j].ip) = j
              /\ \A x \in Ip \cup {0} : it'[j].ip = x => Youngest(x, s)'
  <2>1. it'[j] = it[j] /\ it[j].ghb_ptr = s /\ s # h
    BY <1>3, <1>6, <1>13, NullAssumption
  <2>2. it[j] = [ip |-> it[j].ip, ghb_ptr |-> s] /\ it[j].ip \in Ip \cup {0}
    BY <2>1 DEF IInv, TypeOK
  <2>3. ghb[s].it = j /\ Index(it[j].ip) = j /\ Youngest(it[j].ip, s)
    BY <2>2 DEF IInv, BackLinks, ChainsPure
  <2>4. ghb'[s].it = j
    BY <1>2, <1>5, <1>12, <2>1, <2>3, NullAssumption
  <2>5. ip # it[j].ip
    BY <2>3 DEF i
  <2>6. owner'[s] = it[j].ip
    BY <1>7, <2>1, <2>3 DEF Youngest
  <2>7. ASSUME NEW r \in Slot, owner'[r] = it[j].ip
        PROVE  Age(s)' <= Age(r)'
    <3>1. r # h /\ owner[r] = it[j].ip
      BY <1>7, <2>5, <2>7
    <3>2. Age(s) <= Age(r)
      BY <2>3, <3>1 DEF Youngest
    <3> QED
      BY <1>8, <2>1, <3>1, <3>2
  <2> QED
    BY <2>1, <2>3, <2>4, <2>6, <2>7 DEF Youngest
\* the entry of ip has the new load
<1>14. ASSUME NEW s \in Slot, it'[i].ghb_ptr = s
       PROVE  ghb'[s].it = i /\ Index(it'[i].ip) = i /\ Youngest(ip, s)'
  <2>1. s = h
    BY <1>6, <1>14
  <2>2. \A r \in Slot : Age(s)' <= Age(r)'
    <3>1. \A r \in Slot : Age(r)' >= 0
      BY <1>8, <2>1
    <3> QED BY <1>8, <2>1, <3>1
  <2> QED
    BY <1>2, <1>5, <1>6, <1>7, <2>1, <2>2 DEF Youngest, i
\* a chain that the cuts leave as it is
<1>15. ASSUME NEW s \in Slot, s # h, NEW q \in Slot, ghb'[s].prev = q
       PROVE  ghb'[q].next = s /\ Before(s, q)'
  <2>1. ghb[s].prev = q /\ ghb[h].next # s
    BY <1>2, <1>5, <1>15, NullAssumption
  <2>2. ghb[q].next = s /\ Before(s, q)
    BY <2>1 DEF IInv, BackLinks, ChainsPure
  <2>3. q # h
    BY <2>1, <2>2
  <2>4. q # p
    <3>1. SUFFICES ASSUME q = p PROVE FALSE
      OBVIOUS
    <3>2. owner[s] = ip /\ Age(s) < Age(q) /\ Age(q) <= Age(s)
      BY <1>12, <2>2, <3>1, NullAssumption DEF Before, Youngest
    <3> QED
      BY <1>8, <3>2
  <2>5. ghb'[q].next = s
    BY <1>2, <1>5, <2>2, <2>3, <2>4
  <2>6. owner'[q] = owner'[s] /\ Age(s)' < Age(q)'
    BY <1>7, <1>8, <1>15, <2>2, <2>3 DEF Before
  <2>7. ASSUME NEW r \in Slot, owner'[r] = owner'[s]
        PROVE  Age(r)' <= Age(s)' \/ Age(q)' <= Age(r)'
    <3>1. CASE r = h
      BY <1>8, <1>15, <3>1
    <3>2. CASE r # h
      <4>1. Age(r) <= Age(s) \/ Age(q) <= Age(r)
        BY <1>7, <1>15, <2>2, <2>7, <3>2 DEF Before
      <4> QED
        BY <1>8, <1>15, <2>3, <3>2, <4>1
    <3> QED
      BY <3>1, <3>2
  <2> QED
    BY <2>5, <2>6, <2>7 DEF Before
\* the new load and the one before
<1>16. ASSUME NEW s \in Slot, s = h, NEW q \in Slot, ghb'[s].prev = q
       PROVE  ghb'[q].next = s /\ Before(s, q)'
  <2>1. q = p /\ q # h /\ p # NULL
    BY <1>2, <1>4, <1>5, <1>16, NullAssumption
  <2>2. owner[q] = ip /\ owner'[q] = ip /\ owner'[s] = ip
    BY <1>7, <1>12, <1>16, <2>1 DEF Youngest
  <2>3. Age(s)' < Age(q)'
    BY <1>8, <1>16, <2>1
  <2>4. ASSUME NEW r \in Slot, owner'[r] = ip
        PROVE  Age(r)' <= Age(s)' \/ Age(q)' <= Age(r)'
    <3>1. CASE r = h
      BY <1>8, <1>16, <3>1
    <3>2. CASE r # h
      <4>1. Age(q) <= Age(r)
        BY <1>7, <1>12, <2>1, <2>4, <3>2 DEF Youngest
      <4> QED
        BY <1>8, <2>1, <3>2, <4>1
    <3> QED
      BY <3>1, <3>2
  <2> QED
    BY <1>2, <1>5, <1>16, <2>1, <2>2, <2>3, <2>4 DEF Before
<1>17. BackLinks'
  BY <1>3, <1>13, <1>14, <1>15, <1>16 DEF BackLinks, Index
<1>18. ChainsPure'
  BY <1>3, <1>6, <1>13, <1>14, <1>15, <1>16 DEF ChainsPure
<1> QED
  BY <1>11, <1>17, <1>18 DEF IInv

LEMMA InitHolds == Init => IInv
<1> SUFFICES ASSUME Init PROVE IInv
  OBVIOUS
<1>1. \A s \in Slot : ghb[s].prev = NULL
  BY DEF Init
<1>2. \A i \in It : it[i].ghb_ptr = NULL
  BY DEF Init
<1>3. 0 \in Slot
  BY DEF Slot
<1>4. TypeOK
  BY <1>3, TableAssumption DEF Init, TypeOK
<1> QED
  BY <1>1, <1>2, <1>4, NullAssumption DEF IInv, BackLinks, ChainsPure

\* Steps that leave the buffer alone.
LEMMA LevelKeeps ==
  ASSUME IInv, UNCHANGED <<it, ghb, ghb_head_idx, pf_addr_list, owner>>,
         aggressivness' \in Aggressivness, prefetch_distance' \in Nat, prefetch_degree' \in Nat
  PROVE  IInv'
<1>1. TypeOK'
  BY DEF IInv, TypeOK
<1>2. BackLinks'
  BY DEF IInv, BackLinks, Index
<1>3. ChainsPure'
  BY DEF IInv, ChainsPure, Youngest, Before, Age
<1> QED
  BY <1>1, <1>2, <1>3 DEF IInv

\* The invariant holds of the prefetcher with fixed distance and degree.
THEOREM GhbInvariance == Spec => []IInv
<1>1. Init => IInv
  BY InitHolds
<1>2. IInv /\ [Next]_vars => IInv'
  <2> SUFFICES ASSUME IInv, [Next]_vars PROVE IInv'
    OBVIOUS
  <2>1. aggressivness \in Aggressivness /\ prefetch_distance \in Nat /\ prefetch_degree \in Nat
    BY DEF IInv, TypeOK
  <2>2. ASSUME NEW addr \in Addr, NEW ip \in Ip, Operate(addr, ip) PROVE IInv'
    BY <2>1, <2>2, LoadKeeps DEF Operate, level
  <2>3. CASE UNCHANGED vars
    BY <2>1, <2>3, LevelKeeps DEF vars, level
  <2> QED
    BY <2>2, <2>3 DEF Next
<1> QED
  BY <1>1, <1>2, PTL DEF Spec

\* Whatever points to a slot of the buffer can be found from that slot: the table
\* through its it pointer, the younger slot through its next pointer. The cuts of
\* operate rely on it when the slot is overwritten (ghb.h:111).
THEOREM BackLinksAlwaysMatch == Spec => []BackLinks
<1>1. IInv => BackLinks
  BY DEF IInv
<1> QED
  BY <1>1, GhbInvariance, PTL

\* No chain of the buffer leads into the history of another instruction, goes
\* in a circle or skips a load, for any buffer and table size (ghb.h, operate).
THEOREM ChainsAlwaysPure == Spec => []ChainsPure
<1>1. IInv => ChainsPure
  BY DEF IInv
<1> QED
  BY <1>1, GhbInvariance, PTL

\* What a load predicts is justified by the chain it leaves behind.
LEMMA LoadJustifies ==
  ASSUME IInv, IInv', NEW addr \in Addr, NEW ip \in Ip, NEW distance \in Nat, NEW degree \in Nat,
         Load(addr, ip, distance, degree),
         NEW s \in Slot, s = ghb_head_idx, pf_addr_list' # {}
  PROVE  /\ \E t, u \in Slot :
              /\ Before(s, t)' /\ Before(t, u)'
              /\ ghb'[s].addr - ghb'[t].addr = ghb'[t].addr - ghb'[u].addr
              /\ ghb'[s].addr # ghb'[t].addr
         /\ \A a \in pf_addr_list' : Page(a) = Page(ghb'[s].addr)
<1>1. ghb' \in [Slot -> [addr : Addr \cup {0}, prev : Slot \cup {NULL},
                        next : Slot \cup {NULL}, it : It \cup {NULL}]]
  BY DEF IInv, TypeOK
<1>2. pf_addr_list' = Predicted(addr, Stride(ghb', s), distance, degree)
  BY DEF Load
<1>3. Stride(ghb', s) # 0 /\ \A a \in pf_addr_list' : Page(a) = Page(addr)
  BY <1>2 DEF Predicted
<1>4. ghb'[s].addr = addr
  <2> DEFINE i == Index(ip)
             p == ItCut(ip)[i].ghb_ptr
  <2>1. ghb' = Linked(addr, i, p)
    BY DEF Load
  <2>2. i \in It /\ p \in Slot \cup {NULL} /\ p # ghb_head_idx
    BY Cuts, NullAssumption
  <2> HIDE DEF i, p
  <2> QED
    BY <2>1, <2>2, Links
<1>5. PICK t \in Slot, u \in Slot :
        /\ ghb'[s].prev = t /\ ghb'[t].prev = u
        /\ ghb'[s].addr - ghb'[t].addr = ghb'[t].addr - ghb'[u].addr
        /\ ghb'[s].addr - ghb'[t].addr # 0
  BY <1>1, <1>3 DEF Stride
<1>6. \A r \in Slot : ghb'[r].addr \in Int
  <2>1. Addr \cup {0} \subseteq Int
    BY IpAssumption
  <2> QED
    BY <1>1, <2>1
<1>7. Before(s, t)' /\ Before(t, u)'
  BY <1>5 DEF IInv, ChainsPure
<1>8. ghb'[s].addr # ghb'[t].addr
  BY <1>5, <1>6
<1> QED
  BY <1>3, <1>4, <1>5, <1>7, <1>8

\* Every prediction is justified by three equidistant loads of one instruction
\* and stays within the page, for any configuration (ghb.h, operate).
THEOREM PredictionsAlwaysJustified == Spec => PredictionsJustified
<1>1. IInv /\ IInv' /\ [Next]_vars =>
        [\A s \in Slot : s = ghb_head_idx /\ ghb_head_idx' # s /\ pf_addr_list' # {} =>
           /\ \E t, u \in Slot :
                /\ Before(s, t)' /\ Before(t, u)'
                /\ ghb'[s].addr - ghb'[t].addr = ghb'[t].addr - ghb'[u].addr
                /\ ghb'[s].addr # ghb'[t].addr
           /\ \A a \in pf_addr_list' : Page(a) = Page(ghb'[s].addr)]_vars
  BY LoadJustifies DEF Next, Operate, IInv, TypeOK
<1> QED
  BY <1>1, GhbInvariance, PTL DEF Spec, PredictionsJustified
-----------------------------------------------------------------------------
\* What a remainder is for arguments below twice the modulus.
LEMMA Remainder ==
  ASSUME NEW w \in Nat \ {0}, NEW x \in 0 .. w - 1
  PROVE  x % w = x /\ (x + w) % w = x
  OBVIOUS

\* The counter after a sample: the update, stopped at the highest value and
\* taken round at the lowest.
LEMMA UpdatedIs ==
  ASSUME counter \in COUNTER_MIN_VAL .. COUNTER_MAX_VAL,
         NEW a \in accuracy_state_t, NEW l \in lateness_state_t
  PROVE  /\ Updated(a, l) \in COUNTER_MIN_VAL .. COUNTER_MAX_VAL
         /\ \/ Updated(a, l) - counter \in {-1, 0, 1}
            \/ counter = COUNTER_MIN_VAL /\ Updated(a, l) = COUNTER_MAX_VAL
<1> DEFINE u == counter_update[a][l]
           sum == (counter + u) % Wrap
           c == sum % (COUNTER_MAX_VAL + 1)
<1>1. u \in {0, 1, Wrap - 1}
  BY DEF counter_update
<1>2. counter \in Nat /\ counter >= 1 /\ counter < Wrap /\ Wrap \in Nat \ {0}
  BY FdpAssumption DEF COUNTER_MIN_VAL
<1> HIDE DEF u
<1>3. sum \in {counter, counter + 1, counter - 1} \/ (sum = 0 /\ counter = COUNTER_MAX_VAL)
  <2>1. CASE u = 0
    <3>1. counter \in 0 .. Wrap - 1 /\ counter + u = counter
      BY <1>2, <2>1
    <3> QED
      BY <1>2, <3>1, Remainder
  <2>2. CASE u = 1 /\ counter + 1 < Wrap
    <3>1. counter + 1 \in 0 .. Wrap - 1 /\ counter + u = counter + 1
      BY <1>2, <2>2
    <3> QED
      BY <1>2, <3>1, Remainder
  <2>3. CASE u = 1 /\ counter + 1 = Wrap
    <3>1. (0 + Wrap) % Wrap = 0
      BY <1>2, Remainder
    <3>2. counter + u = 0 + Wrap /\ counter = COUNTER_MAX_VAL
      BY <1>2, <2>3, FdpAssumption DEF COUNTER_MIN_VAL
    <3> QED
      BY <3>1, <3>2
  <2>4. CASE u = Wrap - 1
    <3>1. counter - 1 \in 0 .. Wrap - 1 /\ counter + u = (counter - 1) + Wrap
      BY <1>2, <2>4
    <3> QED
      BY <1>2, <3>1, Remainder
  <2> QED
    BY <1>1, <1>2, <2>1, <2>2, <2>3, <2>4
<1>4. \/ c = sum /\ sum <= COUNTER_MAX_VAL
      \/ c = 0 /\ sum = COUNTER_MAX_VAL + 1
  <2>1. COUNTER_MAX_VAL + 1 \in Nat \ {0}
    BY FdpAssumption
  <2> HIDE DEF sum
  <2>2. CASE sum \in 0 .. COUNTER_MAX_VAL
    <3>1. sum \in 0 .. (COUNTER_MAX_VAL + 1) - 1
      BY <2>2, FdpAssumption
    <3> QED BY <2>1, <2>2, <3>1, Remainder
  <2>3. CASE sum = COUNTER_MAX_VAL + 1
    <3>1. (0 + (COUNTER_MAX_VAL + 1)) % (COUNTER_MAX_VAL + 1) = 0
      BY <2>1, Remainder
    <3> QED BY <2>1, <2>3, <3>1
  <2>4. sum \in 0 .. COUNTER_MAX_VAL \/ sum = COUNTER_MAX_VAL + 1
    BY <1>2, <1>3, FdpAssumption DEF COUNTER_MIN_VAL
  <2> QED
    BY <2>2, <2>3, <2>4
<1>5. Updated(a, l) = IF c < 1 THEN COUNTER_MAX_VAL ELSE c
  BY DEF Updated, COUNTER_MIN_VAL, u
<1> HIDE DEF sum, c
<1> QED
  BY <1>2, <1>3, <1>4, <1>5, FdpAssumption DEF COUNTER_MIN_VAL

FdpInv == IInv /\ counter \in COUNTER_MIN_VAL .. COUNTER_MAX_VAL

\* The two parts of a call of l2c_prefetcher_operate.
LEMMA CallKeeps ==
  ASSUME FdpInv, FdpNext
  PROVE  FdpInv'
<1>1. /\ counter' \in COUNTER_MIN_VAL .. COUNTER_MAX_VAL
      /\ aggressivness' \in Aggressivness /\ prefetch_distance' \in Nat /\ prefetch_degree' \in Nat
  <2>1. CASE NoSample
    BY <2>1 DEF NoSample, level, FdpInv, IInv, TypeOK
  <2>2. ASSUME NEW a \in accuracy_state_t, NEW l \in lateness_state_t, Sample(a, l)
        PROVE  /\ counter' \in COUNTER_MIN_VAL .. COUNTER_MAX_VAL
               /\ aggressivness' \in Aggressivness /\ prefetch_distance' \in Nat /\ prefetch_degree' \in Nat
    <3>1. counter' \in COUNTER_MIN_VAL .. COUNTER_MAX_VAL
      BY <2>2, UpdatedIs DEF Sample, FdpInv
    <3>2. counter' - 1 \in Aggressivness
      <4>1. COUNTER_MAX_VAL \in Nat /\ Aggressivness = 0 .. COUNTER_MAX_VAL - 1
        BY FdpAssumption
      <4>2. \A c \in COUNTER_MIN_VAL .. COUNTER_MAX_VAL : c - 1 \in 0 .. COUNTER_MAX_VAL - 1
        BY <4>1 DEF COUNTER_MIN_VAL
      <4> QED
        BY <3>1, <4>1, <4>2
    <3> QED
      BY <2>2, <3>1, <3>2, TableAssumption DEF Sample, SetAggressiveness
  <2> QED
    BY <2>1, <2>2 DEF FdpNext
<1>2. CASE NoLoad
  BY <1>1, <1>2, LevelKeeps DEF NoLoad, FdpInv
<1>3. ASSUME NEW addr \in Addr, NEW ip \in Ip, LoadAtLevel(addr, ip) PROVE IInv'
  <2>1. PICK d \in Nat, n \in Nat : d = prefetch_distance' /\ n = prefetch_degree'
    BY <1>1
  <2>2. Load(addr, ip, d, n)
    BY <1>3, <2>1 DEF LoadAtLevel
  <2> QED
    BY <1>1, <2>2, LoadKeeps DEF FdpInv
<1> QED
  BY <1>1, <1>2, <1>3 DEF FdpNext, FdpInv

LEMMA FdpInvariance == FdpSpec => []FdpInv
<1>1. FdpInit => FdpInv
  <2>1. MIDDLE_OF_THE_ROAD \in 0 .. COUNTER_MAX_VAL - 1 /\ COUNTER_MAX_VAL \in Nat
    BY TableAssumption, FdpAssumption
  <2>2. MIDDLE_OF_THE_ROAD + 1 \in COUNTER_MIN_VAL .. COUNTER_MAX_VAL
    BY <2>1 DEF COUNTER_MIN_VAL
  <2> QED
    BY <2>2, InitHolds DEF FdpInit, FdpInv
<1>2. FdpInv /\ [FdpNext]_fdpVars => FdpInv'
  <2>1. FdpInv /\ FdpNext => FdpInv'
    BY CallKeeps
  <2>2. ASSUME FdpInv, UNCHANGED fdpVars PROVE FdpInv'
    <3>1. IInv'
      BY <2>2, LevelKeeps DEF fdpVars, vars, level, FdpInv, IInv, TypeOK
    <3> QED
      BY <2>2, <3>1 DEF fdpVars, FdpInv
  <2> QED
    BY <2>1, <2>2
<1> QED
  BY <1>1, <1>2, PTL DEF FdpSpec

\* The assertion in l2c_prefetcher_operate (fdp.l2c_pref:80) never fails, for any
\* highest value of the counter and any width of the unsigned sum.
THEOREM FdpTypeCorrect == FdpSpec => []FdpTypeOK
<1>1. FdpInv => FdpTypeOK
  BY DEF FdpInv, FdpTypeOK, IInv
<1> QED
  BY <1>1, FdpInvariance, PTL

\* A sample moves the level by one at most, except from the lowest to the
\* highest (fdp.l2c_pref:76).
THEOREM FdpStepsByOne == FdpSpec => StepsByOne
<1>1. ASSUME FdpInv, [FdpNext]_fdpVars
      PROVE  [\/ counter' - counter \in {-1, 0, 1}
              \/ counter = COUNTER_MIN_VAL /\ counter' = COUNTER_MAX_VAL]_fdpVars
  <2>1. counter \in Int
    BY <1>1 DEF FdpInv, COUNTER_MIN_VAL
  <2>2. CASE counter' = counter
    BY <2>1, <2>2
  <2>3. CASE FdpNext /\ counter' # counter
    BY <1>1, <2>3, UpdatedIs DEF FdpNext, NoSample, Sample, FdpInv
  <2> QED
    BY <1>1, <2>2, <2>3 DEF fdpVars
<1> QED
  BY <1>1, FdpInvariance, PTL DEF FdpSpec, StepsByOne

\* Predictions stay justified when the level changes in the call that makes them.
THEOREM FdpPredictionsJustified == FdpSpec => PredictionsJustified
<1> DEFINE Justified ==
      \A s \in Slot : s = ghb_head_idx /\ ghb_head_idx' # s /\ pf_addr_list' # {} =>
        /\ \E t, u \in Slot :
             /\ Before(s, t)' /\ Before(t, u)'
             /\ ghb'[s].addr - ghb'[t].addr = ghb'[t].addr - ghb'[u].addr
             /\ ghb'[s].addr # ghb'[t].addr
        /\ \A a \in pf_addr_list' : Page(a) = Page(ghb'[s].addr)
<1>1. ASSUME FdpInv, FdpInv', [FdpNext]_fdpVars PROVE [Justified]_vars
  <2>1. CASE ghb_head_idx' = ghb_head_idx
    BY <2>1
  <2>2. ASSUME NEW addr \in Addr, NEW ip \in Ip, LoadAtLevel(addr, ip) PROVE Justified
    <3>1. PICK d \in Nat, n \in Nat : d = prefetch_distance' /\ n = prefetch_degree'
      BY <1>1 DEF FdpInv, IInv, TypeOK
    <3>2. Load(addr, ip, d, n)
      BY <2>2, <3>1 DEF LoadAtLevel
    <3> QED
      BY <1>1, <3>2, LoadJustifies DEF FdpInv
  <2> QED
    BY <1>1, <2>1, <2>2 DEF FdpNext, NoLoad, fdpVars, vars
<1> QED
  BY <1>1, FdpInvariance, PTL DEF FdpSpec, PredictionsJustified

-----------------------------------------------------------------------------
(* Markov: the tables of the prefetcher keep their meaning for every size  *)
(* of the tables and every sequence of lookups: all indices are in range,  *)
(* every transition is counted in one way, and every page is known with    *)
(* its last offset.                                                        *)

HIDE SizeAssumption

TablesTyped ==
  /\ delta_cache \in [Delta -> [DeltaWay -> [next : Delta, counter : Nat]]]
  /\ page_cache \in [PageSet -> [PageWay -> [tag : Tag, delta : Delta, offset : Offset, lru : {0, 1}]]]
  /\ last \in [PageSet -> [Tag -> Offset \cup {-1}]]

\* What makes CountedOnce inductive: of the ways with one successor, which
\* there are because all start with the same, only the first one counts.
FirstCounts ==
  \A d \in Delta, v, w \in DeltaWay :
    v < w /\ delta_cache[d][v].next = delta_cache[d][w].next => delta_cache[d][w].counter = 0

MarkovInv == TablesTyped /\ FirstCounts /\ PagesTracked

\* The first of a nonempty set of ways is one of them, and none is before it.
LEMMA FirstFacts ==
  ASSUME NEW S, S \subseteq Nat, S # {}
  PROVE  FirstOf(S) \in S /\ \A v \in S : FirstOf(S) <= v
BY Least DEF FirstOf

\* The way with the lowest counter is a way.
LEMMA LeastUsedType ==
  ASSUME NEW row \in [DeltaWay -> [next : Delta, counter : Nat]]
  PROVE  LeastUsed(row) \in DeltaWay
<1>. DEFINE T == {row[w].counter : w \in DeltaWay}
            S == {w \in DeltaWay : \A v \in DeltaWay : row[w].counter <= row[v].counter}
<1>1. T \subseteq Nat /\ T # {}
  BY MarkovAssumption DEF DeltaWay
<1>2. PICK x \in T : \A y \in T : x <= y
  BY <1>1, Least
<1>3. PICK w \in DeltaWay : x = row[w].counter
  BY <1>2
<1>4. S # {} /\ S \subseteq Nat
  BY <1>2, <1>3 DEF DeltaWay
<1>. QED
  BY <1>4, FirstFacts DEF LeastUsed
-----------------------------------------------------------------------------
(* The delta cache                                                         *)

\* A distance within a page is an index of the delta cache.
LEMMA DistanceType ==
  ASSUME NEW o \in Offset, NEW p \in Offset
  PROVE  norm_delta(o - p) \in Delta
BY MarkovAssumption DEF Offset, norm_delta, Delta, DELTA_NUM_SETS

\* Recording a transition keeps the counters in the first ways.
LEMMA RecordedFacts ==
  ASSUME TablesTyped, FirstCounts, NEW prev \in Delta, NEW next \in Delta,
         delta_cache' = Recorded(prev, next)
  PROVE  /\ delta_cache' \in [Delta -> [DeltaWay -> [next : Delta, counter : Nat]]]
         /\ FirstCounts'
<1>. DEFINE row == delta_cache[prev]
            known == Known(row, next)
            f == FirstOf(known)
            l == LeastUsed(row)
<1>1. row \in [DeltaWay -> [next : Delta, counter : Nat]]
  BY DEF TablesTyped
<1>2. DeltaWay \subseteq Nat /\ known \subseteq DeltaWay
  BY DEF DeltaWay, Known
<1>3. CASE known # {}
  <2>1. f \in known /\ \A v \in known : f <= v
    BY <1>2, <1>3, FirstFacts
  <2>2. delta_cache' = [delta_cache EXCEPT ![prev] = [row EXCEPT ![f].counter = @ + 1]]
    BY <1>3 DEF Recorded
  <2>3. f \in DeltaWay /\ row[f].next = next
    BY <2>1 DEF Known
  <2>4. [row EXCEPT ![f].counter = @ + 1] \in [DeltaWay -> [next : Delta, counter : Nat]]
    <3>1. row[f] \in [next : Delta, counter : Nat]
      BY <1>1, <2>3
    <3>2. [row[f] EXCEPT !.counter = @ + 1] \in [next : Delta, counter : Nat]
      BY <3>1
    <3>. QED
      BY <1>1, <2>3, <3>2
  <2>5. delta_cache' \in [Delta -> [DeltaWay -> [next : Delta, counter : Nat]]]
    BY <2>2, <2>4 DEF TablesTyped
  <2>6. ASSUME NEW d \in Delta, NEW v \in DeltaWay, NEW w \in DeltaWay,
               v < w, delta_cache'[d][v].next = delta_cache'[d][w].next
        PROVE  delta_cache'[d][w].counter = 0
    <3>1. \A u \in DeltaWay : delta_cache'[d][u].next = delta_cache[d][u].next
      <4>1. CASE d # prev
        BY <2>2, <4>1 DEF TablesTyped
      <4>2. CASE d = prev
        <5>1. delta_cache'[d] = [row EXCEPT ![f] = [row[f] EXCEPT !.counter = @ + 1]]
          BY <2>2, <4>2 DEF TablesTyped
        <5>2. row[f] \in [next : Delta, counter : Nat]
          BY <1>1, <2>3
        <5>3. [row[f] EXCEPT !.counter = @ + 1].next = row[f].next
          BY <5>2
        <5>. QED
          BY <1>1, <2>3, <4>2, <5>1, <5>3
      <4>. QED
        BY <4>1, <4>2
    <3>2. delta_cache[d][w].counter = 0
      BY <2>6, <3>1 DEF FirstCounts
    <3>3. ~(d = prev /\ w = f)
      <4>. SUFFICES ASSUME d = prev, w = f PROVE FALSE
        OBVIOUS
      <4>1. v \in known
        BY <2>3, <2>6, <3>1 DEF Known
      <4>2. f <= v
        BY <2>1, <4>1
      <4>. QED
        BY <1>2, <2>6, <4>2
    <3>. QED
      BY <1>1, <2>2, <2>3, <3>2, <3>3 DEF TablesTyped
  <2>. QED
    BY <2>5, <2>6 DEF FirstCounts
<1>4. CASE known = {}
  <2>1. delta_cache' = [delta_cache EXCEPT ![prev] = [row EXCEPT ![l] = [next |-> next, counter |-> 1]]]
    BY <1>4 DEF Recorded
  <2>2. l \in DeltaWay
    BY <1>1, LeastUsedType
  <2>3. [row EXCEPT ![l] = [next |-> next, counter |-> 1]] \in [DeltaWay -> [next : Delta, counter : Nat]]
    BY <1>1, <2>2
  <2>4. delta_cache' \in [Delta -> [DeltaWay -> [next : Delta, counter : Nat]]]
    BY <2>1, <2>3 DEF TablesTyped
  <2>5. ASSUME NEW d \in Delta, NEW v \in DeltaWay, NEW w \in DeltaWay,
               v < w, delta_cache'[d][v].next = delta_cache'[d][w].next
        PROVE  delta_cache'[d][w].counter = 0
    <3>1. CASE d # prev
      BY <2>1, <2>5, <3>1 DEF FirstCounts, TablesTyped
    <3>2. CASE d = prev
      <4>1. \A u \in DeltaWay \ {l} : delta_cache'[d][u] = row[u] /\ row[u].next # next
        BY <1>1, <1>4, <2>1, <3>2 DEF Known, TablesTyped
      <4>2. delta_cache'[d][l].next = next
        BY <1>1, <2>1, <2>2, <3>2 DEF TablesTyped
      <4>3. v # w
        BY <1>2, <2>5
      <4>4. v # l /\ w # l
        BY <2>5, <4>1, <4>2, <4>3
      <4>. QED
        BY <2>5, <3>2, <4>1, <4>4 DEF FirstCounts
    <3>. QED
      BY <3>1, <3>2
  <2>. QED
    BY <2>4, <2>5 DEF FirstCounts
<1>. QED
  BY <1>3, <1>4
-----------------------------------------------------------------------------
(* The page cache                                                          *)

PageEntry == [tag : Tag, delta : Delta, offset : Offset, lru : {0, 1}]

LEMMA InputTypes ==
  ASSUME NEW page \in PageAddress
  PROVE  PageIndex(page) \in PageSet /\ TagOf(page) \in Tag
BY MarkovAssumption, LookupAssumption DEF PageIndex, TagOf, PageSet, Tag

\* A page that is found is in a way.
LEMMA HitType ==
  ASSUME NEW page \in PageAddress, Ways(page) # {}
  PROVE  FirstOf(Ways(page)) \in Ways(page) /\ Ways(page) \subseteq PageWay
BY FirstFacts DEF Ways, PageWay

\* Writing the entry of a page with the lookup's offset keeps track of the pages
\* if the entry is the page's own, or if no other one is.  The used bits of the
\* set may change.
LEMMA NotedFacts ==
  ASSUME TablesTyped, PagesTracked,
         NEW s \in PageSet, NEW w \in PageWay, NEW t \in Tag, NEW delta \in Delta, NEW o \in Offset,
         NEW set \in [PageWay -> PageEntry],
         \A v \in PageWay : set[v].tag = page_cache[s][v].tag /\ set[v].offset = page_cache[s][v].offset,
         page_cache[s][w].tag = t \/ \A v \in PageWay : page_cache[s][v].tag # t,
         page_cache' = [page_cache EXCEPT ![s] = Noted(set, w, t, delta, o)],
         last' = [last EXCEPT ![s][t] = o]
  PROVE  /\ page_cache' \in [PageSet -> [PageWay -> PageEntry]]
         /\ last' \in [PageSet -> [Tag -> Offset \cup {-1}]]
         /\ PagesTracked'
<1>. DEFINE e == [tag |-> t, delta |-> delta, offset |-> o, lru |-> 1]
<1>1. e \in PageEntry /\ e.tag = t /\ e.offset = o
  BY DEF PageEntry
<1>2. page_cache' = [page_cache EXCEPT ![s] = [set EXCEPT ![w] = e]]
  BY DEF Noted
<1>. HIDE DEF e
<1>3. [set EXCEPT ![w] = e] \in [PageWay -> PageEntry]
  BY <1>1
<1>4. page_cache \in [PageSet -> [PageWay -> PageEntry]] /\ last \in [PageSet -> [Tag -> Offset \cup {-1}]]
  BY DEF TablesTyped, PageEntry
<1>5. page_cache' \in [PageSet -> [PageWay -> PageEntry]]
  BY <1>2, <1>3, <1>4
<1>6. last' \in [PageSet -> [Tag -> Offset \cup {-1}]]
  BY <1>4
<1>7. ASSUME NEW r \in PageSet, NEW v \in PageWay, page_cache'[r][v].tag # 0
      PROVE  /\ page_cache'[r][v].offset = last'[r][page_cache'[r][v].tag]
             /\ \A u \in PageWay : page_cache'[r][u].tag = page_cache'[r][v].tag => v = u
  <2>1. CASE r # s
    <3>1. page_cache'[r] = page_cache[r] /\ last'[r] = last[r]
      BY <1>2, <1>4, <2>1
    <3>. QED
      BY <1>7, <3>1 DEF PagesTracked
  <2>2. CASE r = s
    <3>1. page_cache'[s] = [set EXCEPT ![w] = e] /\ last'[s] = [last[s] EXCEPT ![t] = o]
      BY <1>2, <1>4
    <3>2. page_cache'[s][w] = e
      <4>1. w \in DOMAIN set
        OBVIOUS
      <4>. QED
        BY <3>1, <4>1, Zenon
    <3>3. ASSUME NEW u \in PageWay \ {w} PROVE page_cache'[s][u] = set[u]
      <4>1. DOMAIN set = PageWay
        OBVIOUS
      <4>. QED
        BY <3>1, <4>1
    <3>4. \A u \in PageWay \ {w} : page_cache[s][u].tag \in Tag
      BY <1>4 DEF PageEntry
    <3>5. t # 0 => \A u \in PageWay \ {w} : page_cache[s][u].tag # t
      <4>1. CASE page_cache[s][w].tag = t
        <5>1. t # 0 => \A u \in PageWay : page_cache[s][u].tag = page_cache[s][w].tag => w = u
          BY <4>1 DEF PagesTracked
        <5>. QED
          BY <4>1, <5>1
      <4>2. CASE \A u \in PageWay : page_cache[s][u].tag # t
        BY <4>2
      <4>. QED
        BY <4>1, <4>2
    <3>6. CASE v = w
      <4>2. t # 0
        BY <1>1, <1>7, <2>2, <3>2, <3>6
      <4>3. last'[s][t] = o
        BY <1>4, <3>1
      <4>4. ASSUME NEW u \in PageWay, page_cache'[s][u].tag = t PROVE v = u
        BY <3>3, <3>5, <3>6, <4>2, <4>4
      <4>. QED
        BY <1>1, <2>2, <3>2, <3>6, <4>3, <4>4
    <3>7. CASE v # w
      <4>1. /\ page_cache'[s][v].tag = page_cache[s][v].tag
            /\ page_cache'[s][v].offset = page_cache[s][v].offset
        BY <3>3, <3>7
      <4>2. page_cache[s][v].tag # t
        BY <1>7, <2>2, <3>5, <3>7, <4>1
      <4>3. last'[s][page_cache[s][v].tag] = last[s][page_cache[s][v].tag]
        BY <1>4, <3>1, <3>4, <3>7, <4>2
      <4>4. page_cache[s][v].offset = last[s][page_cache[s][v].tag]
        BY <1>7, <2>2, <4>1 DEF PagesTracked
      <4>5. ASSUME NEW u \in PageWay, page_cache'[s][u].tag = page_cache[s][v].tag PROVE v = u
        <5>1. u # w
          BY <1>1, <3>2, <4>2, <4>5
        <5>2. page_cache[s][u].tag = page_cache[s][v].tag
          BY <3>3, <4>5, <5>1
        <5>. QED
          BY <1>7, <2>2, <4>1, <5>2 DEF PagesTracked
      <4>. QED
        BY <2>2, <4>1, <4>3, <4>4, <4>5
    <3>. QED
      BY <3>6, <3>7
  <2>. QED
    BY <2>1, <2>2
<1>. QED
  BY <1>5, <1>6, <1>7 DEF PagesTracked
-----------------------------------------------------------------------------
(* The steps                                                               *)

LEMMA MarkovInitially ==
  ASSUME MarkovInit
  PROVE  MarkovInv
<1>1. norm_delta(1) \in Delta /\ 0 \in Delta /\ 0 \in Tag /\ 0 \in Offset
  BY MarkovAssumption DEF norm_delta, Delta, DELTA_NUM_SETS, Tag, Offset
<1>2. TablesTyped
  BY <1>1 DEF MarkovInit, TablesTyped
<1>3. FirstCounts
  BY DEF MarkovInit, FirstCounts
<1>4. PagesTracked
  BY DEF MarkovInit, PagesTracked
<1>. QED
  BY <1>2, <1>3, <1>4 DEF MarkovInv

LEMMA LearnStep ==
  ASSUME MarkovInv, NEW page \in PageAddress, NEW offset \in Offset, NEW degree \in Degree,
         Learn(page, offset, degree)
  PROVE  MarkovInv'
<1>. DEFINE s == PageIndex(page)
            w == FirstOf(Ways(page))
            delta == norm_delta(offset - page_cache[s][w].offset)
<1>1. s \in PageSet /\ TagOf(page) \in Tag
  BY InputTypes
<1>2. w \in PageWay /\ page_cache[s][w].tag = TagOf(page)
  BY HitType DEF Learn, Ways
<1>3. page_cache \in [PageSet -> [PageWay -> PageEntry]]
  BY DEF MarkovInv, TablesTyped, PageEntry
<1>4. page_cache[s][w] \in PageEntry
  BY <1>1, <1>2, <1>3
<1>5. page_cache[s][w].delta \in Delta /\ page_cache[s][w].offset \in Offset
  BY <1>4 DEF PageEntry
<1>6. delta \in Delta
  BY <1>5, DistanceType
<1>7. delta_cache' = Recorded(page_cache[s][w].delta, delta)
  BY DEF Learn
<1>8. delta_cache' \in [Delta -> [DeltaWay -> [next : Delta, counter : Nat]]] /\ FirstCounts'
  BY <1>5, <1>6, <1>7, RecordedFacts DEF MarkovInv
<1>9. /\ page_cache' = [page_cache EXCEPT ![s] = Noted(page_cache[s], w, TagOf(page), delta, offset)]
      /\ last' = [last EXCEPT ![s][TagOf(page)] = offset]
  BY DEF Learn, Traverse
<1>10. page_cache[s] \in [PageWay -> PageEntry]
  BY <1>1, <1>3
<1>11. /\ page_cache' \in [PageSet -> [PageWay -> PageEntry]]
       /\ last' \in [PageSet -> [Tag -> Offset \cup {-1}]]
       /\ PagesTracked'
  BY <1>1, <1>2, <1>6, <1>9, <1>10, NotedFacts DEF MarkovInv
<1>. QED
  BY <1>8, <1>11 DEF MarkovInv, TablesTyped, PageEntry

LEMMA PassStep ==
  ASSUME MarkovInv, NEW page \in PageAddress, NEW offset \in Offset, NEW degree \in Degree,
         Pass(page, offset, degree)
  PROVE  MarkovInv'
<1>. DEFINE s == PageIndex(page)
            w == FirstOf(Ways(page))
<1>1. s \in PageSet /\ TagOf(page) \in Tag
  BY InputTypes
<1>2. w \in PageWay /\ page_cache[s][w].tag = TagOf(page)
  BY HitType DEF Pass, Ways
<1>3. page_cache \in [PageSet -> [PageWay -> PageEntry]]
  BY DEF MarkovInv, TablesTyped, PageEntry
<1>4. page_cache[s] \in [PageWay -> PageEntry] /\ page_cache[s][w] \in PageEntry
  BY <1>1, <1>2, <1>3
<1>5. page_cache[s][w].delta \in Delta
  BY <1>4 DEF PageEntry
<1>6. /\ page_cache' = [page_cache EXCEPT ![s] = Noted(page_cache[s], w, TagOf(page), page_cache[s][w].delta, offset)]
      /\ last' = [last EXCEPT ![s][TagOf(page)] = offset]
      /\ delta_cache' = delta_cache
  BY <1>1, <1>3 DEF Pass, Traverse
<1>7. /\ page_cache' \in [PageSet -> [PageWay -> PageEntry]]
      /\ last' \in [PageSet -> [Tag -> Offset \cup {-1}]]
      /\ PagesTracked'
  BY <1>1, <1>2, <1>4, <1>5, <1>6, NotedFacts DEF MarkovInv
<1>. QED
  BY <1>6, <1>7 DEF MarkovInv, TablesTyped, PageEntry, FirstCounts

LEMMA EnterStep ==
  ASSUME MarkovInv, NEW page \in PageAddress, NEW offset \in Offset, NEW degree \in Degree,
         Enter(page, offset, degree)
  PROVE  MarkovInv'
<1>. DEFINE s == PageIndex(page)
            w == Victim(page_cache[s])
            set == Flipped(page_cache[s])
<1>1. s \in PageSet /\ TagOf(page) \in Tag
  BY InputTypes
<1>2. w \in PageWay
  BY MarkovAssumption DEF Victim, PageWay
<1>3. page_cache \in [PageSet -> [PageWay -> PageEntry]]
  BY DEF MarkovInv, TablesTyped, PageEntry
<1>4. page_cache[s] \in [PageWay -> PageEntry]
  BY <1>1, <1>3
<1>5. ASSUME NEW v \in PageWay
      PROVE  /\ [page_cache[s][v] EXCEPT !.lru = 0] \in PageEntry
             /\ [page_cache[s][v] EXCEPT !.lru = 0].tag = page_cache[s][v].tag
             /\ [page_cache[s][v] EXCEPT !.lru = 0].offset = page_cache[s][v].offset
  <2>1. page_cache[s][v] \in PageEntry
    BY <1>4
  <2>. QED
    BY <2>1 DEF PageEntry
<1>6. /\ set \in [PageWay -> PageEntry]
      /\ \A v \in PageWay : set[v].tag = page_cache[s][v].tag /\ set[v].offset = page_cache[s][v].offset
  BY <1>4, <1>5 DEF Flipped
<1>8. \A v \in PageWay : page_cache[s][v].tag # TagOf(page)
  BY DEF Enter, Ways
<1>9. \E delta \in Delta : page_cache' = [page_cache EXCEPT ![s] = Noted(set, w, TagOf(page), delta, offset)]
  <2>1. page_cache[s][w].delta \in Delta
    <3>1. page_cache[s][w] \in PageEntry
      BY <1>2, <1>4
    <3>. QED
      BY <3>1 DEF PageEntry
  <2>2. page_cache' = [page_cache EXCEPT ![s] = Noted(Flipped(@), w, TagOf(page), @[w].delta, offset)]
    BY DEF Enter
  <2>3. page_cache' = [page_cache EXCEPT ![s] = Noted(set, w, TagOf(page), page_cache[s][w].delta, offset)]
    BY <1>1, <1>3, <2>2
  <2>4. WITNESS page_cache[s][w].delta \in Delta
  <2>. QED
    BY <2>3
<1>10. last' = [last EXCEPT ![s][TagOf(page)] = offset] /\ delta_cache' = delta_cache
  BY DEF Enter, Traverse
<1>11. /\ page_cache' \in [PageSet -> [PageWay -> PageEntry]]
       /\ last' \in [PageSet -> [Tag -> Offset \cup {-1}]]
       /\ PagesTracked'
  <2>1. PICK delta \in Delta : page_cache' = [page_cache EXCEPT ![s] = Noted(set, w, TagOf(page), delta, offset)]
    BY <1>9
  <2>2. TablesTyped /\ PagesTracked
    BY DEF MarkovInv
  <2>. HIDE DEF s, w, set
  <2>. QED
    BY <1>1, <1>2, <1>6, <1>8, <1>10, <2>1, <2>2, NotedFacts
<1>. QED
  BY <1>10, <1>11 DEF MarkovInv, TablesTyped, PageEntry, FirstCounts

LEMMA MarkovStep ==
  ASSUME MarkovInv, [MarkovNext]_markovVars
  PROVE  MarkovInv'
<1>1. ASSUME UNCHANGED markovVars PROVE MarkovInv'
  BY <1>1 DEF MarkovInv, TablesTyped, FirstCounts, PagesTracked, markovVars
<1>. QED
  BY <1>1, LearnStep, PassStep, EnterStep DEF MarkovNext, Lookup

LEMMA MarkovAlways == MarkovSpec => []MarkovInv
<1>1. MarkovInit => MarkovInv
  BY MarkovInitially
<1>2. MarkovInv /\ [MarkovNext]_markovVars => MarkovInv'
  BY MarkovStep
<1>. QED
  BY <1>1, <1>2, PTL DEF MarkovSpec
-----------------------------------------------------------------------------
(* What the walk prefetches                                                *)

Row == [DeltaWay -> [next : Delta, counter : Nat]]
DeltaCache == [Delta -> Row]
Walk == [delta : Delta, line : Int, best : Nat, issued : Nat, lines : SUBSET Int]
Node == Delta \X Int

\* f adds the counters of a row up.
Sums(f, row) ==
  f = [w \in 0 .. DELTA_NUM_WAYS |-> IF w = 0 THEN 0 ELSE f[w - 1] + row[w - 1].counter]

LEMMA WayCount == DELTA_NUM_WAYS \in Nat /\ DeltaWay = 0 .. DELTA_NUM_WAYS - 1
BY MarkovAssumption DEF DeltaWay

LEMMA SumsExist ==
  ASSUME NEW row \in Row
  PROVE  \E f : Sums(f, row)
<1>. DEFINE step == [w \in 0 .. DELTA_NUM_WAYS - 1 |-> [n \in Nat |-> n + row[w].counter]]
<1>1. step \in [0 .. DELTA_NUM_WAYS - 1 -> [Nat -> Nat]]
  BY WayCount DEF Row
<1>2. PICK f \in [0 .. DELTA_NUM_WAYS -> Nat] : Iterates(f, DELTA_NUM_WAYS, 0, step)
  <2>. HIDE DEF step
  <2>. QED
    BY <1>1, WayCount, Recursion
<1>3. ASSUME NEW w \in 0 .. DELTA_NUM_WAYS, w # 0
      PROVE  step[w - 1][f[w - 1]] = f[w - 1] + row[w - 1].counter
  <2>1. w - 1 \in 0 .. DELTA_NUM_WAYS - 1 /\ f[w - 1] \in Nat
    BY <1>3, WayCount
  <2>. QED
    BY <2>1
<1>. HIDE DEF step
<1>4. Sums(f, row)
  BY <1>2, <1>3 DEF Sums, Iterates
<1>. QED
  BY <1>4

\* The sum of the counters is a number.
LEMMA TotalType ==
  ASSUME NEW row \in Row
  PROVE  Total(row) \in Nat
<1>. DEFINE sum == CHOOSE f : Sums(f, row)
<1>1. Total(row) = sum[DELTA_NUM_WAYS]
  BY DEF Total, Sums
<1>2. Sums(sum, row)
  BY SumsExist, Zenon
<1>. HIDE DEF sum
<1>3. \A w \in 0 .. DELTA_NUM_WAYS : sum[w] = IF w = 0 THEN 0 ELSE sum[w - 1] + row[w - 1].counter
  BY <1>2 DEF Sums
<1>. DEFINE T == {w \in 0 .. DELTA_NUM_WAYS : sum[w] \in Nat}
<1>4. 0 \in T
  BY <1>3, WayCount
<1>5. ASSUME NEW w \in 0 .. DELTA_NUM_WAYS - 1, w \in T PROVE w + 1 \in T
  <2>1. w + 1 \in 0 .. DELTA_NUM_WAYS /\ w + 1 # 0 /\ w + 1 - 1 = w /\ row[w].counter \in Nat
    BY WayCount DEF Row
  <2>2. sum[w + 1] = sum[w] + row[w].counter
    BY <1>3, <2>1
  <2>. QED
    BY <1>5, <2>1, <2>2
<1>6. 0 .. DELTA_NUM_WAYS \subseteq T
  <2>. HIDE DEF T
  <2>. QED
    BY WayCount, <1>4, <1>5, Induction
<1>. QED
  BY <1>1, <1>6, WayCount

\* Where the walk is was reached, and so was every line it prefetched.
On(walk, N, page) ==
  /\ walk \in Walk
  /\ <<walk.delta, walk.line>> \in N
  /\ \A pf \in walk.lines : (\E node \in N : node[2] = pf) /\ pf \div PageOffsets = page

\* With a node of N, its successors are in M.
Leads(cache, N, M) == N \subseteq M /\ \A node \in N : Children(cache, node) \subseteq M

LEMMA DenormType == ASSUME NEW d \in Delta PROVE denorm_delta(d) \in Int
BY MarkovAssumption DEF denorm_delta, Delta, DELTA_NUM_SETS

LEMMA OnGrows ==
  ASSUME NEW N, NEW M, N \subseteq M, NEW walk, NEW page, On(walk, N, page)
  PROVE  On(walk, M, page)
BY DEF On

\* One way of the inner loop takes at most one step, along a recorded transition.
LEMMA TriedFacts ==
  ASSUME NEW cache \in DeltaCache, NEW N, NEW M, Leads(cache, N, M), NEW page,
         NEW walk, On(walk, N, page), NEW sum \in Nat, NEW w \in DeltaWay
  PROVE  On(Tried(cache, page, sum, walk, w), M, page)
<1>. DEFINE e == cache[walk.delta][w]
            pf == walk.line + denorm_delta(e.next)
            inPage == pf \div PageOffsets = page
            more == [delta |-> IF e.counter > walk.best THEN e.next ELSE walk.delta,
                     line |-> IF e.counter > walk.best THEN pf ELSE walk.line,
                     best |-> IF e.counter > walk.best THEN e.counter ELSE walk.best,
                     issued |-> IF inPage THEN walk.issued + 1 ELSE walk.issued,
                     lines |-> IF inPage THEN walk.lines \cup {pf} ELSE walk.lines]
<1>1. Tried(cache, page, sum, walk, w) = IF ~Likely(e.counter, sum) THEN walk ELSE more
  BY DEF Tried
<1>2. /\ walk \in Walk /\ <<walk.delta, walk.line>> \in N
      /\ \A l \in walk.lines : (\E node \in N : node[2] = l) /\ l \div PageOffsets = page
  BY DEF On
<1>3. e.next \in Delta /\ e.counter \in Nat
  <2>1. walk.delta \in Delta
    BY <1>2 DEF Walk
  <2>2. cache[walk.delta] \in Row
    BY <2>1 DEF DeltaCache
  <2>. QED
    BY <2>2 DEF Row
<1>4. pf \in Int
  BY <1>2, <1>3, DenormType DEF Walk
<1>5. N \subseteq M /\ \A node \in N : Children(cache, node) \subseteq M
  BY DEF Leads
<1>6. CASE ~Likely(e.counter, sum)
  <2>. HIDE DEF e, more
  <2>. QED
    BY <1>1, <1>5, <1>6, OnGrows
<1>7. CASE Likely(e.counter, sum)
  <2>1. e.counter > 0
    BY <1>3, <1>7 DEF Likely
  <2>2. <<e.next, pf>> \in Children(cache, <<walk.delta, walk.line>>)
    <3>1. w \in {v \in DeltaWay : cache[walk.delta][v].counter > 0}
      BY <2>1
    <3>. QED
      BY <3>1 DEF Children
  <2>3. <<e.next, pf>> \in M /\ <<walk.delta, walk.line>> \in M
    <3>. HIDE DEF e, pf
    <3>. QED
      BY <1>2, <1>5, <2>2
  <2>. HIDE DEF e, pf
  <2>4. more \in Walk
    BY <1>2, <1>3, <1>4 DEF Walk
  <2>5. <<more.delta, more.line>> \in M
    BY <2>3
  <2>6. ASSUME NEW l \in more.lines
        PROVE  (\E node \in M : node[2] = l) /\ l \div PageOffsets = page
    <3>1. CASE l \in walk.lines
      BY <1>2, <1>5, <3>1
    <3>2. CASE l \notin walk.lines
      <4>1. l = pf /\ inPage
        BY <2>6, <3>2
      <4>2. <<e.next, pf>>[2] = pf
        OBVIOUS
      <4>. QED
        BY <2>3, <4>1, <4>2
    <3>. QED
      BY <3>1, <3>2
  <2>7. On(more, M, page)
    <3>. HIDE DEF more
    <3>. QED
      BY <2>4, <2>5, <2>6 DEF On
  <2>. QED
    BY <1>1, <1>7, <2>7
<1>. QED
  BY <1>6, <1>7

\* Recorded transitions lead to nodes.
LEMMA NodesLead ==
  ASSUME NEW cache \in DeltaCache
  PROVE  Leads(cache, Node, Node)
<1>1. ASSUME NEW node \in Node, NEW child \in Children(cache, node) PROVE child \in Node
  <2>1. PICK w \in DeltaWay :
          child = <<cache[node[1]][w].next, node[2] + denorm_delta(cache[node[1]][w].next)>>
    BY <1>1 DEF Children
  <2>2. node[1] \in Delta /\ node[2] \in Int
    BY DEF Node
  <2>3. cache[node[1]] \in Row
    BY <2>2 DEF DeltaCache
  <2>4. cache[node[1]][w].next \in Delta
    BY <2>3 DEF Row
  <2>. QED
    BY <2>1, <2>2, <2>4, DenormType DEF Node
<1>. QED
  BY <1>1 DEF Leads

\* f is the inner loop of a round.
Tries(f, cache, page, sum, walk) ==
  f = [w \in 0 .. DELTA_NUM_WAYS |->
         IF w = 0 THEN [walk EXCEPT !.best = 0] ELSE Tried(cache, page, sum, f[w - 1], w - 1)]

\* the walks from anywhere
Anywhere(page) == {walk \in Walk : On(walk, Node, page)}

LEMMA RestartFacts ==
  ASSUME NEW N, NEW page, NEW walk, On(walk, N, page)
  PROVE  On([walk EXCEPT !.best = 0], N, page)
BY DEF On, Walk

LEMMA TriesExist ==
  ASSUME NEW cache \in DeltaCache, NEW page, NEW sum \in Nat, NEW walk, On(walk, Node, page)
  PROVE  \E f : Tries(f, cache, page, sum, walk)
<1>. DEFINE first == [walk EXCEPT !.best = 0]
            step == [w \in 0 .. DELTA_NUM_WAYS - 1 |->
                       [x \in Anywhere(page) |-> Tried(cache, page, sum, x, w)]]
<1>1. step \in [0 .. DELTA_NUM_WAYS - 1 -> [Anywhere(page) -> Anywhere(page)]]
  <2>1. ASSUME NEW w \in 0 .. DELTA_NUM_WAYS - 1, NEW x \in Anywhere(page)
        PROVE  Tried(cache, page, sum, x, w) \in Anywhere(page)
    <3>1. w \in DeltaWay /\ On(x, Node, page) /\ Leads(cache, Node, Node)
      BY WayCount, NodesLead DEF Anywhere
    <3>2. On(Tried(cache, page, sum, x, w), Node, page)
      BY <3>1, TriedFacts
    <3>. QED
      BY <3>2 DEF Anywhere, On
  <2>. QED
    BY <2>1
<1>2. first \in Anywhere(page)
  <2>1. On(first, Node, page)
    BY RestartFacts
  <2>. HIDE DEF first
  <2>. QED
    BY <2>1 DEF Anywhere, On
<1>3. PICK f \in [0 .. DELTA_NUM_WAYS -> Anywhere(page)] : Iterates(f, DELTA_NUM_WAYS, first, step)
  <2>. HIDE DEF step, first
  <2>. QED
    BY <1>1, <1>2, WayCount, Recursion
<1>4. ASSUME NEW w \in 0 .. DELTA_NUM_WAYS, w # 0
      PROVE  step[w - 1][f[w - 1]] = Tried(cache, page, sum, f[w - 1], w - 1)
  <2>1. w - 1 \in 0 .. DELTA_NUM_WAYS - 1 /\ f[w - 1] \in Anywhere(page)
    BY <1>4, WayCount
  <2>. QED
    BY <2>1
<1>. HIDE DEF step
<1>5. Tries(f, cache, page, sum, walk)
  BY <1>3, <1>4 DEF Tries, Iterates
<1>. QED
  BY <1>5

\* The nodes within k steps, for k up to n.
Ranks(R, cache, n) ==
  R \in [0 .. n -> SUBSET Node] /\ \A k \in 0 .. n - 1 : Leads(cache, R[k], R[k + 1])

\* A round takes at most one step for each way of a row.
LEMMA RoundFacts ==
  ASSUME NEW cache \in DeltaCache, NEW n \in Nat, NEW R, Ranks(R, cache, n),
         NEW k \in 0 .. n, k + DELTA_NUM_WAYS <= n,
         NEW page, NEW walk, On(walk, R[k], page)
  PROVE  On(Round(cache, page, walk), R[k + DELTA_NUM_WAYS], page)
<1>. DEFINE sum == Total(cache[walk.delta])
            tried == CHOOSE f : Tries(f, cache, page, sum, walk)
<1>1. Round(cache, page, walk) = tried[DELTA_NUM_WAYS]
  BY DEF Round, Tries
<1>2. sum \in Nat
  <2>1. walk.delta \in Delta
    BY DEF On, Walk
  <2>2. cache[walk.delta] \in Row
    BY <2>1 DEF DeltaCache
  <2>. QED
    BY <2>2, TotalType
<1>3. Tries(tried, cache, page, sum, walk)
  <2>1. R[k] \subseteq Node
    BY DEF Ranks
  <2>2. On(walk, Node, page)
    BY <2>1, OnGrows
  <2>. HIDE DEF sum
  <2>3. \E f : Tries(f, cache, page, sum, walk)
    BY <1>2, <2>2, TriesExist
  <2>. QED
    BY <2>3, Zenon
<1>. HIDE DEF sum, tried
<1>4. /\ tried[0] = [walk EXCEPT !.best = 0]
      /\ \A w \in 0 .. DELTA_NUM_WAYS - 1 : tried[w + 1] = Tried(cache, page, sum, tried[w], w)
  <2>1. \A w \in 0 .. DELTA_NUM_WAYS :
          tried[w] = IF w = 0 THEN [walk EXCEPT !.best = 0]
                              ELSE Tried(cache, page, sum, tried[w - 1], w - 1)
    BY <1>3 DEF Tries
  <2>2. ASSUME NEW w \in 0 .. DELTA_NUM_WAYS - 1
        PROVE  tried[w + 1] = Tried(cache, page, sum, tried[w], w)
    <3>1. w + 1 \in 0 .. DELTA_NUM_WAYS /\ w + 1 # 0 /\ w + 1 - 1 = w
      BY WayCount
    <3>. QED
      BY <2>1, <3>1
  <2>. QED
    BY <2>1, <2>2, WayCount
<1>. DEFINE T == {w \in 0 .. DELTA_NUM_WAYS : On(tried[w], R[k + w], page)}
<1>5. 0 \in T
  <2>1. On(tried[0], R[k], page) /\ k + 0 = k
    BY <1>4, RestartFacts
  <2>. QED
    BY <2>1, WayCount
<1>6. ASSUME NEW w \in 0 .. DELTA_NUM_WAYS - 1, w \in T PROVE w + 1 \in T
  <2>1. k + w \in 0 .. n - 1 /\ w \in DeltaWay /\ w + 1 \in 0 .. DELTA_NUM_WAYS
        /\ k + (w + 1) = (k + w) + 1
    BY WayCount
  <2>2. Leads(cache, R[k + w], R[(k + w) + 1])
    BY <2>1 DEF Ranks
  <2>3. On(Tried(cache, page, sum, tried[w], w), R[(k + w) + 1], page)
    BY <1>2, <1>6, <2>1, <2>2, TriedFacts
  <2>. QED
    BY <1>4, <2>1, <2>3
<1>7. 0 .. DELTA_NUM_WAYS \subseteq T
  <2>. HIDE DEF T
  <2>. QED
    BY WayCount, <1>5, <1>6, Induction
<1>. QED
  BY <1>1, <1>7, WayCount

\* f is the outer loop of the walk, from start on.
Walks(f, cache, page, start, degree) ==
  f = [j \in 0 .. degree |->
         IF j = 0 THEN start
         ELSE IF f[j - 1].issued > degree \/ f[j - 1].best = 0 THEN f[j - 1]
         ELSE Round(cache, page, f[j - 1])]

\* where the outer loop goes from a walk
Onward(cache, page, degree, walk) ==
  IF walk.issued > degree \/ walk.best = 0 THEN walk ELSE Round(cache, page, walk)

LEMMA OnwardAnywhere ==
  ASSUME NEW cache \in DeltaCache, NEW page, NEW degree, NEW walk \in Anywhere(page)
  PROVE  Onward(cache, page, degree, walk) \in Anywhere(page)
<1>. DEFINE R == [k \in 0 .. DELTA_NUM_WAYS |-> Node]
<1>1. Ranks(R, cache, DELTA_NUM_WAYS)
  BY NodesLead, WayCount DEF Ranks
<1>2. On(walk, R[0], page) /\ R[0 + DELTA_NUM_WAYS] = Node /\ 0 \in 0 .. DELTA_NUM_WAYS
  BY WayCount DEF Anywhere
<1>. HIDE DEF R
<1>3. On(Round(cache, page, walk), R[0 + DELTA_NUM_WAYS], page)
  BY <1>1, <1>2, WayCount, RoundFacts
<1>4. On(Round(cache, page, walk), Node, page)
  BY <1>2, <1>3
<1>5. Round(cache, page, walk) \in Anywhere(page)
  BY <1>4 DEF Anywhere, On
<1>. QED
  BY <1>5 DEF Onward

LEMMA WalksExist ==
  ASSUME NEW cache \in DeltaCache, NEW page, NEW degree \in Nat, NEW start \in Anywhere(page)
  PROVE  \E f : Walks(f, cache, page, start, degree)
<1>. DEFINE step == [j \in 0 .. degree - 1 |->
                       [x \in Anywhere(page) |-> Onward(cache, page, degree, x)]]
<1>1. step \in [0 .. degree - 1 -> [Anywhere(page) -> Anywhere(page)]]
  BY OnwardAnywhere
<1>2. PICK f \in [0 .. degree -> Anywhere(page)] : Iterates(f, degree, start, step)
  <2>. HIDE DEF step
  <2>. QED
    BY <1>1, Recursion
<1>3. ASSUME NEW j \in 0 .. degree, j # 0
      PROVE  step[j - 1][f[j - 1]] = Onward(cache, page, degree, f[j - 1])
  <2>1. j - 1 \in 0 .. degree - 1 /\ f[j - 1] \in Anywhere(page)
    BY <1>3
  <2>. QED
    BY <2>1
<1>. HIDE DEF step
<1>4. Walks(f, cache, page, start, degree)
  BY <1>2, <1>3 DEF Walks, Iterates, Onward
<1>. QED
  BY <1>4

\* Later ranks include earlier ones.
LEMMA RanksGrow ==
  ASSUME NEW cache, NEW n \in Nat, NEW R, Ranks(R, cache, n), NEW m \in 0 .. n, NEW l \in m .. n
  PROVE  R[m] \subseteq R[l]
<1>. DEFINE T == {i \in 0 .. n - m : R[m] \subseteq R[m + i]}
<1>1. 0 \in T
  OBVIOUS
<1>2. ASSUME NEW i \in 0 .. n - m - 1, i \in T PROVE i + 1 \in T
  <2>1. m + i \in 0 .. n - 1 /\ m + (i + 1) = (m + i) + 1 /\ i + 1 \in 0 .. n - m
    OBVIOUS
  <2>2. R[m + i] \subseteq R[(m + i) + 1]
    BY <2>1 DEF Ranks, Leads
  <2>. QED
    BY <1>2, <2>1, <2>2
<1>3. 0 .. n - m \subseteq T
  <2>1. n - m \in Nat
    OBVIOUS
  <2>. HIDE DEF T
  <2>. QED
    BY <1>1, <1>2, <2>1, Induction
<1>4. l - m \in T /\ m + (l - m) = l
  BY <1>3
<1>. QED
  BY <1>4

\* j rounds need j steps for each way, and not more than all rounds do.
LEMMA RoundsFit ==
  ASSUME NEW j \in Nat, NEW most \in Nat, j < most
  PROVE  /\ DELTA_NUM_WAYS * j \in Nat /\ DELTA_NUM_WAYS * most \in Nat
         /\ DELTA_NUM_WAYS * (j + 1) = DELTA_NUM_WAYS * j + DELTA_NUM_WAYS
         /\ DELTA_NUM_WAYS * j + DELTA_NUM_WAYS <= DELTA_NUM_WAYS * most
BY MarkovAssumption, SMTT(30)

\* The walk stays on the nodes it can reach in as many steps as it has rounds and ways.
LEMMA WalkedFacts ==
  ASSUME NEW cache \in DeltaCache, NEW most \in Nat, NEW degree \in 0 .. most,
         NEW R, Ranks(R, cache, DELTA_NUM_WAYS * most),
         NEW page, NEW delta, NEW line, <<delta, line>> \in R[0],
         NEW pf \in Walked(cache, page, delta, line, degree)
  PROVE  /\ \E node \in R[DELTA_NUM_WAYS * most] : node[2] = pf
         /\ pf \div PageOffsets = page
<1>. DEFINE start == [delta |-> delta, line |-> line, best |-> 1, issued |-> 0, lines |-> {}]
            walk == CHOOSE f : Walks(f, cache, page, start, degree)
            n == DELTA_NUM_WAYS * most
<1>1. Walked(cache, page, delta, line, degree) = walk[degree].lines
  BY DEF Walked, Walks
<1>2. n \in Nat /\ 0 \in 0 .. n
  BY WayCount, SMTT(30)
<1>3. R[0] \subseteq Node
  BY <1>2 DEF Ranks
<1>4. On(start, R[0], page)
  <2>1. delta \in Delta /\ line \in Int
    BY <1>3 DEF Node
  <2>. QED
    BY <2>1 DEF On, Walk
<1>. HIDE DEF start
<1>5. start \in Anywhere(page)
  <2>1. On(start, Node, page)
    BY <1>3, <1>4, OnGrows
  <2>. QED
    BY <2>1 DEF Anywhere, On
<1>6. Walks(walk, cache, page, start, degree)
  <2>1. \E f : Walks(f, cache, page, start, degree)
    BY <1>5, WalksExist
  <2>. QED
    BY <2>1, Zenon
<1>. HIDE DEF walk
<1>7. /\ walk[0] = start
      /\ \A j \in 0 .. degree - 1 : walk[j + 1] = Onward(cache, page, degree, walk[j])
  <2>1. \A j \in 0 .. degree : walk[j] = IF j = 0 THEN start ELSE Onward(cache, page, degree, walk[j - 1])
    BY <1>6 DEF Walks, Onward
  <2>2. ASSUME NEW j \in 0 .. degree - 1 PROVE walk[j + 1] = Onward(cache, page, degree, walk[j])
    <3>1. j + 1 \in 0 .. degree /\ j + 1 # 0 /\ j + 1 - 1 = j
      OBVIOUS
    <3>. QED
      BY <2>1, <3>1
  <2>. QED
    BY <2>1, <2>2
<1>. DEFINE T == {j \in 0 .. degree : DELTA_NUM_WAYS * j \in 0 .. n /\ On(walk[j], R[DELTA_NUM_WAYS * j], page)}
<1>8. 0 \in T
  <2>1. DELTA_NUM_WAYS * 0 = 0
    BY WayCount
  <2>. QED
    BY <1>2, <1>4, <1>7, <2>1
<1>9. ASSUME NEW j \in 0 .. degree - 1, j \in T PROVE j + 1 \in T
  <2>. DEFINE k == DELTA_NUM_WAYS * j
  <2>1. DELTA_NUM_WAYS * (j + 1) = k + DELTA_NUM_WAYS /\ k + DELTA_NUM_WAYS \in 0 .. n /\ k \in 0 .. n
    <3>1. j \in Nat /\ j < most
      OBVIOUS
    <3>. QED
      BY <1>2, <3>1, RoundsFit, WayCount
  <2>2. On(walk[j], R[k], page)
    BY <1>9
  <2>. HIDE DEF k, n
  <2>3. Ranks(R, cache, n)
    BY DEF n
  <2>4. On(Round(cache, page, walk[j]), R[k + DELTA_NUM_WAYS], page)
    BY <1>2, <2>1, <2>2, <2>3, RoundFacts
  <2>5. On(walk[j], R[k + DELTA_NUM_WAYS], page)
    <3>1. k + DELTA_NUM_WAYS \in k .. n
      BY <1>2, <2>1, WayCount
    <3>2. R[k] \subseteq R[k + DELTA_NUM_WAYS]
      BY <1>2, <2>1, <2>3, <3>1, RanksGrow
    <3>. QED
      BY <2>2, <3>2, OnGrows
  <2>6. On(walk[j + 1], R[k + DELTA_NUM_WAYS], page)
    BY <1>7, <2>4, <2>5 DEF Onward
  <2>. QED
    BY <2>1, <2>6
<1>10. 0 .. degree \subseteq T
  <2>. HIDE DEF T
  <2>. QED
    BY <1>8, <1>9, Induction
<1>11. DELTA_NUM_WAYS * degree \in 0 .. n /\ On(walk[degree], R[DELTA_NUM_WAYS * degree], page)
  BY <1>10
<1>. HIDE DEF n, T
<1>12. Ranks(R, cache, n)
  BY DEF n
<1>13. R[DELTA_NUM_WAYS * degree] \subseteq R[n]
  <2>1. n \in (DELTA_NUM_WAYS * degree) .. n
    BY <1>2, <1>11
  <2>. QED
    BY <1>2, <1>11, <1>12, <2>1, RanksGrow
<1>14. On(walk[degree], R[n], page)
  BY <1>11, <1>13, OnGrows
<1>. QED
  BY <1>1, <1>14 DEF On, n

\* f is what is reached from a node, with k steps at most.
Reaches(f, cache, from, n) ==
  f = [k \in 0 .. n |->
         IF k = 0 THEN {from}
         ELSE f[k - 1] \cup (UNION {Children(cache, node) : node \in f[k - 1]})]

\* a set of nodes and all their successors
Spread(cache, N) == N \cup (UNION {Children(cache, node) : node \in N})

LEMMA SpreadFacts ==
  ASSUME NEW cache \in DeltaCache, NEW N \in SUBSET Node
  PROVE  Spread(cache, N) \in SUBSET Node /\ Leads(cache, N, Spread(cache, N))
<1>1. \A node \in N : Children(cache, node) \subseteq Node
  BY NodesLead DEF Leads
<1>. QED
  BY <1>1 DEF Spread, Leads

\* The nodes of a chain are ranked by the steps it takes to reach them.
LEMMA ChainFacts ==
  ASSUME NEW cache \in DeltaCache, NEW from \in Node, NEW n \in Nat
  PROVE  \E R : Ranks(R, cache, n) /\ from \in R[0] /\ R[n] = Chain(cache, from, n)
<1>. DEFINE R == CHOOSE f : Reaches(f, cache, from, n)
            step == [k \in 0 .. n - 1 |-> [N \in SUBSET Node |-> Spread(cache, N)]]
<1>1. Chain(cache, from, n) = R[n]
  BY DEF Chain, Reaches
<1>2. \E f : Reaches(f, cache, from, n)
  <2>1. step \in [0 .. n - 1 -> [SUBSET Node -> SUBSET Node]] /\ {from} \in SUBSET Node
    BY SpreadFacts
  <2>2. PICK f \in [0 .. n -> SUBSET Node] : Iterates(f, n, {from}, step)
    <3>. DEFINE base == {from}
    <3>. HIDE DEF step, base
    <3>1. base \in SUBSET Node
      BY <2>1 DEF base
    <3>2. \E f \in [0 .. n -> SUBSET Node] : Iterates(f, n, base, step)
      BY <2>1, <3>1, Recursion
    <3>. QED
      BY <3>2 DEF base
  <2>3. ASSUME NEW k \in 0 .. n, k # 0 PROVE step[k - 1][f[k - 1]] = Spread(cache, f[k - 1])
    <3>1. k - 1 \in 0 .. n - 1 /\ f[k - 1] \in SUBSET Node
      BY <2>3
    <3>. QED
      BY <3>1
  <2>. HIDE DEF step
  <2>4. f = [k \in 0 .. n |-> IF k = 0 THEN {from} ELSE Spread(cache, f[k - 1])]
    BY <2>2, <2>3 DEF Iterates
  <2>5. Reaches(f, cache, from, n)
    BY <2>4 DEF Reaches, Spread
  <2>. QED
    BY <2>5
<1>3. Reaches(R, cache, from, n)
  BY <1>2, Zenon
<1>. HIDE DEF R
<1>4. R = [k \in 0 .. n |-> IF k = 0 THEN {from} ELSE Spread(cache, R[k - 1])]
  BY <1>3 DEF Reaches, Spread
<1>. HIDE DEF step
<1>5. R[0] = {from} /\ \A k \in 0 .. n - 1 : R[k + 1] = Spread(cache, R[k])
  <2>1. \A k \in 0 .. n : R[k] = IF k = 0 THEN {from} ELSE Spread(cache, R[k - 1])
    <3>. DEFINE F == [k \in 0 .. n |-> IF k = 0 THEN {from} ELSE Spread(cache, R[k - 1])]
    <3>1. \A k \in 0 .. n : F[k] = IF k = 0 THEN {from} ELSE Spread(cache, R[k - 1])
      OBVIOUS
    <3>2. R = F
      BY <1>4
    <3>. HIDE DEF F
    <3>. QED
      BY <3>1, <3>2
  <2>2. ASSUME NEW k \in 0 .. n - 1 PROVE R[k + 1] = Spread(cache, R[k])
    <3>1. k + 1 \in 0 .. n /\ k + 1 # 0 /\ k + 1 - 1 = k
      OBVIOUS
    <3>. QED
      BY <2>1, <3>1
  <2>3. 0 \in 0 .. n
    OBVIOUS
  <2>. QED
    BY <2>1, <2>2, <2>3
<1>. DEFINE T == {k \in 0 .. n : R[k] \in SUBSET Node}
<1>6. 0 \in T
  BY <1>5
<1>7. ASSUME NEW k \in 0 .. n - 1, k \in T PROVE k + 1 \in T
  <2>1. R[k + 1] \in SUBSET Node
    BY <1>5, <1>7, SpreadFacts
  <2>. QED
    BY <2>1
<1>8. 0 .. n \subseteq T
  <2>. HIDE DEF T
  <2>. QED
    BY <1>6, <1>7, Induction
<1>9. Ranks(R, cache, n)
  <2>1. R \in [0 .. n -> SUBSET Node]
    <3>1. R = [k \in 0 .. n |-> R[k]]
      BY <1>4
    <3>. QED
      BY <1>8, <3>1
  <2>2. ASSUME NEW k \in 0 .. n - 1 PROVE Leads(cache, R[k], R[k + 1])
    <3>1. k \in T
      BY <1>8
    <3>. QED
      BY <1>5, <3>1, SpreadFacts
  <2>. QED
    BY <2>1, <2>2 DEF Ranks
<1>. QED
  BY <1>1, <1>5, <1>9

\* The line of an offset is in its page.
LEMMA LinePage ==
  ASSUME NEW page \in PageAddress, NEW offset \in Offset
  PROVE  /\ page * PageOffsets + offset \in Int
         /\ (page * PageOffsets + offset) \div PageOffsets = page
BY MarkovAssumption, LookupAssumption, SMTT(30) DEF Offset

LEMMA TraverseFacts ==
  ASSUME delta_cache' \in DeltaCache, NEW page \in PageAddress, NEW offset \in Offset,
         NEW degree \in Degree, NEW delta \in Delta, Traverse(page, offset, delta, degree)
  PROVE  ChainsOnly'
<1>. DEFINE line == page * PageOffsets + offset
            cache == delta_cache'
            n == DELTA_NUM_WAYS * MaxDegree
<1>1. prefetched' = [from |-> <<delta, line>>, lines |-> Walked(cache, page, delta, line, degree)]
  BY DEF Traverse
<1>2. line \in Int /\ line \div PageOffsets = page
  BY LinePage
<1>3. cache \in DeltaCache /\ MaxDegree \in Nat /\ degree \in 0 .. MaxDegree /\ n \in Nat
  BY LookupAssumption, WayCount, SMTT(30)
<1>4. <<delta, line>> \in Node
  BY <1>2 DEF Node
<1>. HIDE DEF line, cache
<1>5. PICK R : /\ Ranks(R, cache, n) /\ <<delta, line>> \in R[0]
               /\ R[n] = Chain(cache, <<delta, line>>, n)
  <2>. DEFINE from == <<delta, line>>
  <2>. HIDE DEF from, n
  <2>1. \E R : Ranks(R, cache, n) /\ from \in R[0] /\ R[n] = Chain(cache, from, n)
    <3>1. from \in Node
      BY <1>4 DEF from
    <3>. QED
      BY <1>3, <3>1, ChainFacts
  <2>. QED
    BY <2>1 DEF from
<1>6. ASSUME NEW pf \in Walked(cache, page, delta, line, degree)
      PROVE  /\ \E node \in Chain(cache, <<delta, line>>, n) : node[2] = pf
             /\ pf \div PageOffsets = page
  <2>1. /\ \E node \in R[DELTA_NUM_WAYS * MaxDegree] : node[2] = pf
        /\ pf \div PageOffsets = page
    BY <1>3, <1>5, WalkedFacts
  <2>. QED
    BY <1>5, <2>1
<1>7. ASSUME NEW pf \in prefetched'.lines
      PROVE  /\ \E node \in Chain(delta_cache', prefetched'.from, DELTA_NUM_WAYS * MaxDegree) : node[2] = pf
             /\ pf \div PageOffsets = prefetched'.from[2] \div PageOffsets
  <2>1. /\ prefetched'.from = <<delta, line>> /\ <<delta, line>>[2] = line
        /\ prefetched'.lines = Walked(cache, page, delta, line, degree)
    BY <1>1
  <2>2. pf \in Walked(cache, page, delta, line, degree)
    BY <1>7, <2>1
  <2>. QED
    BY <1>2, <1>6, <2>1, <2>2 DEF cache
<1>. QED
  BY <1>7 DEF ChainsOnly

LEMMA LookupPrefetches ==
  ASSUME MarkovInv, MarkovInv', NEW page \in PageAddress, NEW offset \in Offset, NEW degree \in Degree,
         Lookup(page, offset, degree)
  PROVE  ChainsOnly'
<1>1. PICK delta \in Delta : Traverse(page, offset, delta, degree)
  <2>1. norm_delta(1) \in Delta
    BY MarkovAssumption DEF norm_delta, Delta, DELTA_NUM_SETS
  <2>2. CASE Learn(page, offset, degree)
    <3>. DEFINE s == PageIndex(page)
                w == FirstOf(Ways(page))
    <3>1. s \in PageSet /\ w \in PageWay
      BY <2>2, InputTypes, HitType DEF Learn
    <3>2. page_cache[s][w].offset \in Offset
      BY <3>1 DEF MarkovInv, TablesTyped
    <3>3. norm_delta(offset - page_cache[s][w].offset) \in Delta
      BY <3>2, DistanceType
    <3>. QED
      BY <2>2, <3>3 DEF Learn
  <2>3. CASE Pass(page, offset, degree)
    BY <2>1, <2>3 DEF Pass
  <2>4. CASE Enter(page, offset, degree)
    BY <2>1, <2>4 DEF Enter
  <2>. QED
    BY <2>2, <2>3, <2>4 DEF Lookup
<1>2. delta_cache' \in DeltaCache
  BY DEF MarkovInv, TablesTyped, DeltaCache, Row
<1>. QED
  BY <1>1, <1>2, TraverseFacts

-----------------------------------------------------------------------------
(* The theorems                                                            *)

\* For any sizes, every index the prefetcher computes is inside its tables.
THEOREM TablesInRange == MarkovSpec => []TablesTyped
BY MarkovAlways, PTL DEF MarkovInv

\* For any number of deltas and ways, no transition is counted in two ways of
\* its row: although all ways start with the same delta and any may be evicted.
THEOREM TransitionsCountedOnce == MarkovSpec => []CountedOnce
<1>1. MarkovInv => CountedOnce
  <2>. SUFFICES ASSUME FirstCounts, TablesTyped,
                       NEW d \in Delta, NEW v \in DeltaWay, NEW w \in DeltaWay,
                       delta_cache[d][v].counter > 0, delta_cache[d][w].counter > 0,
                       delta_cache[d][v].next = delta_cache[d][w].next
                PROVE  v = w
    BY DEF MarkovInv, CountedOnce
  <2>1. ~(v < w) /\ ~(w < v)
    BY DEF FirstCounts
  <2>. QED
    BY <2>1 DEF DeltaWay
<1>. QED
  BY <1>1, MarkovAlways, PTL

\* For any number of pages, sets, ways and tags, a page of the page cache is
\* there once and with the offset of its last lookup.
THEOREM PagesAlwaysTracked == MarkovSpec => []PagesTracked
BY MarkovAlways, PTL DEF MarkovInv

\* For any number of ways and any degree, a lookup prefetches lines of its page
\* only, and only those that a chain of recorded transitions leads to: although
\* the walk changes the row in the middle of a row.
THEOREM PrefetchesFollowChains == MarkovSpec => []ChainsOnly
<1>1. MarkovInit => ChainsOnly
  BY DEF MarkovInit, ChainsOnly
<1>2. MarkovInv /\ MarkovInv' /\ ChainsOnly /\ [MarkovNext]_markovVars => ChainsOnly'
  <2>1. ASSUME ChainsOnly, UNCHANGED markovVars PROVE ChainsOnly'
    BY <2>1 DEF ChainsOnly, markovVars
  <2>. QED
    BY <2>1, LookupPrefetches DEF MarkovNext
<1>. QED
  BY <1>1, <1>2, MarkovAlways, PTL DEF MarkovSpec
=============================================================================

---------------------------- MODULE CacheProofs ----------------------------
(***************************************************************************)
(* The caches of labs/lab1 keep the blocks their policies promise, for any *)
(* number of sets and ways, any range of the timestamps and every policy   *)
(* but MRU_LRU, as long as the timestamps have not overflowed.             *)
(*                                                                         *)
(* The inductive invariant says how the numbers in the ways encode the     *)
(* order of OrderedCache: within a set they are distinct, none is ahead of *)
(* its counter, and they are ordered like the blocks.                      *)
(*                                                                         *)
(* The caches of labs/lab2 keep their sets in LRU order, for any number of *)
(* sets and ways. A set's list is its valid ways by their timestamps: the  *)
(* timestamps make it unique, and every write of a way moves that way to   *)
(* its end.                                                                *)
(*                                                                         *)
(* The caches of labs/lab3 lose no request and no write, for any sizes, if *)
(* no two caches share a lower one.  Between the sends of a request the    *)
(* invariant has an exception: the one line that is locked already while   *)
(* the next level has not been asked for its block yet.                    *)
(***************************************************************************)
EXTENDS CachePolicies, LruWays, CacheSystem, SeqLemmas, FiniteSetTheorems, WellFoundedInduction, TLAPS

(* Minima                                                                  *)

\* The first way of a nonempty set of ways is one of them.
LEMMA FirstOfFacts ==
  ASSUME NEW S, S \subseteq Way, S # {}
  PROVE  FirstOf(S) \in S
<1>1. S \subseteq Nat
  BY WayAssumption DEF Way
<1>2. \E w \in S : \A v \in S : w <= v
  BY <1>1, Least
<1>. QED
  BY <1>2 DEF FirstOf

\* The search for the lowest value of a field finds a way that has it, if the
\* values are bounded.
LEMMA LowestFacts ==
  ASSUME NEW set, NEW key, NEW n \in Int,
         \A w \in Way : set[w][key] \in Int /\ n <= set[w][key]
  PROVE  /\ Lowest(set, key) \in Way
         /\ \A v \in Way : set[Lowest(set, key)][key] <= set[v][key]
<1>. DEFINE T == {set[w][key] - n : w \in Way}
            S == {w \in Way : \A v \in Way : set[w][key] <= set[v][key]}
<1>1. T \subseteq Nat /\ T # {}
  BY WayAssumption DEF Way
<1>2. PICK x \in T : \A y \in T : x <= y
  BY <1>1, Least
<1>3. PICK w \in Way : x = set[w][key] - n
  BY <1>2
<1>4. \A v \in Way : set[w][key] - n <= set[v][key] - n
  BY <1>2, <1>3
<1>5. \A v \in Way : set[w][key] <= set[v][key]
  BY <1>4
<1>6. S # {}
  BY <1>3, <1>5
<1>7. FirstOf(S) \in S
  BY <1>6, FirstOfFacts
<1>. QED
  BY <1>7 DEF Lowest

\* So does the search for the highest one.
LEMMA HighestFacts ==
  ASSUME NEW set, NEW key, NEW n \in Int,
         \A w \in Way : set[w][key] \in Int /\ set[w][key] <= n
  PROVE  /\ Highest(set, key) \in Way
         /\ \A v \in Way : set[v][key] <= set[Highest(set, key)][key]
<1>. DEFINE T == {n - set[w][key] : w \in Way}
            S == {w \in Way : \A v \in Way : set[v][key] <= set[w][key]}
<1>1. T \subseteq Nat /\ T # {}
  BY WayAssumption DEF Way
<1>2. PICK x \in T : \A y \in T : x <= y
  BY <1>1, Least
<1>3. PICK w \in Way : x = n - set[w][key]
  BY <1>2
<1>4. \A v \in Way : n - set[w][key] <= n - set[v][key]
  BY <1>2, <1>3
<1>5. \A v \in Way : set[v][key] <= set[w][key]
  BY <1>4
<1>6. S # {}
  BY <1>3, <1>5
<1>7. FirstOf(S) \in S
  BY <1>6, FirstOfFacts
<1>. QED
  BY <1>7 DEF Highest

-----------------------------------------------------------------------------
(* The invariant                                                           *)

Valid(s) == {w \in Way : blocks[s][w].valid}

\* the number a policy goes by
KeyOf(b) == IF policy \in {"FIFO", "LIFO"} THEN b.insert_timestamp ELSE b.last_access
Key(s, w) == KeyOf(blocks[s][w])

\* No block was accessed or inserted later than now.
Stamps ==
  /\ timestamp \in Nat /\ insert_counter \in Nat /\ insert_counter <= timestamp
  /\ \A s \in Set, w \in Way :
       /\ blocks[s][w].last_access \in Nat /\ blocks[s][w].last_access <= timestamp
       /\ blocks[s][w].insert_timestamp \in Nat
       /\ blocks[s][w].insert_timestamp <= insert_counter

\* No block is in a set twice, and the numbers of a set tell its blocks apart.
Distinct ==
  \A s \in Set : \A v, w \in Valid(s) :
    v # w => blocks[s][v].tag # blocks[s][w].tag /\ Key(s, v) # Key(s, w)

\* The numbers are ordered like the blocks.
Ordered ==
  \A s \in Set :
    /\ before[s] \subseteq held[s] \X held[s]
    /\ \A v, w \in Valid(s) :
         <<blocks[s][v].tag, blocks[s][w].tag>> \in before[s] <=> Key(s, v) < Key(s, w)

Same == \A s \in Set : held[s] = TagsOf(s)

Encoded == Stamps /\ Distinct /\ Ordered /\ Same

HistoryType == held \in [Set -> SUBSET Tag] /\ before \in [Set -> SUBSET (Tag \X Tag)]

\* After a hit the block of a disabled cache is invalid.
HitsOnce == ~enabled /\ result = "CACHE_HIT" => ~blocks[0][0].valid

BaseInv == TypeOK /\ HistoryType /\ HitsOnce

IInv == BaseInv /\ (enabled /\ ~overflowed => Encoded)

\* OrderedCache counts the sets as CacheWays does.
LEMMA SameSet == Order!Set = Set
  BY DEF Order!Set, Set

LEMMA SameCardinality == \A S : Order!Cardinality(S) = Cardinality(S)
  BY DEF Order!Cardinality, Cardinality

\* A block belongs to one of the sets.
LEMMA IndexType == \A tag \in Tag : Index(tag) \in Set
  BY TagAssumption, SetAssumption DEF Index, Set

\* A set has as many blocks as valid ways: it is full iff no way is invalid.
LEMMA Full ==
  ASSUME NEW s \in Set, Distinct, Same
  PROVE  IF Invalid(blocks[s]) = {} THEN ~(Cardinality(held[s]) < NumWays)
                                    ELSE ~(Cardinality(held[s]) >= NumWays)
<1>. DEFINE f == [w \in Valid(s) |-> blocks[s][w].tag]
<1>1. NumWays \in Nat \ {0} /\ NumWays - 1 \in Int
  BY WayAssumption
<1>2. IsFiniteSet(Way) /\ Cardinality(Way) = NumWays
  BY <1>1, FS_Interval DEF Way
<1>3. IsFiniteSet(Valid(s)) /\ Cardinality(Valid(s)) <= NumWays
      /\ (Cardinality(Valid(s)) = NumWays => Valid(s) = Way)
  BY <1>2, FS_Subset DEF Valid
<1>4. f \in Bijection(Valid(s), held[s])
  <2>1. f \in [Valid(s) -> held[s]] /\ \A t \in held[s] : \E w \in Valid(s) : f[w] = t
    BY DEF Same, TagsOf, Valid
  <2>2. \A v, w \in Valid(s) : f[v] = f[w] => v = w
    BY DEF Distinct
  <2>. QED
    BY <2>1, <2>2 DEF Bijection, Injection, Surjection, IsInjective
<1>5. Cardinality(held[s]) = Cardinality(Valid(s)) /\ Cardinality(Valid(s)) \in Nat
  BY <1>3, <1>4, FS_Bijection, FS_CardinalityType DEF ExistsBijection
<1>6. Invalid(blocks[s]) = {} <=> Valid(s) = Way
  BY DEF Invalid, Valid
<1>. QED
  BY <1>1, <1>2, <1>3, <1>5, <1>6

\* A block b is written to way x of set s, and everything else stays: what must
\* be shown of b and of the new order so that they still belong together.
LEMMA Changed ==
  ASSUME NEW s \in Set, NEW x \in Way, NEW b, b.valid,
         blocks \in [Set -> [Way -> Cache_Block]],
         blocks' = [blocks EXCEPT ![s][x] = b], policy' = policy,
         HistoryType, HistoryType', Distinct, Ordered, Same,
         \A v \in Valid(s) \ {x} : blocks[s][v].tag # b.tag /\ Key(s, v) # KeyOf(b),
         held'[s] = {blocks[s][v].tag : v \in Valid(s) \ {x}} \cup {b.tag},
         \A r \in Set \ {s} : held'[r] = held[r] /\ before'[r] = before[r],
         before'[s] \subseteq held'[s] \X held'[s],
         <<b.tag, b.tag>> \notin before'[s],
         KeyOf(b) \in Int,
         \A v, w \in Valid(s) \ {x} :
           LET t == blocks[s][v].tag  u == blocks[s][w].tag IN
             <<t, u>> \in before'[s] <=> <<t, u>> \in before[s],
         \A v \in Valid(s) \ {x} :
           LET t == blocks[s][v].tag IN
             /\ <<t, b.tag>> \in before'[s] <=> Key(s, v) < KeyOf(b)
             /\ <<b.tag, t>> \in before'[s] <=> KeyOf(b) < Key(s, v)
  PROVE  Distinct' /\ Ordered' /\ Same'
<1>1. \A r \in Set \ {s}, w \in Way : blocks'[r][w] = blocks[r][w]
  OBVIOUS
<1>2. \A w \in Way \ {x} : blocks'[s][w] = blocks[s][w]
  OBVIOUS
<1>3. blocks'[s][x] = b
  OBVIOUS
<1>4. \A r \in Set \ {s} : Valid(r)' = Valid(r) /\ \A w \in Way : Key(r, w)' = Key(r, w)
  BY <1>1 DEF Valid, Key, KeyOf
<1>5. Valid(s)' = (Valid(s) \ {x}) \cup {x}
  BY <1>2, <1>3 DEF Valid
<1>6. Key(s, x)' = KeyOf(b) /\ \A w \in Way \ {x} : Key(s, w)' = Key(s, w)
  BY <1>2, <1>3 DEF Key, KeyOf
<1>7. \A v \in Valid(s) \ {x} : v \in Way \ {x}
  BY DEF Valid
<1>8. Distinct'
  <2>1. ASSUME NEW r \in Set \ {s}, NEW v \in Valid(r), NEW w \in Valid(r), v # w
        PROVE  blocks'[r][v].tag # blocks'[r][w].tag /\ Key(r, v)' # Key(r, w)'
    BY <1>1, <1>4, <2>1 DEF Distinct, Valid
  <2>2. ASSUME NEW v \in Valid(s)', NEW w \in Valid(s)', v # w
        PROVE  blocks'[s][v].tag # blocks'[s][w].tag /\ Key(s, v)' # Key(s, w)'
    <3>1. CASE v # x /\ w # x
      BY <1>2, <1>5, <1>6, <1>7, <2>2, <3>1 DEF Distinct
    <3>2. CASE v = x \/ w = x
      BY <1>2, <1>3, <1>5, <1>6, <1>7, <2>2, <3>2
    <3>. QED
      BY <3>1, <3>2
  <2>. QED
    BY <2>1, <2>2, <1>4 DEF Distinct
<1>9. Ordered'
  <2>1. ASSUME NEW r \in Set \ {s}
        PROVE  /\ before'[r] \subseteq held'[r] \X held'[r]
               /\ \A v, w \in Valid(r)' : <<blocks'[r][v].tag, blocks'[r][w].tag>> \in before'[r]
                                             <=> Key(r, v)' < Key(r, w)'
    BY <1>1, <1>4 DEF Ordered, Valid
  <2>2. ASSUME NEW v \in Valid(s)', NEW w \in Valid(s)'
        PROVE  <<blocks'[s][v].tag, blocks'[s][w].tag>> \in before'[s] <=> Key(s, v)' < Key(s, w)'
    <3>1. CASE v # x /\ w # x
      <4>1. v \in Valid(s) \ {x} /\ w \in Valid(s) \ {x}
        BY <1>5, <3>1
      <4>2. <<blocks[s][v].tag, blocks[s][w].tag>> \in before'[s] <=> Key(s, v) < Key(s, w)
        BY <4>1 DEF Ordered
      <4>. QED
        BY <4>1, <4>2, <1>2, <1>6, <1>7
    <3>2. CASE v # x /\ w = x
      <4>1. v \in Valid(s) \ {x}
        BY <1>5, <3>2
      <4>2. <<blocks[s][v].tag, b.tag>> \in before'[s] <=> Key(s, v) < KeyOf(b)
        BY <4>1
      <4>3. blocks'[s][v] = blocks[s][v] /\ Key(s, v)' = Key(s, v)
        BY <4>1, <1>2, <1>6, <1>7
      <4>. QED
        BY <4>2, <4>3, <3>2, <1>3, <1>6
    <3>3. CASE v = x /\ w # x
      <4>1. w \in Valid(s) \ {x}
        BY <1>5, <3>3
      <4>2. <<b.tag, blocks[s][w].tag>> \in before'[s] <=> KeyOf(b) < Key(s, w)
        BY <4>1
      <4>3. blocks'[s][w] = blocks[s][w] /\ Key(s, w)' = Key(s, w)
        BY <4>1, <1>2, <1>6, <1>7
      <4>. QED
        BY <4>2, <4>3, <3>3, <1>3, <1>6
    <3>4. CASE v = x /\ w = x
      <4>1. ~(KeyOf(b) < KeyOf(b))
        OBVIOUS
      <4>2. Key(s, v)' = KeyOf(b) /\ Key(s, w)' = KeyOf(b)
        BY <1>6, <3>4
      <4>3. blocks'[s][v].tag = b.tag /\ blocks'[s][w].tag = b.tag
        BY <1>3, <3>4
      <4>. QED
        BY <4>1, <4>2, <4>3
    <3>. QED
      BY <3>1, <3>2, <3>3, <3>4
  <2>. QED
    BY <2>1, <2>2 DEF Ordered
<1>10. Same'
  <2>1. ASSUME NEW r \in Set \ {s} PROVE held'[r] = TagsOf(r)'
    BY <1>1 DEF Same, TagsOf
  <2>2. TagsOf(s)' = {blocks'[s][v].tag : v \in Valid(s)'}
    BY DEF TagsOf, Valid
  <2>3. {blocks'[s][v].tag : v \in Valid(s)'} = {blocks[s][v].tag : v \in Valid(s) \ {x}} \cup {b.tag}
    BY <1>2, <1>3, <1>5, <1>7
  <2>. QED
    BY <2>1, <2>2, <2>3 DEF Same
<1>. QED
  BY <1>8, <1>9, <1>10

-----------------------------------------------------------------------------
(* The steps                                                               *)

\* An access that does not overflow the timestamp overflows no counter.
LEMMA Counts ==
  ASSUME TypeOK, Stamps, NEW tag, Access(tag), ~overflowed'
  PROVE  /\ ~overflowed /\ timestamp' = timestamp + 1
         /\ Incremented(insert_counter) = insert_counter + 1
<1>1. timestamp' = Incremented(timestamp) /\ ~overflowed /\ ~(timestamp' < timestamp)
  BY DEF Access, TypeOK
<1>2. timestamp \in Nat /\ insert_counter \in Nat /\ insert_counter <= timestamp
      /\ timestamp <= IntMax
  BY IntAssumption DEF Stamps, TypeOK, Int32
<1>3. timestamp # IntMax
  BY <1>1, <1>2, IntAssumption DEF Incremented
<1>. QED
  BY <1>1, <1>2, <1>3, IntAssumption DEF Incremented

\* What write_block leaves in a way.
LEMMA WrittenFacts ==
  ASSUME NEW c \in Cache_Block, NEW tag, NEW t
  PROVE  LET b == Written(c, tag, t) IN
           /\ b.valid /\ b.tag = tag /\ b.last_access = t
           /\ b.insert_timestamp = c.insert_timestamp
<1>1. c = [valid |-> c.valid, tag |-> c.tag, last_access |-> c.last_access,
           insert_timestamp |-> c.insert_timestamp]
  BY DEF Cache_Block
<1>. QED
  BY <1>1 DEF Written

LEMMA InsertedFacts ==
  ASSUME NEW c \in Cache_Block, NEW tag, NEW t, NEW n
  PROVE  LET b == Inserted(c, tag, t, n) IN
           b.valid /\ b.tag = tag /\ b.last_access = t /\ b.insert_timestamp = n
<1>1. c = [valid |-> c.valid, tag |-> c.tag, last_access |-> c.last_access,
           insert_timestamp |-> c.insert_timestamp]
  BY DEF Cache_Block
<1>. QED
  BY <1>1 DEF Written, Inserted

\* Numbers stay behind their counters when a way is written.
LEMMA StampsKept ==
  ASSUME NEW s \in Set, NEW x \in Way, NEW b,
         blocks \in [Set -> [Way -> Cache_Block]], Stamps,
         blocks' = [blocks EXCEPT ![s][x] = b], timestamp' = timestamp + 1,
         insert_counter' \in {insert_counter, insert_counter + 1},
         b.last_access \in Nat, b.last_access <= timestamp',
         b.insert_timestamp \in Nat, b.insert_timestamp <= insert_counter'
  PROVE  Stamps'
<1>1. timestamp \in Nat /\ insert_counter \in Nat /\ insert_counter <= timestamp
  BY DEF Stamps
<1>2. ASSUME NEW r \in Set, NEW w \in Way
      PROVE  /\ blocks'[r][w].last_access \in Nat /\ blocks'[r][w].last_access <= timestamp'
             /\ blocks'[r][w].insert_timestamp \in Nat
             /\ blocks'[r][w].insert_timestamp <= insert_counter'
  <2>1. CASE r = s /\ w = x
    <3>1. blocks'[r][w] = b
      BY <2>1
    <3>. QED
      BY <3>1
  <2>2. CASE ~(r = s /\ w = x)
    <3>1. blocks'[r][w] = blocks[r][w]
      BY <2>2
    <3>2. /\ blocks[r][w].last_access \in Nat /\ blocks[r][w].last_access <= timestamp
          /\ blocks[r][w].insert_timestamp \in Nat
          /\ blocks[r][w].insert_timestamp <= insert_counter
      BY DEF Stamps
    <3>. QED
      BY <1>1, <3>1, <3>2
  <2>. QED
    BY <2>1, <2>2
<1>. QED
  BY <1>1, <1>2 DEF Stamps

\* A hit promotes the block, or leaves the order of FIFO and LIFO alone.
LEMMA HitStep ==
  ASSUME NEW s \in Set, NEW tag \in Tag, TypeOK, HistoryType, HistoryType', Encoded,
         policy' = policy, timestamp' = timestamp + 1, Hit(tag, s), Order!Hit(s, tag)
  PROVE  Encoded'
<1>1. PICK x \in Hits(blocks[s], tag) :
        blocks' = [blocks EXCEPT ![s][x] = Written(@, tag, timestamp')]
  BY DEF Hit
<1>2. x \in Way /\ x \in Valid(s) /\ blocks[s][x].tag = tag
  BY <1>1 DEF Hits, Valid
<1>3. PICK b : b = Written(blocks[s][x], tag, timestamp')
  OBVIOUS
<1>4. blocks \in [Set -> [Way -> Cache_Block]]
  BY DEF TypeOK
<1>5. blocks' = [blocks EXCEPT ![s][x] = b]
  BY <1>1, <1>2, <1>3, <1>4
<1>6. blocks[s][x] \in Cache_Block
  BY <1>2, <1>4
<1>7. /\ b.valid /\ b.tag = tag /\ b.last_access = timestamp + 1
      /\ b.insert_timestamp = blocks[s][x].insert_timestamp
  BY <1>3, <1>6, WrittenFacts
<1>8. timestamp \in Nat /\ insert_counter \in Nat
  BY DEF Encoded, Stamps
<1>9. \A v \in Valid(s) : v \in Way /\ Key(s, v) \in Nat /\ (policy \notin {"FIFO", "LIFO"} => Key(s, v) < timestamp + 1)
  BY <1>8 DEF Valid, Key, KeyOf, Encoded, Stamps
<1>10. KeyOf(b) = IF policy \in {"FIFO", "LIFO"} THEN Key(s, x) ELSE timestamp + 1
  BY <1>7 DEF KeyOf, Key
<1>11. \A v \in Valid(s) \ {x} : blocks[s][v].tag # tag /\ Key(s, v) # Key(s, x)
  BY <1>2 DEF Encoded, Distinct
<1>12. held[s] = {blocks[s][v].tag : v \in Valid(s)}
  BY DEF Encoded, Same, TagsOf, Valid
<1>13. held' = held /\ held[s] = {blocks[s][v].tag : v \in Valid(s) \ {x}} \cup {tag}
  BY <1>2, <1>12 DEF Order!Hit
<1>14. policy \in Order!Promotes <=> policy \notin {"FIFO", "LIFO"}
  BY PolicyAssumption DEF TypeOK, Order!Promotes, Order!Cache_Policy
<1>15. \A r \in Set \ {s} : before'[r] = before[r]
  BY SameSet DEF Order!Hit, HistoryType
<1>16. before[s] \subseteq held[s] \X held[s]
  BY DEF Encoded, Ordered
<1>17. /\ before'[s] \subseteq held'[s] \X held'[s]
       /\ <<tag, tag>> \notin before'[s]
       /\ \A v, w \in Valid(s) \ {x} :
            LET t == blocks[s][v].tag  u == blocks[s][w].tag IN
              <<t, u>> \in before'[s] <=> <<t, u>> \in before[s]
       /\ \A v \in Valid(s) \ {x} :
            LET t == blocks[s][v].tag IN
              /\ <<t, tag>> \in before'[s] <=> Key(s, v) < KeyOf(b)
              /\ <<tag, t>> \in before'[s] <=> KeyOf(b) < Key(s, v)
  <2>1. CASE policy \in {"FIFO", "LIFO"}
    <3>1. before' = before /\ KeyOf(b) = Key(s, x)
      BY <1>10, <1>14, <2>1 DEF Order!Hit
    <3>2. \A v, w \in Valid(s) : <<blocks[s][v].tag, blocks[s][w].tag>> \in before[s] <=> Key(s, v) < Key(s, w)
      BY DEF Encoded, Ordered
    <3>3. Key(s, x) \in Nat
      BY <1>2, <1>9
    <3>4. <<tag, tag>> \notin before[s]
      BY <1>2, <3>2, <3>3
    <3>5. \A v \in Valid(s) : /\ <<blocks[s][v].tag, tag>> \in before[s] <=> Key(s, v) < Key(s, x)
                              /\ <<tag, blocks[s][v].tag>> \in before[s] <=> Key(s, x) < Key(s, v)
      BY <1>2, <3>2
    <3>. QED
      BY <1>13, <1>16, <3>1, <3>4, <3>5
  <2>2. CASE policy \notin {"FIFO", "LIFO"}
    <3>1. before'[s] = {p \in before[s] : p[1] # tag /\ p[2] # tag} \cup ((held[s] \ {tag}) \X {tag})
      BY <1>14, <2>2 DEF Order!Hit, Order!Behind, Order!Without, HistoryType
    <3>2. KeyOf(b) = timestamp + 1
      BY <1>10, <2>2
    <3>3. \A v \in Valid(s) \ {x} : blocks[s][v].tag \in held[s] \ {tag}
      BY <1>11, <1>12
    <3>4. \A v \in Valid(s) : Key(s, v) < KeyOf(b) /\ ~(KeyOf(b) < Key(s, v))
      BY <1>8, <1>9, <2>2, <3>2
    <3>5. before'[s] \subseteq held'[s] \X held'[s]
      BY <1>13, <1>16, <3>1
    <3>6. <<tag, tag>> \notin before'[s]
      BY <3>1
    <3>. QED
      BY <3>1, <3>3, <3>4, <3>5, <3>6
  <2>. QED
    BY <2>1, <2>2
<1>18. \A v \in Valid(s) \ {x} : Key(s, v) # KeyOf(b)
  BY <1>8, <1>9, <1>10, <1>11
<1>19. KeyOf(b) \in Int
  BY <1>2, <1>8, <1>9, <1>10
<1>20. \A r \in Set \ {s} : held'[r] = held[r] /\ before'[r] = before[r]
  BY <1>13, <1>15
<1>21. held'[s] = {blocks[s][v].tag : v \in Valid(s) \ {x}} \cup {tag}
  BY <1>13
<1>22. Distinct /\ Ordered /\ Same /\ Stamps
  BY DEF Encoded
<1>23. Distinct' /\ Ordered' /\ Same'
  <2>1. b.tag = tag
    BY <1>7
  <2>2. \A v \in Valid(s) \ {x} : blocks[s][v].tag # b.tag /\ Key(s, v) # KeyOf(b)
    BY <1>11, <1>18, <2>1
  <2>3. /\ held'[s] = {blocks[s][v].tag : v \in Valid(s) \ {x}} \cup {b.tag}
        /\ <<b.tag, b.tag>> \notin before'[s]
    BY <1>17, <1>21, <2>1
  <2>4. \A v \in Valid(s) \ {x} :
          LET t == blocks[s][v].tag IN
            /\ <<t, b.tag>> \in before'[s] <=> Key(s, v) < KeyOf(b)
            /\ <<b.tag, t>> \in before'[s] <=> KeyOf(b) < Key(s, v)
    BY <1>17, <2>1
  <2>5. before'[s] \subseteq held'[s] \X held'[s]
    BY <1>17
  <2>6. \A v, w \in Valid(s) \ {x} :
          LET t == blocks[s][v].tag  u == blocks[s][w].tag IN
            <<t, u>> \in before'[s] <=> <<t, u>> \in before[s]
    BY <1>17
  <2>7. x \in Way /\ b.valid
    BY <1>2, <1>7
  <2>. QED
    BY <1>4, <1>5, <1>19, <1>20, <1>22, <2>2, <2>3, <2>4, <2>5, <2>6, <2>7, Changed
<1>24. Stamps'
  <2>1. blocks[s][x].insert_timestamp \in Nat /\ blocks[s][x].insert_timestamp <= insert_counter
    BY <1>2, <1>22 DEF Stamps
  <2>2. insert_counter' = insert_counter /\ insert_counter' \in {insert_counter, insert_counter + 1}
    BY DEF Hit
  <2>3. b.last_access \in Nat /\ b.last_access <= timestamp'
    BY <1>7, <1>8
  <2>4. b.insert_timestamp \in Nat /\ b.insert_timestamp <= insert_counter'
    BY <1>7, <2>1, <2>2
  <2>5. x \in Way
    BY <1>2
  <2>. QED
    BY <1>4, <1>5, <1>22, <2>2, <2>3, <2>4, <2>5, StampsKept
<1>. QED
  BY <1>23, <1>24 DEF Encoded

\* The first invalid way takes a block the set does not have.
LEMMA FillStep ==
  ASSUME NEW s \in Set, NEW tag \in Tag, TypeOK, HistoryType, HistoryType', Encoded,
         policy' = policy, timestamp' = timestamp + 1,
         Incremented(insert_counter) = insert_counter + 1,
         FillInvalid(tag, s), Order!Fill(s, tag)
  PROVE  Encoded'
<1>1. PICK x \in Invalid(blocks[s]) :
        blocks' = [blocks EXCEPT ![s][x] = Inserted(@, tag, timestamp', insert_counter')]
  BY DEF FillInvalid
<1>2. x \in Way /\ x \notin Valid(s)
  BY <1>1 DEF Invalid, Valid
<1>3. PICK b : b = Inserted(blocks[s][x], tag, timestamp', insert_counter')
  OBVIOUS
<1>4. blocks \in [Set -> [Way -> Cache_Block]]
  BY DEF TypeOK
<1>5. blocks' = [blocks EXCEPT ![s][x] = b]
  BY <1>1, <1>2, <1>3, <1>4
<1>6. insert_counter' = insert_counter + 1
  BY DEF FillInvalid
<1>7. /\ b.valid /\ b.tag = tag /\ b.last_access = timestamp + 1
      /\ b.insert_timestamp = insert_counter + 1
  BY <1>2, <1>3, <1>4, <1>6, InsertedFacts
<1>8. timestamp \in Nat /\ insert_counter \in Nat
  BY DEF Encoded, Stamps
<1>9. KeyOf(b) = IF policy \in {"FIFO", "LIFO"} THEN insert_counter + 1 ELSE timestamp + 1
  BY <1>7 DEF KeyOf
<1>10. \A v \in Valid(s) : Key(s, v) \in Nat /\ Key(s, v) < KeyOf(b)
  BY <1>8, <1>9 DEF Valid, Key, KeyOf, Encoded, Stamps
<1>12. held[s] = {blocks[s][v].tag : v \in Valid(s)} /\ Valid(s) \ {x} = Valid(s)
  BY <1>2 DEF Encoded, Same, TagsOf, Valid
<1>11. \A v \in Valid(s) \ {x} : blocks[s][v].tag # tag /\ Key(s, v) # KeyOf(b)
  BY <1>10, <1>12 DEF Order!Fill
<1>13. held'[s] = {blocks[s][v].tag : v \in Valid(s) \ {x}} \cup {tag}
  BY <1>12 DEF Order!Fill, HistoryType
<1>15. \A r \in Set \ {s} : held'[r] = held[r] /\ before'[r] = before[r]
  BY SameSet DEF Order!Fill, HistoryType
<1>16. before[s] \subseteq held[s] \X held[s] /\ tag \notin held[s]
  BY DEF Encoded, Ordered, Order!Fill
<1>17. /\ before'[s] \subseteq held'[s] \X held'[s]
       /\ <<tag, tag>> \notin before'[s]
       /\ \A v, w \in Valid(s) \ {x} :
            LET t == blocks[s][v].tag  u == blocks[s][w].tag IN
              <<t, u>> \in before'[s] <=> <<t, u>> \in before[s]
       /\ \A v \in Valid(s) \ {x} :
            LET t == blocks[s][v].tag IN
              /\ <<t, tag>> \in before'[s] <=> Key(s, v) < KeyOf(b)
              /\ <<tag, t>> \in before'[s] <=> KeyOf(b) < Key(s, v)
  <2>1. before'[s] = before[s] \cup (held[s] \X {tag})
    BY DEF Order!Fill, Order!Behind, HistoryType
  <2>2. held'[s] = held[s] \cup {tag}
    BY <1>12, <1>13
  <2>3. KeyOf(b) \in Nat
    BY <1>8, <1>9
  <2>4. \A v \in Valid(s) : blocks[s][v].tag \in held[s] /\ ~(KeyOf(b) < Key(s, v))
    BY <1>10, <1>12, <2>3
  <2>. QED
    BY <1>10, <1>16, <2>1, <2>2, <2>4
<1>19. KeyOf(b) \in Int
  BY <1>8, <1>9
<1>22. Distinct /\ Ordered /\ Same /\ Stamps
  BY DEF Encoded
<1>23. Distinct' /\ Ordered' /\ Same'
  <2>1. b.tag = tag
    BY <1>7
  <2>2. \A v \in Valid(s) \ {x} : blocks[s][v].tag # b.tag /\ Key(s, v) # KeyOf(b)
    BY <1>11, <2>1
  <2>3. /\ held'[s] = {blocks[s][v].tag : v \in Valid(s) \ {x}} \cup {b.tag}
        /\ <<b.tag, b.tag>> \notin before'[s]
    BY <1>13, <1>17, <2>1
  <2>4. \A v \in Valid(s) \ {x} :
          LET t == blocks[s][v].tag IN
            /\ <<t, b.tag>> \in before'[s] <=> Key(s, v) < KeyOf(b)
            /\ <<b.tag, t>> \in before'[s] <=> KeyOf(b) < Key(s, v)
    BY <1>17, <2>1
  <2>5. before'[s] \subseteq held'[s] \X held'[s]
    BY <1>17
  <2>6. \A v, w \in Valid(s) \ {x} :
          LET t == blocks[s][v].tag  u == blocks[s][w].tag IN
            <<t, u>> \in before'[s] <=> <<t, u>> \in before[s]
    BY <1>17
  <2>7. x \in Way /\ b.valid
    BY <1>2, <1>7
  <2>. QED
    BY <1>4, <1>5, <1>15, <1>19, <1>22, <2>2, <2>3, <2>4, <2>5, <2>6, <2>7, Changed
<1>24. Stamps'
  <2>1. insert_counter' \in {insert_counter, insert_counter + 1}
    BY <1>6
  <2>2. b.last_access \in Nat /\ b.last_access <= timestamp'
    BY <1>7, <1>8
  <2>3. b.insert_timestamp \in Nat /\ b.insert_timestamp <= insert_counter'
    BY <1>6, <1>7, <1>8
  <2>. QED
    BY <1>2, <1>4, <1>5, <1>22, <2>1, <2>2, <2>3, StampsKept
<1>. QED
  BY <1>23, <1>24 DEF Encoded

\* The way a policy evicts, and the place its number gives the new block.
LEMMA VictimFacts ==
  ASSUME NEW s \in Set, TypeOK, Encoded, policy # "MRU_LRU", Invalid(blocks[s]) = {}
  PROVE  /\ Victim(blocks[s]) \in Way
         /\ \A v \in Way : IF policy \in Order!EvictsFirst
                             THEN Key(s, Victim(blocks[s])) <= Key(s, v)
                             ELSE Key(s, v) <= Key(s, Victim(blocks[s]))
         /\ policy = "LRU_LRU" => InsertionTime(blocks[s]) = Key(s, Victim(blocks[s]))
         /\ policy \in {"LRU_MRU", "MRU_MRU"} => InsertionTime(blocks[s]) = timestamp'
<1>1. /\ timestamp \in Nat /\ insert_counter \in Nat
      /\ \A w \in Way : /\ blocks[s][w]["last_access"] \in Int
                        /\ 0 <= blocks[s][w]["last_access"]
                        /\ blocks[s][w]["last_access"] <= timestamp
                        /\ blocks[s][w]["insert_timestamp"] \in Int
                        /\ 0 <= blocks[s][w]["insert_timestamp"]
                        /\ blocks[s][w]["insert_timestamp"] <= insert_counter
  BY DEF Encoded, Stamps
<1>2. /\ Lowest(blocks[s], "last_access") \in Way
      /\ \A v \in Way : blocks[s][Lowest(blocks[s], "last_access")]["last_access"] <= blocks[s][v]["last_access"]
  BY <1>1, LowestFacts
<1>3. /\ Highest(blocks[s], "last_access") \in Way
      /\ \A v \in Way : blocks[s][v]["last_access"] <= blocks[s][Highest(blocks[s], "last_access")]["last_access"]
  BY <1>1, HighestFacts
<1>4. /\ Lowest(blocks[s], "insert_timestamp") \in Way
      /\ \A v \in Way : blocks[s][Lowest(blocks[s], "insert_timestamp")]["insert_timestamp"] <= blocks[s][v]["insert_timestamp"]
  BY <1>1, LowestFacts
<1>5. /\ Highest(blocks[s], "insert_timestamp") \in Way
      /\ \A v \in Way : blocks[s][v]["insert_timestamp"] <= blocks[s][Highest(blocks[s], "insert_timestamp")]["insert_timestamp"]
  BY <1>1, HighestFacts
<1>6. policy \in {"LRU_LRU", "LRU_MRU", "MRU_MRU", "FIFO", "LIFO"}
  BY PolicyAssumption DEF TypeOK
<1>7. CASE policy \in {"LRU_LRU", "LRU_MRU"}
  <2>1. Victim(blocks[s]) = Lowest(blocks[s], "last_access")
    BY <1>7 DEF Victim
  <2>2. \A w : Key(s, w) = blocks[s][w]["last_access"]
    BY <1>7 DEF Key, KeyOf
  <2>3. policy \in Order!EvictsFirst
    BY <1>7 DEF Order!EvictsFirst
  <2>4. /\ policy = "LRU_LRU" => InsertionTime(blocks[s]) = blocks[s][Lowest(blocks[s], "last_access")]["last_access"]
        /\ policy = "LRU_MRU" => InsertionTime(blocks[s]) = timestamp'
    BY DEF InsertionTime
  <2>. QED
    BY <1>2, <1>7, <2>1, <2>2, <2>3, <2>4
<1>8. CASE policy = "MRU_MRU"
  <2>1. Victim(blocks[s]) = Highest(blocks[s], "last_access")
    BY <1>8 DEF Victim
  <2>2. \A w : Key(s, w) = blocks[s][w]["last_access"]
    BY <1>8 DEF Key, KeyOf
  <2>3. policy \notin Order!EvictsFirst
    BY <1>8 DEF Order!EvictsFirst
  <2>4. InsertionTime(blocks[s]) = timestamp'
    BY <1>8 DEF InsertionTime
  <2>. QED
    BY <1>3, <1>8, <2>1, <2>2, <2>3, <2>4
<1>9. CASE policy = "FIFO"
  <2>1. Victim(blocks[s]) = Lowest(blocks[s], "insert_timestamp")
    BY <1>9 DEF Victim
  <2>2. \A w : Key(s, w) = blocks[s][w]["insert_timestamp"]
    BY <1>9 DEF Key, KeyOf
  <2>3. policy \in Order!EvictsFirst
    BY <1>9 DEF Order!EvictsFirst
  <2>. QED
    BY <1>4, <1>9, <2>1, <2>2, <2>3
<1>10. CASE policy = "LIFO"
  <2>1. Victim(blocks[s]) = Highest(blocks[s], "insert_timestamp")
    BY <1>10 DEF Victim
  <2>2. \A w : Key(s, w) = blocks[s][w]["insert_timestamp"]
    BY <1>10 DEF Key, KeyOf
  <2>3. policy \notin Order!EvictsFirst
    BY <1>10 DEF Order!EvictsFirst
  <2>. QED
    BY <1>5, <1>10, <2>1, <2>2, <2>3
<1>. QED
  BY <1>6, <1>7, <1>8, <1>9, <1>10

\* A miss in a full set replaces the block the policy names, and puts the new
\* one at the end of the order the policy names.
LEMMA ReplaceStep ==
  ASSUME NEW s \in Set, NEW tag \in Tag, NEW victim \in held[s],
         TypeOK, HistoryType, HistoryType', Encoded, policy # "MRU_LRU",
         policy' = policy, timestamp' = timestamp + 1,
         Incremented(insert_counter) = insert_counter + 1,
         Replace(tag, s), Order!Replace(s, tag, victim)
  PROVE  Encoded'
<1>. DEFINE x == Victim(blocks[s])
            byInsertion == policy \in {"FIFO", "LIFO"}
<1>1. Invalid(blocks[s]) = {} /\ policy \in {"LRU_LRU", "LRU_MRU", "MRU_MRU", "FIFO", "LIFO"}
  BY PolicyAssumption DEF Replace, TypeOK
<1>2. x \in Way /\ x \in Valid(s) /\ Valid(s) = Way
  BY <1>1, VictimFacts DEF Invalid, Valid
<1>3. PICK b : b = IF byInsertion
                     THEN Inserted(blocks[s][x], tag, timestamp', insert_counter')
                     ELSE Written(blocks[s][x], tag, InsertionTime(blocks[s]))
  OBVIOUS
<1>4. blocks \in [Set -> [Way -> Cache_Block]] /\ blocks[s][x] \in Cache_Block
  BY <1>2 DEF TypeOK
<1>5. blocks' = [blocks EXCEPT ![s][x] = b]
  <2>1. CASE byInsertion
    BY <1>2, <1>3, <1>4, <2>1 DEF Replace
  <2>2. CASE ~byInsertion
    BY <1>2, <1>3, <1>4, <2>2 DEF Replace
  <2>. QED
    BY <2>1, <2>2
<1>6. insert_counter' = IF byInsertion THEN insert_counter + 1 ELSE insert_counter
  BY DEF Replace
<1>7. /\ b.valid /\ b.tag = tag
      /\ b.last_access = IF byInsertion THEN timestamp + 1 ELSE InsertionTime(blocks[s])
      /\ b.insert_timestamp = IF byInsertion THEN insert_counter + 1
                                             ELSE blocks[s][x].insert_timestamp
  <2>1. CASE byInsertion
    BY <1>3, <1>4, <1>6, <2>1, InsertedFacts
  <2>2. CASE ~byInsertion
    <3>1. PICK t : t = InsertionTime(blocks[s])
      OBVIOUS
    <3>2. b = Written(blocks[s][x], tag, t)
      BY <1>3, <2>2, <3>1
    <3>. QED
      BY <1>4, <2>2, <3>1, <3>2, WrittenFacts
  <2>. QED
    BY <2>1, <2>2
<1>8. timestamp \in Nat /\ insert_counter \in Nat
  BY DEF Encoded, Stamps
<1>9. KeyOf(b) = IF byInsertion THEN insert_counter + 1
                 ELSE IF policy = "LRU_LRU" THEN Key(s, x) ELSE timestamp + 1
  <2>1. CASE byInsertion
    BY <1>7, <2>1 DEF KeyOf
  <2>2. CASE policy = "LRU_LRU"
    BY <1>1, <1>7, <2>2, VictimFacts DEF KeyOf
  <2>3. CASE policy \in {"LRU_MRU", "MRU_MRU"}
    BY <1>1, <1>7, <2>3, VictimFacts DEF KeyOf
  <2>. QED
    BY <1>1, <2>1, <2>2, <2>3
<1>10. \A v \in Valid(s) : Key(s, v) \in Nat /\ Key(s, v) <= IF byInsertion THEN insert_counter ELSE timestamp
  BY <1>8 DEF Valid, Key, KeyOf, Encoded, Stamps
<1>12. held[s] = {blocks[s][v].tag : v \in Valid(s)}
  BY DEF Encoded, Same, TagsOf, Valid
<1>14. \A v, w \in Valid(s) : v # w => blocks[s][v].tag # blocks[s][w].tag /\ Key(s, v) # Key(s, w)
  BY DEF Encoded, Distinct
<1>16. /\ before[s] \subseteq held[s] \X held[s]
       /\ \A v, w \in Valid(s) : <<blocks[s][v].tag, blocks[s][w].tag>> \in before[s]
                                    <=> Key(s, v) < Key(s, w)
  BY DEF Encoded, Ordered
<1>18. victim = blocks[s][x].tag
  <2>1. PICK w \in Valid(s) : victim = blocks[s][w].tag
    BY <1>12
  <2>2. CASE w # x
    <3>1. blocks[s][x].tag \in held[s] \ {victim} /\ Key(s, w) # Key(s, x)
      BY <1>2, <1>12, <1>14, <2>1, <2>2
    <3>2. Key(s, x) \in Nat /\ Key(s, w) \in Nat
      BY <1>2, <1>10
    <3>3. IF policy \in Order!EvictsFirst THEN Key(s, x) <= Key(s, w) ELSE Key(s, w) <= Key(s, x)
      BY <1>1, <1>2, VictimFacts
    <3>4. IF policy \in Order!EvictsFirst THEN <<victim, blocks[s][x].tag>> \in before[s]
                                          ELSE <<blocks[s][x].tag, victim>> \in before[s]
      BY <3>1 DEF Order!Replace, Order!IsVictim
    <3>5. IF policy \in Order!EvictsFirst THEN Key(s, w) < Key(s, x) ELSE Key(s, x) < Key(s, w)
      BY <1>2, <1>16, <2>1, <3>4
    <3>. QED
      BY <3>2, <3>3, <3>5
  <2>. QED
    BY <2>1, <2>2
<1>20. \A v \in Valid(s) \ {x} : IF policy = "LRU_LRU" THEN KeyOf(b) < Key(s, v) ELSE Key(s, v) < KeyOf(b)
  <2>1. CASE policy = "LRU_LRU"
    <3>1. \A v \in Valid(s) : Key(s, x) <= Key(s, v)
      BY <1>1, <1>2, <2>1, VictimFacts DEF Order!EvictsFirst
    <3>2. KeyOf(b) = Key(s, x)
      BY <1>9, <2>1
    <3>. QED
      BY <1>2, <1>10, <1>14, <2>1, <3>1, <3>2
  <2>2. CASE policy # "LRU_LRU"
    BY <1>8, <1>9, <1>10, <2>2
  <2>. QED
    BY <2>1, <2>2
<1>19. KeyOf(b) \in Int
  BY <1>2, <1>8, <1>9, <1>10
<1>11. \A v \in Valid(s) \ {x} : blocks[s][v].tag # tag /\ Key(s, v) # KeyOf(b)
  <2>1. \A v \in Valid(s) : blocks[s][v].tag # tag
    BY <1>12 DEF Order!Replace
  <2>. QED
    BY <1>10, <1>19, <1>20, <2>1
<1>21. held[s] \ {victim} = {blocks[s][v].tag : v \in Valid(s) \ {x}}
  BY <1>2, <1>12, <1>14, <1>18
<1>13. held'[s] = {blocks[s][v].tag : v \in Valid(s) \ {x}} \cup {tag}
  BY <1>21 DEF Order!Replace, HistoryType
<1>15. \A r \in Set \ {s} : held'[r] = held[r] /\ before'[r] = before[r]
  BY SameSet DEF Order!Replace, HistoryType
<1>17. /\ before'[s] \subseteq held'[s] \X held'[s]
       /\ <<tag, tag>> \notin before'[s]
       /\ \A v, w \in Valid(s) \ {x} :
            LET t == blocks[s][v].tag  u == blocks[s][w].tag IN
              <<t, u>> \in before'[s] <=> <<t, u>> \in before[s]
       /\ \A v \in Valid(s) \ {x} :
            LET t == blocks[s][v].tag IN
              /\ <<t, tag>> \in before'[s] <=> Key(s, v) < KeyOf(b)
              /\ <<tag, t>> \in before'[s] <=> KeyOf(b) < Key(s, v)
  <2>. DEFINE rest == held[s] \ {victim}
              kept == {p \in before[s] : p[1] # victim /\ p[2] # victim}
  <2>1. before'[s] = kept \cup (IF policy = "LRU_LRU" THEN {tag} \X rest ELSE rest \X {tag})
    <3>1. policy \in Order!InsertsFirst <=> policy = "LRU_LRU"
      BY <1>1 DEF Order!InsertsFirst
    <3>. QED
      BY <3>1 DEF Order!Replace, Order!InFront, Order!Behind, Order!Without, HistoryType
  <2>2. tag \notin held[s] /\ held'[s] = rest \cup {tag}
    BY <1>13, <1>21 DEF Order!Replace
  <2>3. \A v \in Valid(s) \ {x} : blocks[s][v].tag \in rest /\ Key(s, v) \in Nat
    BY <1>10, <1>21
  <2>4. kept \subseteq rest \X rest
    BY <1>16
  <2>5. \A v \in Valid(s) \ {x} : ~(Key(s, v) < KeyOf(b) /\ KeyOf(b) < Key(s, v))
    BY <1>19, <2>3
  <2>6. /\ before'[s] \subseteq held'[s] \X held'[s]
        /\ <<tag, tag>> \notin before'[s]
    BY <2>1, <2>2, <2>4
  <2>7. \A t, u \in rest : <<t, u>> \in before'[s] <=> <<t, u>> \in before[s]
    BY <2>1, <2>2
  <2>8. \A t \in rest : /\ <<t, tag>> \in before'[s] <=> policy # "LRU_LRU"
                        /\ <<tag, t>> \in before'[s] <=> policy = "LRU_LRU"
    BY <2>1, <2>2, <2>4
  <2>. QED
    BY <1>20, <2>3, <2>5, <2>6, <2>7, <2>8
<1>22. Distinct /\ Ordered /\ Same /\ Stamps
  BY DEF Encoded
<1>23. Distinct' /\ Ordered' /\ Same'
  <2>1. b.tag = tag
    BY <1>7
  <2>2. \A v \in Valid(s) \ {x} : blocks[s][v].tag # b.tag /\ Key(s, v) # KeyOf(b)
    BY <1>11, <2>1
  <2>3. /\ held'[s] = {blocks[s][v].tag : v \in Valid(s) \ {x}} \cup {b.tag}
        /\ <<b.tag, b.tag>> \notin before'[s]
    BY <1>13, <1>17, <2>1
  <2>4. \A v \in Valid(s) \ {x} :
          LET t == blocks[s][v].tag IN
            /\ <<t, b.tag>> \in before'[s] <=> Key(s, v) < KeyOf(b)
            /\ <<b.tag, t>> \in before'[s] <=> KeyOf(b) < Key(s, v)
    BY <1>17, <2>1
  <2>5. before'[s] \subseteq held'[s] \X held'[s]
    BY <1>17
  <2>6. \A v, w \in Valid(s) \ {x} :
          LET t == blocks[s][v].tag  u == blocks[s][w].tag IN
            <<t, u>> \in before'[s] <=> <<t, u>> \in before[s]
    BY <1>17
  <2>7. x \in Way /\ b.valid
    BY <1>2, <1>7
  <2>. QED
    BY <1>4, <1>5, <1>15, <1>19, <1>22, <2>2, <2>3, <2>4, <2>5, <2>6, <2>7, Changed
<1>24. Stamps'
  <2>1. insert_counter' \in {insert_counter, insert_counter + 1}
    BY <1>6
  <2>2. /\ blocks[s][x].insert_timestamp \in Nat
        /\ blocks[s][x].insert_timestamp <= insert_counter
    BY <1>2, <1>22 DEF Stamps
  <2>3. b.last_access \in Nat /\ b.last_access <= timestamp'
    <3>1. CASE byInsertion
      BY <1>7, <1>8, <3>1
    <3>2. CASE policy = "LRU_LRU"
      BY <1>1, <1>2, <1>7, <1>8, <1>10, <3>2, VictimFacts
    <3>3. CASE policy \in {"LRU_MRU", "MRU_MRU"}
      BY <1>1, <1>7, <1>8, <3>3, VictimFacts
    <3>. QED
      BY <1>1, <3>1, <3>2, <3>3
  <2>4. b.insert_timestamp \in Nat /\ b.insert_timestamp <= insert_counter'
    BY <1>6, <1>7, <1>8, <2>2
  <2>. QED
    BY <1>2, <1>4, <1>5, <1>22, <2>1, <2>3, <2>4, StampsKept
<1>. QED
  BY <1>23, <1>24 DEF Encoded

\* A hit stays a hit and a miss a miss: the blocks are the same on both sides.
LEMMA AccessStep ==
  ASSUME NEW tag \in Tag, TypeOK, HistoryType, HistoryType', Encoded, policy # "MRU_LRU",
         AccessBoth(tag), ~overflowed'
  PROVE  Encoded'
<1>. DEFINE s == Index(tag)
<1>1. s \in Set /\ s = tag % NumSets
  BY IndexType DEF Index
<1>2. /\ policy' = policy /\ timestamp' = timestamp + 1
      /\ Incremented(insert_counter) = insert_counter + 1
  BY Counts DEF AccessBoth, Access, Encoded
<1>3. Hits(blocks[s], tag) = {} <=> tag \notin held[s]
  BY <1>1 DEF Hits, Encoded, Same, TagsOf
<1>4. IF Invalid(blocks[s]) = {} THEN ~(Cardinality(held[s]) < NumWays)
                                 ELSE ~(Cardinality(held[s]) >= NumWays)
  BY <1>1, Full DEF Encoded
<1>5. Hit(tag, s) \/ FillInvalid(tag, s) \/ Replace(tag, s)
  BY DEF AccessBoth, Access
<1>6. Order!Hit(s, tag) \/ Order!Fill(s, tag) \/ \E victim \in held[s] : Order!Replace(s, tag, victim)
  BY <1>1 DEF AccessBoth, Order!Access
<1>7. Hit(tag, s) => Hits(blocks[s], tag) # {}
  BY DEF Hit
<1>8. FillInvalid(tag, s) => Hits(blocks[s], tag) = {} /\ Invalid(blocks[s]) # {}
  BY DEF FillInvalid
<1>9. Replace(tag, s) => Hits(blocks[s], tag) = {} /\ Invalid(blocks[s]) = {}
  BY DEF Replace
<1>10. Order!Hit(s, tag) => tag \in held[s]
  BY DEF Order!Hit
<1>11. Order!Fill(s, tag) => tag \notin held[s] /\ Cardinality(held[s]) < NumWays
  BY SameCardinality DEF Order!Fill
<1>12. \A victim \in held[s] : Order!Replace(s, tag, victim) =>
         tag \notin held[s] /\ Cardinality(held[s]) >= NumWays
  BY SameCardinality DEF Order!Replace
<1>13. CASE tag \in held[s]
  <2>1. Hit(tag, s) /\ Order!Hit(s, tag)
    BY <1>3, <1>5, <1>6, <1>8, <1>9, <1>11, <1>12, <1>13
  <2>. QED
    BY <1>1, <1>2, <2>1, HitStep
<1>14. CASE tag \notin held[s] /\ Invalid(blocks[s]) # {}
  <2>1. FillInvalid(tag, s) /\ Order!Fill(s, tag)
    BY <1>3, <1>4, <1>5, <1>6, <1>7, <1>9, <1>10, <1>12, <1>14
  <2>. QED
    BY <1>1, <1>2, <2>1, FillStep
<1>15. CASE tag \notin held[s] /\ Invalid(blocks[s]) = {}
  <2>1. Replace(tag, s) /\ \E victim \in held[s] : Order!Replace(s, tag, victim)
    BY <1>3, <1>4, <1>5, <1>6, <1>7, <1>8, <1>10, <1>11, <1>15
  <2>. QED
    BY <1>1, <1>2, <2>1, ReplaceStep
<1>. QED
  BY <1>13, <1>14, <1>15

-----------------------------------------------------------------------------
(* Types                                                                   *)

LEMMA IncrementedType == \A n \in Int32 : Incremented(n) \in Int32
  BY IntAssumption DEF Int32, Incremented

\* One way is written, with a block of the right type.
LEMMA WriteType ==
  ASSUME NEW s \in Set, NEW x \in Way, NEW b \in Cache_Block,
         blocks \in [Set -> [Way -> Cache_Block]], blocks' = [blocks EXCEPT ![s][x] = b]
  PROVE  blocks' \in [Set -> [Way -> Cache_Block]]
  OBVIOUS

\* write_block writes a block of the right type.
LEMMA BlockType ==
  ASSUME NEW c \in Cache_Block, NEW tag \in Tag, NEW t \in Int32, NEW n \in Int32
  PROVE  Written(c, tag, t) \in Cache_Block /\ Inserted(c, tag, t, n) \in Cache_Block
  BY DEF Cache_Block, Written, Inserted

\* A policy's victim is a way, and the number of the new block an int.
LEMMA VictimType ==
  ASSUME NEW s \in Set, TypeOK, timestamp' \in Int32
  PROVE  /\ Victim(blocks[s]) \in Way
         /\ policy \notin {"FIFO", "LIFO"} => InsertionTime(blocks[s]) \in Int32
<1>1. \A w \in Way : /\ blocks[s][w]["last_access"] \in Int32
                     /\ blocks[s][w]["last_access"] = blocks[s][w].last_access
                     /\ blocks[s][w]["insert_timestamp"] \in Int32
  BY DEF TypeOK, Cache_Block
<1>2. /\ IntMin \in Int /\ IntMax \in Int
      /\ \A w \in Way : /\ blocks[s][w]["last_access"] \in Int
                        /\ IntMin <= blocks[s][w]["last_access"]
                        /\ blocks[s][w]["last_access"] <= IntMax
                        /\ blocks[s][w]["insert_timestamp"] \in Int
                        /\ IntMin <= blocks[s][w]["insert_timestamp"]
                        /\ blocks[s][w]["insert_timestamp"] <= IntMax
  BY <1>1, IntAssumption DEF Int32
<1>3. Lowest(blocks[s], "last_access") \in Way /\ Lowest(blocks[s], "insert_timestamp") \in Way
  BY <1>2, LowestFacts
<1>4. Highest(blocks[s], "last_access") \in Way /\ Highest(blocks[s], "insert_timestamp") \in Way
  BY <1>2, HighestFacts
<1>5. policy \in {"LRU_LRU", "LRU_MRU", "MRU_MRU", "MRU_LRU", "FIFO", "LIFO"}
  BY PolicyAssumption DEF TypeOK
<1>6. Victim(blocks[s]) \in Way
  <2>1. CASE policy \in {"LRU_LRU", "LRU_MRU"}
    BY <1>3, <2>1 DEF Victim
  <2>2. CASE policy \in {"MRU_MRU", "MRU_LRU"}
    BY <1>4, <2>2 DEF Victim
  <2>3. CASE policy = "FIFO"
    BY <1>3, <2>3 DEF Victim
  <2>4. CASE policy = "LIFO"
    BY <1>4, <2>4 DEF Victim
  <2>. QED
    BY <1>5, <2>1, <2>2, <2>3, <2>4
<1>7. InsertionTime(blocks[s]) \in Int32
  BY <1>1, <1>3 DEF InsertionTime
<1>. QED
  BY <1>6, <1>7

\* An access of an enabled cache leaves every variable with its type.
LEMMA AccessType ==
  ASSUME NEW tag \in Tag, TypeOK, Access(tag)
  PROVE  TypeOK'
<1>. DEFINE s == Index(tag)
<1>1. s \in Set /\ blocks \in [Set -> [Way -> Cache_Block]]
  BY IndexType DEF TypeOK
<1>2. timestamp' \in Int32 /\ overflowed' \in BOOLEAN /\ enabled' = enabled /\ policy' = policy
  BY IncrementedType DEF Access, TypeOK
<1>3. blocks' \in [Set -> [Way -> Cache_Block]] /\ insert_counter' \in Int32
      /\ result' \in Cache_Result
  <2>1. CASE Hit(tag, s)
    <3>1. PICK x \in Way : blocks' = [blocks EXCEPT ![s][x] = Written(@, tag, timestamp')]
      BY <2>1 DEF Hit, Hits
    <3>2. blocks' = [blocks EXCEPT ![s][x] = Written(blocks[s][x], tag, timestamp')]
      BY <1>1, <3>1
    <3>3. Written(blocks[s][x], tag, timestamp') \in Cache_Block
      BY <1>1, <1>2, BlockType
    <3>. QED
      BY <1>1, <2>1, <3>2, <3>3, WriteType DEF Hit, Cache_Result, TypeOK
  <2>2. CASE FillInvalid(tag, s)
    <3>1. insert_counter' \in Int32
      BY <2>2, IncrementedType DEF FillInvalid, TypeOK
    <3>2. PICK x \in Way :
            blocks' = [blocks EXCEPT ![s][x] = Inserted(@, tag, timestamp', insert_counter')]
      BY <2>2 DEF FillInvalid, Invalid
    <3>3. blocks' = [blocks EXCEPT ![s][x] = Inserted(blocks[s][x], tag, timestamp', insert_counter')]
      BY <1>1, <3>2
    <3>4. Inserted(blocks[s][x], tag, timestamp', insert_counter') \in Cache_Block
      BY <1>1, <1>2, <3>1, BlockType
    <3>. QED
      BY <1>1, <2>2, <3>1, <3>3, <3>4, WriteType DEF FillInvalid, Cache_Result
  <2>3. CASE Replace(tag, s) /\ policy \in {"FIFO", "LIFO"}
    <3>1. insert_counter' \in Int32
      BY <2>3, IncrementedType DEF Replace, TypeOK
    <3>2. PICK x \in Way : x = Victim(blocks[s])
      BY <1>1, <1>2, VictimType
    <3>3. blocks' = [blocks EXCEPT ![s][x] = Inserted(blocks[s][x], tag, timestamp', insert_counter')]
      BY <1>1, <2>3, <3>2 DEF Replace
    <3>4. Inserted(blocks[s][x], tag, timestamp', insert_counter') \in Cache_Block
      BY <1>1, <1>2, <3>1, BlockType
    <3>. QED
      BY <1>1, <2>3, <3>1, <3>3, <3>4, WriteType DEF Replace, Cache_Result
  <2>4. CASE Replace(tag, s) /\ policy \notin {"FIFO", "LIFO"}
    <3>1. PICK t \in Int32 : t = InsertionTime(blocks[s])
      BY <1>1, <1>2, <2>4, VictimType
    <3>2. PICK x \in Way : x = Victim(blocks[s])
      BY <1>1, <1>2, VictimType
    <3>3. blocks' = [blocks EXCEPT ![s][x] = Written(blocks[s][x], tag, t)]
      BY <1>1, <2>4, <3>1, <3>2 DEF Replace
    <3>4. Written(blocks[s][x], tag, t) \in Cache_Block
      BY <1>1, <1>2, BlockType DEF TypeOK
    <3>. QED
      BY <1>1, <2>4, <3>3, <3>4, WriteType DEF Replace, Cache_Result, TypeOK
  <2>. QED
    BY <2>1, <2>2, <2>3, <2>4 DEF Access
<1>. QED
  BY <1>2, <1>3 DEF TypeOK

\* The only block of a disabled cache.
LEMMA DisabledStep ==
  ASSUME NEW addr \in Tag, TypeOK, AccessDisabled(addr)
  PROVE  TypeOK' /\ (result' = "CACHE_HIT" => ~blocks'[0][0].valid)
<1>1. 0 \in Set /\ 0 \in Way /\ blocks \in [Set -> [Way -> Cache_Block]]
  BY WayAssumption, SetAssumption DEF TypeOK, Set, Way
<1>2. blocks[0][0] \in Cache_Block
  BY <1>1
<1>3. PICK b : b = [blocks[0][0] EXCEPT !.tag = addr, !.valid = (result' = "CACHE_MISS")]
  OBVIOUS
<1>4. b \in Cache_Block /\ (b.valid <=> result' = "CACHE_MISS")
  BY <1>2, <1>3 DEF Cache_Block
<1>5. blocks' = [blocks EXCEPT ![0][0] = b]
  BY <1>1, <1>3 DEF AccessDisabled
<1>6. blocks' \in [Set -> [Way -> Cache_Block]] /\ blocks'[0][0] = b
  BY <1>1, <1>4, <1>5
<1>7. result' \in Cache_Result
  BY DEF AccessDisabled, Cache_Result
<1>. QED
  BY <1>4, <1>6, <1>7 DEF AccessDisabled, TypeOK

\* The sets of blocks and their orders keep their types.
LEMMA HistoryStep ==
  ASSUME NEW tag \in Tag, HistoryType, Order!Access(tag)
  PROVE  HistoryType'
<1>. DEFINE s == tag % NumSets
<1>1. s \in Set
  BY IndexType DEF Index
<1>2. held[s] \subseteq Tag /\ before[s] \subseteq Tag \X Tag
  BY <1>1 DEF HistoryType
<1>3. CASE Order!Hit(s, tag)
  <2>1. Order!Behind(Order!Without(before[s], tag), held[s] \ {tag}, tag) \subseteq Tag \X Tag
    BY <1>2 DEF Order!Behind, Order!Without
  <2>. QED
    BY <1>1, <1>3, <2>1 DEF Order!Hit, HistoryType
<1>4. CASE Order!Fill(s, tag)
  <2>1. held[s] \cup {tag} \subseteq Tag /\ Order!Behind(before[s], held[s], tag) \subseteq Tag \X Tag
    BY <1>2 DEF Order!Behind
  <2>. QED
    BY <1>1, <1>4, <2>1 DEF Order!Fill, HistoryType
<1>5. ASSUME NEW victim \in held[s], Order!Replace(s, tag, victim)
      PROVE  HistoryType'
  <2>1. /\ (held[s] \ {victim}) \cup {tag} \subseteq Tag
        /\ Order!InFront(Order!Without(before[s], victim), held[s] \ {victim}, tag) \subseteq Tag \X Tag
        /\ Order!Behind(Order!Without(before[s], victim), held[s] \ {victim}, tag) \subseteq Tag \X Tag
    BY <1>2 DEF Order!Behind, Order!InFront, Order!Without
  <2>. QED
    BY <1>1, <1>5, <2>1 DEF Order!Replace, HistoryType
<1>. QED
  BY <1>3, <1>4, <1>5 DEF Order!Access

-----------------------------------------------------------------------------
(* The theorems                                                            *)

LEMMA IInvInit == OrderInit => IInv
<1>. SUFFICES ASSUME OrderInit PROVE IInv
  OBVIOUS
<1>1. /\ \A s \in Set, w \in Way : blocks[s][w] = [valid |-> FALSE, tag |-> 0, last_access |-> 0, insert_timestamp |-> 0]
      /\ timestamp = 0 /\ insert_counter = 0
  BY DEF OrderInit, Init
<1>2. [valid |-> FALSE, tag |-> 0, last_access |-> 0, insert_timestamp |-> 0] \in Cache_Block
  BY TagAssumption, IntAssumption DEF Cache_Block, Int32
<1>3. TypeOK
  <2>1. blocks \in [Set -> [Way -> Cache_Block]]
    BY <1>2 DEF OrderInit, Init
  <2>2. timestamp \in Int32 /\ insert_counter \in Int32
    BY <1>1, IntAssumption DEF Int32
  <2>. QED
    BY <2>1, <2>2 DEF OrderInit, Init, TypeOK, Cache_Result
<1>4. HistoryType /\ \A s \in Set : held[s] = {} /\ before[s] = {}
  BY SameSet DEF OrderInit, Order!Init, HistoryType
<1>5. \A s \in Set : Valid(s) = {}
  BY <1>1 DEF Valid
<1>6. Stamps
  BY <1>1 DEF Stamps
<1>7. Distinct /\ Ordered
  BY <1>4, <1>5 DEF Distinct, Ordered
<1>8. Same
  BY <1>4, <1>5 DEF Same, TagsOf, Valid
<1>9. HitsOnce
  BY DEF OrderInit, Init, HitsOnce
<1>. QED
  BY <1>3, <1>4, <1>6, <1>7, <1>8, <1>9 DEF IInv, BaseInv, Encoded

LEMMA BaseInvStep == BaseInv /\ [OrderNext]_allVars => BaseInv'
<1>. SUFFICES ASSUME BaseInv, [OrderNext]_allVars PROVE BaseInv'
  OBVIOUS
<1>1. ASSUME NEW tag \in Tag, AccessBoth(tag) PROVE BaseInv'
  <2>1. TypeOK' /\ HistoryType' /\ enabled' = enabled /\ enabled
    BY <1>1, AccessType, HistoryStep DEF AccessBoth, Access, BaseInv
  <2>. QED
    BY <2>1 DEF BaseInv, HitsOnce
<1>2. ASSUME NEW tag \in Tag, DisabledBoth(tag) PROVE BaseInv'
  <2>1. TypeOK' /\ HitsOnce'
    BY <1>2, DisabledStep DEF DisabledBoth, BaseInv, HitsOnce
  <2>2. HistoryType'
    BY <1>2 DEF DisabledBoth, BaseInv, HistoryType
  <2>. QED
    BY <2>1, <2>2 DEF BaseInv
<1>3. CASE UNCHANGED allVars
  BY <1>3 DEF BaseInv, allVars, vars, TypeOK, HistoryType, HitsOnce
<1>. QED
  BY <1>1, <1>2, <1>3 DEF OrderNext

LEMMA IInvStep ==
  ASSUME "MRU_LRU" \notin Policies
  PROVE  IInv /\ [OrderNext]_allVars => IInv'
<1>. SUFFICES ASSUME IInv, [OrderNext]_allVars PROVE IInv'
  OBVIOUS
<1>1. BaseInv /\ BaseInv'
  BY BaseInvStep DEF IInv
<1>2. ASSUME NEW tag \in Tag, AccessBoth(tag) PROVE IInv'
  <2>1. enabled /\ TypeOK /\ HistoryType /\ HistoryType' /\ (~overflowed' => ~overflowed)
    BY <1>1, <1>2 DEF AccessBoth, Access, BaseInv, TypeOK
  <2>2. policy # "MRU_LRU"
    BY <2>1 DEF TypeOK
  <2>3. ~overflowed' => Encoded'
    BY <1>2, <2>1, <2>2, AccessStep DEF IInv
  <2>. QED
    BY <1>1, <2>3 DEF IInv
<1>3. ASSUME NEW tag \in Tag, DisabledBoth(tag) PROVE IInv'
  BY <1>1, <1>3 DEF DisabledBoth, AccessDisabled, IInv
<1>4. CASE UNCHANGED allVars
  <2>1. Stamps => Stamps'
    BY <1>4 DEF allVars, vars, Stamps
  <2>2. Distinct => Distinct'
    BY <1>4 DEF allVars, vars, Distinct, Valid, Key, KeyOf
  <2>3. Ordered => Ordered'
    BY <1>4 DEF allVars, vars, Ordered, Valid, Key, KeyOf
  <2>4. Same => Same'
    BY <1>4 DEF allVars, vars, Same, TagsOf
  <2>5. enabled' = enabled /\ overflowed' = overflowed
    BY <1>4 DEF allVars, vars
  <2>. QED
    BY <1>1, <2>1, <2>2, <2>3, <2>4, <2>5 DEF IInv, Encoded
<1>. QED
  BY <1>2, <1>3, <1>4 DEF OrderNext

\* A cache with any policy but MRU_LRU holds the blocks its policy promises, as
\* long as no more than IntMax accesses were made.
THEOREM CachesFollowPolicies ==
  ASSUME "MRU_LRU" \notin Policies
  PROVE  OrderSpec => []SameBlocks
<1>1. IInv => SameBlocks
  BY DEF IInv, Encoded, Same, SameBlocks
<1>. QED
  BY IInvInit, IInvStep, <1>1, PTL DEF OrderSpec

LEMMA BaseInvariance == OrderSpec => []BaseInv
<1>1. OrderInit => BaseInv
  BY IInvInit DEF IInv
<1>. QED
  BY <1>1, BaseInvStep, PTL DEF OrderSpec

\* Every variable of the caches keeps its type, timestamps that overflow
\* included, whatever the policy.
THEOREM CachesTyped == OrderSpec => []TypeOK
<1>1. BaseInv => TypeOK
  BY DEF BaseInv
<1>. QED
  BY BaseInvariance, <1>1, PTL

\* An access of a disabled cache hits only if the one before it missed with the
\* same address.
THEOREM DisabledCacheWaits == OrderSpec => DisabledWaits
<1>1. BaseInv /\ [OrderNext]_allVars =>
        [~enabled /\ result' = "CACHE_HIT" =>
           result = "CACHE_MISS" /\ blocks'[0][0].tag = blocks[0][0].tag]_vars
  <2>. SUFFICES ASSUME BaseInv, OrderNext, ~enabled, result' = "CACHE_HIT"
                PROVE  result = "CACHE_MISS" /\ blocks'[0][0].tag = blocks[0][0].tag
    BY DEF allVars
  <2>1. PICK tag \in Tag : AccessDisabled(tag)
    BY DEF OrderNext, AccessBoth, Access, DisabledBoth
  <2>2. blocks[0][0].valid /\ blocks[0][0].tag = tag
    BY <2>1 DEF AccessDisabled
  <2>3. result = "CACHE_MISS"
    BY <2>2 DEF BaseInv, TypeOK, Cache_Result, HitsOnce
  <2>4. 0 \in Set /\ 0 \in Way /\ blocks \in [Set -> [Way -> Cache_Block]]
    BY WayAssumption, SetAssumption DEF BaseInv, TypeOK, Set, Way
  <2>5. blocks[0][0] \in Cache_Block
    BY <2>4
  <2>6. PICK b : b = [blocks[0][0] EXCEPT !.tag = tag, !.valid = (result' = "CACHE_MISS")]
    OBVIOUS
  <2>7. b.tag = tag
    BY <2>5, <2>6 DEF Cache_Block
  <2>8. blocks' = [blocks EXCEPT ![0][0] = b]
    BY <2>1, <2>4, <2>6 DEF AccessDisabled
  <2>9. blocks'[0][0] = b
    BY <2>4, <2>8
  <2>. QED
    BY <2>2, <2>3, <2>7, <2>9
<1>. QED
  BY BaseInvariance, <1>1, PTL DEF OrderSpec, DisabledWaits

-----------------------------------------------------------------------------
(* The caches of labs/lab2                                                 *)

\* q lists the ways in W by their timestamps.
Lists(set, q, W) ==
  /\ q \in Seq(Way)
  /\ \A i, j \in DOMAIN q : i < j => set[q[i]].last_access < set[q[j]].last_access
  /\ {q[i] : i \in DOMAIN q} = W

ValidWays(set) == Way \ Invalid(set)
OtherWays(set, w) == ValidWays(set) \ {w}

\* the timestamps and the tags of a set tell its ways apart, and none is later than n
Stamped(set, n) ==
  /\ \A w \in Way : set[w].last_access \in Nat /\ set[w].last_access <= n
  /\ \A v, w \in ValidWays(set) : set[v].tag = set[w].tag => v = w

\* A list names every way once.
LEMMA ListOnce ==
  ASSUME NEW set, NEW q, NEW W, Lists(set, q, W), \A w \in Way : set[w].last_access \in Nat
  PROVE  \A i, j \in DOMAIN q : q[i] = q[j] => i = j
<1>1. \A i \in DOMAIN q : q[i] \in Way /\ i \in Nat
  BY DEF Lists
<1>. SUFFICES ASSUME NEW i \in DOMAIN q, NEW j \in DOMAIN q, i # j PROVE q[i] # q[j]
  OBVIOUS
<1>2. i < j \/ j < i
  BY <1>1
<1>3. set[q[i]].last_access < set[q[j]].last_access \/ set[q[j]].last_access < set[q[i]].last_access
  BY <1>2 DEF Lists
<1>4. set[q[i]].last_access \in Nat /\ set[q[j]].last_access \in Nat
  BY <1>1
<1>. QED
  BY <1>3, <1>4

\* There is one list of the same ways.
LEMMA OneList ==
  ASSUME NEW set, NEW W, NEW q, NEW r, Lists(set, q, W), Lists(set, r, W),
         \A w \in Way : set[w].last_access \in Nat
  PROVE  q = r
<1>. DEFINE t(w) == set[w].last_access
<1>1. /\ DOMAIN q = 1 .. Len(q) /\ Len(q) \in Nat /\ \A i \in DOMAIN q : q[i] \in Way
      /\ DOMAIN r = 1 .. Len(r) /\ Len(r) \in Nat /\ \A i \in DOMAIN r : r[i] \in Way
  BY DEF Lists
<1>2. /\ \A i \in DOMAIN q : \E j \in DOMAIN r : q[i] = r[j]
      /\ \A i \in DOMAIN r : \E j \in DOMAIN q : r[i] = q[j]
  BY DEF Lists
<1>3. /\ \A i, j \in DOMAIN q : i < j => t(q[i]) < t(q[j])
      /\ \A i, j \in DOMAIN r : i < j => t(r[i]) < t(r[j])
      /\ \A i \in DOMAIN q : t(q[i]) \in Nat
      /\ \A i \in DOMAIN r : t(r[i]) \in Nat
  BY <1>1 DEF Lists
<1>4. /\ \A i, j \in DOMAIN q : q[i] = q[j] => i = j
      /\ \A i, j \in DOMAIN r : r[i] = r[j] => i = j
  BY ListOnce
<1>. HIDE DEF t
<1>. DEFINE Differ == {i \in DOMAIN q \cap DOMAIN r : q[i] # r[i]}
<1>5. Differ = {}
  <2>. SUFFICES ASSUME Differ # {} PROVE FALSE
    OBVIOUS
  <2>1. Differ \subseteq Nat
    BY <1>1
  <2>. PICK i \in Differ : \A k \in Differ : i <= k
    BY <2>1, Least
  <2>2. i \in DOMAIN q /\ i \in DOMAIN r /\ i \in Nat /\ q[i] # r[i]
    BY <2>1
  <2>3. \A k \in DOMAIN q \cap DOMAIN r : k < i => q[k] = r[k]
    BY <1>1, <2>2
  <2>4. PICK j \in DOMAIN r : q[i] = r[j]
    BY <1>2, <2>2
  <2>5. PICK k \in DOMAIN q : r[i] = q[k]
    BY <1>2, <2>2
  <2>. HIDE DEF Differ
  <2>6. ~(j < i)
    <3>. SUFFICES ASSUME j < i PROVE FALSE
      OBVIOUS
    <3>1. j \in DOMAIN q
      BY <1>1, <2>2
    <3>2. q[j] = r[j]
      BY <2>3, <3>1
    <3>. QED
      BY <1>1, <1>4, <2>2, <2>4, <3>1, <3>2
  <2>7. ~(k < i)
    <3>. SUFFICES ASSUME k < i PROVE FALSE
      OBVIOUS
    <3>1. k \in DOMAIN r
      BY <1>1, <2>2
    <3>2. q[k] = r[k]
      BY <2>3, <3>1
    <3>. QED
      BY <1>1, <1>4, <2>2, <2>5, <3>1, <3>2
  <2>8. j # i /\ k # i
    BY <2>2, <2>4, <2>5
  <2>9. i < j /\ i < k
    BY <1>1, <2>2, <2>6, <2>7, <2>8
  <2>10. t(r[i]) < t(r[j]) /\ t(q[i]) < t(q[k])
    BY <1>3, <2>2, <2>9
  <2>11. t(r[i]) < t(q[i]) /\ t(q[i]) < t(r[i])
    BY <2>4, <2>5, <2>10
  <2>. QED
    BY <1>3, <2>2, <2>11
<1>6. \A i \in DOMAIN q \cap DOMAIN r : q[i] = r[i]
  BY <1>5
<1>. HIDE DEF Differ
<1>7. ASSUME Len(q) < Len(r) PROVE FALSE
  <2>1. Len(q) + 1 \in DOMAIN r
    BY <1>1, <1>7
  <2>2. PICK k \in DOMAIN q : r[Len(q) + 1] = q[k]
    BY <1>2, <2>1
  <2>3. k \in DOMAIN r /\ k # Len(q) + 1
    BY <1>1, <1>7
  <2>. QED
    BY <1>4, <1>6, <2>1, <2>2, <2>3
<1>8. ASSUME Len(r) < Len(q) PROVE FALSE
  <2>1. Len(r) + 1 \in DOMAIN q
    BY <1>1, <1>8
  <2>2. PICK k \in DOMAIN r : q[Len(r) + 1] = r[k]
    BY <1>2, <2>1
  <2>3. k \in DOMAIN q /\ k # Len(r) + 1
    BY <1>1, <1>8
  <2>. QED
    BY <1>4, <1>6, <2>1, <2>2, <2>3
<1>9. Len(q) = Len(r)
  <2>. DEFINE m == Len(q)
              n == Len(r)
  <2>1. m \in Nat /\ n \in Nat /\ ~(m < n) /\ ~(n < m)
    BY <1>1, <1>7, <1>8
  <2>. HIDE DEF m, n
  <2>2. m = n
    BY <2>1
  <2>. QED
    BY <2>2 DEF m, n
<1>. QED
  <2>1. q \in Seq(Way) /\ r \in Seq(Way)
    BY DEF Lists
  <2>2. q = [i \in 1 .. Len(q) |-> q[i]] /\ r = [i \in 1 .. Len(r) |-> r[i]]
    BY <2>1
  <2>. QED
    BY <1>1, <1>6, <1>9, <2>2

\* The list of the valid ways is as long as the cache has ways iff none is invalid.
LEMMA ListLength ==
  ASSUME NEW set, NEW q, Lists(set, q, ValidWays(set)), \A w \in Way : set[w].last_access \in Nat
  PROVE  Len(q) \in 0 .. NumWays /\ (Len(q) < NumWays <=> Invalid(set) # {})
<1>. DEFINE n == Len(q)
<1>1. NumWays \in Nat \ {0} /\ NumWays - 1 \in Int
  BY WayAssumption
<1>2. IsFiniteSet(Way) /\ Cardinality(Way) = NumWays
  BY <1>1, FS_Interval DEF Way
<1>3. IsFiniteSet(ValidWays(set)) /\ Cardinality(ValidWays(set)) <= NumWays
      /\ (Cardinality(ValidWays(set)) = NumWays => ValidWays(set) = Way)
  BY <1>2, FS_Subset DEF ValidWays
<1>4. q \in Seq(Way) /\ n \in Nat /\ DOMAIN q = 1 .. n
  BY DEF Lists
<1>5. q \in Bijection(1 .. n, ValidWays(set))
  <2>1. \A i \in 1 .. n : q[i] \in ValidWays(set)
    BY <1>4 DEF Lists
  <2>2. q \in [1 .. n -> ValidWays(set)]
    BY <1>4, <2>1
  <2>3. \A w \in ValidWays(set) : \E i \in 1 .. n : q[i] = w
    BY <1>4 DEF Lists
  <2>4. \A i, j \in 1 .. n : q[i] = q[j] => i = j
    BY <1>4, ListOnce
  <2>. HIDE DEF n
  <2>. QED
    BY <2>2, <2>3, <2>4 DEF Bijection, Injection, Surjection, IsInjective
<1>6. IsFiniteSet(1 .. n) /\ Cardinality(1 .. n) = n
  BY <1>4, FS_Interval
<1>7. Cardinality(ValidWays(set)) = n
  BY <1>5, <1>6, FS_Bijection DEF ExistsBijection
<1>8. Invalid(set) = {} <=> ValidWays(set) = Way
  BY DEF Invalid, ValidWays
<1>9. ValidWays(set) = Way => n = NumWays
  BY <1>2, <1>7
<1>. HIDE DEF n
<1>10. n \in 0 .. NumWays /\ (n < NumWays <=> Invalid(set) # {})
  BY <1>1, <1>3, <1>4, <1>7, <1>8, <1>9
<1>. QED
  BY <1>10 DEF n

\* The tags in the order of the timestamps are those of the list.
LEMMA TagsOfList ==
  ASSUME NEW set, NEW q, Lists(set, q, ValidWays(set)), \A w \in Way : set[w].last_access \in Nat
  PROVE  ByTimestamp(set) = [i \in DOMAIN q |-> set[q[i]].tag]
<1>1. \A r \in Seq(Way) : InTimeOrder(set, r) <=> Lists(set, r, ValidWays(set))
  BY DEF InTimeOrder, Lists, ValidWays
<1>2. q \in SeqOf(Way, NumWays)
  <2>1. Len(q) \in 0 .. NumWays
    BY ListLength
  <2>2. q \in [1 .. Len(q) -> Way]
    BY DEF Lists
  <2>. QED
    BY <2>1, <2>2 DEF SeqOf
<1>3. ASSUME NEW r \in SeqOf(Way, NumWays), InTimeOrder(set, r) PROVE r = q
  <2>1. r \in Seq(Way)
    BY WayAssumption DEF SeqOf
  <2>. QED
    BY <1>1, <1>3, <2>1, OneList
<1>4. q \in Seq(Way)
  BY DEF Lists
<1>. DEFINE first == CHOOSE r \in SeqOf(Way, NumWays) : InTimeOrder(set, r)
<1>5. first = q
  <2>1. InTimeOrder(set, q)
    BY <1>1, <1>4
  <2>. QED
    BY <1>2, <1>3, <2>1
<1>6. ByTimestamp(set) = [i \in DOMAIN first |-> set[first[i]].tag]
  BY DEF ByTimestamp
<1>. HIDE DEF first
<1>. QED
  BY <1>5, <1>6

-----------------------------------------------------------------------------
\* write_block: the way gets the block and the newest timestamp
Renewed(set, w, tag, t) == [set EXCEPT ![w] = [valid |-> TRUE, tag |-> tag, last_access |-> t]]

\* A set whose ways can be told apart and listed, no block accessed after n.
LruOrdered(set, n) ==
  /\ set \in [Way -> L1_Cache_Block]
  /\ Stamped(set, n)
  /\ \E q : Lists(set, q, ValidWays(set))

\* A way that gets a newer timestamp than all others is the last one of the list.
LEMMA RenewedList ==
  ASSUME NEW set, NEW n \in Nat, NEW w \in Way, NEW tag \in Tag, NEW t \in Nat, n < t, t \in Int32,
         set \in [Way -> L1_Cache_Block], Stamped(set, n),
         \A v \in OtherWays(set, w) : set[v].tag # tag,
         NEW q, Lists(set, q, OtherWays(set, w)),
         NEW tags \in Seq(Tag), DOMAIN tags = DOMAIN q, \A i \in DOMAIN q : tags[i] = set[q[i]].tag
  PROVE  /\ LruOrdered(Renewed(set, w, tag, t), t)
         /\ ByTimestamp(Renewed(set, w, tag, t)) = Append(tags, tag)
<1>. DEFINE new == Renewed(set, w, tag, t)
            b == [valid |-> TRUE, tag |-> tag, last_access |-> t]
            r == Append(q, w)
<1>0. OtherWays(set, w) = ValidWays(set) \ {w}
  BY DEF OtherWays
<1>1. /\ new[w] = b /\ \A v \in Way \ {w} : new[v] = set[v]
      /\ new \in [Way -> L1_Cache_Block]
  <2>1. b \in L1_Cache_Block
    BY DEF L1_Cache_Block
  <2>. QED
    BY <2>1 DEF Renewed
<1>2. b.valid /\ b.tag = tag /\ b.last_access = t
  OBVIOUS
<1>. HIDE DEF new, b
<1>3. ValidWays(new) = ValidWays(set) \cup {w}
  BY <1>1, <1>2 DEF ValidWays, Invalid
<1>4. Stamped(new, t)
  <2>1. \A v \in Way : set[v].last_access \in Nat /\ set[v].last_access <= n
    BY DEF Stamped
  <2>2. ASSUME NEW v \in Way PROVE new[v].last_access \in Nat /\ new[v].last_access <= t
    <3>1. CASE v = w
      BY <1>1, <1>2, <3>1
    <3>2. CASE v # w
      <4>1. new[v] = set[v] /\ set[v].last_access \in Nat /\ set[v].last_access <= n
        BY <1>1, <2>1, <3>2
      <4>. QED
        BY <4>1
    <3>. QED
      BY <3>1, <3>2
  <2>3. ASSUME NEW u \in ValidWays(new), NEW v \in ValidWays(new), new[u].tag = new[v].tag PROVE u = v
    <3>1. ValidWays(new) \subseteq Way /\ \A x \in ValidWays(new) \ {w} : x \in ValidWays(set) \ {w} /\ new[x] = set[x]
      BY <1>1, <1>3 DEF ValidWays
    <3>2. CASE u # w /\ v # w
      BY <2>3, <3>1, <3>2 DEF Stamped
    <3>3. CASE u = w /\ v # w
      BY <1>0, <1>1, <1>2, <2>3, <3>1, <3>3
    <3>4. CASE u # w /\ v = w
      BY <1>0, <1>1, <1>2, <2>3, <3>1, <3>4
    <3>. QED
      BY <3>2, <3>3, <3>4
  <2>. QED
    BY <2>2, <2>3 DEF Stamped
<1>5. /\ q \in Seq(Way) /\ DOMAIN q = 1 .. Len(q) /\ Len(q) \in Nat
      /\ \A i \in DOMAIN q : q[i] \in ValidWays(set) \ {w} /\ q[i] \in Way \ {w}
  BY <1>0 DEF Lists, ValidWays
<1>6. /\ r \in Seq(Way) /\ DOMAIN r = 1 .. Len(q) + 1
      /\ \A i \in 1 .. Len(q) : r[i] = q[i]
      /\ r[Len(q) + 1] = w
  BY <1>5, AppendFacts
<1>. HIDE DEF r
<1>7. Lists(new, r, ValidWays(new))
  <2>1. ASSUME NEW i \in DOMAIN r, NEW j \in DOMAIN r, i < j
        PROVE  new[r[i]].last_access < new[r[j]].last_access
    <3>0. i \in DOMAIN q /\ i \in 1 .. Len(q) /\ (j \in 1 .. Len(q) \/ j = Len(q) + 1)
      BY <1>5, <1>6, <2>1
    <3>1. r[i] = q[i] /\ new[r[i]] = set[q[i]] /\ q[i] \in Way
      BY <1>1, <1>5, <1>6, <3>0
    <3>2. CASE j \in 1 .. Len(q)
      <4>1. r[j] = q[j] /\ new[r[j]] = set[q[j]] /\ j \in DOMAIN q
        BY <1>1, <1>5, <1>6, <3>2
      <4>. QED
        BY <2>1, <3>0, <3>1, <4>1 DEF Lists
    <3>3. CASE j = Len(q) + 1
      <4>1. new[r[j]].last_access = t
        BY <1>1, <1>2, <1>6, <3>3
      <4>2. set[q[i]].last_access \in Nat /\ set[q[i]].last_access <= n
        BY <3>1 DEF Stamped
      <4>. QED
        BY <3>1, <4>1, <4>2
    <3>. QED
      BY <3>0, <3>2, <3>3
  <2>2. \A i \in DOMAIN r : r[i] \in ValidWays(new)
    BY <1>3, <1>5, <1>6
  <2>3. ASSUME NEW v \in ValidWays(new) PROVE \E i \in DOMAIN r : r[i] = v
    <3>1. CASE v = w
      BY <1>5, <1>6, <3>1
    <3>2. CASE v # w
      <4>1. v \in ValidWays(set) \ {w}
        BY <1>3, <3>2
      <4>2. PICK i \in DOMAIN q : q[i] = v
        BY <1>0, <4>1 DEF Lists
      <4>. QED
        BY <1>5, <1>6, <4>2
    <3>. QED
      BY <3>1, <3>2
  <2>. QED
    BY <1>6, <2>1, <2>2, <2>3 DEF Lists
<1>8. \A v \in Way : new[v].last_access \in Nat
  BY <1>4 DEF Stamped
<1>9. ByTimestamp(new) = [i \in DOMAIN r |-> new[r[i]].tag]
  BY <1>7, <1>8, TagsOfList
<1>10. [i \in DOMAIN r |-> new[r[i]].tag] = Append(tags, tag)
  <2>1. tags \in Seq(Tag) /\ Len(tags) = Len(q)
    BY <1>5
  <2>2. \A i \in 1 .. Len(q) : tags[i] = set[q[i]].tag
    BY <1>5
  <2>. DEFINE all == Append(tags, tag)
              m == Len(q)
  <2>3. /\ all \in Seq(Tag) /\ DOMAIN all = 1 .. m + 1 /\ m \in Nat
        /\ \A i \in 1 .. m : all[i] = tags[i]
        /\ all[m + 1] = tag
    BY <1>5, <2>1, AppendFacts
  <2>. HIDE DEF all
  <2>4. all = [i \in 1 .. Len(all) |-> all[i]] /\ DOMAIN all = 1 .. Len(all)
    BY <2>3
  <2>5. ASSUME NEW i \in 1 .. m + 1 PROVE all[i] = new[r[i]].tag
    <3>1. CASE i \in 1 .. m
      BY <1>1, <1>5, <1>6, <2>2, <2>3, <3>1
    <3>2. CASE i = m + 1
      BY <1>1, <1>2, <1>6, <2>3, <3>2
    <3>3. i \in 1 .. m \/ i = m + 1
      <4>. HIDE DEF m
      <4>. QED
        BY <2>3
    <3>. QED
      BY <3>1, <3>2, <3>3
  <2>6. DOMAIN r = DOMAIN all /\ \A i \in DOMAIN all : all[i] = new[r[i]].tag
    BY <1>6, <2>3, <2>5
  <2>. QED
    BY <2>4, <2>6 DEF all
<1>11. LruOrdered(new, t)
  BY <1>1, <1>4, <1>7 DEF LruOrdered
<1>. QED
  BY <1>9, <1>10, <1>11 DEF new

\* The tags of an ordered set, in the order of a list.
LEMMA ListedTags ==
  ASSUME NEW set, NEW n \in Nat, LruOrdered(set, n), NEW q, Lists(set, q, ValidWays(set))
  PROVE  LET tags == ByTimestamp(set)
         IN /\ tags = [i \in DOMAIN q |-> set[q[i]].tag]
            /\ tags \in Seq(Tag) /\ Len(tags) = Len(q) /\ DOMAIN tags = DOMAIN q
            /\ \A i \in DOMAIN q : tags[i] = set[q[i]].tag
            /\ \A i, j \in DOMAIN q : tags[i] = tags[j] => i = j
            /\ \A tag : Lru!Holds(tags, tag) <=> Hits(set, tag) # {}
<1>. DEFINE tags == ByTimestamp(set)
<1>1. \A w \in Way : set[w].last_access \in Nat
  BY DEF LruOrdered, Stamped
<1>2. tags = [i \in DOMAIN q |-> set[q[i]].tag]
  BY <1>1, TagsOfList
<1>3. /\ DOMAIN q = 1 .. Len(q) /\ Len(q) \in Nat
      /\ \A i \in DOMAIN q : q[i] \in ValidWays(set) /\ q[i] \in Way
  BY DEF Lists, ValidWays
<1>. HIDE DEF tags
<1>4. DOMAIN tags = DOMAIN q /\ \A i \in DOMAIN q : tags[i] = set[q[i]].tag
  BY <1>2
<1>5. tags \in Seq(Tag) /\ Len(tags) = Len(q)
  <2>1. \A i \in 1 .. Len(q) : set[q[i]].tag \in Tag
    BY <1>3 DEF LruOrdered, L1_Cache_Block
  <2>. QED
    BY <1>2, <1>3, <2>1
<1>6. \A i, j \in DOMAIN q : tags[i] = tags[j] => i = j
  BY <1>1, <1>3, <1>4, ListOnce DEF LruOrdered, Stamped
<1>7. ASSUME NEW tag PROVE Lru!Holds(tags, tag) <=> Hits(set, tag) # {}
  <2>1. ASSUME NEW i \in DOMAIN q, tags[i] = tag PROVE q[i] \in Hits(set, tag)
    BY <1>3, <1>4, <2>1 DEF Hits, ValidWays, Invalid
  <2>2. ASSUME NEW w \in Hits(set, tag) PROVE \E i \in DOMAIN q : tags[i] = tag
    <3>1. w \in ValidWays(set) /\ set[w].tag = tag
      BY DEF Hits, ValidWays, Invalid
    <3>2. PICK i \in DOMAIN q : q[i] = w
      BY <3>1 DEF Lists
    <3>. QED
      BY <1>4, <3>1, <3>2
  <2>. QED
    BY <1>4, <2>1, <2>2 DEF Lru!Holds
<1>. QED
  BY <1>2, <1>4, <1>5, <1>6, <1>7 DEF tags

\* RemoveAt and Append of SequencesExt, as LruSet has them.
LEMMA LruSequences ==
  ASSUME NEW tags, NEW tag, NEW k
  PROVE  Lru!RemoveAt(tags, k) = RemoveAt(tags, k)
BY DEF Lru!RemoveAt, RemoveAt

\* A block that is hit moves to the end.
LEMMA HitRenews ==
  ASSUME NEW set, NEW n \in Nat, LruOrdered(set, n), NEW tag \in Tag, NEW t \in Nat, n < t, t \in Int32,
         Hits(set, tag) # {}
  PROVE  LET new == Renewed(set, FirstOf(Hits(set, tag)), tag, t)
         IN /\ LruOrdered(new, t)
            /\ ByTimestamp(new) = Lru!Touched(ByTimestamp(set), tag)
<1>. DEFINE w == FirstOf(Hits(set, tag))
            tags == ByTimestamp(set)
<1>1. w \in Hits(set, tag)
  BY FirstOfFacts DEF Hits
<1>. HIDE DEF w, tags
<1>2. w \in Way /\ w \in ValidWays(set) /\ set[w].tag = tag
  BY <1>1 DEF Hits, ValidWays, Invalid
<1>3. PICK q : Lists(set, q, ValidWays(set))
  BY DEF LruOrdered
<1>4. PICK k \in DOMAIN q : q[k] = w
  BY <1>2, <1>3 DEF Lists
<1>5. /\ tags \in Seq(Tag) /\ DOMAIN tags = DOMAIN q /\ Len(tags) = Len(q)
      /\ \A i \in DOMAIN q : tags[i] = set[q[i]].tag
      /\ \A i, j \in DOMAIN q : tags[i] = tags[j] => i = j
  BY <1>3, ListedTags DEF tags
<1>6. /\ q \in Seq(Way) /\ k \in 1 .. Len(q) /\ DOMAIN q = 1 .. Len(q) /\ Len(q) \in Nat
      /\ \A i, j \in DOMAIN q : i < j => set[q[i]].last_access < set[q[j]].last_access
  BY <1>3, <1>4 DEF Lists
<1>. DEFINE rest == RemoveAt(q, k)
            m == Len(q)
<1>7. /\ rest \in Seq(Way) /\ DOMAIN rest = 1 .. m - 1
      /\ \A j \in 1 .. m - 1 : Skip(k, j) \in (1 .. m) \ {k} /\ rest[j] = q[Skip(k, j)]
      /\ \A i \in (1 .. m) \ {k} : \E j \in 1 .. m - 1 : Skip(k, j) = i
      /\ \A i, j \in 1 .. m - 1 : i < j => Skip(k, i) < Skip(k, j)
  <2>0. q \in Seq(Way) /\ k \in 1 .. Len(q)
    BY <1>6
  <2>1. rest \in Seq(Way) /\ DOMAIN rest = 1 .. m - 1
    BY <2>0, RemoveAtFacts
  <2>2. \A j \in 1 .. m - 1 : Skip(k, j) \in (1 .. m) \ {k}
    BY <2>0, RemoveAtFacts
  <2>3. \A j \in 1 .. m - 1 : rest[j] = q[Skip(k, j)]
    BY <2>0, RemoveAtFacts
  <2>4. \A i \in (1 .. m) \ {k} : \E j \in 1 .. m - 1 : Skip(k, j) = i
    BY <2>0, RemoveAtFacts
  <2>5. \A i, j \in 1 .. m - 1 : i < j => Skip(k, i) < Skip(k, j)
    BY <2>0, RemoveAtFacts
  <2>. HIDE DEF rest, m
  <2>. QED
    BY <2>1, <2>2, <2>3, <2>4, <2>5
<1>8. /\ RemoveAt(tags, k) \in Seq(Tag) /\ DOMAIN RemoveAt(tags, k) = 1 .. m - 1
      /\ \A j \in 1 .. m - 1 : RemoveAt(tags, k)[j] = tags[Skip(k, j)]
  <2>1. k \in 1 .. Len(tags) /\ Len(tags) = m
    BY <1>5, <1>6
  <2>. HIDE DEF m
  <2>. QED
    BY <1>5, <2>1, RemoveAtFacts
<1>. HIDE DEF rest
<1>9. Lists(set, rest, OtherWays(set, w))
  <2>1. \A i, j \in DOMAIN rest : i < j => set[rest[i]].last_access < set[rest[j]].last_access
    <3>. SUFFICES ASSUME NEW i \in DOMAIN rest, NEW j \in DOMAIN rest, i < j
                  PROVE  set[rest[i]].last_access < set[rest[j]].last_access
      OBVIOUS
    <3>. HIDE DEF m
    <3>1. i \in 1 .. m - 1 /\ j \in 1 .. m - 1
      BY <1>7
    <3>2. rest[i] = q[Skip(k, i)] /\ rest[j] = q[Skip(k, j)] /\ Skip(k, i) < Skip(k, j)
      BY <1>7, <3>1
    <3>3. Skip(k, i) \in DOMAIN q /\ Skip(k, j) \in DOMAIN q
      BY <1>6, <1>7, <3>1 DEF m
    <3>. QED
      BY <1>6, <3>2, <3>3
  <2>2. \A j \in DOMAIN rest : rest[j] \in ValidWays(set) \ {w}
    <3>1. \A i, j \in DOMAIN q : q[i] = q[j] => i = j
      BY <1>3, ListOnce DEF LruOrdered, Stamped
    <3>2. \A i \in DOMAIN q : q[i] \in ValidWays(set)
      BY <1>3 DEF Lists
    <3>. QED
      BY <1>4, <1>6, <1>7, <3>1, <3>2
  <2>3. \A v \in ValidWays(set) \ {w} : \E j \in DOMAIN rest : rest[j] = v
    <3>. SUFFICES ASSUME NEW v \in ValidWays(set) \ {w} PROVE \E j \in DOMAIN rest : rest[j] = v
      OBVIOUS
    <3>1. PICK i \in DOMAIN q : q[i] = v
      BY <1>3 DEF Lists
    <3>2. i \in (1 .. m) \ {k}
      BY <1>4, <1>6, <3>1
    <3>. QED
      BY <1>7, <3>1, <3>2
  <2>. QED
    BY <1>7, <2>1, <2>2, <2>3 DEF Lists, OtherWays
<1>10. /\ RemoveAt(tags, k) \in Seq(Tag) /\ DOMAIN RemoveAt(tags, k) = DOMAIN rest
       /\ \A j \in DOMAIN rest : RemoveAt(tags, k)[j] = set[rest[j]].tag
  <2>. HIDE DEF m
  <2>1. RemoveAt(tags, k) \in Seq(Tag) /\ DOMAIN RemoveAt(tags, k) = DOMAIN rest
    BY <1>7, <1>8
  <2>2. ASSUME NEW j \in DOMAIN rest PROVE RemoveAt(tags, k)[j] = set[rest[j]].tag
    <3>1. j \in 1 .. m - 1 /\ RemoveAt(tags, k)[j] = tags[Skip(k, j)] /\ rest[j] = q[Skip(k, j)]
      BY <1>7, <1>8
    <3>2. Skip(k, j) \in DOMAIN q
      BY <1>6, <1>7, <3>1 DEF m
    <3>. QED
      BY <1>5, <3>1, <3>2
  <2>. QED
    BY <2>1, <2>2
<1>11. Lru!Touched(tags, tag) = Append(RemoveAt(tags, k), tag)
  <2>1. tags[k] = tag /\ k \in DOMAIN tags /\ \A i \in DOMAIN tags : tags[i] = tag => i = k
    BY <1>2, <1>4, <1>5
  <2>2. (CHOOSE i \in DOMAIN tags : tags[i] = tag) = k
    BY <2>1
  <2>. QED
    BY <2>2, LruSequences DEF Lru!Touched
<1>12. \A v \in OtherWays(set, w) : set[v].tag # tag
  BY <1>2 DEF LruOrdered, Stamped, OtherWays
<1>13. /\ LruOrdered(Renewed(set, w, tag, t), t)
       /\ ByTimestamp(Renewed(set, w, tag, t)) = Append(RemoveAt(tags, k), tag)
  <2>1. set \in [Way -> L1_Cache_Block] /\ Stamped(set, n)
    BY DEF LruOrdered
  <2>. DEFINE left == RemoveAt(tags, k)
  <2>2. left \in Seq(Tag) /\ DOMAIN left = DOMAIN rest /\ \A j \in DOMAIN rest : left[j] = set[rest[j]].tag
    BY <1>10
  <2>. HIDE DEF left, m
  <2>3. LruOrdered(Renewed(set, w, tag, t), t) /\ ByTimestamp(Renewed(set, w, tag, t)) = Append(left, tag)
    BY <1>2, <1>9, <1>12, <2>1, <2>2, RenewedList
  <2>. QED
    BY <2>3 DEF left
<1>. QED
  BY <1>11, <1>13 DEF w, tags

\* A new block goes to the end, after the oldest one has left a full set.
LEMMA InsertRenews ==
  ASSUME NEW set, NEW n \in Nat, LruOrdered(set, n), NEW tag \in Tag, NEW t \in Nat, n < t, t \in Int32,
         Hits(set, tag) = {}
  PROVE  LET w == IF Invalid(set) # {} THEN FirstOf(Invalid(set)) ELSE Lowest(set, "last_access")
             new == Renewed(set, w, tag, t)
         IN /\ LruOrdered(new, t)
            /\ ByTimestamp(new) = Lru!Inserted(ByTimestamp(set), tag, NumWays)
<1>. DEFINE tags == ByTimestamp(set)
<1>1. PICK q : Lists(set, q, ValidWays(set))
  BY DEF LruOrdered
<1>2. /\ tags = [i \in DOMAIN q |-> set[q[i]].tag]
      /\ tags \in Seq(Tag) /\ DOMAIN tags = DOMAIN q /\ Len(tags) = Len(q)
      /\ \A i \in DOMAIN q : tags[i] = set[q[i]].tag
      /\ ~Lru!Holds(tags, tag)
  BY <1>1, ListedTags
<1>3. Len(q) \in 0 .. NumWays /\ (Len(q) < NumWays <=> Invalid(set) # {})
  BY <1>1, ListLength DEF LruOrdered, Stamped
<1>4. \A v \in ValidWays(set) : set[v].tag # tag
  BY DEF Hits, ValidWays, Invalid
<1>5. \A w \in Way : set[w].last_access \in Nat
  BY DEF LruOrdered, Stamped
<1>. HIDE DEF tags
<1>6. CASE Invalid(set) # {}
  <2>. DEFINE w == FirstOf(Invalid(set))
  <2>1. w \in Invalid(set) /\ w \in Way
    BY <1>6, FirstOfFacts DEF Invalid
  <2>2. OtherWays(set, w) = ValidWays(set)
    BY <2>1 DEF OtherWays, ValidWays
  <2>. HIDE DEF w
  <2>3. Lists(set, q, OtherWays(set, w))
    BY <1>1, <2>2
  <2>4. /\ LruOrdered(Renewed(set, w, tag, t), t)
        /\ ByTimestamp(Renewed(set, w, tag, t)) = Append(tags, tag)
    <3>1. set \in [Way -> L1_Cache_Block] /\ Stamped(set, n)
      BY DEF LruOrdered
    <3>2. \A v \in OtherWays(set, w) : set[v].tag # tag
      BY <1>4, <2>2
    <3>3. tags \in Seq(Tag) /\ DOMAIN tags = DOMAIN q /\ \A i \in DOMAIN q : tags[i] = set[q[i]].tag
      BY <1>2
    <3>. QED
      BY <2>1, <2>3, <3>1, <3>2, <3>3, RenewedList
  <2>5. Lru!Inserted(tags, tag, NumWays) = Append(tags, tag)
    BY <1>2, <1>3, <1>6 DEF Lru!Inserted
  <2>. QED
    BY <1>6, <2>4, <2>5 DEF tags, w
<1>7. CASE Invalid(set) = {}
  <2>. DEFINE w == Lowest(set, "last_access")
              m == Len(q)
  <2>0. NumWays \in Nat \ {0}
    BY WayAssumption
  <2>1. /\ q \in Seq(Way) /\ m = NumWays /\ DOMAIN q = 1 .. m /\ m \in Nat \ {0} /\ 1 \in DOMAIN q
        /\ \A i \in DOMAIN q : q[i] \in Way
        /\ \A i, j \in DOMAIN q : i < j => set[q[i]].last_access < set[q[j]].last_access
        /\ \A v \in Way : \E i \in DOMAIN q : q[i] = v
        /\ ValidWays(set) = Way
    <3>1. m = NumWays
      BY <1>3, <1>7, <2>0
    <3>2. q \in Seq(Way) /\ DOMAIN q = 1 .. m
      BY <1>1 DEF Lists
    <3>3. ValidWays(set) = Way
      BY <1>7 DEF ValidWays
    <3>. HIDE DEF m
    <3>4. 1 \in DOMAIN q /\ m \in Nat \ {0}
      BY <2>0, <3>1, <3>2
    <3>. QED
      BY <1>1, <3>1, <3>2, <3>3, <3>4 DEF Lists
  <2>2. w \in Way /\ \A v \in Way : set[w].last_access <= set[v].last_access
    <3>1. \A v \in Way : set[v]["last_access"] \in Int /\ 0 <= set[v]["last_access"]
      BY <1>5
    <3>. QED
      BY <3>1, LowestFacts
  <2>. HIDE DEF w, m
  <2>3. q[1] = w
    <3>1. PICK i \in DOMAIN q : q[i] = w
      BY <2>1, <2>2
    <3>2. i \in Nat /\ ~(1 < i) /\ 1 <= i
      <4>1. i \in Nat /\ 1 <= i
        BY <2>1
      <4>2. ASSUME 1 < i PROVE FALSE
        <5>1. set[q[1]].last_access < set[w].last_access
          BY <2>1, <3>1, <4>2
        <5>2. set[w].last_access <= set[q[1]].last_access
          BY <2>1, <2>2
        <5>. QED
          BY <1>5, <2>1, <2>2, <5>1, <5>2
      <4>. QED
        BY <4>1, <4>2
    <3>. QED
      BY <3>1, <3>2
  <2>. DEFINE rest == Tail(q)
  <2>4. /\ rest \in Seq(Way) /\ DOMAIN rest = 1 .. m - 1
        /\ \A j \in 1 .. m - 1 : j + 1 \in DOMAIN q /\ rest[j] = q[j + 1]
    BY <2>1 DEF m
  <2>5. /\ Tail(tags) \in Seq(Tag) /\ DOMAIN Tail(tags) = 1 .. m - 1
        /\ \A j \in 1 .. m - 1 : Tail(tags)[j] = tags[j + 1]
    BY <1>2, <2>1 DEF m
  <2>. HIDE DEF rest
  <2>6. Lists(set, rest, OtherWays(set, w))
    <3>1. \A i, j \in DOMAIN rest : i < j => set[rest[i]].last_access < set[rest[j]].last_access
      <4>. SUFFICES ASSUME NEW i \in DOMAIN rest, NEW j \in DOMAIN rest, i < j
                    PROVE  set[rest[i]].last_access < set[rest[j]].last_access
        OBVIOUS
      <4>1. i + 1 \in DOMAIN q /\ j + 1 \in DOMAIN q /\ i + 1 < j + 1 /\ rest[i] = q[i + 1] /\ rest[j] = q[j + 1]
        <5>1. i \in 1 .. m - 1 /\ j \in 1 .. m - 1 /\ i + 1 < j + 1
          BY <2>1, <2>4
        <5>. QED
          BY <2>4, <5>1
      <4>. QED
        BY <2>1, <4>1
    <3>2. \A i, j \in DOMAIN q : q[i] = q[j] => i = j
      BY <1>1, <1>5, ListOnce
    <3>3. \A j \in DOMAIN rest : rest[j] \in ValidWays(set) \ {w}
      <4>. SUFFICES ASSUME NEW j \in DOMAIN rest PROVE rest[j] \in Way \ {w}
        BY <2>1
      <4>1. j + 1 \in DOMAIN q /\ j + 1 # 1 /\ rest[j] = q[j + 1]
        BY <2>1, <2>4
      <4>. QED
        BY <2>1, <2>3, <3>2, <4>1
    <3>4. \A v \in ValidWays(set) \ {w} : \E j \in DOMAIN rest : rest[j] = v
      <4>. SUFFICES ASSUME NEW v \in Way \ {w} PROVE \E j \in DOMAIN rest : rest[j] = v
        BY <2>1
      <4>1. PICK i \in DOMAIN q : q[i] = v
        BY <2>1
      <4>2. i # 1
        BY <2>3, <4>1
      <4>3. i - 1 \in 1 .. m - 1 /\ (i - 1) + 1 = i
        BY <2>1, <4>2
      <4>. QED
        BY <2>4, <4>1, <4>3
    <3>. QED
      BY <2>4, <3>1, <3>3, <3>4 DEF Lists, OtherWays
  <2>. DEFINE left == Tail(tags)
  <2>7. left \in Seq(Tag) /\ DOMAIN left = DOMAIN rest /\ \A j \in DOMAIN rest : left[j] = set[rest[j]].tag
    BY <1>2, <2>4, <2>5
  <2>. HIDE DEF left
  <2>8. \A v \in OtherWays(set, w) : set[v].tag # tag
    BY <1>4 DEF OtherWays
  <2>9. /\ LruOrdered(Renewed(set, w, tag, t), t)
        /\ ByTimestamp(Renewed(set, w, tag, t)) = Append(Tail(tags), tag)
    <3>1. set \in [Way -> L1_Cache_Block] /\ Stamped(set, n)
      BY DEF LruOrdered
    <3>2. LruOrdered(Renewed(set, w, tag, t), t) /\ ByTimestamp(Renewed(set, w, tag, t)) = Append(left, tag)
      BY <2>2, <2>6, <2>7, <2>8, <3>1, RenewedList
    <3>. QED
      BY <3>2 DEF left
  <2>10. Lru!Inserted(tags, tag, NumWays) = Append(Tail(tags), tag)
    <3>1. ~(Len(tags) < NumWays)
      BY <1>2, <1>3, <1>7
    <3>. QED
      BY <1>2, <3>1 DEF Lru!Inserted
  <2>. QED
    BY <1>7, <2>9, <2>10 DEF tags, w
<1>. QED
  BY <1>6, <1>7

-----------------------------------------------------------------------------
\* The invariant: until the timestamp overflows, the timestamps order every set.
LruInv ==
  ~overflowed =>
    /\ timestamp \in Nat /\ timestamp \in Int32
    /\ blocks \in [Set -> [Way -> L1_Cache_Block]]
    /\ \A s \in Set : LruOrdered(blocks[s], timestamp)

\* the sets as the refinement mapping has them
LruSets == [s \in Set |-> ByTimestamp(blocks[s])]

\* A later time does no harm.
LEMMA StillOrdered ==
  ASSUME NEW set, NEW n \in Nat, NEW t \in Nat, n <= t, LruOrdered(set, n)
  PROVE  LruOrdered(set, t)
<1>1. \A w \in Way : set[w].last_access \in Nat /\ set[w].last_access <= t
  <2>. SUFFICES ASSUME NEW w \in Way PROVE set[w].last_access \in Nat /\ set[w].last_access <= t
    OBVIOUS
  <2>1. set[w].last_access \in Nat /\ set[w].last_access <= n
    BY DEF LruOrdered, Stamped
  <2>. QED
    BY <2>1
<1>. QED
  BY <1>1 DEF LruOrdered, Stamped

\* The timestamp of an access that does not overflow it is newer than all before.
LEMMA Ticks ==
  ASSUME LruInv, Tick, ~overflowed'
  PROVE  /\ ~overflowed /\ timestamp \in Nat /\ timestamp' = timestamp + 1
         /\ timestamp' \in Nat /\ timestamp' \in Int32 /\ timestamp < timestamp'
<1>1. ~overflowed /\ ~(timestamp' < timestamp)
  BY DEF Tick
<1>2. timestamp \in Nat /\ timestamp \in IntMin .. IntMax
  BY <1>1 DEF LruInv, Int32
<1>3. timestamp' = IF timestamp = IntMax THEN IntMin ELSE timestamp + 1
  BY DEF Tick, Incremented
<1>4. timestamp # IntMax
  BY <1>1, <1>2, <1>3, IntAssumption
<1>. QED
  BY <1>1, <1>2, <1>3, <1>4, IntAssumption DEF Int32

\* A step that leaves the sets alone.
LEMMA SetsKept ==
  ASSUME LruInv, Tick, ~overflowed', blocks' = blocks
  PROVE  LruInv' /\ LruSets' = LruSets
<1>1. ~overflowed /\ timestamp \in Nat /\ timestamp' \in Nat /\ timestamp' \in Int32 /\ timestamp <= timestamp'
  BY Ticks
<1>2. \A s \in Set : LruOrdered(blocks[s], timestamp')
  BY <1>1, StillOrdered DEF LruInv
<1>3. LruInv'
  <2>1. blocks' \in [Set -> [Way -> L1_Cache_Block]]
    BY <1>1 DEF LruInv
  <2>2. \A s \in Set : LruOrdered(blocks'[s], timestamp')
    BY <1>2
  <2>. QED
    BY <1>1, <2>1, <2>2 DEF LruInv, LruOrdered, Stamped, Lists, ValidWays, Invalid
<1>4. LruSets' = LruSets
  BY DEF LruSets, ByTimestamp, InTimeOrder
<1>. QED
  BY <1>3, <1>4

\* A step that writes one way of one set.
LEMMA SetRenewed ==
  ASSUME LruInv, Tick, ~overflowed', NEW s \in Set, NEW w \in Way, NEW tag \in Tag, NEW tags,
         WriteBlock(s, w, tag),
         LruOrdered(Renewed(blocks[s], w, tag, timestamp'), timestamp'),
         ByTimestamp(Renewed(blocks[s], w, tag, timestamp')) = tags
  PROVE  LruInv' /\ LruSets' = [LruSets EXCEPT ![s] = tags]
<1>1. /\ ~overflowed /\ timestamp \in Nat /\ timestamp' \in Nat /\ timestamp' \in Int32 /\ timestamp <= timestamp'
      /\ blocks \in [Set -> [Way -> L1_Cache_Block]]
      /\ \A r \in Set : LruOrdered(blocks[r], timestamp)
  BY Ticks DEF LruInv
<1>. DEFINE new == Renewed(blocks[s], w, tag, timestamp')
<1>2. blocks' = [blocks EXCEPT ![s] = new]
  BY <1>1 DEF WriteBlock, Renewed
<1>. HIDE DEF new
<1>3. blocks'[s] = new /\ \A r \in Set \ {s} : blocks'[r] = blocks[r]
  BY <1>1, <1>2
<1>4. ASSUME NEW r \in Set PROVE LruOrdered(blocks'[r], timestamp')
  <2>1. CASE r = s
    BY <1>3, <2>1 DEF new
  <2>2. CASE r # s
    BY <1>1, <1>3, <2>2, StillOrdered
  <2>. QED
    BY <2>1, <2>2
<1>5. LruInv'
  <2>1. blocks' \in [Set -> [Way -> L1_Cache_Block]]
    BY <1>1, <1>2, <1>4 DEF LruOrdered
  <2>. QED
    BY <1>1, <1>4, <2>1 DEF LruInv, LruOrdered, Stamped, Lists, ValidWays, Invalid
<1>6. LruSets' = [r \in Set |-> ByTimestamp(blocks'[r])]
  BY DEF LruSets, ByTimestamp, InTimeOrder
<1>7. ASSUME NEW r \in Set
      PROVE  ByTimestamp(blocks'[r]) = [LruSets EXCEPT ![s] = tags][r]
  <2>1. CASE r = s
    BY <1>3, <2>1 DEF LruSets, new
  <2>2. CASE r # s
    BY <1>3, <2>2 DEF LruSets
  <2>. QED
    BY <2>1, <2>2
<1>8. LruSets' = [LruSets EXCEPT ![s] = tags]
  <2>1. [LruSets EXCEPT ![s] = tags] = [r \in Set |-> [LruSets EXCEPT ![s] = tags][r]]
    BY DEF LruSets
  <2>. QED
    BY <1>6, <1>7, <2>1
<1>. QED
  BY <1>5, <1>8

\* The actions of LruCache, about LruSets.
LEMMA LruActions ==
  ASSUME NEW tag \in Tag
  PROVE  LET s == Index(tag)
         IN /\ Lru!Access(tag) <=>
                 IF Lru!Holds(LruSets[s], tag)
                   THEN LruSets' = [LruSets EXCEPT ![s] = Lru!Touched(LruSets[s], tag)]
                   ELSE LruSets' = LruSets
            /\ Lru!Insert(tag) <=>
                 LruSets' = [LruSets EXCEPT ![s] = Lru!Inserted(LruSets[s], tag, NumWays)]
<1>. DEFINE mapped == [s \in Set |-> ByTimestamp(blocks[s])]
<1>1. mapped = LruSets /\ mapped' = LruSets'
  BY DEF LruSets, Set
<1>2. Index(tag) = tag % NumSets /\ Index(tag) \in Set
  BY IndexType DEF Index
<1>3. /\ Lru!Access(tag) <=>
           IF Lru!Holds(mapped[tag % NumSets], tag)
             THEN mapped' = [mapped EXCEPT ![tag % NumSets] = Lru!Touched(@, tag)]
             ELSE mapped' = mapped
      /\ Lru!Insert(tag) <=>
           mapped' = [mapped EXCEPT ![tag % NumSets] = Lru!Inserted(@, tag, NumWays)]
  BY DEF Lru!Access, Lru!Insert
<1>. HIDE DEF mapped
<1>. QED
  BY <1>1, <1>2, <1>3

\* Accesses.
LEMMA LruAccessStep ==
  ASSUME LruInv, NEW tag \in Tag, LruAccess(tag), ~overflowed'
  PROVE  LruInv' /\ Lru!Access(tag)
<1>. DEFINE s == Index(tag)
            set == blocks[s]
<1>0. s \in Set
  BY IndexType
<1>1. /\ Tick
      /\ Hits(set, tag) = {} => blocks' = blocks
      /\ Hits(set, tag) # {} => WriteBlock(s, FirstOf(Hits(set, tag)), tag)
  BY DEF LruAccess
<1>. HIDE DEF s
<1>2. /\ timestamp \in Nat /\ timestamp' \in Nat /\ timestamp' \in Int32 /\ timestamp < timestamp'
      /\ LruOrdered(set, timestamp)
  BY <1>0, <1>1, Ticks DEF LruInv
<1>3. LruSets[s] = ByTimestamp(set)
  BY <1>0 DEF LruSets
<1>4. Lru!Holds(LruSets[s], tag) <=> Hits(set, tag) # {}
  <2>1. PICK q : Lists(set, q, ValidWays(set))
    BY <1>2 DEF LruOrdered
  <2>. QED
    BY <1>2, <1>3, <2>1, ListedTags
<1>5. CASE Hits(set, tag) = {}
  <2>1. LruInv' /\ LruSets' = LruSets
    BY <1>1, <1>5, SetsKept
  <2>. QED
    BY <1>4, <1>5, <2>1, LruActions DEF s
<1>6. CASE Hits(set, tag) # {}
  <2>. DEFINE w == FirstOf(Hits(set, tag))
              tags == Lru!Touched(LruSets[s], tag)
  <2>1. w \in Way
    BY <1>6, FirstOfFacts DEF Hits
  <2>2. /\ LruOrdered(Renewed(set, w, tag, timestamp'), timestamp')
        /\ ByTimestamp(Renewed(set, w, tag, timestamp')) = tags
    BY <1>2, <1>3, <1>6, HitRenews
  <2>3. WriteBlock(s, w, tag)
    BY <1>1, <1>6
  <2>. HIDE DEF w, tags
  <2>4. LruInv' /\ LruSets' = [LruSets EXCEPT ![s] = tags]
    BY <1>0, <1>1, <2>1, <2>2, <2>3, SetRenewed
  <2>. QED
    BY <1>4, <1>6, <2>4, LruActions DEF s, tags
<1>. QED
  BY <1>5, <1>6

\* Insertions.
LEMMA LruInsertStep ==
  ASSUME LruInv, NEW tag \in Tag, LruInsert(tag), ~overflowed'
  PROVE  LruInv' /\ Lru!Insert(tag)
<1>. DEFINE s == Index(tag)
            set == blocks[s]
            w == IF Invalid(set) # {} THEN FirstOf(Invalid(set)) ELSE Lowest(set, "last_access")
            tags == Lru!Inserted(LruSets[s], tag, NumWays)
<1>0. s \in Set
  BY IndexType
<1>1. /\ Tick
      /\ Hits(set, tag) # {} => blocks' = blocks
      /\ Hits(set, tag) = {} => WriteBlock(s, w, tag)
  BY DEF LruInsert
<1>. HIDE DEF s
<1>2. /\ timestamp \in Nat /\ timestamp' \in Nat /\ timestamp' \in Int32 /\ timestamp < timestamp'
      /\ LruOrdered(set, timestamp)
  BY <1>0, <1>1, Ticks DEF LruInv
<1>3. LruSets[s] = ByTimestamp(set)
  BY <1>0 DEF LruSets
<1>4. Lru!Holds(LruSets[s], tag) <=> Hits(set, tag) # {}
  <2>1. PICK q : Lists(set, q, ValidWays(set))
    BY <1>2 DEF LruOrdered
  <2>. QED
    BY <1>2, <1>3, <2>1, ListedTags
<1>5. CASE Hits(set, tag) # {}
  <2>1. LruInv' /\ LruSets' = LruSets
    BY <1>1, <1>5, SetsKept
  <2>2. tags = LruSets[s]
    BY <1>4, <1>5 DEF Lru!Inserted
  <2>3. LruSets = [LruSets EXCEPT ![s] = LruSets[s]]
    BY <1>0 DEF LruSets
  <2>. QED
    BY <2>1, <2>2, <2>3, LruActions DEF s
<1>6. CASE Hits(set, tag) = {}
  <2>1. w \in Way
    <3>1. \A v \in Way : set[v]["last_access"] \in Int /\ 0 <= set[v]["last_access"]
      BY <1>2 DEF LruOrdered, Stamped
    <3>2. Lowest(set, "last_access") \in Way
      BY <3>1, LowestFacts
    <3>. QED
      BY <3>2, FirstOfFacts DEF Invalid
  <2>2. /\ LruOrdered(Renewed(set, w, tag, timestamp'), timestamp')
        /\ ByTimestamp(Renewed(set, w, tag, timestamp')) = tags
    BY <1>2, <1>3, <1>6, InsertRenews
  <2>3. WriteBlock(s, w, tag)
    BY <1>1, <1>6
  <2>. HIDE DEF w, tags
  <2>4. LruInv' /\ LruSets' = [LruSets EXCEPT ![s] = tags]
    BY <1>0, <1>1, <2>1, <2>2, <2>3, SetRenewed
  <2>. QED
    BY <2>4, LruActions DEF s, tags
<1>. QED
  BY <1>5, <1>6

\* The empty cache.
LEMMA LruInitially == LruInit => LruInv /\ Lru!Init
<1>. SUFFICES ASSUME LruInit PROVE LruInv /\ Lru!Init
  OBVIOUS
<1>1. /\ timestamp = 0 /\ blocks \in [Set -> [Way -> L1_Cache_Block]]
      /\ \A s \in Set, w \in Way : blocks[s][w] = [valid |-> FALSE, tag |-> 0, last_access |-> 0]
  BY TagAssumption, IntAssumption DEF LruInit, L1_Cache_Block, Int32
<1>2. ASSUME NEW s \in Set
      PROVE  LruOrdered(blocks[s], 0) /\ ByTimestamp(blocks[s]) = << >>
  <2>1. ValidWays(blocks[s]) = {}
    BY <1>1 DEF ValidWays, Invalid
  <2>2. \A w \in Way : blocks[s][w].last_access \in Nat /\ blocks[s][w].last_access <= 0
    BY <1>1
  <2>. DEFINE q == << >>
  <2>3. q \in Seq(Way) /\ DOMAIN q = {}
    OBVIOUS
  <2>4. Lists(blocks[s], q, ValidWays(blocks[s]))
    BY <2>1, <2>3 DEF Lists
  <2>5. ByTimestamp(blocks[s]) = [i \in DOMAIN q |-> blocks[s][q[i]].tag]
    BY <2>2, <2>4, TagsOfList
  <2>6. [i \in DOMAIN q |-> blocks[s][q[i]].tag] = << >>
    BY <2>3
  <2>. HIDE DEF q
  <2>. QED
    BY <1>1, <2>1, <2>2, <2>4, <2>5, <2>6 DEF LruOrdered, Stamped
<1>3. LruInv
  BY <1>1, <1>2, IntAssumption DEF LruInv, Int32
<1>4. Lru!Init
  BY <1>2 DEF Lru!Init, Set
<1>. QED
  BY <1>3, <1>4

\* The caches of labs/lab2 (l1_cache.c, l2_cache.c) keep their sets in LRU order: every
\* access and insertion does to the tags, in the order of the timestamps, what LruCache
\* says, whatever a stalled stage repeats, until the timestamp overflows.
THEOREM WaysImplementLru == LruSpec => ImplementsLru
<1>1. LruInit => LruInv /\ Lru!Init
  BY LruInitially
<1>2. LruInv /\ [LruNext]_(lruVars) => LruInv'
  <2>. SUFFICES ASSUME LruInv, [LruNext]_(lruVars) PROVE LruInv'
    OBVIOUS
  <2>1. CASE overflowed'
    BY <2>1 DEF LruInv
  <2>2. ASSUME NEW tag \in Tag, LruAccess(tag) \/ LruInsert(tag), ~overflowed' PROVE LruInv'
    BY <2>2, LruAccessStep, LruInsertStep
  <2>3. ASSUME UNCHANGED lruVars, ~overflowed' PROVE LruInv'
    <3>1. blocks' = blocks /\ timestamp' = timestamp /\ ~overflowed
      BY <2>3 DEF lruVars
    <3>2. /\ timestamp' \in Nat /\ timestamp' \in Int32
          /\ blocks' \in [Set -> [Way -> L1_Cache_Block]]
          /\ \A s \in Set : LruOrdered(blocks'[s], timestamp')
      BY <3>1 DEF LruInv
    <3>. QED
      BY <3>2 DEF LruInv, LruOrdered, Stamped, Lists, ValidWays, Invalid
  <2>. QED
    BY <2>1, <2>2, <2>3 DEF LruNext
<1>3. LruInv => [~overflowed' =>
                   \A tag \in Tag : /\ LruAccess(tag) => Lru!Access(tag)
                                    /\ LruInsert(tag) => Lru!Insert(tag)]_(lruVars)
  BY LruAccessStep, LruInsertStep
<1>. QED
  BY <1>1, <1>2, <1>3, PTL DEF LruSpec, ImplementsLru
-----------------------------------------------------------------------------
(* Lab 3: what the caches keep true                                        *)

\* The states of a cache with n sets; its retry list is empty.
CacheLine == [addr : Block, lock : BOOLEAN, dirty : BOOLEAN]
LinesCache(n) == [lines : [0 .. n - 1 -> Seq(CacheLine)], mshr_entries : SUBSET Block, retry_list : {<<>>}]

\* A set with n sets in its cache: no block twice, all with index i
LinesSound(q, n, i) ==
  /\ Len(q) <= assoc
  /\ \A j \in DOMAIN q : q[j].addr % n = i
  /\ \A j, m \in DOMAIN q : q[j].addr = q[m].addr => j = m
CacheSound(c, n) ==
  /\ c \in LinesCache(n)
  /\ \A i \in 0 .. n - 1 : LinesSound(c.lines[i], n, i)

\* The sets of cache k.
sets(k) == block_num[level(k)]

\* The requests in a wait list, a read of block a among them, and a hit on it.
Requests(w) == w \in Seq(ToSet(w)) /\ \A i \in DOMAIN w : DOMAIN w[i] = {"left", "addr", "type"}
ReadWaits(w, a) == \E i \in DOMAIN w : w[i].addr = a /\ w[i].type = "READ"
HitPending(s, a) == \E h \in s.hits : h.addr = a

\* The state is well-formed, and no assertion has failed.
StateSound(s) ==
  /\ DOMAIN s = {"caches", "hits", "waits", "unsaved", "aborted"}
  /\ DOMAIN s.caches = Cache
  /\ \A k \in Cache : CacheSound(s.caches[k], sets(k))
  /\ s.hits \subseteq [left : Nat, addr : Block]
  /\ Requests(s.waits)
  /\ s.unsaved \subseteq Block
  /\ s.aborted = FALSE

\* A cache has an MSHR for each of its locked lines,
Held(s, k) == s.caches[k].mshr_entries
LockedHaveMshrs(s) ==
  \A k \in Cache : \A a \in Block : a \in Held(s, k) <=> Has(s, k, a) /\ LineOf(s, k, a).lock
\* as many as there are,
MshrsFit(s) == \A k \in Cache : IsFiniteSet(Held(s, k)) /\ Cardinality(Held(s, k)) <= mshrs(k)
\* and what is locked on a level is locked above it.
LockedAbove(s) == \A k \in Cache : ~is_last_level(k) => Held(s, lower_cache(k)) \subseteq Held(s, k)
\* What a cache has the level below has, but for the lines E whose request has not
\* been sent yet.
Inclusive(s, E) ==
  \A k \in Cache, a \in Block :
    ~is_last_level(k) /\ Has(s, k, a) => Has(s, lower_cache(k), a) \/ <<k, a>> \in E
\* A locked line is on its way: from the level below, the memory or a hit.
Fetched(s, k, a) ==
  IF is_last_level(k) THEN memory[a] > 0 \/ ReadWaits(s.waits, a) ELSE a \in Held(s, lower_cache(k))
Fetching(s, E) ==
  \A k \in Cache : \A a \in Held(s, k) : Fetched(s, k, a) \/ HitPending(s, a) \/ <<k, a>> \in E
\* What was written since it was last written back is dirty somewhere.
UnsavedDirty(s) == \A a \in s.unsaved : \E k \in Cache : Has(s, k, a) /\ LineOf(s, k, a).dirty

\* The state during a request, between its sends, where E is still to be asked for.
Good(s, E) ==
  /\ StateSound(s) /\ LockedHaveMshrs(s) /\ MshrsFit(s) /\ LockedAbove(s)
  /\ Inclusive(s, E) /\ Fetching(s, E) /\ UnsavedDirty(s)

\* The loads of a core that are not ready wait for the first level or for a hit.
Load == [addr : Block, ready : BOOLEAN]
LoadsFetched(w, s, c) ==
  \A i \in DOMAIN w : w[i].ready \/ w[i].addr \in Held(s, first_level_cache(c)) \/ HitPending(s, w[i].addr)

\* The inductive invariant.
SystemIInv ==
  /\ config \in Configs
  /\ memory \in [Block -> Nat]
  /\ Good(Now, {})
  /\ window \in [config.cores -> Seq(Load)]
  /\ \A c \in config.cores : LoadsFetched(window[c], Now, c)
-----------------------------------------------------------------------------
(* The lines of a set                                                      *)

\* Erasing a line leaves the others.
LEMMA ErasedFacts ==
  ASSUME NEW q \in Seq(CacheLine), NEW n, NEW i, LinesSound(q, n, i),
         NEW a, \E l \in ToSet(q) : l.addr = a
  PROVE  /\ Erased(q, a) \in Seq(CacheLine) /\ Len(Erased(q, a)) = Len(q) - 1
         /\ LinesSound(Erased(q, a), n, i)
         /\ ToSet(Erased(q, a)) = {l \in ToSet(q) : l.addr # a}
<1>. DEFINE at == CHOOSE j \in DOMAIN q : q[j].addr = a
            r == RemoveAt(q, at)
<1>1. \E j \in DOMAIN q : q[j].addr = a
  BY DEF ToSet
<1>2. at \in DOMAIN q /\ q[at].addr = a
  BY <1>1
<1>3. at \in 1 .. Len(q) /\ Len(q) \in Nat
  BY <1>2
<1>4. r = Erased(q, a)
  BY DEF Erased
<1>. HIDE DEF at
<1>5. DOMAIN r = 1 .. Len(q) - 1 /\ r \in Seq(CacheLine)
  BY <1>3, RemoveAtFacts
<1>6. Len(r) = Len(q) - 1
  BY <1>3, <1>5
<1>7. /\ \A j \in DOMAIN r : Skip(at, j) \in DOMAIN q \ {at} /\ r[j] = q[Skip(at, j)]
      /\ \A k \in DOMAIN q \ {at} : \E j \in DOMAIN r : Skip(at, j) = k
      /\ \A j, k \in DOMAIN r : j # k => Skip(at, j) # Skip(at, k)
  BY <1>2, RemovedAt
<1>. HIDE DEF r
<1>8. \A j \in DOMAIN q : q[j].addr = a => j = at
  BY <1>2 DEF LinesSound
<1>9. LinesSound(r, n, i)
  <2>1. Len(r) <= assoc
    BY <1>3, <1>6, SizeAssumption DEF LinesSound
  <2>2. \A j \in DOMAIN r : r[j].addr % n = i
    BY <1>7 DEF LinesSound
  <2>3. ASSUME NEW j \in DOMAIN r, NEW m \in DOMAIN r, r[j].addr = r[m].addr
        PROVE  j = m
    <3>1. Skip(at, j) = Skip(at, m)
      BY <1>7, <2>3 DEF LinesSound
    <3>. QED
      BY <3>1, <1>7
  <2>. QED
    BY <2>1, <2>2, <2>3 DEF LinesSound
<1>10. ToSet(r) = {l \in ToSet(q) : l.addr # a}
  <2>1. ASSUME NEW j \in DOMAIN r
        PROVE  r[j] \in ToSet(q) /\ r[j].addr # a
    BY <1>7, <1>8 DEF ToSet
  <2>2. ASSUME NEW k \in DOMAIN q, q[k].addr # a
        PROVE  q[k] \in ToSet(r)
    <3>1. k # at
      BY <1>2, <2>2
    <3>2. PICK j \in DOMAIN r : Skip(at, j) = k
      BY <3>1, <1>7
    <3>3. r[j] = q[k]
      BY <3>2, <1>7
    <3>. QED
      BY <3>3 DEF ToSet
  <2>. QED
    BY <2>1, <2>2 DEF ToSet
<1>. QED
  BY <1>4, <1>5, <1>6, <1>9, <1>10

\* So does adding one, if the set has room and not the block.
LEMMA AddedFacts ==
  ASSUME NEW q \in Seq(CacheLine), NEW n, NEW i, LinesSound(q, n, i), Len(q) < assoc,
         NEW l \in CacheLine, l.addr % n = i, \A m \in ToSet(q) : m.addr # l.addr
  PROVE  /\ Append(q, l) \in Seq(CacheLine) /\ Len(Append(q, l)) = Len(q) + 1
         /\ LinesSound(Append(q, l), n, i)
         /\ ToSet(Append(q, l)) = ToSet(q) \cup {l}
<1>. DEFINE r == Append(q, l)
<1>1. /\ r \in Seq(CacheLine) /\ DOMAIN r = DOMAIN q \cup {Len(q) + 1} /\ Len(q) + 1 \notin DOMAIN q
      /\ \A j \in DOMAIN q : r[j] = q[j]
      /\ r[Len(q) + 1] = l
  BY Appended
<1>2. Len(r) = Len(q) + 1 /\ Len(q) \in Nat
  BY AppendProperties
<1>. HIDE DEF r
<1>3. ToSet(r) = ToSet(q) \cup {l}
  BY <1>1 DEF ToSet
<1>4. LinesSound(r, n, i)
  <2>1. Len(r) <= assoc
    BY <1>2, SizeAssumption
  <2>2. \A j \in DOMAIN r : r[j].addr % n = i
    BY <1>1 DEF LinesSound
  <2>3. \A j \in DOMAIN q : q[j].addr # l.addr
    BY DEF ToSet
  <2>4. ASSUME NEW j \in DOMAIN r, NEW m \in DOMAIN r, r[j].addr = r[m].addr
        PROVE  j = m
    BY <1>1, <2>3, <2>4 DEF LinesSound
  <2>. QED
    BY <2>1, <2>2, <2>4 DEF LinesSound
<1>. QED
  BY <1>1, <1>2, <1>3, <1>4 DEF r

\* So does changing the bits of lines.
LEMMA MarkedFacts ==
  ASSUME NEW q \in Seq(CacheLine), NEW n, NEW i, LinesSound(q, n, i), NEW r,
         r = [j \in DOMAIN q |-> r[j]],
         \A j \in DOMAIN q : r[j] \in CacheLine /\ r[j].addr = q[j].addr
  PROVE  r \in Seq(CacheLine) /\ Len(r) = Len(q) /\ LinesSound(r, n, i)
<1>1. DOMAIN q = 1 .. Len(q) /\ Len(q) \in Nat /\ DOMAIN r = DOMAIN q
  OBVIOUS
<1>2. r \in Seq(CacheLine) /\ Len(r) = Len(q)
  BY <1>1
<1>3. LinesSound(r, n, i)
  BY <1>1, <1>2 DEF LinesSound
<1>. QED
  BY <1>2, <1>3
-----------------------------------------------------------------------------
(* A cache with n sets                                                     *)

CacheHas(c, n, a) == \E l \in ToSet(c.lines[a % n]) : l.addr = a
CacheLineOf(c, n, a) == CHOOSE l \in ToSet(c.lines[a % n]) : l.addr = a

\* d holds block a as c does
SameLines(c, d, n, a) ==
  /\ CacheHas(d, n, a) <=> CacheHas(c, n, a)
  /\ CacheHas(c, n, a) => CacheLineOf(d, n, a) = CacheLineOf(c, n, a)

\* d is c with other lines in set i, and maybe other MSHRs
Relined(c, d, i, q) ==
  d = [lines |-> [c.lines EXCEPT ![i] = q], mshr_entries |-> d.mshr_entries, retry_list |-> c.retry_list]

\* A block belongs to one of the n sets.
LEMMA IndexFacts ==
  ASSUME NEW n \in Nat \ {0}, NEW a \in Block
  PROVE  a % n \in 0 .. n - 1
BY SizeAssumption

\* What a sound cache is made of.
LEMMA CacheParts ==
  ASSUME NEW n \in Nat \ {0}, NEW c, CacheSound(c, n), NEW a \in Block
  PROVE  /\ c.lines \in [0 .. n - 1 -> Seq(CacheLine)] /\ c.lines[a % n] \in Seq(CacheLine)
         /\ LinesSound(c.lines[a % n], n, a % n) /\ a % n \in 0 .. n - 1
         /\ c.mshr_entries \subseteq Block /\ c.retry_list = <<>>
         /\ c = [lines |-> c.lines, mshr_entries |-> c.mshr_entries, retry_list |-> c.retry_list]
<1>1. a % n \in 0 .. n - 1
  BY IndexFacts
<1>2. c \in LinesCache(n) /\ \A i \in 0 .. n - 1 : LinesSound(c.lines[i], n, i)
  BY DEF CacheSound
<1>3. c.lines \in [0 .. n - 1 -> Seq(CacheLine)]
  BY <1>2 DEF LinesCache
<1>. QED
  BY <1>1, <1>2, <1>3 DEF LinesCache

\* A block has one line.
LEMMA OneLine ==
  ASSUME NEW n \in Nat \ {0}, NEW c, CacheSound(c, n), NEW a \in Block,
         NEW l \in ToSet(c.lines[a % n]), l.addr = a
  PROVE  CacheHas(c, n, a) /\ CacheLineOf(c, n, a) = l /\ l \in CacheLine
<1>1. c.lines[a % n] \in Seq(CacheLine) /\ LinesSound(c.lines[a % n], n, a % n)
  BY CacheParts
<1>2. \A m \in ToSet(c.lines[a % n]) : m.addr = a => m = l
  BY <1>1 DEF LinesSound, ToSet
<1>. QED
  BY <1>1, <1>2 DEF CacheHas, CacheLineOf, ToSet

\* The line of a block that a cache has.
LEMMA TheLine ==
  ASSUME NEW n \in Nat \ {0}, NEW c, CacheSound(c, n), NEW a \in Block, CacheHas(c, n, a)
  PROVE  /\ CacheLineOf(c, n, a) \in ToSet(c.lines[a % n]) /\ CacheLineOf(c, n, a) \in CacheLine
         /\ CacheLineOf(c, n, a).addr = a
BY OneLine DEF CacheHas

\* Changing the line of one block in one set leaves the other blocks alone.
LEMMA RelinedFacts ==
  ASSUME NEW n \in Nat \ {0}, NEW c, CacheSound(c, n), NEW a \in Block,
         NEW q \in Seq(CacheLine), LinesSound(q, n, a % n), NEW d, Relined(c, d, a % n, q),
         d.mshr_entries \subseteq Block,
         {l \in ToSet(q) : l.addr # a} = {l \in ToSet(c.lines[a % n]) : l.addr # a}
  PROVE  /\ CacheSound(d, n) /\ d.lines[a % n] = q
         /\ \A b \in Block \ {a} : SameLines(c, d, n, b)
<1>1. /\ c.lines \in [0 .. n - 1 -> Seq(CacheLine)] /\ a % n \in 0 .. n - 1 /\ c.retry_list = <<>>
      /\ \A i \in 0 .. n - 1 : LinesSound(c.lines[i], n, i)
  BY CacheParts DEF CacheSound
<1>2. d.lines = [c.lines EXCEPT ![a % n] = q] /\ d.retry_list = <<>>
  BY <1>1 DEF Relined
<1>3. d = [lines |-> d.lines, mshr_entries |-> d.mshr_entries, retry_list |-> d.retry_list]
  BY <1>2 DEF Relined
<1>4. d.lines \in [0 .. n - 1 -> Seq(CacheLine)] /\ d.lines[a % n] = q
  BY <1>1, <1>2
<1>5. d \in LinesCache(n)
  BY <1>2, <1>3, <1>4 DEF LinesCache
<1>6. \A i \in 0 .. n - 1 : LinesSound(d.lines[i], n, i)
  BY <1>1, <1>2
<1>7. CacheSound(d, n)
  BY <1>5, <1>6 DEF CacheSound
<1>8. ASSUME NEW b \in Block, b # a
      PROVE  SameLines(c, d, n, b)
  <2>1. b % n \in 0 .. n - 1
    BY IndexFacts
  <2>2. ASSUME NEW l, l.addr = b
        PROVE  l \in ToSet(d.lines[b % n]) <=> l \in ToSet(c.lines[b % n])
    <3>1. CASE b % n = a % n
      BY <3>1, <2>2, <1>4, <1>8
    <3>2. CASE b % n # a % n
      BY <3>2, <2>1, <1>1, <1>2
    <3>. QED
      BY <3>1, <3>2
  <2>3. CacheHas(d, n, b) <=> CacheHas(c, n, b)
    BY <2>2 DEF CacheHas
  <2>4. ASSUME CacheHas(c, n, b)
        PROVE  CacheLineOf(d, n, b) = CacheLineOf(c, n, b)
    <3>1. PICK l \in ToSet(c.lines[b % n]) : l.addr = b
      BY <2>4 DEF CacheHas
    <3>2. l \in ToSet(d.lines[b % n])
      BY <3>1, <2>2
    <3>. QED
      BY <3>1, <3>2, <1>7, OneLine
  <2>. QED
    BY <2>3, <2>4 DEF SameLines
<1>. QED
  BY <1>4, <1>7, <1>8

\* A cache without the line of a block.
LEMMA ErasedCache ==
  ASSUME NEW n \in Nat \ {0}, NEW c, CacheSound(c, n), NEW a \in Block, CacheHas(c, n, a),
         NEW d, Relined(c, d, a % n, Erased(c.lines[a % n], a)), d.mshr_entries = c.mshr_entries
  PROVE  /\ CacheSound(d, n) /\ ~CacheHas(d, n, a)
         /\ Len(d.lines[a % n]) = Len(c.lines[a % n]) - 1
         /\ \A b \in Block \ {a} : SameLines(c, d, n, b)
<1>. DEFINE q == Erased(c.lines[a % n], a)
<1>1. c.lines[a % n] \in Seq(CacheLine) /\ LinesSound(c.lines[a % n], n, a % n) /\ d.mshr_entries \subseteq Block
  BY CacheParts
<1>2. \E l \in ToSet(c.lines[a % n]) : l.addr = a
  BY DEF CacheHas
<1>3. /\ q \in Seq(CacheLine) /\ Len(q) = Len(c.lines[a % n]) - 1
      /\ LinesSound(q, n, a % n)
      /\ ToSet(q) = {l \in ToSet(c.lines[a % n]) : l.addr # a}
  BY <1>1, <1>2, ErasedFacts
<1>4. {l \in ToSet(q) : l.addr # a} = {l \in ToSet(c.lines[a % n]) : l.addr # a}
  BY <1>3
<1>5. Relined(c, d, a % n, q)
  OBVIOUS
<1>. HIDE DEF q
<1>6. /\ CacheSound(d, n) /\ d.lines[a % n] = q
      /\ \A b \in Block \ {a} : SameLines(c, d, n, b)
  BY <1>1, <1>3, <1>4, <1>5, RelinedFacts
<1>. QED
  BY <1>3, <1>6 DEF CacheHas

\* A cache whose line of a block was moved to the end and changed.
LEMMA RefreshedCache ==
  ASSUME NEW n \in Nat \ {0}, NEW c, CacheSound(c, n), NEW a \in Block, CacheHas(c, n, a),
         NEW l \in CacheLine, l.addr = a,
         NEW d, Relined(c, d, a % n, Append(Erased(c.lines[a % n], a), l)), d.mshr_entries = c.mshr_entries
  PROVE  /\ CacheSound(d, n) /\ CacheHas(d, n, a) /\ CacheLineOf(d, n, a) = l
         /\ \A b \in Block \ {a} : SameLines(c, d, n, b)
<1>. DEFINE e == Erased(c.lines[a % n], a)
            q == Append(e, l)
<1>1. /\ c.lines[a % n] \in Seq(CacheLine) /\ LinesSound(c.lines[a % n], n, a % n) /\ d.mshr_entries \subseteq Block
      /\ Len(c.lines[a % n]) \in Nat /\ assoc \in Nat
  BY CacheParts, SizeAssumption
<1>2. \E m \in ToSet(c.lines[a % n]) : m.addr = a
  BY DEF CacheHas
<1>3. /\ e \in Seq(CacheLine) /\ Len(e) = Len(c.lines[a % n]) - 1
      /\ LinesSound(e, n, a % n)
      /\ ToSet(e) = {m \in ToSet(c.lines[a % n]) : m.addr # a}
  BY <1>1, <1>2, ErasedFacts
<1>4. Len(e) < assoc
  BY <1>1, <1>3 DEF LinesSound
<1>5. Relined(c, d, a % n, q)
  OBVIOUS
<1>. HIDE DEF e
<1>6. /\ q \in Seq(CacheLine) /\ LinesSound(q, n, a % n)
      /\ ToSet(q) = ToSet(e) \cup {l}
  BY <1>3, <1>4, AddedFacts
<1>7. {m \in ToSet(q) : m.addr # a} = {m \in ToSet(c.lines[a % n]) : m.addr # a}
  BY <1>3, <1>6
<1>. HIDE DEF q
<1>8. /\ CacheSound(d, n) /\ d.lines[a % n] = q
      /\ \A b \in Block \ {a} : SameLines(c, d, n, b)
  BY <1>1, <1>5, <1>6, <1>7, RelinedFacts
<1>. QED
  BY <1>6, <1>8, OneLine

\* A cache with a line for a block that it did not have.
LEMMA AddedCache ==
  ASSUME NEW n \in Nat \ {0}, NEW c, CacheSound(c, n), NEW a \in Block, ~CacheHas(c, n, a),
         Len(c.lines[a % n]) < assoc, NEW l \in CacheLine, l.addr = a,
         NEW d, Relined(c, d, a % n, Append(c.lines[a % n], l)), d.mshr_entries \subseteq Block
  PROVE  /\ CacheSound(d, n) /\ CacheHas(d, n, a) /\ CacheLineOf(d, n, a) = l
         /\ \A b \in Block \ {a} : SameLines(c, d, n, b)
<1>. DEFINE e == c.lines[a % n]
            q == Append(e, l)
<1>1. /\ e \in Seq(CacheLine) /\ LinesSound(e, n, a % n)
  BY CacheParts
<1>2. \A m \in ToSet(e) : m.addr # a
  BY DEF CacheHas
<1>3. /\ q \in Seq(CacheLine) /\ LinesSound(q, n, a % n)
      /\ ToSet(q) = ToSet(e) \cup {l}
  BY <1>1, <1>2, AddedFacts
<1>4. {m \in ToSet(q) : m.addr # a} = {m \in ToSet(c.lines[a % n]) : m.addr # a}
  BY <1>3
<1>5. Relined(c, d, a % n, q)
  OBVIOUS
<1>. HIDE DEF q
<1>6. /\ CacheSound(d, n) /\ d.lines[a % n] = q
      /\ \A b \in Block \ {a} : SameLines(c, d, n, b)
  BY <1>3, <1>4, <1>5, RelinedFacts
<1>. QED
  BY <1>3, <1>6, OneLine

\* A cache whose line of a block became dirty.
LEMMA JoinedCache ==
  ASSUME NEW n \in Nat \ {0}, NEW c, CacheSound(c, n), NEW a \in Block, CacheHas(c, n, a), NEW w \in BOOLEAN,
         NEW d, Relined(c, d, a % n, Joined(c.lines[a % n], a, w)), d.mshr_entries = c.mshr_entries
  PROVE  /\ CacheSound(d, n) /\ CacheHas(d, n, a)
         /\ CacheLineOf(d, n, a) = [CacheLineOf(c, n, a) EXCEPT !.dirty = @ \/ w]
         /\ \A b \in Block \ {a} : SameLines(c, d, n, b)
<1>. DEFINE e == c.lines[a % n]
            q == Joined(e, a, w)
<1>1. e \in Seq(CacheLine) /\ LinesSound(e, n, a % n) /\ d.mshr_entries \subseteq Block
  BY CacheParts
<1>2. q = [j \in DOMAIN e |-> q[j]]
  BY DEF Joined
<1>3. \A j \in DOMAIN e : /\ e[j].addr = a => q[j] = [e[j] EXCEPT !.dirty = @ \/ w]
                          /\ e[j].addr # a => q[j] = e[j]
  BY DEF Joined
<1>4. \A l \in CacheLine : [l EXCEPT !.dirty = @ \/ w] \in CacheLine /\ [l EXCEPT !.dirty = @ \/ w].addr = l.addr
  BY DEF CacheLine
<1>5. \A j \in DOMAIN e : e[j] \in CacheLine
  BY <1>1
<1>6. Relined(c, d, a % n, q)
  OBVIOUS
<1>. HIDE DEF q, e
<1>7. \A j \in DOMAIN e : q[j] \in CacheLine /\ q[j].addr = e[j].addr
  BY <1>3, <1>4, <1>5
<1>8. q \in Seq(CacheLine) /\ LinesSound(q, n, a % n)
  BY <1>1, <1>2, <1>7, MarkedFacts
<1>9. {l \in ToSet(q) : l.addr # a} = {l \in ToSet(e) : l.addr # a}
  BY <1>2, <1>3, <1>7 DEF ToSet
<1>10. /\ CacheSound(d, n) /\ d.lines[a % n] = q
       /\ \A b \in Block \ {a} : SameLines(c, d, n, b)
  BY <1>1, <1>6, <1>8, <1>9, RelinedFacts DEF e
<1>11. CacheLineOf(c, n, a) \in ToSet(e) /\ CacheLineOf(c, n, a).addr = a
  BY TheLine DEF e
<1>12. PICK j \in DOMAIN e : e[j] = CacheLineOf(c, n, a)
  BY <1>11 DEF ToSet
<1>13. q[j] \in ToSet(q) /\ q[j] = [CacheLineOf(c, n, a) EXCEPT !.dirty = @ \/ w] /\ q[j].addr = a
  BY <1>2, <1>3, <1>7, <1>11, <1>12 DEF ToSet
<1>14. PICK l \in ToSet(d.lines[a % n]) : l = q[j] /\ l.addr = a
  BY <1>10, <1>13
<1>15. CacheSound(d, n)
  BY <1>10
<1>16. CacheHas(d, n, a) /\ CacheLineOf(d, n, a) = l
  BY <1>14, <1>15, OneLine
<1>. QED
  BY <1>10, <1>13, <1>14, <1>16

\* An answer unlocks lines and leaves the rest alone.
Answers(c, d, A) ==
  d = [lines |-> [i \in DOMAIN c.lines |-> UnlockedLines(c.lines[i], A \cap c.mshr_entries)],
       mshr_entries |-> c.mshr_entries \ A,
       retry_list |-> c.retry_list]

\* A cache that an answer for the blocks A has reached.
LEMMA UnlockedCache ==
  ASSUME NEW n \in Nat \ {0}, NEW c, CacheSound(c, n), NEW A, NEW d, Answers(c, d, A)
  PROVE  /\ CacheSound(d, n) /\ d.mshr_entries = c.mshr_entries \ A
         /\ \A b \in Block :
              /\ CacheHas(d, n, b) <=> CacheHas(c, n, b)
              /\ CacheHas(c, n, b) =>
                   /\ CacheLineOf(d, n, b).lock <=> CacheLineOf(c, n, b).lock /\ b \notin A \cap c.mshr_entries
                   /\ CacheLineOf(d, n, b).dirty = CacheLineOf(c, n, b).dirty
<1>. DEFINE B == A \cap c.mshr_entries
            r(i) == UnlockedLines(c.lines[i], B)
<1>1. /\ c.lines \in [0 .. n - 1 -> Seq(CacheLine)] /\ c.retry_list = <<>> /\ c.mshr_entries \subseteq Block
      /\ \A i \in 0 .. n - 1 : LinesSound(c.lines[i], n, i)
  BY DEF CacheSound, LinesCache
<1>2. \A l \in CacheLine : /\ [l EXCEPT !.lock = FALSE] \in CacheLine /\ [l EXCEPT !.lock = FALSE].addr = l.addr
                           /\ [l EXCEPT !.lock = FALSE].lock = FALSE /\ [l EXCEPT !.lock = FALSE].dirty = l.dirty
  BY DEF CacheLine
<1>3. d.lines = [i \in 0 .. n - 1 |-> r(i)] /\ d.mshr_entries = c.mshr_entries \ A /\ d.retry_list = <<>>
  BY <1>1 DEF Answers
<1>4. ASSUME NEW i \in 0 .. n - 1
      PROVE  /\ r(i) = [j \in DOMAIN c.lines[i] |-> r(i)[j]]
             /\ \A j \in DOMAIN c.lines[i] :
                  /\ r(i)[j] \in CacheLine /\ r(i)[j].addr = c.lines[i][j].addr
                  /\ r(i)[j].lock <=> c.lines[i][j].lock /\ c.lines[i][j].addr \notin B
                  /\ r(i)[j].dirty = c.lines[i][j].dirty
  <2>1. r(i) = [j \in DOMAIN c.lines[i] |-> r(i)[j]]
    BY DEF UnlockedLines
  <2>2. ASSUME NEW j \in DOMAIN c.lines[i]
        PROVE  r(i)[j] = IF c.lines[i][j].addr \in B THEN [c.lines[i][j] EXCEPT !.lock = FALSE] ELSE c.lines[i][j]
    BY DEF UnlockedLines
  <2>3. \A j \in DOMAIN c.lines[i] : c.lines[i][j] \in CacheLine
    BY <1>1
  <2>. HIDE DEF r, B
  <2>4. ASSUME NEW j \in DOMAIN c.lines[i]
        PROVE  /\ r(i)[j] \in CacheLine /\ r(i)[j].addr = c.lines[i][j].addr
               /\ r(i)[j].lock <=> c.lines[i][j].lock /\ c.lines[i][j].addr \notin B
               /\ r(i)[j].dirty = c.lines[i][j].dirty
    <3>1. CASE c.lines[i][j].addr \in B
      <4>1. r(i)[j] = [c.lines[i][j] EXCEPT !.lock = FALSE]
        BY <2>2, <3>1
      <4>. QED
        BY <3>1, <4>1, <2>3, <1>2
    <3>2. CASE c.lines[i][j].addr \notin B
      BY <3>2, <2>2, <2>3
    <3>. QED
      BY <3>1, <3>2
  <2>. QED
    BY <2>1, <2>4
<1>. HIDE DEF r
<1>5. \A i \in 0 .. n - 1 : r(i) \in Seq(CacheLine) /\ LinesSound(r(i), n, i)
  <2>. SUFFICES ASSUME NEW i \in 0 .. n - 1
                PROVE  r(i) \in Seq(CacheLine) /\ LinesSound(r(i), n, i)
    OBVIOUS
  <2>1. c.lines[i] \in Seq(CacheLine) /\ LinesSound(c.lines[i], n, i)
    BY <1>1
  <2>2. \A j \in DOMAIN c.lines[i] : r(i)[j] \in CacheLine /\ r(i)[j].addr = c.lines[i][j].addr
    BY <1>4
  <2>3. r(i) = [j \in DOMAIN c.lines[i] |-> r(i)[j]]
    BY <1>4
  <2>. QED
    BY <2>1, <2>2, <2>3, MarkedFacts
<1>6. CacheSound(d, n)
  <2>1. d.lines \in [0 .. n - 1 -> Seq(CacheLine)]
    BY <1>3, <1>5
  <2>2. d = [lines |-> d.lines, mshr_entries |-> d.mshr_entries, retry_list |-> d.retry_list]
    BY DEF Answers
  <2>3. d \in LinesCache(n)
    BY <1>1, <1>3, <2>1, <2>2 DEF LinesCache
  <2>4. \A i \in 0 .. n - 1 : LinesSound(d.lines[i], n, i)
    BY <1>3, <1>5
  <2>. QED
    BY <2>3, <2>4 DEF CacheSound
<1>7. ASSUME NEW b \in Block
      PROVE  /\ CacheHas(d, n, b) <=> CacheHas(c, n, b)
             /\ CacheHas(c, n, b) =>
                  /\ CacheLineOf(d, n, b).lock <=> CacheLineOf(c, n, b).lock /\ b \notin B
                  /\ CacheLineOf(d, n, b).dirty = CacheLineOf(c, n, b).dirty
  <2>. DEFINE i == b % n
  <2>1. i \in 0 .. n - 1
    BY IndexFacts
  <2>. HIDE DEF i
  <2>2. /\ DOMAIN d.lines[i] = DOMAIN c.lines[i]
        /\ \A j \in DOMAIN c.lines[i] :
             /\ d.lines[i][j].addr = c.lines[i][j].addr
             /\ d.lines[i][j].lock <=> c.lines[i][j].lock /\ c.lines[i][j].addr \notin B
             /\ d.lines[i][j].dirty = c.lines[i][j].dirty
    BY <2>1, <1>3, <1>4
  <2>3. CacheHas(d, n, b) <=> CacheHas(c, n, b)
    BY <2>2 DEF CacheHas, ToSet, i
  <2>4. ASSUME CacheHas(c, n, b)
        PROVE  /\ CacheLineOf(d, n, b).lock <=> CacheLineOf(c, n, b).lock /\ b \notin B
               /\ CacheLineOf(d, n, b).dirty = CacheLineOf(c, n, b).dirty
    <3>1. CacheLineOf(c, n, b) \in ToSet(c.lines[i]) /\ CacheLineOf(c, n, b).addr = b
      BY <2>4, TheLine DEF i
    <3>2. PICK j \in DOMAIN c.lines[i] : c.lines[i][j] = CacheLineOf(c, n, b)
      BY <3>1 DEF ToSet
    <3>3. d.lines[i][j] \in ToSet(d.lines[i]) /\ d.lines[i][j].addr = b
      BY <3>1, <3>2, <2>2 DEF ToSet
    <3>4. CacheLineOf(d, n, b) = d.lines[i][j]
      BY <3>3, <1>6, OneLine DEF i
    <3>. QED
      BY <3>1, <3>2, <3>4, <2>2
  <2>. QED
    BY <2>3, <2>4
<1>. QED
  BY <1>3, <1>6, <1>7
-----------------------------------------------------------------------------
(* The tree of caches, where no two caches share a lower one               *)

\* Every core has the caches below its own to itself.
Unshared == \A c \in Configs : c.cores = {1} \/ c.last_level = L2 \/ c.first_level = L3

Built == config \in Configs /\ Unshared

\* The caches are an L3 alone, an L1 and an L2 for each core, or one chain of three.
LEMMA Chains ==
  ASSUME Built
  PROVE  \/ config.first_level = L3 /\ config.last_level = L3 /\ Cache = {SharedL3}
         \/ config.first_level = L1 /\ config.last_level = L2 /\ Cache = {<<l, c>> : l \in {L1, L2}, c \in config.cores}
         \/ config.first_level = L1 /\ config.last_level = L3 /\ config.cores = {1} /\ Cache = {<<L1, 1>>, <<L2, 1>>, SharedL3}
<1>1. \/ config.first_level = L3 /\ config.last_level = L3
      \/ config.first_level = L1 /\ config.last_level = L2
      \/ config.first_level = L1 /\ config.last_level = L3 /\ config.cores = {1}
  BY ConfigAssumption DEF Built, Unshared, L1, L2, L3
<1>2. CASE config.first_level = L3 /\ config.last_level = L3
  <2>1. {L1, L2} \cap (L3 .. L3) = {}
    BY DEF L1, L2, L3
  <2>. QED
    BY <1>2, <2>1 DEF Cache
<1>3. CASE config.first_level = L1 /\ config.last_level = L2
  <2>1. {L1, L2} \cap (L1 .. L2) = {L1, L2} /\ L2 # L3
    BY DEF L1, L2, L3
  <2>. QED
    BY <1>3, <2>1 DEF Cache
<1>4. CASE config.first_level = L1 /\ config.last_level = L3 /\ config.cores = {1}
  <2>1. {L1, L2} \cap (L1 .. L3) = {L1, L2}
    BY DEF L1, L2, L3
  <2>. QED
    BY <1>4, <2>1 DEF Cache
<1>. QED
  BY <1>1, <1>2, <1>3, <1>4

\* The next level of a cache.
LEMMA Below ==
  ASSUME Built, NEW k \in Cache, ~is_last_level(k)
  PROVE  lower_cache(k) \in Cache /\ k \in higher_cache(lower_cache(k)) /\ level(lower_cache(k)) = level(k) + 1
BY Chains DEF is_last_level, lower_cache, higher_cache, level, SharedL3, L1, L2, L3

\* A cache has one cache above it at most.
LEMMA Above ==
  ASSUME Built, NEW k \in Cache, NEW u \in higher_cache(k)
  PROVE  /\ u \in Cache /\ ~is_last_level(u) /\ lower_cache(u) = k /\ u # k
         /\ \A h \in higher_cache(k) : h = u
BY Chains DEF is_last_level, lower_cache, higher_cache, level, SharedL3, L1, L2, L3

\* The sizes of a cache and of the one below.
LEMMA Levels ==
  ASSUME Built, NEW k \in Cache
  PROVE  /\ level(k) \in Level /\ sets(k) \in Nat \ {0} /\ mshrs(k) \in Nat
         /\ ~is_last_level(k) => mshrs(k) <= mshrs(lower_cache(k))
         /\ ~is_last_level(k) => \E n \in Nat : sets(lower_cache(k)) = n * sets(k)
<1>1. level(k) \in Level
  BY Chains DEF level, SharedL3, L1, L2, L3, Level
<1>2. sets(k) \in Nat \ {0}
  BY <1>1, SizeAssumption DEF sets
<1>3. Cardinality(config.cores) \in Nat \ {0}
  BY ConfigAssumption, FS_CardinalityType, FS_EmptySet DEF Built
<1>4. mshr_entry_num[level(k)] \in Nat
  BY <1>1, SizeAssumption
<1>5. mshrs(k) \in Nat
  BY <1>3, <1>4 DEF mshrs
<1>6. ASSUME ~is_last_level(k)
      PROVE  /\ mshrs(k) <= mshrs(lower_cache(k))
             /\ \E n \in Nat : sets(lower_cache(k)) = n * sets(k)
  <2>1. level(k) \in {L1, L2} /\ level(k) # L3 /\ level(lower_cache(k)) = level(k) + 1
    BY <1>6, Below, Chains DEF is_last_level, level, SharedL3, L1, L2, L3
  <2>2. /\ mshr_entry_num[level(k)] <= mshr_entry_num[level(k) + 1]
        /\ \E n \in 1 .. block_num[level(k) + 1] : block_num[level(k) + 1] = n * block_num[level(k)]
    BY <2>1, LevelsAssumption
  <2>3. level(k) + 1 \in Level /\ mshr_entry_num[level(k) + 1] \in Nat
    BY <2>1, SizeAssumption DEF L1, L2, L3, Level
  <2>4. mshr_entry_num[level(k) + 1] <= mshr_entry_num[level(k) + 1] * Cardinality(config.cores)
    BY <2>3, <1>3
  <2>5. mshrs(k) <= mshrs(lower_cache(k))
    BY <2>1, <2>2, <2>3, <2>4, <1>3, <1>4 DEF mshrs
  <2>6. block_num[level(k) + 1] \in Nat
    BY <2>3, SizeAssumption
  <2>. QED
    BY <2>1, <2>2, <2>5, <2>6 DEF sets
<1>. QED
  BY <1>1, <1>2, <1>5, <1>6

\* The caches at or above k are k and those at or above the one above it.
LEMMA Tree ==
  ASSUME Built, NEW k \in Cache
  PROVE  /\ AtOrAbove(k) \subseteq Cache /\ k \in AtOrAbove(k)
         /\ \A h \in AtOrAbove(k) : h # k => ~is_last_level(h) /\ \E u \in higher_cache(k) : h \in AtOrAbove(u)
         /\ \A u \in higher_cache(k) : AtOrAbove(u) \subseteq AtOrAbove(k) /\ k \notin AtOrAbove(u)
         /\ \A h \in AtOrAbove(k) : h # k => lower_cache(h) \in AtOrAbove(k)
         /\ \A g \in AtOrAbove(k) : higher_cache(g) \subseteq AtOrAbove(k)
<1>. DEFINE P ==
         /\ AtOrAbove(k) \subseteq Cache /\ k \in AtOrAbove(k)
         /\ \A h \in AtOrAbove(k) : h # k => ~is_last_level(h) /\ \E u \in higher_cache(k) : h \in AtOrAbove(u)
         /\ \A u \in higher_cache(k) : AtOrAbove(u) \subseteq AtOrAbove(k) /\ k \notin AtOrAbove(u)
         /\ \A h \in AtOrAbove(k) : h # k => lower_cache(h) \in AtOrAbove(k)
         /\ \A g \in AtOrAbove(k) : higher_cache(g) \subseteq AtOrAbove(k)
<1>1. CASE config.first_level = L3 /\ config.last_level = L3 /\ Cache = {SharedL3}
  <2>1. AtOrAbove(SharedL3) = {SharedL3} /\ k = SharedL3 /\ higher_cache(SharedL3) = {}
    BY <1>1 DEF AtOrAbove, higher_cache, level, SharedL3, L1, L2, L3
  <2>2. P
    BY <1>1, <2>1
  <2>. QED
    BY <2>2
<1>2. CASE /\ config.first_level = L1 /\ config.last_level = L2
           /\ Cache = {<<l, c>> : l \in {L1, L2}, c \in config.cores}
  <2>1. PICK c \in config.cores : k \in {<<L1, c>>, <<L2, c>>}
    BY <1>2
  <2>2. /\ AtOrAbove(<<L1, c>>) = {<<L1, c>>} /\ AtOrAbove(<<L2, c>>) = {<<L1, c>>, <<L2, c>>}
        /\ higher_cache(<<L1, c>>) = {} /\ higher_cache(<<L2, c>>) = {<<L1, c>>}
        /\ <<L1, c>> \in Cache /\ <<L2, c>> \in Cache /\ <<L1, c>> # <<L2, c>>
        /\ ~is_last_level(<<L1, c>>) /\ lower_cache(<<L1, c>>) = <<L2, c>>
    BY <1>2 DEF AtOrAbove, higher_cache, lower_cache, is_last_level, level, SharedL3, L1, L2, L3
  <2>3. P
    BY <2>1, <2>2
  <2>. QED
    BY <2>3
<1>3. CASE /\ config.first_level = L1 /\ config.last_level = L3
           /\ Cache = {<<L1, 1>>, <<L2, 1>>, SharedL3}
  <2>. DEFINE k1 == <<L1, 1>>
              k2 == <<L2, 1>>
  <2>1. k \in {k1, k2, SharedL3} /\ k1 # k2 /\ k1 # SharedL3 /\ k2 # SharedL3 /\ Cache = {k1, k2, SharedL3}
    BY <1>3 DEF SharedL3, L1, L2, L3
  <2>2. AtOrAbove(k1) = {k1} /\ AtOrAbove(k2) = {k1, k2} /\ AtOrAbove(SharedL3) = {k1, k2, SharedL3}
    BY <1>3 DEF AtOrAbove, level, SharedL3, L1, L2, L3
  <2>3. higher_cache(k1) = {} /\ higher_cache(k2) = {k1} /\ higher_cache(SharedL3) = {k2}
    BY <1>3 DEF higher_cache, lower_cache, level, SharedL3, L1, L2, L3
  <2>4. ~is_last_level(k1) /\ ~is_last_level(k2) /\ lower_cache(k1) = k2 /\ lower_cache(k2) = SharedL3
    BY <1>3 DEF is_last_level, lower_cache, level, SharedL3, L1, L2, L3
  <2>. HIDE DEF k1, k2
  <2>5. P
    BY <2>1, <2>2, <2>3, <2>4
  <2>. QED
    BY <2>5
<1>. QED
  BY <1>1, <1>2, <1>3, Chains
-----------------------------------------------------------------------------
(* The state of the system                                                 *)

\* What a state says about a block is what the cache says.
LEMMA Views ==
  ASSUME NEW s, NEW k, NEW a
  PROVE  /\ Has(s, k, a) <=> CacheHas(s.caches[k], sets(k), a)
         /\ LineOf(s, k, a) = CacheLineOf(s.caches[k], sets(k), a)
         /\ lines(s, k, a) = s.caches[k].lines[a % sets(k)]
         /\ index(k, a) = a % sets(k)
BY DEF Has, LineOf, lines, index, CacheHas, CacheLineOf, sets

\* WithLines replaces one set of one cache.
LEMMA RelinedCache ==
  ASSUME NEW n \in Nat \ {0}, NEW c, CacheSound(c, n), NEW i, NEW q
  PROVE  /\ Relined(c, [c EXCEPT !.lines[i] = q], i, q)
         /\ [c EXCEPT !.lines[i] = q].mshr_entries = c.mshr_entries
<1>1. c \in LinesCache(n)
  BY DEF CacheSound
<1>. DEFINE d == [c EXCEPT !.lines[i] = q]
<1>2. d.lines = [c.lines EXCEPT ![i] = q] /\ d.mshr_entries = c.mshr_entries /\ d.retry_list = c.retry_list
  BY <1>1 DEF LinesCache
<1>3. d = [lines |-> d.lines, mshr_entries |-> d.mshr_entries, retry_list |-> d.retry_list]
  BY <1>1 DEF LinesCache
<1>. QED
  BY <1>2, <1>3 DEF Relined

\* Only the set of block a in cache k is replaced.
LEMMA WithLinesFacts ==
  ASSUME Built, NEW s, StateSound(s), NEW k \in Cache, NEW a \in Block, NEW q
  PROVE  LET t == WithLines(s, k, a, q)
         IN  /\ DOMAIN t = DOMAIN s /\ DOMAIN t.caches = Cache
             /\ \A h \in Cache \ {k} : t.caches[h] = s.caches[h]
             /\ Relined(s.caches[k], t.caches[k], a % sets(k), q)
             /\ t.caches[k].mshr_entries = s.caches[k].mshr_entries
             /\ t.hits = s.hits /\ t.waits = s.waits /\ t.unsaved = s.unsaved /\ t.aborted = s.aborted
<1>. DEFINE t == WithLines(s, k, a, q)
            d == [s.caches[k] EXCEPT !.lines[a % sets(k)] = q]
<1>1. DOMAIN s = {"caches", "hits", "waits", "unsaved", "aborted"} /\ DOMAIN s.caches = Cache
  BY DEF StateSound
<1>2. t = [s EXCEPT !.caches = [s.caches EXCEPT ![k] = d]]
  BY Views DEF WithLines
<1>. HIDE DEF t
<1>3. /\ DOMAIN t = DOMAIN s /\ DOMAIN t.caches = Cache
      /\ \A h \in Cache \ {k} : t.caches[h] = s.caches[h]
      /\ t.caches[k] = d
      /\ t.hits = s.hits /\ t.waits = s.waits /\ t.unsaved = s.unsaved /\ t.aborted = s.aborted
  BY <1>1, <1>2
<1>4. CacheSound(s.caches[k], sets(k)) /\ sets(k) \in Nat \ {0}
  BY Levels DEF StateSound
<1>5. Relined(s.caches[k], d, a % sets(k), q) /\ d.mshr_entries = s.caches[k].mshr_entries
  BY <1>4, RelinedCache
<1>. HIDE DEF d
<1>6. /\ Relined(s.caches[k], t.caches[k], a % sets(k), q)
      /\ t.caches[k].mshr_entries = s.caches[k].mshr_entries
  BY <1>3, <1>5
<1>. QED
  BY <1>3, <1>6 DEF t

\* A block that a cache has is on the levels below.
LEMMA Included ==
  ASSUME Built, NEW s, NEW E, Inclusive(s, E), NEW b \in Block, \A h \in Cache : <<h, b>> \notin E,
         NEW g \in Cache, NEW h \in AtOrAbove(g), Has(s, h, b)
  PROVE  Has(s, g, b)
<1>1. ASSUME NEW x \in AtOrAbove(g), x # g, Has(s, x, b)
      PROVE  lower_cache(x) \in AtOrAbove(g) /\ Has(s, lower_cache(x), b) /\ level(lower_cache(x)) = level(x) + 1
  <2>1. x \in Cache /\ ~is_last_level(x) /\ lower_cache(x) \in AtOrAbove(g)
    BY <1>1, Tree
  <2>2. Has(s, lower_cache(x), b)
    BY <1>1, <2>1 DEF Inclusive
  <2>. QED
    BY <2>1, <2>2, Below
<1>2. \A x \in AtOrAbove(g) : level(x) \in {1, 2, 3}
  BY Tree, Levels DEF Level, L1, L2, L3
<1>3. SUFFICES ASSUME ~Has(s, g, b)
               PROVE  FALSE
  OBVIOUS
<1>. DEFINE h1 == lower_cache(h)
            h2 == lower_cache(h1)
            h3 == lower_cache(h2)
<1>4. h1 \in AtOrAbove(g) /\ Has(s, h1, b) /\ level(h1) = level(h) + 1
  BY <1>1, <1>3
<1>. HIDE DEF h1
<1>5. h2 \in AtOrAbove(g) /\ Has(s, h2, b) /\ level(h2) = level(h1) + 1
  BY <1>1, <1>3, <1>4
<1>. HIDE DEF h2
<1>6. h3 \in AtOrAbove(g) /\ Has(s, h3, b) /\ level(h3) = level(h2) + 1
  BY <1>1, <1>3, <1>5
<1>. HIDE DEF h3
<1>. QED
  BY <1>2, <1>4, <1>5, <1>6

\* The walk of invalidate and check_unlock finds every copy of the block: it stops
\* at a cache without one, and by inclusion no cache above that one has a copy.
LEMMA HoldersFacts ==
  ASSUME Built, NEW s, NEW E, Inclusive(s, E), NEW b \in Block, \A h \in Cache : <<h, b>> \notin E,
         NEW k \in Cache
  PROVE  Holders(s, k, b) = {h \in AtOrAbove(k) : Has(s, h, b)}
<1>1. ASSUME NEW h \in AtOrAbove(k)
      PROVE  (\A g \in AtOrAbove(k) : h \in AtOrAbove(g) => Has(s, g, b)) <=> Has(s, h, b)
  <2>1. h \in Cache /\ h \in AtOrAbove(h) /\ AtOrAbove(k) \subseteq Cache
    BY Tree
  <2>2. ASSUME Has(s, h, b), NEW g \in AtOrAbove(k), h \in AtOrAbove(g)
        PROVE  Has(s, g, b)
    BY <2>1, <2>2, Included
  <2>. QED
    BY <2>1, <2>2
<1>. QED
  BY <1>1 DEF Holders

\* What an eviction takes from the levels above.
LEMMA GoneFacts ==
  ASSUME Built, NEW s, NEW E, Inclusive(s, E), NEW b \in Block, \A h \in Cache : <<h, b>> \notin E,
         NEW k \in Cache
  PROVE  UNION {Holders(s, h, b) : h \in higher_cache(k)} = {h \in AtOrAbove(k) \ {k} : Has(s, h, b)}
<1>1. ASSUME NEW u \in higher_cache(k), NEW h \in Holders(s, u, b)
      PROVE  h \in AtOrAbove(k) \ {k} /\ Has(s, h, b)
  <2>1. u \in Cache /\ AtOrAbove(u) \subseteq AtOrAbove(k) /\ k \notin AtOrAbove(u)
    BY Above, Tree
  <2>2. h \in AtOrAbove(u) /\ Has(s, h, b)
    BY <2>1, HoldersFacts
  <2>. QED
    BY <2>1, <2>2
<1>2. ASSUME NEW h \in AtOrAbove(k) \ {k}, Has(s, h, b)
      PROVE  \E u \in higher_cache(k) : h \in Holders(s, u, b)
  <2>1. PICK u \in higher_cache(k) : h \in AtOrAbove(u)
    BY Tree
  <2>2. u \in Cache
    BY Above
  <2>. QED
    BY <1>2, <2>1, <2>2, HoldersFacts
<1>. QED
  BY <1>1, <1>2

\* A sequence over a set that has its elements.
LEMMA SeqElements ==
  ASSUME NEW X, NEW w \in Seq(X), NEW Y, \A i \in DOMAIN w : w[i] \in Y
  PROVE  w \in Seq(Y)
<1>1. Len(w) \in Nat /\ w = [i \in 1 .. Len(w) |-> w[i]] /\ \A i \in 1 .. Len(w) : w[i] \in Y
  OBVIOUS
<1>. QED
  BY <1>1

\* A request at the end of the wait list.
LEMMA RequestAdded ==
  ASSUME NEW w, Requests(w), NEW e, DOMAIN e = {"left", "addr", "type"}
  PROVE  /\ Requests(Append(w, e))
         /\ \A a : ReadWaits(w, a) => ReadWaits(Append(w, e), a)
         /\ e.type = "READ" => ReadWaits(Append(w, e), e.addr)
<1>. DEFINE S == ToSet(w) \cup {e}
            r == Append(w, e)
<1>1. w \in Seq(S) /\ e \in S
  BY DEF Requests
<1>2. /\ r \in Seq(S) /\ DOMAIN r = DOMAIN w \cup {Len(w) + 1} /\ Len(w) + 1 \notin DOMAIN w
      /\ \A i \in DOMAIN w : r[i] = w[i]
      /\ r[Len(w) + 1] = e
  BY <1>1, Appended
<1>. HIDE DEF r, S
<1>3. r \in Seq(ToSet(r))
  <2>1. \A i \in DOMAIN r : r[i] \in ToSet(r)
    BY DEF ToSet
  <2>2. r \in Seq(S)
    BY <1>2
  <2>. QED
    BY <2>1, <2>2, SeqElements
<1>4. \A i \in DOMAIN r : DOMAIN r[i] = {"left", "addr", "type"}
  BY <1>2 DEF Requests
<1>. QED
  BY <1>2, <1>3, <1>4 DEF Requests, ReadWaits, r
-----------------------------------------------------------------------------
(* Evictions                                                               *)

\* What evict(s, k, v) makes of s, for a line v of block b: b leaves cache k
\* and those above, and its dirty bit goes to the next level or the memory.
Evicted(s, t, k, b) ==
  /\ StateSound(t) /\ t.hits = s.hits /\ t.unsaved \subseteq s.unsaved
  /\ \A a : ReadWaits(s.waits, a) => ReadWaits(t.waits, a)
  /\ \A h \in Cache :
       /\ Held(t, h) = Held(s, h)
       /\ \A a \in Block \ {b} : SameLines(s.caches[h], t.caches[h], sets(h), a)
       /\ h \in AtOrAbove(k) => ~Has(t, h, b)
       /\ h \notin AtOrAbove(k) =>
            /\ Has(t, h, b) <=> Has(s, h, b)
            /\ Has(s, h, b) => /\ LineOf(t, h, b).lock = LineOf(s, h, b).lock
                               /\ LineOf(s, h, b).dirty => LineOf(t, h, b).dirty
  /\ \A h \in AtOrAbove(k) :
       Has(s, h, b) /\ LineOf(s, h, b).dirty =>
         IF is_last_level(k) THEN b \notin t.unsaved ELSE LineOf(t, lower_cache(k), b).dirty
  /\ Len(lines(t, k, b)) = Len(lines(s, k, b)) - 1

\* The first half of evict: the block leaves the caches H.
LEMMA LeftFacts ==
  ASSUME Built, NEW s, StateSound(s), NEW b \in Block, NEW H, \A h \in H : h \in Cache /\ Has(s, h, b),
         NEW t, DOMAIN t = DOMAIN s, t.hits = s.hits, t.waits = s.waits, t.unsaved = s.unsaved, t.aborted = FALSE,
         t.caches = [h \in Cache |->
           IF h \in H THEN [s.caches[h] EXCEPT !.lines[index(h, b)] = Erased(lines(s, h, b), b)] ELSE s.caches[h]]
  PROVE  /\ StateSound(t)
         /\ \A h \in Cache : /\ Held(t, h) = Held(s, h)
                             /\ \A a \in Block \ {b} : SameLines(s.caches[h], t.caches[h], sets(h), a)
                             /\ h \in H => ~Has(t, h, b) /\ Len(lines(t, h, b)) = Len(lines(s, h, b)) - 1
                             /\ h \notin H => t.caches[h] = s.caches[h]
<1>1. ASSUME NEW h \in H
      PROVE  /\ CacheSound(t.caches[h], sets(h)) /\ Held(t, h) = Held(s, h)
             /\ \A a \in Block \ {b} : SameLines(s.caches[h], t.caches[h], sets(h), a)
             /\ ~Has(t, h, b) /\ Len(lines(t, h, b)) = Len(lines(s, h, b)) - 1
  <2>. DEFINE q == Erased(s.caches[h].lines[b % sets(h)], b)
              d == [s.caches[h] EXCEPT !.lines[b % sets(h)] = q]
  <2>1. h \in Cache /\ CacheHas(s.caches[h], sets(h), b)
    BY Views
  <2>2. CacheSound(s.caches[h], sets(h)) /\ sets(h) \in Nat \ {0}
    BY <2>1, Levels DEF StateSound
  <2>3. t.caches[h] = d
    BY <2>1, Views
  <2>4. Relined(s.caches[h], d, b % sets(h), q) /\ d.mshr_entries = s.caches[h].mshr_entries
    BY <2>2, RelinedCache
  <2>. HIDE DEF d
  <2>5. /\ CacheSound(d, sets(h)) /\ ~CacheHas(d, sets(h), b)
        /\ Len(d.lines[b % sets(h)]) = Len(s.caches[h].lines[b % sets(h)]) - 1
        /\ \A a \in Block \ {b} : SameLines(s.caches[h], d, sets(h), a)
    BY <2>1, <2>2, <2>4, ErasedCache
  <2>. QED
    BY <2>3, <2>4, <2>5, Views DEF Held
<1>2. ASSUME NEW h \in Cache, h \notin H
      PROVE  t.caches[h] = s.caches[h]
  BY <1>2
<1>3. \A h \in Cache : CacheSound(t.caches[h], sets(h))
  BY <1>1, <1>2 DEF StateSound
<1>4. StateSound(t)
  BY <1>3 DEF StateSound
<1>. QED
  BY <1>1, <1>2, <1>4 DEF Held, SameLines

\* The second half, above the last level: the next level takes over the line.
TakenOver(s, r, k, b, dirty) ==
  /\ StateSound(r) /\ r.hits = s.hits /\ r.waits = s.waits /\ r.unsaved = s.unsaved
  /\ \A h \in Cache \ {k} : r.caches[h] = s.caches[h]
  /\ Held(r, k) = Held(s, k)
  /\ \A a \in Block \ {b} : SameLines(s.caches[k], r.caches[k], sets(k), a)
  /\ Has(r, k, b) /\ LineOf(r, k, b).lock = FALSE
  /\ LineOf(r, k, b).dirty = (dirty \/ LineOf(s, k, b).dirty)

\* evictline moves the line to the end of its set, where it takes over the dirty bit.
LEMMA EvictlineFacts ==
  ASSUME Built, NEW s, StateSound(s), NEW k \in Cache, NEW b \in Block, Has(s, k, b), NEW dirty \in BOOLEAN,
         NEW r, r = evictline(s, k, b, dirty)
  PROVE  TakenOver(s, r, k, b, dirty)
<1>. DEFINE l == [addr |-> b, lock |-> FALSE, dirty |-> dirty \/ LineOf(s, k, b).dirty]
            c == s.caches[k]
            q == Append(Erased(c.lines[b % sets(k)], b), l)
            t == WithLines(s, k, b, q)
<1>1. CacheHas(c, sets(k), b) /\ CacheSound(c, sets(k)) /\ sets(k) \in Nat \ {0}
  BY Views, Levels DEF StateSound
<1>2. LineOf(s, k, b) \in CacheLine
  BY <1>1, Views, TheLine
<1>3. l \in CacheLine /\ l.addr = b /\ l.lock = FALSE /\ l.dirty = (dirty \/ LineOf(s, k, b).dirty)
  BY <1>2 DEF CacheLine
<1>4. t = r
  BY Views DEF evictline, Refreshed
<1>. HIDE DEF l
<1>5. Relined(c, t.caches[k], b % sets(k), q)
  BY WithLinesFacts
<1>6. /\ DOMAIN t = DOMAIN s /\ DOMAIN t.caches = Cache
      /\ \A h \in Cache \ {k} : t.caches[h] = s.caches[h]
      /\ t.caches[k].mshr_entries = c.mshr_entries
      /\ t.hits = s.hits /\ t.waits = s.waits /\ t.unsaved = s.unsaved /\ t.aborted = s.aborted
  BY WithLinesFacts
<1>. HIDE DEF t
<1>7. PICK d : d = t.caches[k]
  OBVIOUS
<1>8. Relined(c, d, b % sets(k), Append(Erased(c.lines[b % sets(k)], b), l)) /\ d.mshr_entries = c.mshr_entries
  BY <1>5, <1>6, <1>7
<1>. HIDE DEF c, q
<1>9. /\ CacheSound(d, sets(k)) /\ CacheHas(d, sets(k), b) /\ CacheLineOf(d, sets(k), b) = l
      /\ \A a \in Block \ {b} : SameLines(c, d, sets(k), a)
  BY <1>1, <1>3, <1>8, RefreshedCache
<1>10. \A h \in Cache : CacheSound(t.caches[h], sets(h))
  BY <1>6, <1>7, <1>9 DEF StateSound
<1>11. StateSound(t)
  BY <1>6, <1>10 DEF StateSound
<1>12. Has(t, k, b) /\ LineOf(t, k, b) = l
  BY <1>7, <1>9, Views
<1>. QED
  BY <1>3, <1>4, <1>6, <1>7, <1>9, <1>11, <1>12 DEF Held, c, TakenOver

\* The line of block b, which nobody locks, leaves cache k.
LEMMA EvictFacts ==
  ASSUME Built, NEW s, StateSound(s), LockedHaveMshrs(s), LockedAbove(s), NEW E, Inclusive(s, E),
         NEW k \in Cache, NEW b \in Block, \A h \in Cache : <<h, b>> \notin E, Has(s, k, b),
         \A h \in Holders(s, k, b) : Unlocked(s, h, b)
  PROVE  Evicted(s, evict(s, k, LineOf(s, k, b)), k, b)
<1>. DEFINE v == LineOf(s, k, b)
            gone == UNION {Holders(s, h, v.addr) : h \in higher_cache(k)}
            dirty == v.dirty \/ DirtyIn(s, gone, v.addr)
            time == Max({0} \cup {InvalidateTime(s, h, v.addr) +
                              (IF DirtyIn(s, Holders(s, h, v.addr), v.addr) THEN latency_each[level(k)] ELSE 0)
                                : h \in higher_cache(k)})
            left == [s EXCEPT !.caches = [h \in Cache |->
                       IF h = k \/ h \in gone
                         THEN [s.caches[h] EXCEPT !.lines[index(h, v.addr)] = Erased(lines(s, h, v.addr), v.addr)]
                         ELSE s.caches[h]],
                     !.aborted = s.aborted \/ \E h \in gone : LineOf(s, h, v.addr).lock]
            write == [left |-> time + latency[level(k)], addr |-> v.addr, type |-> "WRITE"]
            t == evict(s, k, v)
<1>1. t = IF ~is_last_level(k) THEN evictline(left, lower_cache(k), v.addr, dirty)
          ELSE IF dirty THEN [left EXCEPT !.waits = Append(s.waits, write), !.unsaved = s.unsaved \ {v.addr}]
          ELSE left
  BY DEF evict
<1>2. v \in CacheLine /\ v.addr = b
  BY Views, TheLine, Levels DEF StateSound
<1>. HIDE DEF t, v, time
<1>. DEFINE H == {h \in AtOrAbove(k) : Has(s, h, b)}
<1>3. k \in H /\ gone = H \ {k} /\ Holders(s, k, b) = H
  BY <1>2, Tree, GoneFacts, HoldersFacts
<1>4. \A h \in H : h \in Cache /\ Has(s, h, b) /\ ~LineOf(s, h, b).lock /\ LineOf(s, h, b) \in CacheLine
  <2>1. \A h \in H : h \in Cache /\ Has(s, h, b) /\ ~LineOf(s, h, b).lock
    BY <1>3, Tree DEF Unlocked
  <2>. QED
    BY <2>1, Views, TheLine, Levels DEF StateSound
<1>5. dirty \in BOOLEAN /\ (dirty <=> \E h \in H : LineOf(s, h, b).dirty)
  <2>1. dirty <=> \E h \in H : LineOf(s, h, b).dirty
    BY <1>2, <1>3 DEF v, DirtyIn
  <2>2. v.dirty \in BOOLEAN
    BY <1>2 DEF CacheLine
  <2>3. DirtyIn(s, gone, v.addr) \in BOOLEAN
    BY DEF DirtyIn
  <2>. QED
    BY <2>1, <2>2, <2>3
<1>6. /\ DOMAIN left = DOMAIN s /\ left.hits = s.hits /\ left.waits = s.waits /\ left.unsaved = s.unsaved
      /\ left.aborted = FALSE
      /\ left.caches = [h \in Cache |->
           IF h \in H THEN [s.caches[h] EXCEPT !.lines[index(h, b)] = Erased(lines(s, h, b), b)] ELSE s.caches[h]]
  <2>1. DOMAIN s = {"caches", "hits", "waits", "unsaved", "aborted"} /\ s.aborted = FALSE
    BY DEF StateSound
  <2>2. ~ \E h \in gone : LineOf(s, h, v.addr).lock
    BY <1>2, <1>3, <1>4
  <2>. HIDE DEF gone
  <2>3. \A h : h = k \/ h \in gone <=> h \in H
    BY <1>3
  <2>. HIDE DEF H
  <2>. QED
    BY <2>1, <2>2, <2>3, <1>2
<1>. HIDE DEF left, gone, dirty
<1>7. /\ StateSound(left)
      /\ \A h \in Cache : /\ Held(left, h) = Held(s, h)
                          /\ \A a \in Block \ {b} : SameLines(s.caches[h], left.caches[h], sets(h), a)
                          /\ h \in H => ~Has(left, h, b) /\ Len(lines(left, h, b)) = Len(lines(s, h, b)) - 1
                          /\ h \notin H => left.caches[h] = s.caches[h]
  BY <1>4, <1>6, LeftFacts
<1>8. \A h \in Cache : /\ h \in AtOrAbove(k) => ~Has(left, h, b)
                       /\ h \notin AtOrAbove(k) => left.caches[h] = s.caches[h]
  <2>1. ASSUME NEW h \in AtOrAbove(k), h \in Cache, h \notin H
        PROVE  ~Has(left, h, b)
    BY <2>1, <1>7, Views
  <2>. QED
    BY <2>1, <1>7
<1>9. k \in AtOrAbove(k) /\ AtOrAbove(k) \subseteq Cache
  BY Tree
<1>10. CASE is_last_level(k)
  <2>1. /\ StateSound(t) /\ t.hits = s.hits /\ t.unsaved \subseteq s.unsaved /\ t.caches = left.caches
        /\ \A a : ReadWaits(s.waits, a) => ReadWaits(t.waits, a)
        /\ dirty => b \notin t.unsaved
    <3>1. CASE ~dirty
      <4>1. t = left
        BY <1>1, <1>10, <3>1
      <4>. QED
        BY <3>1, <4>1, <1>6, <1>7
    <3>2. CASE dirty
      <4>1. t = [left EXCEPT !.waits = Append(s.waits, write), !.unsaved = s.unsaved \ {b}]
        BY <1>1, <1>2, <1>10, <3>2
      <4>2. DOMAIN write = {"left", "addr", "type"}
        OBVIOUS
      <4>. HIDE DEF write
      <4>3. Requests(s.waits)
        BY DEF StateSound
      <4>4. Requests(Append(s.waits, write)) /\ \A a : ReadWaits(s.waits, a) => ReadWaits(Append(s.waits, write), a)
        BY <4>2, <4>3, RequestAdded
      <4>5. DOMAIN left = {"caches", "hits", "waits", "unsaved", "aborted"}
        BY <1>7 DEF StateSound
      <4>6. /\ DOMAIN t = DOMAIN left /\ t.caches = left.caches /\ t.hits = left.hits /\ t.aborted = left.aborted
            /\ t.waits = Append(s.waits, write) /\ t.unsaved = s.unsaved \ {b}
        BY <4>1, <4>5
      <4>7. StateSound(t)
        BY <4>4, <4>6, <1>6, <1>7 DEF StateSound
      <4>. QED
        BY <4>4, <4>6, <4>7, <1>6
    <3>. QED
      BY <3>1, <3>2
  <2>2. \A h \in Cache : /\ Held(t, h) = Held(left, h)
                         /\ Has(t, h, b) <=> Has(left, h, b)
                         /\ LineOf(t, h, b) = LineOf(left, h, b)
                         /\ lines(t, h, b) = lines(left, h, b)
    BY <2>1 DEF Held, Has, LineOf, lines
  <2>3. \A h \in Cache : h \notin AtOrAbove(k) => /\ Has(left, h, b) <=> Has(s, h, b)
                                                  /\ LineOf(left, h, b) = LineOf(s, h, b)
    BY <1>8, Views
  <2>4. \A h \in AtOrAbove(k) : Has(s, h, b) /\ LineOf(s, h, b).dirty => b \notin t.unsaved
    BY <2>1, <1>5
  <2>5. ASSUME NEW h \in Cache
        PROVE  /\ Held(t, h) = Held(s, h)
               /\ \A a \in Block \ {b} : SameLines(s.caches[h], t.caches[h], sets(h), a)
               /\ h \in AtOrAbove(k) => ~Has(t, h, b)
               /\ h \notin AtOrAbove(k) =>
                    /\ Has(t, h, b) <=> Has(s, h, b)
                    /\ Has(s, h, b) => /\ LineOf(t, h, b).lock = LineOf(s, h, b).lock
                                       /\ LineOf(s, h, b).dirty => LineOf(t, h, b).dirty
    BY <1>7, <1>8, <2>1, <2>2, <2>3
  <2>6. Len(lines(t, k, b)) = Len(lines(s, k, b)) - 1
    BY <1>3, <1>7, <2>2
  <2>7. \A h \in AtOrAbove(k) :
          Has(s, h, b) /\ LineOf(s, h, b).dirty =>
            IF is_last_level(k) THEN b \notin t.unsaved ELSE LineOf(t, lower_cache(k), b).dirty
    BY <2>4, <1>10
  <2>. HIDE DEF H
  <2>. QED
    BY <2>1, <2>5, <2>6, <2>7 DEF Evicted, t, v
<1>11. CASE ~is_last_level(k)
  <2>. DEFINE j == lower_cache(k)
  <2>1. j \in Cache /\ k \in higher_cache(j)
    BY <1>11, Below
  <2>2. j \notin AtOrAbove(k)
    BY <2>1, Tree
  <2>3. t = evictline(left, j, b, dirty)
    BY <1>1, <1>2, <1>11
  <2>. HIDE DEF j
  <2>4. Has(s, j, b) /\ ~LineOf(s, j, b).lock
    <3>1. Has(s, j, b)
      BY <1>3, <1>4, <1>11 DEF Inclusive, j
    <3>2. b \notin Held(s, k)
      BY <1>3, <1>4 DEF LockedHaveMshrs
    <3>3. b \notin Held(s, j)
      BY <3>2, <1>11 DEF LockedAbove, j
    <3>. QED
      BY <3>1, <3>3, <2>1 DEF LockedHaveMshrs
  <2>5. left.caches[j] = s.caches[j] /\ Has(left, j, b) /\ LineOf(left, j, b) = LineOf(s, j, b)
    BY <1>8, <2>1, <2>2, <2>4, Views
  <2>6. /\ StateSound(t) /\ t.hits = left.hits /\ t.waits = left.waits /\ t.unsaved = left.unsaved
        /\ \A h \in Cache \ {j} : t.caches[h] = left.caches[h]
        /\ Held(t, j) = Held(left, j)
        /\ \A a \in Block \ {b} : SameLines(left.caches[j], t.caches[j], sets(j), a)
        /\ Has(t, j, b) /\ LineOf(t, j, b).lock = FALSE
        /\ LineOf(t, j, b).dirty = (dirty \/ LineOf(left, j, b).dirty)
    <3>1. PICK x, g, d : x = left /\ g = j /\ d = dirty
      OBVIOUS
    <3>2. PICK r : r = evictline(x, g, b, d)
      OBVIOUS
    <3>3. StateSound(x) /\ g \in Cache /\ Has(x, g, b) /\ d \in BOOLEAN
      BY <3>1, <2>1, <2>5, <1>5, <1>7
    <3>4. TakenOver(x, r, g, b, d)
      BY <3>2, <3>3, EvictlineFacts
    <3>. QED
      BY <3>1, <3>2, <3>4, <2>3 DEF TakenOver
  <2>7. LineOf(s, j, b) \in CacheLine
    BY <2>1, <2>4, Views, TheLine, Levels DEF StateSound
  <2>8. LineOf(s, j, b).lock = FALSE
    BY <2>4, <2>7 DEF CacheLine
  <2>9. ASSUME NEW h \in Cache, h # j
        PROVE  /\ Held(t, h) = Held(left, h)
               /\ Has(t, h, b) <=> Has(left, h, b)
               /\ LineOf(t, h, b) = LineOf(left, h, b)
               /\ lines(t, h, b) = lines(left, h, b)
               /\ \A a \in Block \ {b} : SameLines(s.caches[h], t.caches[h], sets(h), a)
    BY <2>6, <2>9, <1>7 DEF Held, Has, LineOf, lines
  <2>10. ASSUME NEW h \in Cache, h # j, h \notin AtOrAbove(k)
         PROVE  /\ Has(left, h, b) <=> Has(s, h, b)
                /\ LineOf(left, h, b) = LineOf(s, h, b)
    BY <2>10, <1>8, Views
  <2>11. \A a \in Block \ {b} : SameLines(s.caches[j], t.caches[j], sets(j), a)
    BY <2>5, <2>6
  <2>12. \A h \in AtOrAbove(k) :
           Has(s, h, b) /\ LineOf(s, h, b).dirty =>
             IF is_last_level(k) THEN b \notin t.unsaved ELSE LineOf(t, lower_cache(k), b).dirty
    BY <2>6, <1>5, <1>11 DEF j
  <2>13. ASSUME NEW h \in Cache
         PROVE  /\ Held(t, h) = Held(s, h)
                /\ \A a \in Block \ {b} : SameLines(s.caches[h], t.caches[h], sets(h), a)
                /\ h \in AtOrAbove(k) => ~Has(t, h, b)
                /\ h \notin AtOrAbove(k) =>
                     /\ Has(t, h, b) <=> Has(s, h, b)
                     /\ Has(s, h, b) => /\ LineOf(t, h, b).lock = LineOf(s, h, b).lock
                                        /\ LineOf(s, h, b).dirty => LineOf(t, h, b).dirty
    <3>1. CASE h = j
      BY <3>1, <2>1, <2>2, <2>4, <2>5, <2>6, <2>8, <2>11, <1>7
    <3>2. CASE h # j
      BY <3>2, <2>9, <2>10, <1>7, <1>8
    <3>. QED
      BY <3>1, <3>2
  <2>14. Len(lines(t, k, b)) = Len(lines(s, k, b)) - 1
    BY <1>3, <1>7, <1>9, <2>2, <2>9
  <2>15. t.hits = s.hits /\ t.waits = s.waits /\ t.unsaved = s.unsaved
    BY <2>6, <1>6
  <2>16. StateSound(t)
    BY <2>6
  <2>. HIDE DEF H
  <2>. QED
    BY <2>12, <2>13, <2>14, <2>15, <2>16 DEF Evicted, t, v
<1>. QED
  BY <1>10, <1>11 DEF t, v

\* Nothing about other blocks changes, and b leaves no trace.
LEMMA EvictedGood ==
  ASSUME Built, NEW s, NEW E, Good(s, E), NEW k \in Cache, NEW b \in Block,
         \A h \in Cache : <<h, b>> \notin E, Has(s, k, b),
         \A h \in AtOrAbove(k) : b \notin Held(s, h),
         NEW t, Evicted(s, t, k, b)
  PROVE  Good(t, E)
<1>1. /\ StateSound(s) /\ LockedHaveMshrs(s) /\ MshrsFit(s) /\ LockedAbove(s)
      /\ Inclusive(s, E) /\ Fetching(s, E) /\ UnsavedDirty(s)
  BY DEF Good
<1>2. /\ StateSound(t) /\ t.hits = s.hits /\ t.unsaved \subseteq s.unsaved
      /\ \A a : ReadWaits(s.waits, a) => ReadWaits(t.waits, a)
      /\ \A h \in Cache : Held(t, h) = Held(s, h)
  BY DEF Evicted
<1>3. ASSUME NEW h \in Cache, NEW a \in Block, a # b
      PROVE  /\ Has(t, h, a) <=> Has(s, h, a)
             /\ Has(s, h, a) => LineOf(t, h, a) = LineOf(s, h, a)
  <2>1. SameLines(s.caches[h], t.caches[h], sets(h), a)
    BY <1>3 DEF Evicted
  <2>. QED
    BY <2>1, Views DEF SameLines
<1>4. \A h \in Cache : /\ h \in AtOrAbove(k) => ~Has(t, h, b)
                       /\ h \notin AtOrAbove(k) =>
                            /\ Has(t, h, b) <=> Has(s, h, b)
                            /\ Has(s, h, b) => /\ LineOf(t, h, b).lock = LineOf(s, h, b).lock
                                               /\ LineOf(s, h, b).dirty => LineOf(t, h, b).dirty
  BY DEF Evicted
<1>5. LockedHaveMshrs(t)
  <2>1. ASSUME NEW h \in Cache, NEW a \in Block
        PROVE  a \in Held(t, h) <=> Has(t, h, a) /\ LineOf(t, h, a).lock
    <3>1. a \in Held(s, h) <=> Has(s, h, a) /\ LineOf(s, h, a).lock
      BY <1>1 DEF LockedHaveMshrs
    <3>2. CASE a # b
      BY <3>1, <3>2, <1>2, <1>3
    <3>3. CASE a = b
      BY <3>1, <3>3, <1>2, <1>4
    <3>. QED
      BY <3>2, <3>3
  <2>. QED
    BY <2>1 DEF LockedHaveMshrs
<1>6. MshrsFit(t)
  BY <1>1, <1>2 DEF MshrsFit
<1>7. LockedAbove(t)
  BY <1>1, <1>2, Below DEF LockedAbove
<1>8. Inclusive(t, E)
  <2>1. ASSUME NEW h \in Cache, NEW a \in Block, ~is_last_level(h), Has(t, h, a)
        PROVE  Has(t, lower_cache(h), a) \/ <<h, a>> \in E
    <3>. DEFINE j == lower_cache(h)
    <3>1. j \in Cache /\ h \in higher_cache(j)
      BY <2>1, Below
    <3>2. Has(s, h, a) => Has(s, j, a) \/ <<h, a>> \in E
      BY <1>1, <2>1 DEF Inclusive
    <3>. HIDE DEF j
    <3>3. CASE a # b
      BY <2>1, <3>1, <3>2, <3>3, <1>3 DEF j
    <3>4. CASE a = b
      <4>1. h \notin AtOrAbove(k)
        BY <2>1, <3>4, <1>4
      <4>2. j \notin AtOrAbove(k)
        BY <4>1, <3>1, Tree
      <4>. QED
        BY <2>1, <3>1, <3>2, <3>4, <4>1, <4>2, <1>4 DEF j
    <3>. QED
      BY <3>3, <3>4
  <2>. QED
    BY <2>1 DEF Inclusive
<1>9. Fetching(t, E)
  <2>1. ASSUME NEW h \in Cache, NEW a \in Held(t, h)
        PROVE  Fetched(t, h, a) \/ HitPending(t, a) \/ <<h, a>> \in E
    <3>1. Fetched(s, h, a) \/ HitPending(s, a) \/ <<h, a>> \in E
      BY <1>1, <1>2 DEF Fetching
    <3>2. Fetched(s, h, a) => Fetched(t, h, a)
      BY <1>2, Below DEF Fetched
    <3>. QED
      BY <3>1, <3>2, <1>2 DEF HitPending
  <2>. QED
    BY <2>1 DEF Fetching
<1>10. UnsavedDirty(t)
  <2>1. ASSUME NEW a \in t.unsaved
        PROVE  \E h \in Cache : Has(t, h, a) /\ LineOf(t, h, a).dirty
    <3>1. a \in Block
      BY <1>2 DEF StateSound
    <3>2. PICK h \in Cache : Has(s, h, a) /\ LineOf(s, h, a).dirty
      BY <1>1, <1>2 DEF UnsavedDirty
    <3>3. CASE a # b
      BY <3>1, <3>2, <3>3, <1>3
    <3>4. CASE a = b /\ h \notin AtOrAbove(k)
      BY <3>2, <3>4, <1>4
    <3>5. CASE a = b /\ h \in AtOrAbove(k)
      <4>1. IF is_last_level(k) THEN b \notin t.unsaved ELSE LineOf(t, lower_cache(k), b).dirty
        BY <3>2, <3>5 DEF Evicted
      <4>2. ~is_last_level(k) /\ LineOf(t, lower_cache(k), b).dirty
        BY <4>1, <3>5
      <4>3. lower_cache(k) \in Cache /\ lower_cache(k) \notin AtOrAbove(k)
        BY <4>2, Below, Tree
      <4>4. Has(s, lower_cache(k), b)
        BY <4>2, <1>1 DEF Inclusive
      <4>. QED
        BY <3>5, <4>2, <4>3, <4>4, <1>4
    <3>. QED
      BY <3>3, <3>4, <3>5
  <2>. QED
    BY <2>1 DEF UnsavedDirty
<1>. QED
  BY <1>2, <1>5, <1>6, <1>7, <1>8, <1>9, <1>10 DEF Good
-----------------------------------------------------------------------------
(* Room for a new line                                                     *)

\* The least of a set of numbers.
LEMMA MinFacts ==
  ASSUME NEW T, T \subseteq Nat, T # {}
  PROVE  Min(T) \in T /\ \A y \in T : Min(T) <= y
<1>1. \E x \in T : \A y \in T : x <= y
  BY Least
<1>. QED
  BY <1>1 DEF Min

\* Quotient and remainder.
LEMMA Division ==
  ASSUME NEW z \in Nat, NEW m \in Nat \ {0}
  PROVE  z \div m \in Nat /\ z % m \in 0 .. m - 1 /\ z = (z \div m) * m + (z % m)
OBVIOUS

\* A block of the larger cache that shares a set with another one shares the
\* set of the smaller one as well.
LEMMA Divided ==
  ASSUME NEW n \in Nat, NEW m \in Nat \ {0}, NEW M \in Nat \ {0}, M = n * m,
         NEW x \in Nat, NEW y \in Nat, x % M = y % M
  PROVE  x % m = y % m
<1>1. PICK r \in Nat : r = x % M
  OBVIOUS
<1>2. ASSUME NEW z \in Nat, z % M = r
      PROVE  z % m = r % m
  <2>1. PICK d \in Nat : z = d * (n * m) + r
    <3>1. z \div M \in Nat /\ z = (z \div M) * M + (z % M)
      BY Division
    <3>. QED
      BY <3>1, <1>2
  <2>2. PICK e \in Nat, f \in 0 .. m - 1 : r = e * m + f /\ r % m = f
    BY Division
  <2>3. z = (d * n + e) * m + f
    BY <2>1, <2>2
  <2>4. d * n + e \in Nat
    OBVIOUS
  <2>. QED
    BY <2>2, <2>3, <2>4
<1>. QED
  BY <1>1, <1>2

\* A set that has the blocks of a full set and another one has no room for them.
LEMMA NoRoom ==
  ASSUME NEW p \in Seq(CacheLine), NEW n, NEW i, LinesSound(p, n, i), Len(p) >= assoc,
         NEW q \in Seq(CacheLine), Len(q) <= assoc, NEW a,
         \A l \in ToSet(p) : l.addr # a /\ \E m \in ToSet(q) : m.addr = l.addr
  PROVE  ~ \E m \in ToSet(q) : m.addr = a
<1>. SUFFICES ASSUME \E m \in ToSet(q) : m.addr = a
              PROVE  FALSE
  OBVIOUS
<1>. DEFINE S == 0 .. Len(p)
            T == 1 .. Len(q)
            f == [j \in S |-> CHOOSE m \in T : q[m].addr = IF j = 0 THEN a ELSE p[j].addr]
<1>1. /\ Len(p) \in Nat /\ Len(q) \in Nat /\ assoc \in Nat
      /\ DOMAIN p = 1 .. Len(p) /\ DOMAIN q = T
  BY SizeAssumption
<1>2. ASSUME NEW j \in S
      PROVE  \E m \in T : q[m].addr = IF j = 0 THEN a ELSE p[j].addr
  BY <1>1 DEF ToSet
<1>3. f \in [S -> T] /\ \A j \in S : q[f[j]].addr = IF j = 0 THEN a ELSE p[j].addr
  BY <1>2
<1>4. IsFiniteSet(S) /\ Cardinality(S) = Len(p) + 1 /\ IsFiniteSet(T) /\ Cardinality(T) = Len(q)
  <2>1. \A b \in Nat : IsFiniteSet(0 .. b) /\ Cardinality(0 .. b) = b + 1 /\ IsFiniteSet(1 .. b) /\ Cardinality(1 .. b) = b
    BY FS_Interval
  <2>. QED
    BY <1>1, <2>1
<1>5. Cardinality(T) < Cardinality(S)
  BY <1>1, <1>4
<1>. HIDE DEF f, S, T
<1>6. PICK x, y \in S : x # y /\ f[x] = f[y]
  BY <1>3, <1>4, <1>5, FS_PigeonHole
<1>7. (IF x = 0 THEN a ELSE p[x].addr) = (IF y = 0 THEN a ELSE p[y].addr)
  BY <1>3, <1>6
<1>8. \A j \in S : j = 0 \/ j \in DOMAIN p
  BY <1>1 DEF S
<1>. QED
  BY <1>6, <1>7, <1>8 DEF LinesSound, ToSet

\* How a request for block a comes to cache k: from a core, to a first level, or
\* from the level above, which has locked a line for it.
Asked(s, E, k, a) ==
  \/ E = {} /\ higher_cache(k) = {}
  \/ \E u \in higher_cache(k) : E = {<<u, a>>} /\ a \in Held(s, u)

\* Who may be asked for a block by the level above.
LEMMA AskedFacts ==
  ASSUME Built, NEW s, NEW E, NEW k \in Cache, NEW a \in Block, Asked(s, E, k, a)
  PROVE  /\ \A b \in Block : b # a => \A h \in Cache : <<h, b>> \notin E
         /\ \A u \in higher_cache(k) : u \in Cache /\ E = {<<u, a>>} /\ a \in Held(s, u)
         /\ \A h \in Cache : <<h, a>> \in E => h \in higher_cache(k)
BY Above DEF Asked

\* The line at a position of the set of block a.
LEMMA PositionFacts ==
  ASSUME Built, NEW s, StateSound(s), NEW k \in Cache, NEW a \in Block,
         NEW i \in DOMAIN lines(s, k, a), NEW b, b = lines(s, k, a)[i].addr
  PROVE  /\ b \in Block /\ Has(s, k, b) /\ LineOf(s, k, b) = lines(s, k, a)[i]
         /\ b % sets(k) = a % sets(k)
<1>1. CacheSound(s.caches[k], sets(k)) /\ sets(k) \in Nat \ {0}
  BY Levels DEF StateSound
<1>. DEFINE p == s.caches[k].lines[a % sets(k)]
<1>2. p = lines(s, k, a)
  BY Views
<1>3. p \in Seq(CacheLine) /\ LinesSound(p, sets(k), a % sets(k))
  BY <1>1, CacheParts
<1>4. b \in Block /\ b % sets(k) = a % sets(k) /\ p[i] \in ToSet(p)
  <2>1. i \in DOMAIN p /\ b = p[i].addr
    BY <1>2
  <2>. HIDE DEF p
  <2>2. p[i] \in CacheLine
    BY <1>3, <2>1
  <2>. QED
    BY <1>3, <2>1, <2>2 DEF CacheLine, LinesSound, ToSet
<1>5. PICK l \in ToSet(s.caches[k].lines[b % sets(k)]) : l = p[i] /\ l.addr = b
  BY <1>2, <1>4
<1>6. CacheHas(s.caches[k], sets(k), b) /\ CacheLineOf(s.caches[k], sets(k), b) = l
  BY <1>1, <1>4, <1>5, OneLine
<1>. QED
  BY <1>2, <1>4, <1>5, <1>6, Views

\* What makes room for a, if the set is full: a good state with room.
Room(s, t, k, a) ==
  /\ ~Has(t, k, a) /\ Len(lines(t, k, a)) < assoc
  /\ t.hits = s.hits /\ t.unsaved \subseteq s.unsaved
  /\ \A h \in Cache : Held(t, h) = Held(s, h) /\ SameLines(s.caches[h], t.caches[h], sets(h), a)

RoomFor(s, k, a) == IF SetFull(s, k, a) THEN evict(s, k, lines(s, k, a)[Min(Victims(s, k, a))]) ELSE s

\* A victim makes room for the block, and the state stays good.
LEMMA RoomFacts ==
  ASSUME Built, NEW s, NEW E, Good(s, E), NEW k \in Cache, NEW a \in Block, Asked(s, E, k, a),
         ~Has(s, k, a), SetFull(s, k, a) => Victims(s, k, a) # {},
         NEW t, t = RoomFor(s, k, a)
  PROVE  Good(t, E) /\ Room(s, t, k, a)
<1>1. /\ StateSound(s) /\ LockedHaveMshrs(s) /\ LockedAbove(s) /\ Inclusive(s, E)
      /\ CacheSound(s.caches[k], sets(k)) /\ sets(k) \in Nat \ {0}
  BY Levels DEF Good, StateSound
<1>2. /\ lines(s, k, a) \in Seq(CacheLine) /\ Len(lines(s, k, a)) <= assoc /\ Len(lines(s, k, a)) \in Nat
      /\ assoc \in Nat
  <2>1. PICK c, n : c = s.caches[k] /\ n = sets(k)
    OBVIOUS
  <2>2. c.lines[a % n] \in Seq(CacheLine) /\ LinesSound(c.lines[a % n], n, a % n)
    BY <1>1, <2>1, CacheParts
  <2>3. lines(s, k, a) = c.lines[a % n]
    BY <2>1, Views
  <2>. QED
    BY <2>2, <2>3, SizeAssumption DEF LinesSound
<1>3. CASE ~SetFull(s, k, a)
  <2>1. t = s
    BY <1>3 DEF RoomFor
  <2>2. Len(lines(s, k, a)) < assoc
    BY <1>2, <1>3 DEF SetFull
  <2>3. \A h \in Cache : SameLines(s.caches[h], s.caches[h], sets(h), a)
    BY DEF SameLines
  <2>. QED
    BY <2>1, <2>2, <2>3 DEF Room
<1>4. CASE SetFull(s, k, a)
  <2>1. Victims(s, k, a) \subseteq Nat
    BY <1>2 DEF Victims
  <2>2. PICK i : i = Min(Victims(s, k, a)) /\ i \in Victims(s, k, a)
    BY <1>4, <2>1, MinFacts
  <2>3. PICK b : b = lines(s, k, a)[i].addr
    OBVIOUS
  <2>4. /\ i \in DOMAIN lines(s, k, a)
        /\ \A h \in Holders(s, k, b) : Unlocked(s, h, b)
    BY <2>2, <2>3 DEF Victims
  <2>5. /\ b \in Block /\ Has(s, k, b) /\ LineOf(s, k, b) = lines(s, k, a)[i]
        /\ b % sets(k) = a % sets(k)
    BY <1>1, <2>3, <2>4, PositionFacts
  <2>6. b # a
    BY <2>5
  <2>7. \A h \in Cache : <<h, b>> \notin E
    <3>1. \A x \in Block : x # a => \A h \in Cache : <<h, x>> \notin E
      BY AskedFacts
    <3>. QED
      BY <2>5, <2>6, <3>1
  <2>8. t = evict(s, k, LineOf(s, k, b))
    BY <1>4, <2>2, <2>5 DEF RoomFor
  <2>9. Evicted(s, t, k, b)
    BY <1>1, <2>4, <2>5, <2>7, <2>8, EvictFacts
  <2>10. \A h \in AtOrAbove(k) : b \notin Held(s, h)
    <3>1. Holders(s, k, b) = {h \in AtOrAbove(k) : Has(s, h, b)} /\ AtOrAbove(k) \subseteq Cache
      BY <1>1, <2>5, <2>7, HoldersFacts, Tree
    <3>. QED
      BY <1>1, <2>4, <2>5, <3>1 DEF LockedHaveMshrs, Unlocked
  <2>11. Good(t, E)
    BY <2>5, <2>7, <2>9, <2>10, EvictedGood
  <2>12. \A h \in Cache : Held(t, h) = Held(s, h) /\ SameLines(s.caches[h], t.caches[h], sets(h), a)
    BY <2>6, <2>9 DEF Evicted
  <2>13. ~Has(t, k, a)
    BY <2>12, Views DEF SameLines
  <2>14. Len(lines(t, k, a)) < assoc
    <3>1. lines(t, k, a) = lines(t, k, b) /\ lines(s, k, a) = lines(s, k, b)
      BY <2>5, Views
    <3>2. Len(lines(t, k, b)) = Len(lines(s, k, b)) - 1
      BY <2>9 DEF Evicted
    <3>. QED
      BY <3>1, <3>2, <1>2
  <2>15. t.hits = s.hits /\ t.unsaved \subseteq s.unsaved
    BY <2>9 DEF Evicted
  <2>. QED
    BY <2>11, <2>12, <2>13, <2>14, <2>15 DEF Room
<1>. QED
  BY <1>3, <1>4

\* A level below the first has an MSHR for every request: its MSHRs are those of
\* lines that are locked on the level above, which has locked another line.
LEMMA MshrFree ==
  ASSUME Built, NEW s, NEW E, Good(s, E), NEW k \in Cache, NEW a \in Block, a \notin Held(s, k),
         NEW u \in higher_cache(k), a \in Held(s, u)
  PROVE  Cardinality(Held(s, k)) # mshrs(k)
<1>1. u \in Cache /\ ~is_last_level(u) /\ lower_cache(u) = k
  BY Above
<1>2. Held(s, k) \subseteq Held(s, u) \ {a}
  BY <1>1 DEF Good, LockedAbove
<1>3. IsFiniteSet(Held(s, u)) /\ Cardinality(Held(s, u)) <= mshrs(u)
  BY <1>1 DEF Good, MshrsFit
<1>. DEFINE rest == Held(s, u) \ {a}
<1>4. /\ IsFiniteSet(rest) /\ Cardinality(rest) = Cardinality(Held(s, u)) - 1
      /\ Cardinality(Held(s, u)) \in Nat
  BY <1>3, FS_RemoveElement, FS_CardinalityType
<1>5. Cardinality(Held(s, k)) <= Cardinality(rest) /\ Cardinality(Held(s, k)) \in Nat
  <2>1. \A T, S : IsFiniteSet(S) /\ T \subseteq S => IsFiniteSet(T) /\ Cardinality(T) <= Cardinality(S)
    BY FS_Subset
  <2>2. Held(s, k) \subseteq rest
    BY <1>2
  <2>. HIDE DEF rest
  <2>. QED
    BY <1>4, <2>1, <2>2, FS_CardinalityType
<1>. HIDE DEF rest
<1>6. mshrs(u) \in Nat /\ mshrs(k) \in Nat /\ mshrs(u) <= mshrs(k)
  BY <1>1, Levels
<1>. QED
  BY <1>3, <1>4, <1>5, <1>6

\* It also has a line to evict: a line that stays for the sake of the level above
\* is on that level, in the set where the block of the request has a line too.
LEMMA VictimFree ==
  ASSUME Built, NEW s, NEW E, Good(s, E), NEW k \in Cache, NEW a \in Block, ~Has(s, k, a), SetFull(s, k, a),
         Asked(s, E, k, a), NEW u \in higher_cache(k)
  PROVE  Victims(s, k, a) # {}
<1>0. ASSUME NEW x \in Block, x # a, NEW h \in Cache
      PROVE  <<h, x>> \notin E
  <2>1. E = {} \/ \E v : E = {<<v, a>>}
    BY DEF Asked
  <2>. QED
    BY <1>0, <2>1
<1>. SUFFICES ASSUME Victims(s, k, a) = {}
              PROVE  FALSE
  OBVIOUS
<1>1. u \in Cache /\ ~is_last_level(u) /\ lower_cache(u) = k /\ u # k
  BY Above
<1>2. StateSound(s) /\ LockedHaveMshrs(s) /\ LockedAbove(s) /\ Inclusive(s, E)
  BY DEF Good
<1>3. a \in Held(s, u) /\ Has(s, u, a)
  BY <1>1, <1>2, AskedFacts DEF LockedHaveMshrs
<1>. DEFINE p == lines(s, k, a)
            q == lines(s, u, a)
<1>4. /\ p \in Seq(CacheLine) /\ LinesSound(p, sets(k), a % sets(k)) /\ Len(p) >= assoc
      /\ q \in Seq(CacheLine) /\ Len(q) <= assoc
  <2>1. \A h \in Cache : CacheSound(s.caches[h], sets(h)) /\ sets(h) \in Nat \ {0}
    BY <1>2, Levels DEF StateSound
  <2>2. PICK c, n : c = s.caches[k] /\ n = sets(k)
    OBVIOUS
  <2>3. PICK d, m : d = s.caches[u] /\ m = sets(u)
    OBVIOUS
  <2>4. c.lines[a % n] \in Seq(CacheLine) /\ LinesSound(c.lines[a % n], n, a % n)
    BY <2>1, <2>2, CacheParts
  <2>5. d.lines[a % m] \in Seq(CacheLine) /\ LinesSound(d.lines[a % m], m, a % m)
    BY <1>1, <2>1, <2>3, CacheParts
  <2>6. p = c.lines[a % n] /\ q = d.lines[a % m]
    BY <2>2, <2>3, Views
  <2>. QED
    BY <2>2, <2>4, <2>5, <2>6 DEF SetFull, LinesSound
<1>5. ASSUME NEW i \in DOMAIN p
      PROVE  p[i].addr # a /\ \E m \in ToSet(q) : m.addr = p[i].addr
  <2>1. PICK b : b = p[i].addr
    OBVIOUS
  <2>2. b \in Block /\ Has(s, k, b) /\ b % sets(k) = a % sets(k)
    BY <1>2, <2>1, PositionFacts
  <2>3. b # a
    BY <2>2
  <2>4. \A h \in Cache : <<h, b>> \notin E
    BY <1>0, <2>2, <2>3
  <2>5. PICK h \in Holders(s, k, b) : ~Unlocked(s, h, b)
    BY <2>1 DEF Victims
  <2>6. h \in AtOrAbove(k) /\ Has(s, h, b) /\ h \in Cache
    BY <1>2, <2>2, <2>4, <2>5, HoldersFacts, Tree
  <2>7. Has(s, u, b)
    <3>1. CASE h = k
      <4>1. b \in Held(s, k)
        BY <1>2, <2>2, <2>5, <2>6, <3>1 DEF LockedHaveMshrs, Unlocked
      <4>. QED
        BY <4>1, <1>1, <1>2, <2>2 DEF LockedAbove, LockedHaveMshrs
    <3>2. CASE h # k
      <4>1. PICK x \in higher_cache(k) : h \in AtOrAbove(x)
        BY <2>6, <3>2, Tree
      <4>2. x = u
        BY <4>1, Above
      <4>. QED
        BY <4>1, <4>2, <1>1, <1>2, <2>2, <2>4, <2>6, Included
    <3>. QED
      BY <3>1, <3>2
  <2>8. PICK n \in Nat : sets(k) = n * sets(u)
    BY <1>1, Levels
  <2>9. b % sets(u) = a % sets(u)
    <3>1. sets(u) \in Nat \ {0} /\ sets(k) \in Nat \ {0} /\ a \in Nat /\ b \in Nat
      BY <1>1, <2>2, Levels, SizeAssumption
    <3>2. PICK m \in Nat \ {0}, M \in Nat \ {0} : m = sets(u) /\ M = sets(k)
      BY <3>1
    <3>3. M = n * m /\ b % M = a % M
      BY <2>2, <2>8, <3>2
    <3>4. b % m = a % m
      BY <3>1, <3>3, Divided
    <3>. QED
      BY <3>2, <3>4
  <2>10. lines(s, u, b) = q
    BY <2>9, Views
  <2>. QED
    BY <2>1, <2>3, <2>7, <2>10 DEF Has
<1>6. \A l \in ToSet(p) : l.addr # a /\ \E m \in ToSet(q) : m.addr = l.addr
  BY <1>5 DEF ToSet
<1>7. \E m \in ToSet(q) : m.addr = a
  BY <1>3 DEF Has
<1>. HIDE DEF p, q
<1>. QED
  BY <1>4, <1>6, <1>7, NoRoom
-----------------------------------------------------------------------------
(* Misses                                                                  *)

NewLine(a, write) == [addr |-> a, lock |-> TRUE, dirty |-> write]

\* r is t with a locked line and an MSHR for block a in cache k.
Entered(t, r, k, a, write) ==
  /\ StateSound(r) /\ r.hits = t.hits /\ r.waits = t.waits /\ r.unsaved = t.unsaved
  /\ \A h \in Cache \ {k} : r.caches[h] = t.caches[h]
  /\ Held(r, k) = Held(t, k) \cup {a}
  /\ Has(r, k, a) /\ LineOf(r, k, a) = NewLine(a, write)
  /\ \A b \in Block \ {a} : SameLines(t.caches[k], r.caches[k], sets(k), b)

\* A new line is the only change of the caches.
LEMMA AllocatedFacts ==
  ASSUME Built, NEW t, StateSound(t), NEW k \in Cache, NEW a \in Block, NEW write \in BOOLEAN,
         ~Has(t, k, a), Len(lines(t, k, a)) < assoc, NEW r, r = Allocated(t, k, a, write)
  PROVE  Entered(t, r, k, a, write)
<1>. DEFINE c == t.caches[k]
            i == a % sets(k)
            q == Append(c.lines[i], NewLine(a, write))
            d == [lines |-> [c.lines EXCEPT ![i] = q], mshr_entries |-> c.mshr_entries \cup {a}, retry_list |-> c.retry_list]
<1>1. DOMAIN t = {"caches", "hits", "waits", "unsaved", "aborted"} /\ DOMAIN t.caches = Cache /\ t.aborted = FALSE
  BY DEF StateSound
<1>2. CacheSound(c, sets(k)) /\ sets(k) \in Nat \ {0}
  BY Levels DEF StateSound
<1>3. c = [lines |-> c.lines, mshr_entries |-> c.mshr_entries, retry_list |-> c.retry_list] /\ c.mshr_entries \subseteq Block
  BY <1>2, CacheParts
<1>4. r = [t EXCEPT !.caches = [t.caches EXCEPT ![k] = d]]
  <2>1. [[c EXCEPT !.lines[i] = q] EXCEPT !.mshr_entries = c.mshr_entries \cup {a}] = d
    <3>1. PICK x, L, M, R : x = c /\ L = [c.lines EXCEPT ![i] = q] /\ M = c.mshr_entries \cup {a} /\ R = c.retry_list
      OBVIOUS
    <3>2. x = [lines |-> x.lines, mshr_entries |-> x.mshr_entries, retry_list |-> x.retry_list] /\ x.retry_list = R
      BY <1>3, <3>1
    <3>. HIDE DEF c, q, i
    <3>3. PICK y : y = [x EXCEPT !.lines = L]
      OBVIOUS
    <3>4. y = [lines |-> L, mshr_entries |-> x.mshr_entries, retry_list |-> R]
      BY <3>2, <3>3
    <3>5. [y EXCEPT !.mshr_entries = M] = [lines |-> L, mshr_entries |-> M, retry_list |-> R]
      BY <3>4
    <3>. QED
      BY <3>1, <3>3, <3>5 DEF d
  <2>2. r = [t EXCEPT !.caches = [t.caches EXCEPT ![k] = [[c EXCEPT !.lines[i] = q] EXCEPT !.mshr_entries = c.mshr_entries \cup {a}]]]
    BY <1>1, Views DEF Allocated, NewLine
  <2>. QED
    BY <2>1, <2>2
<1>. HIDE DEF d
<1>5. /\ DOMAIN r = DOMAIN t /\ DOMAIN r.caches = Cache /\ r.caches[k] = d
      /\ \A h \in Cache \ {k} : r.caches[h] = t.caches[h]
      /\ r.hits = t.hits /\ r.waits = t.waits /\ r.unsaved = t.unsaved /\ r.aborted = FALSE
  BY <1>1, <1>4
<1>6. Relined(c, d, i, q) /\ d.mshr_entries = c.mshr_entries \cup {a}
  BY DEF Relined, d
<1>7. /\ ~CacheHas(c, sets(k), a) /\ Len(c.lines[i]) < assoc /\ d.mshr_entries \subseteq Block
      /\ NewLine(a, write) \in CacheLine /\ NewLine(a, write).addr = a
  BY <1>3, <1>6, Views DEF NewLine, CacheLine
<1>. HIDE DEF c
<1>8. /\ CacheSound(d, sets(k)) /\ CacheHas(d, sets(k), a) /\ CacheLineOf(d, sets(k), a) = NewLine(a, write)
      /\ \A b \in Block \ {a} : SameLines(c, d, sets(k), b)
  BY <1>2, <1>6, <1>7, AddedCache
<1>9. \A h \in Cache : CacheSound(r.caches[h], sets(h))
  BY <1>5, <1>8 DEF StateSound
<1>10. StateSound(r)
  BY <1>5, <1>9 DEF StateSound
<1>11. Has(r, k, a) /\ LineOf(r, k, a) = NewLine(a, write)
  BY <1>5, <1>8, Views
<1>12. Held(r, k) = Held(t, k) \cup {a}
  BY <1>5, <1>6 DEF Held, c
<1>. QED
  BY <1>5, <1>8, <1>10, <1>11, <1>12 DEF Entered, c

\* A new line with its MSHR leaves one thing to do: to ask the next level.
LEMMA EnteredGood ==
  ASSUME Built, NEW t, NEW E, Good(t, E), NEW k \in Cache, NEW a \in Block, Asked(t, E, k, a),
         ~Has(t, k, a), a \notin Held(t, k), Cardinality(Held(t, k)) # mshrs(k),
         NEW write, NEW r, Entered(t, r, k, a, write)
  PROVE  Good(r, {<<k, a>>})
<1>1. /\ StateSound(t) /\ LockedHaveMshrs(t) /\ MshrsFit(t) /\ LockedAbove(t)
      /\ Inclusive(t, E) /\ Fetching(t, E) /\ UnsavedDirty(t)
  BY DEF Good
<1>2. /\ StateSound(r) /\ r.hits = t.hits /\ r.waits = t.waits /\ r.unsaved = t.unsaved
      /\ Has(r, k, a) /\ LineOf(r, k, a).lock
  BY DEF Entered, NewLine
<1>3. Held(r, k) = Held(t, k) \cup {a} /\ \A h \in Cache \ {k} : Held(r, h) = Held(t, h)
  BY DEF Entered, Held
<1>4. ASSUME NEW h \in Cache, NEW b \in Block, h # k \/ b # a
      PROVE  /\ Has(r, h, b) <=> Has(t, h, b)
             /\ Has(t, h, b) => LineOf(r, h, b) = LineOf(t, h, b)
  <2>1. SameLines(t.caches[h], r.caches[h], sets(h), b)
    BY <1>4 DEF Entered, SameLines
  <2>. QED
    BY <2>1, Views DEF SameLines
<1>5. /\ \A h \in Cache, b \in Block : <<h, b>> \in E => b = a /\ h \in higher_cache(k)
      /\ \A u \in higher_cache(k) : a \in Held(t, u)
  <2>1. /\ \A b \in Block : b # a => \A h \in Cache : <<h, b>> \notin E
        /\ \A u \in higher_cache(k) : a \in Held(t, u)
        /\ \A h \in Cache : <<h, a>> \in E => h \in higher_cache(k)
    BY AskedFacts
  <2>. QED
    BY <2>1
<1>6. \A h \in Cache : ~is_last_level(h) => lower_cache(h) \in Cache /\ lower_cache(h) # h /\ h \in higher_cache(lower_cache(h))
  BY Below, Above
<1>7. LockedHaveMshrs(r)
  <2>1. ASSUME NEW h \in Cache, NEW b \in Block
        PROVE  b \in Held(r, h) <=> Has(r, h, b) /\ LineOf(r, h, b).lock
    <3>1. CASE h = k /\ b = a
      BY <3>1, <1>2, <1>3
    <3>2. CASE h # k \/ b # a
      <4>1. b \in Held(r, h) <=> b \in Held(t, h)
        BY <3>2, <1>3
      <4>. QED
        BY <3>2, <4>1, <1>1, <1>4 DEF LockedHaveMshrs
    <3>. QED
      BY <3>1, <3>2
  <2>. QED
    BY <2>1 DEF LockedHaveMshrs
<1>8. MshrsFit(r)
  <2>1. \A S, x : IsFiniteSet(S) /\ x \notin S => IsFiniteSet(S \cup {x}) /\ Cardinality(S \cup {x}) = Cardinality(S) + 1
    BY FS_AddElement
  <2>2. \A S : IsFiniteSet(S) => Cardinality(S) \in Nat
    BY FS_CardinalityType
  <2>3. IsFiniteSet(Held(t, k)) /\ Cardinality(Held(t, k)) <= mshrs(k)
    BY <1>1 DEF MshrsFit
  <2>4. IsFiniteSet(Held(r, k)) /\ Cardinality(Held(r, k)) = Cardinality(Held(t, k)) + 1 /\ Cardinality(Held(t, k)) \in Nat
    BY <2>1, <2>2, <2>3, <1>3
  <2>5. mshrs(k) \in Nat
    BY Levels
  <2>6. Cardinality(Held(r, k)) <= mshrs(k)
    BY <2>3, <2>4, <2>5
  <2>. QED
    BY <2>4, <2>6, <1>1, <1>3 DEF MshrsFit
<1>9. LockedAbove(r)
  <2>1. ASSUME NEW h \in Cache, ~is_last_level(h)
        PROVE  Held(r, lower_cache(h)) \subseteq Held(r, h)
    <3>1. Held(t, lower_cache(h)) \subseteq Held(t, h) /\ Held(t, h) \subseteq Held(r, h)
      BY <2>1, <1>1, <1>3 DEF LockedAbove
    <3>2. CASE lower_cache(h) = k
      BY <3>1, <3>2, <2>1, <1>3, <1>5, <1>6
    <3>3. CASE lower_cache(h) # k
      BY <3>1, <3>3, <2>1, <1>3, <1>6
    <3>. QED
      BY <3>2, <3>3
  <2>. QED
    BY <2>1 DEF LockedAbove
<1>10. Inclusive(r, {<<k, a>>})
  <2>1. ASSUME NEW h \in Cache, NEW b \in Block, ~is_last_level(h), Has(r, h, b), h # k \/ b # a
        PROVE  Has(r, lower_cache(h), b)
    <3>1. Has(t, lower_cache(h), b) \/ <<h, b>> \in E
      BY <2>1, <1>1, <1>4 DEF Inclusive
    <3>2. lower_cache(h) \in Cache
      BY <2>1, <1>6
    <3>3. Has(t, lower_cache(h), b) => Has(r, lower_cache(h), b)
      BY <3>2, <1>2, <1>4
    <3>4. <<h, b>> \in E => b = a /\ lower_cache(h) = k
      BY <1>5, Above
    <3>. QED
      BY <3>1, <3>3, <3>4, <1>2
  <2>. QED
    BY <2>1 DEF Inclusive
<1>11. Fetching(r, {<<k, a>>})
  <2>1. ASSUME NEW h \in Cache, NEW b \in Held(r, h), h # k \/ b # a
        PROVE  Fetched(r, h, b) \/ HitPending(r, b)
    <3>1. b \in Held(t, h) /\ b \in Block
      BY <2>1, <1>1, <1>3 DEF StateSound, CacheSound, LinesCache, Held
    <3>2. Fetched(t, h, b) \/ HitPending(t, b) \/ <<h, b>> \in E
      BY <3>1, <1>1 DEF Fetching
    <3>3. Fetched(t, h, b) => Fetched(r, h, b)
      BY <1>2, <1>3, <1>6 DEF Fetched
    <3>4. <<h, b>> \in E => Fetched(r, h, b)
      <4>1. ASSUME <<h, b>> \in E
            PROVE  b = a /\ ~is_last_level(h) /\ lower_cache(h) = k
        BY <4>1, <3>1, <1>5, Above
      <4>. QED
        BY <4>1, <1>3 DEF Fetched
    <3>. QED
      BY <3>2, <3>3, <3>4, <1>2 DEF HitPending
  <2>. QED
    BY <2>1 DEF Fetching
<1>12. UnsavedDirty(r)
  <2>1. ASSUME NEW b \in r.unsaved
        PROVE  \E h \in Cache : Has(r, h, b) /\ LineOf(r, h, b).dirty
    <3>1. PICK h \in Cache : Has(t, h, b) /\ LineOf(t, h, b).dirty
      BY <1>1, <1>2 DEF UnsavedDirty
    <3>2. b \in Block
      BY <1>2 DEF StateSound
    <3>. QED
      BY <3>1, <3>2, <1>4
  <2>. QED
    BY <2>1 DEF UnsavedDirty
<1>. QED
  BY <1>2, <1>7, <1>8, <1>9, <1>10, <1>11, <1>12 DEF Good

\* A miss that nothing refuses.
MissTaken(s, r, k, a, write) ==
  /\ Good(r, {<<k, a>>}) /\ r.hits = s.hits /\ r.unsaved \subseteq s.unsaved
  /\ Has(r, k, a) /\ LineOf(r, k, a) = NewLine(a, write)
  /\ Held(r, k) = Held(s, k) \cup {a}
  /\ \A h \in Cache \ {k} : Held(r, h) = Held(s, h) /\ SameLines(s.caches[h], r.caches[h], sets(h), a)

\* Both halves of a miss.
LEMMA MissedFacts ==
  ASSUME Built, NEW s, NEW E, Good(s, E), NEW k \in Cache, NEW a \in Block, NEW write \in BOOLEAN, Asked(s, E, k, a),
         ~Has(s, k, a), a \notin Held(s, k), Cardinality(Held(s, k)) # mshrs(k),
         SetFull(s, k, a) => Victims(s, k, a) # {},
         NEW r, r = Missed(s, k, a, write)
  PROVE  MissTaken(s, r, k, a, write)
<1>1. PICK t : t = RoomFor(s, k, a)
  OBVIOUS
<1>2. Good(t, E) /\ Room(s, t, k, a)
  BY <1>1, RoomFacts
<1>3. r = Allocated(t, k, a, write)
  BY <1>1 DEF Missed, RoomFor
<1>4. /\ StateSound(t) /\ ~Has(t, k, a) /\ Len(lines(t, k, a)) < assoc
      /\ t.hits = s.hits /\ t.unsaved \subseteq s.unsaved
      /\ \A h \in Cache : Held(t, h) = Held(s, h) /\ SameLines(s.caches[h], t.caches[h], sets(h), a)
  BY <1>2 DEF Good, Room
<1>5. Entered(t, r, k, a, write)
  BY <1>3, <1>4, AllocatedFacts
<1>6. Asked(t, E, k, a)
  BY <1>4, Above DEF Asked
<1>7. a \notin Held(t, k) /\ Cardinality(Held(t, k)) # mshrs(k)
  BY <1>4
<1>8. Good(r, {<<k, a>>})
  BY <1>2, <1>4, <1>5, <1>6, <1>7, EnteredGood
<1>9. ASSUME NEW h \in Cache \ {k}
      PROVE  Held(r, h) = Held(s, h) /\ SameLines(s.caches[h], r.caches[h], sets(h), a)
  <2>1. r.caches[h] = t.caches[h]
    BY <1>5 DEF Entered
  <2>. QED
    BY <2>1, <1>4 DEF Held
<1>. QED
  BY <1>4, <1>5, <1>8, <1>9 DEF MissTaken, Entered
-----------------------------------------------------------------------------
(* Hits, and requests for blocks that are on their way                     *)

\* t is s after a request for block a that found its line in cache k.
Touched(s, t, k, a, write) ==
  /\ StateSound(t) /\ s.hits \subseteq t.hits /\ t.waits = s.waits /\ t.unsaved = s.unsaved
  /\ \A h \in Cache \ {k} : t.caches[h] = s.caches[h]
  /\ Held(t, k) = Held(s, k)
  /\ \A b \in Block \ {a} : SameLines(s.caches[k], t.caches[k], sets(k), b)
  /\ Has(s, k, a) /\ Has(t, k, a)
  /\ LineOf(t, k, a).lock = LineOf(s, k, a).lock
  /\ LineOf(t, k, a).dirty = (LineOf(s, k, a).dirty \/ write)
  /\ a \in Held(t, k) \/ HitPending(t, a)

\* A hit changes the dirty bit of one line, and an answer is on its way.
LEMMA HitFacts ==
  ASSUME Built, NEW s, StateSound(s), NEW k \in Cache, NEW a \in Block, NEW write \in BOOLEAN, Has(s, k, a),
         NEW t, t = [Refreshed(s, k, a, [LineOf(s, k, a) EXCEPT !.dirty = @ \/ write])
                       EXCEPT !.hits = s.hits \cup {[left |-> latency[level(k)], addr |-> a]}]
  PROVE  Touched(s, t, k, a, write)
<1>. DEFINE c == s.caches[k]
            l == [LineOf(s, k, a) EXCEPT !.dirty = @ \/ write]
            q == Append(Erased(c.lines[a % sets(k)], a), l)
            r == WithLines(s, k, a, q)
            hit == [left |-> latency[level(k)], addr |-> a]
<1>1. CacheHas(c, sets(k), a) /\ CacheSound(c, sets(k)) /\ sets(k) \in Nat \ {0}
  BY Views, Levels DEF StateSound
<1>2. LineOf(s, k, a) \in CacheLine /\ LineOf(s, k, a).addr = a
  BY <1>1, Views, TheLine
<1>3. l \in CacheLine /\ l.addr = a /\ l.lock = LineOf(s, k, a).lock /\ l.dirty = (LineOf(s, k, a).dirty \/ write)
  BY <1>2 DEF CacheLine
<1>. HIDE DEF l
<1>4. t = [r EXCEPT !.hits = s.hits \cup {hit}]
  BY Views DEF Refreshed, l
<1>5. Relined(c, r.caches[k], a % sets(k), q)
  BY WithLinesFacts
<1>6. /\ DOMAIN r = DOMAIN s /\ DOMAIN r.caches = Cache
      /\ \A h \in Cache \ {k} : r.caches[h] = s.caches[h]
      /\ r.caches[k].mshr_entries = c.mshr_entries
      /\ r.hits = s.hits /\ r.waits = s.waits /\ r.unsaved = s.unsaved /\ r.aborted = s.aborted
  BY WithLinesFacts
<1>. HIDE DEF r
<1>7. PICK d : d = r.caches[k]
  OBVIOUS
<1>8. Relined(c, d, a % sets(k), Append(Erased(c.lines[a % sets(k)], a), l)) /\ d.mshr_entries = c.mshr_entries
  BY <1>5, <1>6, <1>7
<1>. HIDE DEF c, q, hit
<1>9. /\ CacheSound(d, sets(k)) /\ CacheHas(d, sets(k), a) /\ CacheLineOf(d, sets(k), a) = l
      /\ \A b \in Block \ {a} : SameLines(c, d, sets(k), b)
  BY <1>1, <1>3, <1>8, RefreshedCache
<1>10. DOMAIN s = {"caches", "hits", "waits", "unsaved", "aborted"}
  BY DEF StateSound
<1>11. /\ DOMAIN t = DOMAIN s /\ t.caches = r.caches /\ t.hits = s.hits \cup {hit}
       /\ t.waits = s.waits /\ t.unsaved = s.unsaved /\ t.aborted = s.aborted
  BY <1>4, <1>6, <1>10
<1>12. hit \in [left : Nat, addr : Block] /\ hit.addr = a
  BY Levels, SizeAssumption DEF hit
<1>13. \A h \in Cache : CacheSound(t.caches[h], sets(h))
  BY <1>6, <1>7, <1>9, <1>11 DEF StateSound
<1>14. StateSound(t)
  BY <1>6, <1>11, <1>12, <1>13 DEF StateSound
<1>15. Has(t, k, a) /\ LineOf(t, k, a) = l
  <2>1. t.caches[k] = d
    BY <1>7, <1>11
  <2>2. \A x : /\ Has(x, k, a) <=> CacheHas(x.caches[k], sets(k), a)
               /\ LineOf(x, k, a) = CacheLineOf(x.caches[k], sets(k), a)
    BY Views
  <2>. QED
    BY <2>1, <2>2, <1>9
<1>16. HitPending(t, a)
  BY <1>11, <1>12 DEF HitPending
<1>17. Held(t, k) = Held(s, k)
  BY <1>6, <1>11 DEF Held, c
<1>. QED
  BY <1>3, <1>6, <1>7, <1>9, <1>11, <1>14, <1>15, <1>16, <1>17 DEF Touched, c

\* A request that joins one in flight changes the dirty bit of one line.
LEMMA JoinFacts ==
  ASSUME Built, NEW s, StateSound(s), NEW k \in Cache, NEW a \in Block, NEW write \in BOOLEAN, Has(s, k, a),
         a \in Held(s, k), NEW t, t = WithLines(s, k, a, Joined(lines(s, k, a), a, write))
  PROVE  Touched(s, t, k, a, write)
<1>. DEFINE c == s.caches[k]
            q == Joined(c.lines[a % sets(k)], a, write)
            r == WithLines(s, k, a, q)
<1>1. CacheHas(c, sets(k), a) /\ CacheSound(c, sets(k)) /\ sets(k) \in Nat \ {0}
  BY Views, Levels DEF StateSound
<1>2. LineOf(s, k, a) \in CacheLine /\ LineOf(s, k, a) = CacheLineOf(c, sets(k), a)
  BY <1>1, Views, TheLine
<1>3. t = r
  BY Views
<1>4. Relined(c, r.caches[k], a % sets(k), q)
  BY WithLinesFacts
<1>5. /\ DOMAIN r = DOMAIN s /\ DOMAIN r.caches = Cache
      /\ \A h \in Cache \ {k} : r.caches[h] = s.caches[h]
      /\ r.caches[k].mshr_entries = c.mshr_entries
      /\ r.hits = s.hits /\ r.waits = s.waits /\ r.unsaved = s.unsaved /\ r.aborted = s.aborted
  BY WithLinesFacts
<1>. HIDE DEF r
<1>6. PICK d : d = r.caches[k]
  OBVIOUS
<1>7. Relined(c, d, a % sets(k), Joined(c.lines[a % sets(k)], a, write)) /\ d.mshr_entries = c.mshr_entries
  BY <1>4, <1>5, <1>6
<1>. HIDE DEF c, q
<1>8. /\ CacheSound(d, sets(k)) /\ CacheHas(d, sets(k), a)
      /\ CacheLineOf(d, sets(k), a) = [CacheLineOf(c, sets(k), a) EXCEPT !.dirty = @ \/ write]
      /\ \A b \in Block \ {a} : SameLines(c, d, sets(k), b)
  BY <1>1, <1>7, JoinedCache
<1>9. \A h \in Cache : CacheSound(t.caches[h], sets(h))
  BY <1>3, <1>5, <1>6, <1>8 DEF StateSound
<1>10. StateSound(t)
  BY <1>3, <1>5, <1>9 DEF StateSound
<1>11. Has(t, k, a) /\ LineOf(t, k, a) = [LineOf(s, k, a) EXCEPT !.dirty = @ \/ write]
  BY <1>2, <1>3, <1>6, <1>8, Views
<1>12. LineOf(t, k, a).lock = LineOf(s, k, a).lock /\ LineOf(t, k, a).dirty = (LineOf(s, k, a).dirty \/ write)
  BY <1>2, <1>11 DEF CacheLine
<1>13. Held(t, k) = Held(s, k)
  BY <1>3, <1>5 DEF Held, c
<1>. QED
  BY <1>3, <1>5, <1>6, <1>8, <1>10, <1>11, <1>12, <1>13 DEF Touched, c

\* The line is there and answered for, so the caches above need no exception.
LEMMA TouchedGood ==
  ASSUME Built, NEW s, NEW E, Good(s, E), NEW k \in Cache, NEW a \in Block, Asked(s, E, k, a),
         NEW write \in BOOLEAN, NEW t, Touched(s, t, k, a, write)
  PROVE  Good(t, {})
<1>1. /\ StateSound(s) /\ LockedHaveMshrs(s) /\ MshrsFit(s) /\ LockedAbove(s)
      /\ Inclusive(s, E) /\ Fetching(s, E) /\ UnsavedDirty(s)
  BY DEF Good
<1>2. /\ StateSound(t) /\ s.hits \subseteq t.hits /\ t.waits = s.waits /\ t.unsaved = s.unsaved
      /\ Has(s, k, a) /\ Has(t, k, a) /\ LineOf(t, k, a).lock = LineOf(s, k, a).lock
      /\ LineOf(t, k, a).dirty = (LineOf(s, k, a).dirty \/ write)
      /\ a \in Held(t, k) \/ HitPending(t, a)
  BY DEF Touched
<1>3. \A h \in Cache : Held(t, h) = Held(s, h)
  BY DEF Touched, Held
<1>4. ASSUME NEW h \in Cache, NEW b \in Block, h # k \/ b # a
      PROVE  /\ Has(t, h, b) <=> Has(s, h, b)
             /\ Has(s, h, b) => LineOf(t, h, b) = LineOf(s, h, b)
  <2>1. SameLines(s.caches[h], t.caches[h], sets(h), b)
    BY <1>4 DEF Touched, SameLines
  <2>. QED
    BY <2>1, Views DEF SameLines
<1>5. \A h \in Cache, b \in Block : <<h, b>> \in E => b = a /\ ~is_last_level(h) /\ lower_cache(h) = k
  <2>1. /\ \A b \in Block : b # a => \A h \in Cache : <<h, b>> \notin E
        /\ \A h \in Cache : <<h, a>> \in E => h \in higher_cache(k)
    BY AskedFacts
  <2>. QED
    BY <2>1, Above
<1>6. \A h \in Cache : ~is_last_level(h) => lower_cache(h) \in Cache
  BY Below
<1>7. \A h \in Cache, b \in Block : /\ Has(t, h, b) <=> Has(s, h, b)
                                    /\ Has(s, h, b) => LineOf(t, h, b).lock = LineOf(s, h, b).lock
                                    /\ Has(s, h, b) /\ LineOf(s, h, b).dirty => LineOf(t, h, b).dirty
  BY <1>2, <1>4
<1>8. LockedHaveMshrs(t)
  BY <1>1, <1>3, <1>7 DEF LockedHaveMshrs
<1>9. MshrsFit(t) /\ LockedAbove(t)
  BY <1>1, <1>3, <1>6 DEF MshrsFit, LockedAbove
<1>10. Inclusive(t, {})
  <2>1. ASSUME NEW h \in Cache, NEW b \in Block, ~is_last_level(h), Has(t, h, b)
        PROVE  Has(t, lower_cache(h), b)
    <3>1. Has(s, lower_cache(h), b) \/ <<h, b>> \in E
      BY <2>1, <1>1, <1>7 DEF Inclusive
    <3>. QED
      BY <3>1, <2>1, <1>2, <1>5, <1>6, <1>7
  <2>. QED
    BY <2>1 DEF Inclusive
<1>11. Fetching(t, {})
  <2>1. ASSUME NEW h \in Cache, NEW b \in Held(t, h)
        PROVE  Fetched(t, h, b) \/ HitPending(t, b)
    <3>1. b \in Held(s, h) /\ b \in Block
      BY <1>1, <1>3 DEF StateSound, CacheSound, LinesCache, Held
    <3>2. Fetched(s, h, b) \/ HitPending(s, b) \/ <<h, b>> \in E
      BY <3>1, <1>1 DEF Fetching
    <3>3. Fetched(s, h, b) => Fetched(t, h, b)
      BY <1>2, <1>3, <1>6 DEF Fetched
    <3>4. HitPending(s, b) => HitPending(t, b)
      BY <1>2 DEF HitPending
    <3>5. <<h, b>> \in E => Fetched(t, h, b) \/ HitPending(t, b)
      BY <3>1, <1>2, <1>5 DEF Fetched
    <3>. QED
      BY <3>2, <3>3, <3>4, <3>5
  <2>. QED
    BY <2>1 DEF Fetching
<1>12. UnsavedDirty(t)
  <2>1. \A b \in t.unsaved : b \in Block
    BY <1>2 DEF StateSound
  <2>. QED
    BY <2>1, <1>1, <1>2, <1>7 DEF UnsavedDirty
<1>. QED
  BY <1>2, <1>8, <1>9, <1>10, <1>11, <1>12 DEF Good

Awaits(r, t, a, left) == t = [r EXCEPT !.waits = Append(r.waits, [left |-> left, addr |-> a, type |-> "READ"])]

\* On the last level, the request to the memory answers for a new line.
LEMMA WaitedGood ==
  ASSUME Built, NEW r, NEW k \in Cache, is_last_level(k), NEW a \in Block, Good(r, {<<k, a>>}), NEW left,
         NEW t, Awaits(r, t, a, left)
  PROVE  Good(t, {}) /\ t.caches = r.caches /\ t.hits = r.hits /\ t.unsaved = r.unsaved
<1>. DEFINE e == [left |-> left, addr |-> a, type |-> "READ"]
            w == Append(r.waits, e)
<1>1. /\ StateSound(r) /\ LockedHaveMshrs(r) /\ MshrsFit(r) /\ LockedAbove(r)
      /\ Inclusive(r, {<<k, a>>}) /\ Fetching(r, {<<k, a>>}) /\ UnsavedDirty(r)
  BY DEF Good
<1>2. DOMAIN r = {"caches", "hits", "waits", "unsaved", "aborted"} /\ Requests(r.waits)
  BY <1>1 DEF StateSound
<1>3. e.addr = a /\ e.type = "READ" /\ DOMAIN e = {"left", "addr", "type"}
  OBVIOUS
<1>. HIDE DEF e
<1>4. Requests(w) /\ ReadWaits(w, a) /\ \A b : ReadWaits(r.waits, b) => ReadWaits(w, b)
  BY <1>2, <1>3, RequestAdded
<1>5. t = [r EXCEPT !.waits = w]
  BY DEF e, Awaits
<1>. HIDE DEF w
<1>6. /\ DOMAIN t = DOMAIN r /\ t.caches = r.caches /\ t.hits = r.hits /\ t.unsaved = r.unsaved
      /\ t.aborted = r.aborted /\ t.waits = w
  BY <1>2, <1>5
<1>7. StateSound(t)
  BY <1>1, <1>4, <1>6 DEF StateSound
<1>8. \A h, b : (Has(t, h, b) <=> Has(r, h, b)) /\ LineOf(t, h, b) = LineOf(r, h, b) /\ Held(t, h) = Held(r, h)
  BY <1>6 DEF Has, LineOf, lines, Held
<1>9. LockedHaveMshrs(t)
  BY <1>1, <1>8 DEF LockedHaveMshrs
<1>10. MshrsFit(t) /\ LockedAbove(t)
  BY <1>1, <1>8 DEF MshrsFit, LockedAbove
<1>11. Inclusive(t, {})
  BY <1>1, <1>8 DEF Inclusive
<1>12. Fetching(t, {})
  <2>1. ASSUME NEW h \in Cache, NEW b \in Held(t, h)
        PROVE  Fetched(t, h, b) \/ HitPending(t, b)
    <3>1. Fetched(r, h, b) \/ HitPending(r, b) \/ <<h, b>> = <<k, a>>
      BY <1>1, <1>8 DEF Fetching
    <3>2. Fetched(r, h, b) => Fetched(t, h, b)
      BY <1>4, <1>6, <1>8 DEF Fetched
    <3>3. <<h, b>> = <<k, a>> => Fetched(t, h, b)
      BY <1>4, <1>6 DEF Fetched
    <3>. QED
      BY <3>1, <3>2, <3>3, <1>6 DEF HitPending
  <2>. QED
    BY <2>1 DEF Fetching
<1>13. UnsavedDirty(t)
  BY <1>1, <1>6, <1>8 DEF UnsavedDirty
<1>. QED
  BY <1>6, <1>7, <1>9, <1>10, <1>11, <1>12, <1>13 DEF Good
-----------------------------------------------------------------------------
(* Requests                                                                *)

Extends(s, t) ==
  /\ \A h \in Cache : Held(s, h) \subseteq Held(t, h)
  /\ s.hits \subseteq t.hits /\ t.unsaved \subseteq s.unsaved

\* t is s after cache k has taken a request for block a.
Sent(s, t, k, a, write) ==
  /\ Good(t, {}) /\ Extends(s, t)
  /\ \A h \in AtOrAbove(k) \ {k} : SameLines(s.caches[h], t.caches[h], sets(h), a)
  /\ a \in Held(t, k) \/ HitPending(t, a)
  /\ write => Has(t, k, a) /\ LineOf(t, k, a).dirty

\* Only a request of a core may be refused.
Sends(s, res, E, k, a, write) ==
  \/ res.ok = TRUE /\ Sent(s, res.s, k, a, write)
  \/ res.ok = FALSE /\ res.s = s /\ E = {}

\* After either of these there is nothing left to do.
LEMMA TouchedSent ==
  ASSUME Built, NEW s, NEW E, Good(s, E), NEW k \in Cache, NEW a \in Block, Asked(s, E, k, a),
         NEW write \in BOOLEAN, NEW t, Touched(s, t, k, a, write)
  PROVE  Sent(s, t, k, a, write)
<1>1. Good(t, {})
  BY TouchedGood
<1>2. Extends(s, t)
  BY DEF Extends, Touched, Held
<1>3. ASSUME NEW h \in AtOrAbove(k) \ {k}
      PROVE  SameLines(s.caches[h], t.caches[h], sets(h), a)
  BY Tree DEF Touched, SameLines
<1>4. a \in Held(t, k) \/ HitPending(t, a)
  BY DEF Touched
<1>5. write => Has(t, k, a) /\ LineOf(t, k, a).dirty
  BY DEF Touched
<1>. QED
  BY <1>1, <1>2, <1>3, <1>4, <1>5 DEF Sent

\* What the level below does with the request of a miss.
LEMMA BelowSent ==
  ASSUME Built, NEW s, NEW k \in Cache, ~is_last_level(k), NEW a \in Block, NEW write \in BOOLEAN,
         NEW r, MissTaken(s, r, k, a, write), NEW t, Sent(r, t, lower_cache(k), a, FALSE)
  PROVE  Sent(s, t, k, a, write)
<1>. DEFINE j == lower_cache(k)
<1>1. /\ Good(t, {}) /\ Extends(r, t)
      /\ \A h \in AtOrAbove(j) \ {j} : SameLines(r.caches[h], t.caches[h], sets(h), a)
  BY DEF Sent
<1>2. /\ r.hits = s.hits /\ r.unsaved \subseteq s.unsaved
      /\ Has(r, k, a) /\ LineOf(r, k, a) = NewLine(a, write)
      /\ Held(r, k) = Held(s, k) \cup {a}
      /\ \A h \in Cache \ {k} : Held(r, h) = Held(s, h) /\ SameLines(s.caches[h], r.caches[h], sets(h), a)
  BY DEF MissTaken
<1>3. j \in Cache /\ k \in higher_cache(j)
  BY Below
<1>4. AtOrAbove(k) \subseteq AtOrAbove(j) /\ j \notin AtOrAbove(k) /\ k \in AtOrAbove(k) /\ AtOrAbove(k) \subseteq Cache
  BY <1>3, Tree
<1>. HIDE DEF j
<1>5. Extends(s, t)
  BY <1>1, <1>2 DEF Extends
<1>6. \A h \in AtOrAbove(k) \ {k} : SameLines(s.caches[h], t.caches[h], sets(h), a)
  BY <1>1, <1>2, <1>4 DEF SameLines
<1>7. a \in Held(t, k)
  BY <1>1, <1>2 DEF Extends
<1>8. Has(t, k, a) /\ LineOf(t, k, a) = LineOf(r, k, a)
  <2>1. SameLines(r.caches[k], t.caches[k], sets(k), a)
    BY <1>1, <1>4
  <2>. QED
    BY <2>1, <1>2, Views DEF SameLines
<1>9. write => LineOf(t, k, a).dirty
  BY <1>2, <1>8 DEF NewLine
<1>. QED
  BY <1>1, <1>5, <1>6, <1>7, <1>8, <1>9 DEF Sent

\* On the last level a miss waits for the memory.
LEMMA LastSent ==
  ASSUME Built, NEW s, NEW k \in Cache, is_last_level(k), NEW a \in Block, NEW write \in BOOLEAN,
         NEW r, MissTaken(s, r, k, a, write), NEW left,
         NEW t, Awaits(r, t, a, left)
  PROVE  Sent(s, t, k, a, write)
<1>1. Good(r, {<<k, a>>})
  BY DEF MissTaken
<1>2. Good(t, {}) /\ t.caches = r.caches /\ t.hits = r.hits /\ t.unsaved = r.unsaved
  BY <1>1, WaitedGood
<1>3. /\ r.hits = s.hits /\ r.unsaved \subseteq s.unsaved
      /\ Has(r, k, a) /\ LineOf(r, k, a) = NewLine(a, write)
      /\ Held(r, k) = Held(s, k) \cup {a}
      /\ \A h \in Cache \ {k} : Held(r, h) = Held(s, h) /\ SameLines(s.caches[h], r.caches[h], sets(h), a)
  BY DEF MissTaken
<1>4. PICK u : u = t
  OBVIOUS
<1>5. \A h : Held(u, h) = Held(r, h) /\ u.caches[h] = r.caches[h]
  BY <1>2, <1>4 DEF Held
<1>6. Extends(s, u)
  BY <1>2, <1>3, <1>4, <1>5 DEF Extends
<1>7. \A h \in AtOrAbove(k) \ {k} : SameLines(s.caches[h], u.caches[h], sets(h), a)
  BY <1>3, <1>5, Tree
<1>8. Has(u, k, a) /\ LineOf(u, k, a) = LineOf(r, k, a)
  BY <1>3, <1>5, Views
<1>9. write => LineOf(u, k, a).dirty
  BY <1>3, <1>8 DEF NewLine
<1>10. a \in Held(u, k)
  BY <1>3, <1>5
<1>11. Sent(s, u, k, a, write)
  BY <1>2, <1>4, <1>6, <1>7, <1>8, <1>9, <1>10 DEF Sent
<1>. QED
  BY <1>4, <1>11

\* Cache::send keeps the state good if the send of the next level does; unless the
\* processor asks, the request is not refused.
LEMMA AnsweredFacts ==
  ASSUME Built, NEW s, NEW E, Good(s, E), NEW k \in Cache, NEW a \in Block, NEW write \in BOOLEAN, Asked(s, E, k, a),
         NEW below,
         \A r : ~is_last_level(k) /\ r = Missed(s, k, a, write) /\ MissTaken(s, r, k, a, write) =>
                  Sends(r, below, {<<k, a>>}, lower_cache(k), a, FALSE),
         NEW res, res = Answered(s, k, a, write, PassedOn(Missed(s, k, a, write), k, a, below))
  PROVE  Sends(s, res, E, k, a, write)
<1>1. StateSound(s) /\ LockedHaveMshrs(s)
  BY DEF Good
<1>2. E = {} \/ \E u \in higher_cache(k) : a \in Held(s, u)
  BY DEF Asked
<1>3. CASE Unlocked(s, k, a)
  <2>1. PICK t : t = [Refreshed(s, k, a, [LineOf(s, k, a) EXCEPT !.dirty = @ \/ write])
                       EXCEPT !.hits = s.hits \cup {[left |-> latency[level(k)], addr |-> a]}]
    OBVIOUS
  <2>2. res = Accepted(t)
    BY <1>3, <2>1 DEF Answered
  <2>3. Touched(s, t, k, a, write)
    BY <1>1, <1>3, <2>1, HitFacts DEF Unlocked
  <2>4. Sent(s, t, k, a, write)
    BY <2>3, TouchedSent
  <2>. QED
    BY <2>2, <2>4 DEF Sends, Accepted
<1>4. CASE ~Unlocked(s, k, a) /\ a \in Held(s, k)
  <2>1. PICK t : t = WithLines(s, k, a, Joined(lines(s, k, a), a, write))
    OBVIOUS
  <2>2. res = Accepted(t)
    BY <1>4, <2>1 DEF Answered, Held
  <2>3. Touched(s, t, k, a, write)
    BY <1>1, <1>4, <2>1, JoinFacts DEF LockedHaveMshrs
  <2>4. Sent(s, t, k, a, write)
    BY <2>3, TouchedSent
  <2>. QED
    BY <2>2, <2>4 DEF Sends, Accepted
<1>5. CASE ~Unlocked(s, k, a) /\ a \notin Held(s, k)
  <2>1. ~Has(s, k, a)
    BY <1>1, <1>5 DEF LockedHaveMshrs, Unlocked
  <2>2. CASE Cardinality(Held(s, k)) = mshrs(k)
    <3>1. res = Refused(s)
      BY <1>5, <2>2 DEF Answered, Held
    <3>2. E = {}
      BY <1>2, <1>5, <2>2, MshrFree
    <3>. QED
      BY <3>1, <3>2 DEF Sends, Refused
  <2>3. CASE Cardinality(Held(s, k)) # mshrs(k) /\ SetFull(s, k, a) /\ Victims(s, k, a) = {}
    <3>1. res = Refused(s)
      BY <1>5, <2>1, <2>3 DEF Answered, Held
    <3>2. E = {}
      BY <1>2, <2>1, <2>3, VictimFree
    <3>. QED
      BY <3>1, <3>2 DEF Sends, Refused
  <2>4. CASE Cardinality(Held(s, k)) # mshrs(k) /\ ~(SetFull(s, k, a) /\ Victims(s, k, a) = {})
    <3>1. PICK r : r = Missed(s, k, a, write)
      OBVIOUS
    <3>2. MissTaken(s, r, k, a, write)
      BY <1>5, <2>1, <2>4, <3>1, MissedFacts
    <3>3. CASE is_last_level(k)
      <4>1. PICK t : t = [r EXCEPT !.waits = Append(r.waits, [left |-> latency[level(k)], addr |-> a, type |-> "READ"])]
        OBVIOUS
      <4>2. PassedOn(r, k, a, below) = t
        BY <3>3, <4>1 DEF PassedOn
      <4>3. res = Accepted(t)
        BY <1>5, <2>1, <2>4, <3>1, <4>2 DEF Answered, Held
      <4>4. Awaits(r, t, a, latency[level(k)])
        BY <4>1 DEF Awaits
      <4>5. Sent(s, t, k, a, write)
        BY <3>2, <3>3, <4>4, LastSent
      <4>. QED
        BY <4>3, <4>5 DEF Sends, Accepted
    <3>4. CASE ~is_last_level(k)
      <4>1. Sends(r, below, {<<k, a>>}, lower_cache(k), a, FALSE)
        BY <3>1, <3>2, <3>4
      <4>2. below.ok = TRUE /\ Sent(r, below.s, lower_cache(k), a, FALSE)
        BY <4>1 DEF Sends
      <4>3. PICK t : t = below.s
        OBVIOUS
      <4>4. PassedOn(r, k, a, below) = t
        BY <3>4, <4>2, <4>3 DEF PassedOn
      <4>5. res = Accepted(t)
        BY <1>5, <2>1, <2>4, <3>1, <4>4 DEF Answered, Held
      <4>6. Sent(s, t, k, a, write)
        BY <3>2, <3>4, <4>2, <4>3, BelowSent
      <4>. QED
        BY <4>5, <4>6 DEF Sends, Accepted
    <3>. QED
      BY <3>3, <3>4
  <2>. QED
    BY <2>2, <2>3, <2>4
<1>. QED
  BY <1>3, <1>4, <1>5

\* A miss asks the level below.
LEMMA BelowAsked ==
  ASSUME Built, NEW s, NEW k \in Cache, ~is_last_level(k), NEW a \in Block, NEW write \in BOOLEAN,
         NEW r, MissTaken(s, r, k, a, write)
  PROVE  /\ lower_cache(k) \in Cache /\ level(lower_cache(k)) = level(k) + 1
         /\ Good(r, {<<k, a>>}) /\ Asked(r, {<<k, a>>}, lower_cache(k), a)
<1>1. k \in higher_cache(lower_cache(k)) /\ lower_cache(k) \in Cache /\ level(lower_cache(k)) = level(k) + 1
  BY Below
<1>2. a \in Held(r, k) /\ Good(r, {<<k, a>>})
  BY DEF MissTaken
<1>. QED
  BY <1>1, <1>2 DEF Asked

\* Cache::send of L3,
LEMMA SendL3 ==
  ASSUME Built, NEW s, NEW E, Good(s, E), NEW k \in Cache, NEW a \in Block, NEW write \in BOOLEAN, Asked(s, E, k, a),
         level(k) = L3, NEW res, res = send_L3(s, k, a, write)
  PROVE  Sends(s, res, E, k, a, write)
<1>1. is_last_level(k)
  BY Chains DEF is_last_level, level, SharedL3, L1, L2, L3
<1>2. PICK below : below = Refused(Missed(s, k, a, write))
  OBVIOUS
<1>3. res = Answered(s, k, a, write, PassedOn(Missed(s, k, a, write), k, a, below))
  BY <1>2 DEF send_L3
<1>. QED
  BY <1>1, <1>3, AnsweredFacts

\* of L2,
LEMMA SendL2 ==
  ASSUME Built, NEW s, NEW E, Good(s, E), NEW k \in Cache, NEW a \in Block, NEW write \in BOOLEAN, Asked(s, E, k, a),
         level(k) = L2, NEW res, res = send_L2(s, k, a, write)
  PROVE  Sends(s, res, E, k, a, write)
<1>1. PICK m, j, F : m = Missed(s, k, a, write) /\ j = lower_cache(k) /\ F = {<<k, a>>}
  OBVIOUS
<1>2. PICK below : below = send_L3(m, j, a, FALSE)
  OBVIOUS
<1>3. ASSUME NEW r, ~is_last_level(k), r = m, MissTaken(s, r, k, a, write)
      PROVE  Sends(r, below, F, j, a, FALSE)
  <2>1. j \in Cache /\ level(j) = L3 /\ Good(r, F) /\ Asked(r, F, j, a)
    BY <1>1, <1>3, BelowAsked DEF L2, L3
  <2>. QED
    BY <1>2, <1>3, <2>1, SendL3
<1>4. res = Answered(s, k, a, write, PassedOn(Missed(s, k, a, write), k, a, below))
  BY <1>1, <1>2 DEF send_L2
<1>5. \A r : ~is_last_level(k) /\ r = Missed(s, k, a, write) /\ MissTaken(s, r, k, a, write) =>
               Sends(r, below, {<<k, a>>}, lower_cache(k), a, FALSE)
  BY <1>1, <1>3
<1>. QED
  BY <1>4, <1>5, AnsweredFacts

\* and of L1.
LEMMA SendL1 ==
  ASSUME Built, NEW s, NEW E, Good(s, E), NEW k \in Cache, NEW a \in Block, NEW write \in BOOLEAN, Asked(s, E, k, a),
         level(k) = L1, NEW res, res = send_L1(s, k, a, write)
  PROVE  Sends(s, res, E, k, a, write)
<1>1. PICK m, j, F : m = Missed(s, k, a, write) /\ j = lower_cache(k) /\ F = {<<k, a>>}
  OBVIOUS
<1>2. PICK below : below = send_L2(m, j, a, FALSE)
  OBVIOUS
<1>3. ASSUME NEW r, ~is_last_level(k), r = m, MissTaken(s, r, k, a, write)
      PROVE  Sends(r, below, F, j, a, FALSE)
  <2>1. j \in Cache /\ level(j) = L2 /\ Good(r, F) /\ Asked(r, F, j, a)
    BY <1>1, <1>3, BelowAsked DEF L1, L2
  <2>. QED
    BY <1>2, <1>3, <2>1, SendL2
<1>4. res = Answered(s, k, a, write, PassedOn(Missed(s, k, a, write), k, a, below))
  BY <1>1, <1>2 DEF send_L1
<1>5. \A r : ~is_last_level(k) /\ r = Missed(s, k, a, write) /\ MissTaken(s, r, k, a, write) =>
               Sends(r, below, {<<k, a>>}, lower_cache(k), a, FALSE)
  BY <1>1, <1>3
<1>. QED
  BY <1>4, <1>5, AnsweredFacts

\* A request of a core.
LEMMA SendFacts ==
  ASSUME Built, NEW s, Good(s, {}), NEW c \in config.cores, NEW a \in Block, NEW write \in BOOLEAN,
         NEW res, res = send(s, first_level_cache(c), a, write)
  PROVE  first_level_cache(c) \in Cache /\ Sends(s, res, {}, first_level_cache(c), a, write)
<1>1. PICK k : k = first_level_cache(c)
  OBVIOUS
<1>2. k \in Cache /\ higher_cache(k) = {} /\ level(k) \in {L1, L3}
  BY <1>1, Chains DEF first_level_cache, higher_cache, level, SharedL3, L1, L2, L3
<1>3. Asked(s, {}, k, a)
  BY <1>2 DEF Asked
<1>4. CASE level(k) = L1
  <2>1. res = send_L1(s, k, a, write)
    BY <1>1, <1>4 DEF send, L1, L2, L3
  <2>. QED
    BY <1>1, <1>2, <1>3, <1>4, <2>1, SendL1
<1>5. CASE level(k) = L3
  <2>1. res = send_L3(s, k, a, write)
    BY <1>1, <1>5 DEF send, L1, L2, L3
  <2>. QED
    BY <1>1, <1>2, <1>3, <1>5, <2>1, SendL3
<1>. QED
  BY <1>2, <1>4, <1>5
-----------------------------------------------------------------------------
(* Ticks                                                                   *)

\* A loop over an empty list.
LEMMA PastTheEnd ==
  ASSUME NEW k, NEW l, l.i = 1, Len(l.s.caches[k].retry_list) = 0
  PROVE  Retry(k, l) = l
BY DEF Retry

\* Cache::tick with nothing to retry does nothing.
LEMMA NothingToRetry ==
  ASSUME NEW s, NEW k, s.caches[k].retry_list = <<>>
  PROVE  Retried(s, k) = s
<1>. DEFINE list == s.caches[k].retry_list
            N == (Len(list) + 1) * (Len(list) + 1)
            base == [s |-> s, i |-> 1]
            P(f, n) == f = [turns \in 0 .. n |-> IF turns = 0 THEN base ELSE Retry(k, f[turns - 1])]
            loop == CHOOSE f : P(f, N)
            g == [turns \in 0 .. 1 |-> base]
<1>1. Retried(s, k) = loop[N].s
  BY DEF Retried
<1>2. N = 1 /\ Len(list) = 0
  <2>1. Len(list) = 0
    OBVIOUS
  <2>. QED
    BY <2>1
<1>3. Retry(k, base) = base
  <2>1. base.i = 1 /\ Len(base.s.caches[k].retry_list) = 0
    BY <1>2
  <2>. QED
    BY <2>1, PastTheEnd
<1>4. base.s = s
  OBVIOUS
<1>. HIDE DEF base, list
<1>5. P(g, 1)
  <2>1. \A turns \in 0 .. 1 : g[turns] = IF turns = 0 THEN base ELSE Retry(k, g[turns - 1])
    BY <1>3
  <2>. QED
    BY <2>1
<1>6. \E f : P(f, N)
  BY <1>2, <1>5
<1>7. P(loop, N)
  <2>. HIDE DEF P, N
  <2>. QED
    BY <1>6
<1>. HIDE DEF loop
<1>8. loop[0] = base /\ loop[1] = Retry(k, loop[0])
  BY <1>2, <1>7
<1>. QED
  BY <1>1, <1>2, <1>3, <1>4, <1>8

\* No level below the first refuses a request, so no cache has one to retry.
LEMMA TickFacts ==
  ASSUME Built, NEW s, StateSound(s), NEW c \in config.cores
  PROVE  tick(s, c) = s
<1>1. \A k \in Cache : s.caches[k].retry_list = <<>>
  BY DEF StateSound, CacheSound, LinesCache
<1>2. CASE config.first_level # L1
  BY <1>2 DEF tick
<1>3. CASE config.first_level = L1 /\ config.last_level = L2
  <2>1. <<L1, c>> \in Cache
    BY <1>3, Chains DEF L1, L2, L3
  <2>2. Retried(s, <<L1, c>>) = s
    BY <1>1, <2>1, NothingToRetry
  <2>. QED
    BY <1>3, <2>2 DEF tick
<1>4. CASE config.first_level = L1 /\ config.last_level = L3
  <2>1. <<L1, c>> \in Cache /\ <<L2, c>> \in Cache
    BY <1>4, Chains DEF L1, L2, L3
  <2>2. Retried(s, <<L1, c>>) = s /\ Retried(s, <<L2, c>>) = s
    BY <1>1, <2>1, NothingToRetry
  <2>. QED
    BY <1>4, <2>2 DEF tick, L2, L3
<1>. QED
  BY <1>2, <1>3, <1>4, Chains
-----------------------------------------------------------------------------
(* The next state                                                          *)

\* Good(t, {}), for the reads m that the memory has accepted.
Supplied(m, t, k, a) ==
  IF is_last_level(k) THEN m[a] > 0 \/ ReadWaits(t.waits, a) ELSE a \in Held(t, lower_cache(k))
GoodWith(m, t) ==
  /\ StateSound(t) /\ LockedHaveMshrs(t) /\ MshrsFit(t) /\ LockedAbove(t) /\ Inclusive(t, {})
  /\ \A k \in Cache : \A a \in Held(t, k) : Supplied(m, t, k, a) \/ HitPending(t, a)
  /\ UnsavedDirty(t)

Becomes(t) ==
  /\ config' = config
  /\ t.caches = caches' /\ t.hits = hit_list' /\ t.waits = wait_list' /\ t.unsaved = unsaved' /\ t.aborted = aborted'

\* The next state is good if the record the step has computed is.
LEMMA NextGood ==
  ASSUME NEW t, Becomes(t), GoodWith(memory', t)
  PROVE  Good(Now, {})'
<1>1. Cache' = Cache
  BY DEF Becomes, Cache
<1>2. \A k \in Cache : is_last_level(k)' <=> is_last_level(k)
  BY DEF Becomes, is_last_level
<1>3. \A k \in Cache : mshrs(k)' = mshrs(k)
  BY DEF Becomes, mshrs
<1>4. /\ Now.caches' = t.caches /\ Now.hits' = t.hits /\ Now.waits' = t.waits /\ Now.unsaved' = t.unsaved
      /\ Now.aborted' = t.aborted
  BY DEF Now, Becomes
<1>5. \A k, a : Has(Now, k, a)' <=> Has(t, k, a)
  BY <1>4 DEF Has, lines
<1>6. \A k, a : LineOf(Now, k, a)' = LineOf(t, k, a)
  BY <1>4 DEF LineOf, lines
<1>7. \A k : Held(Now, k)' = Held(t, k)
  BY <1>4 DEF Held
<1>8. StateSound(Now)'
  BY <1>1, <1>4 DEF StateSound, Now, GoodWith
<1>9. LockedHaveMshrs(Now)'
  BY <1>1, <1>5, <1>6, <1>7 DEF LockedHaveMshrs, GoodWith
<1>10. MshrsFit(Now)'
  BY <1>1, <1>3, <1>7 DEF MshrsFit, GoodWith
<1>11. LockedAbove(Now)'
  BY <1>1, <1>2, <1>7 DEF LockedAbove, GoodWith
<1>12. Inclusive(Now, {})'
  BY <1>1, <1>2, <1>5 DEF Inclusive, GoodWith
<1>13. \A a : HitPending(Now, a)' <=> HitPending(t, a)
  BY <1>4 DEF HitPending
<1>14. \A k \in Cache, a \in Block : Fetched(Now, k, a)' <=> Supplied(memory', t, k, a)
  BY <1>2, <1>4, <1>7 DEF Fetched, Supplied
<1>15. Fetching(Now, {})'
  BY <1>1, <1>7, <1>13, <1>14 DEF Fetching, GoodWith, StateSound, CacheSound, LinesCache, Held
<1>16. UnsavedDirty(Now)'
  BY <1>1, <1>4, <1>5, <1>6 DEF UnsavedDirty, GoodWith
<1>. QED
  BY <1>8, <1>9, <1>10, <1>11, <1>12, <1>15, <1>16 DEF Good
-----------------------------------------------------------------------------
(* Answers                                                                 *)

Unlocks(s, t, A) ==
  /\ t.caches = Unlock(s.caches, A)
  /\ DOMAIN t = {"caches", "hits", "waits", "unsaved", "aborted"}
  /\ t.hits \subseteq [left : Nat, addr : Block] /\ Requests(t.waits)
  /\ t.unsaved = s.unsaved /\ t.aborted = FALSE

\* The blocks other than A are on their way in t if they were in s.
StillUnderway(s, t, m, A) ==
  \A a \in Block \ A :
    /\ memory[a] > 0 \/ ReadWaits(s.waits, a) => m[a] > 0 \/ ReadWaits(t.waits, a)
    /\ HitPending(s, a) => HitPending(t, a)

\* All caches unlock the blocks A.
LEMMA UnlockedGood ==
  ASSUME Built, NEW s, Good(s, {}), NEW A, NEW m, NEW t, Unlocks(s, t, A),
         StillUnderway(s, t, m, A)
  PROVE  GoodWith(m, t) /\ \A k \in Cache : Held(t, k) = Held(s, k) \ A
<1>1. /\ StateSound(s) /\ LockedHaveMshrs(s) /\ MshrsFit(s) /\ LockedAbove(s)
      /\ Inclusive(s, {}) /\ Fetching(s, {}) /\ UnsavedDirty(s)
  BY DEF Good
<1>2. ASSUME NEW k \in Cache
      PROVE  /\ CacheSound(t.caches[k], sets(k)) /\ Held(t, k) = Held(s, k) \ A /\ Held(s, k) \subseteq Block
             /\ \A b \in Block :
                  /\ Has(t, k, b) <=> Has(s, k, b)
                  /\ Has(s, k, b) => /\ LineOf(t, k, b).lock <=> LineOf(s, k, b).lock /\ b \notin A \cap Held(s, k)
                                     /\ LineOf(t, k, b).dirty = LineOf(s, k, b).dirty
  <2>1. CacheSound(s.caches[k], sets(k)) /\ sets(k) \in Nat \ {0}
    BY <1>1, Levels DEF StateSound
  <2>2. PICK c, d, n : c = s.caches[k] /\ d = t.caches[k] /\ n = sets(k)
    OBVIOUS
  <2>3. Answers(c, d, A)
    <3>1. t.caches = Unlock(s.caches, A)
      BY DEF Unlocks
    <3>2. t.caches[k] = [lines |-> [i \in DOMAIN s.caches[k].lines |-> UnlockedLines(s.caches[k].lines[i], A \cap s.caches[k].mshr_entries)],
                         mshr_entries |-> s.caches[k].mshr_entries \ A,
                         retry_list |-> s.caches[k].retry_list]
      BY <3>1 DEF Unlock
    <3>. QED
      BY <2>2, <3>2 DEF Answers
  <2>4. /\ CacheSound(d, n) /\ d.mshr_entries = c.mshr_entries \ A
        /\ \A b \in Block :
             /\ CacheHas(d, n, b) <=> CacheHas(c, n, b)
             /\ CacheHas(c, n, b) =>
                  /\ CacheLineOf(d, n, b).lock <=> CacheLineOf(c, n, b).lock /\ b \notin A \cap c.mshr_entries
                  /\ CacheLineOf(d, n, b).dirty = CacheLineOf(c, n, b).dirty
    BY <2>1, <2>2, <2>3, UnlockedCache
  <2>5. Held(s, k) \subseteq Block
    BY <2>1 DEF Held, CacheSound, LinesCache
  <2>6. \A x, b : (Has(x, k, b) <=> CacheHas(x.caches[k], sets(k), b)) /\ LineOf(x, k, b) = CacheLineOf(x.caches[k], sets(k), b)
    BY Views
  <2>7. Held(s, k) = c.mshr_entries /\ Held(t, k) = d.mshr_entries
    BY <2>2 DEF Held
  <2>. QED
    BY <2>2, <2>4, <2>5, <2>6, <2>7
<1>3. StateSound(t)
  <2>1. DOMAIN t.caches = Cache
    BY DEF Unlocks, Unlock
  <2>. QED
    BY <2>1, <1>1, <1>2 DEF StateSound, Unlocks
<1>4. LockedHaveMshrs(t)
  BY <1>1, <1>2 DEF LockedHaveMshrs
<1>5. MshrsFit(t)
  <2>1. \A T, S : IsFiniteSet(S) /\ T \subseteq S => IsFiniteSet(T) /\ Cardinality(T) <= Cardinality(S)
    BY FS_Subset
  <2>2. \A S : IsFiniteSet(S) => Cardinality(S) \in Nat
    BY FS_CardinalityType
  <2>3. ASSUME NEW k \in Cache
        PROVE  IsFiniteSet(Held(t, k)) /\ Cardinality(Held(t, k)) <= mshrs(k)
    <3>1. IsFiniteSet(Held(s, k)) /\ Cardinality(Held(s, k)) <= mshrs(k)
      BY <1>1 DEF MshrsFit
    <3>2. Held(t, k) \subseteq Held(s, k)
      BY <1>2
    <3>3. IsFiniteSet(Held(t, k)) /\ Cardinality(Held(t, k)) <= Cardinality(Held(s, k))
      BY <2>1, <3>1, <3>2
    <3>4. Cardinality(Held(t, k)) \in Nat /\ Cardinality(Held(s, k)) \in Nat /\ mshrs(k) \in Nat
      BY <2>2, <3>1, <3>3, Levels
    <3>. QED
      BY <3>1, <3>3, <3>4
  <2>. QED
    BY <2>3 DEF MshrsFit
<1>6. \A k \in Cache : ~is_last_level(k) => lower_cache(k) \in Cache
  BY Below
<1>7. LockedAbove(t)
  BY <1>1, <1>2, <1>6 DEF LockedAbove
<1>8. Inclusive(t, {})
  BY <1>1, <1>2, <1>6 DEF Inclusive
<1>9. ASSUME NEW k \in Cache, NEW a \in Held(t, k)
      PROVE  Supplied(m, t, k, a) \/ HitPending(t, a)
  <2>1. a \in Held(s, k) /\ a \in Block \ A
    BY <1>2
  <2>2. Fetched(s, k, a) \/ HitPending(s, a)
    BY <2>1, <1>1 DEF Fetching
  <2>3. Fetched(s, k, a) => Supplied(m, t, k, a)
    BY <2>1, <1>2, <1>6 DEF Fetched, Supplied, StillUnderway
  <2>. QED
    BY <2>1, <2>2, <2>3 DEF StillUnderway
<1>10. UnsavedDirty(t)
  <2>1. \A a \in t.unsaved : a \in Block /\ a \in s.unsaved
    BY <1>1 DEF Unlocks, StateSound
  <2>. QED
    BY <2>1, <1>1, <1>2 DEF UnsavedDirty
<1>. QED
  BY <1>2, <1>3, <1>4, <1>5, <1>7, <1>8, <1>9, <1>10 DEF GoodWith

\* The loads of the blocks A become ready.
LEMMA ReadyFacts ==
  ASSUME Built, NEW s, NEW t, NEW A, NEW c \in config.cores, NEW w \in Seq(Load), LoadsFetched(w, s, c),
         \A k \in Cache : Held(t, k) = Held(s, k) \ A,
         \A a \in Block \ A : HitPending(s, a) => HitPending(t, a)
  PROVE  set_ready(w, A) \in Seq(Load) /\ LoadsFetched(set_ready(w, A), t, c)
<1>. DEFINE r == set_ready(w, A)
<1>1. first_level_cache(c) \in Cache
  BY Chains DEF first_level_cache, SharedL3, L1, L2, L3
<1>2. Len(w) \in Nat /\ DOMAIN w = 1 .. Len(w) /\ \A i \in DOMAIN w : w[i] \in Load
  OBVIOUS
<1>3. DOMAIN r = DOMAIN w /\ \A i \in DOMAIN w : r[i] = [w[i] EXCEPT !.ready = w[i].ready \/ w[i].addr \in A]
  BY DEF set_ready
<1>4. r = [i \in 1 .. Len(w) |-> r[i]]
  BY <1>2 DEF set_ready
<1>. HIDE DEF r
<1>5. ASSUME NEW i \in DOMAIN w
      PROVE  /\ r[i] \in Load /\ r[i].addr = w[i].addr /\ w[i].addr \in Block
             /\ r[i].ready <=> w[i].ready \/ w[i].addr \in A
  <2>1. PICK l \in Load : l = w[i]
    BY <1>2
  <2>2. PICK b \in BOOLEAN : b = (w[i].ready \/ w[i].addr \in A)
    BY <2>1 DEF Load
  <2>3. r[i] = [l EXCEPT !.ready = b]
    BY <2>1, <2>2, <1>3
  <2>4. r[i] \in Load /\ r[i].addr = l.addr /\ r[i].ready = b /\ l.addr \in Block
    BY <2>3 DEF Load
  <2>. QED
    BY <2>1, <2>2, <2>4
<1>6. r \in Seq(Load)
  BY <1>2, <1>4, <1>5
<1>7. LoadsFetched(r, t, c)
  <2>1. ASSUME NEW i \in DOMAIN w
        PROVE  r[i].ready \/ r[i].addr \in Held(t, first_level_cache(c)) \/ HitPending(t, r[i].addr)
    <3>1. w[i].ready \/ w[i].addr \in Held(s, first_level_cache(c)) \/ HitPending(s, w[i].addr)
      BY DEF LoadsFetched
    <3>. QED
      BY <3>1, <1>1, <1>5
  <2>. QED
    BY <2>1, <1>3 DEF LoadsFetched
<1>. QED
  BY <1>6, <1>7 DEF r

\* The greatest of a set of numbers that are at most b.
LEMMA MaxFacts ==
  ASSUME NEW b \in Nat, NEW S, S \subseteq 0 .. b, S # {}
  PROVE  Max(S) \in S
<1>. DEFINE T == {d \in 0 .. b : b - d \in S}
<1>1. T \subseteq Nat /\ T # {}
  <2>1. PICK x \in S : TRUE
    OBVIOUS
  <2>2. b - x \in 0 .. b /\ b - (b - x) = x
    BY <2>1
  <2>. QED
    BY <2>1, <2>2
<1>2. PICK d \in T : \A e \in T : d <= e
  BY <1>1, Least
<1>3. b - d \in S /\ \A y \in S : b - d >= y
  <2>1. ASSUME NEW y \in S
        PROVE  b - d >= y
    <3>1. b - y \in 0 .. b /\ b - (b - y) = y
      OBVIOUS
    <3>2. d <= b - y
      BY <3>1, <1>2
    <3>. QED
      BY <3>1, <3>2
  <2>. QED
    BY <2>1
<1>. QED
  BY <1>3 DEF Max

\* What stays in the window after loads have left it.
LEMMA RetireFacts ==
  ASSUME NEW w \in Seq(Load)
  PROVE  retire(w) \in Seq(Load) /\ ToSet(retire(w)) \subseteq ToSet(w)
<1>. DEFINE b == Min({ipc, Len(w)})
            S == {i \in 0 .. b : \A j \in 1 .. i : w[j].ready}
            n == Max(S)
<1>1. Len(w) \in Nat /\ ipc \in Nat
  BY SizeAssumption
<1>2. b \in Nat /\ b <= Len(w)
  <2>1. {ipc, Len(w)} \subseteq Nat /\ {ipc, Len(w)} # {}
    BY <1>1
  <2>2. b \in {ipc, Len(w)} /\ \A y \in {ipc, Len(w)} : b <= y
    BY <2>1, MinFacts
  <2>. HIDE DEF b
  <2>. QED
    BY <2>2, <1>1
<1>. HIDE DEF b
<1>3. S \subseteq 0 .. b /\ S # {}
  <2>1. 0 \in S
    BY <1>2
  <2>. QED
    BY <2>1
<1>. HIDE DEF S
<1>4. n \in S
  BY <1>2, <1>3, MaxFacts
<1>5. n \in Nat /\ n <= Len(w)
  <2>1. n \in 0 .. b
    BY <1>3, <1>4
  <2>. HIDE DEF n
  <2>. QED
    BY <2>1, <1>1, <1>2
<1>6. retire(w) = SubSeq(w, n + 1, Len(w))
  BY DEF retire, S, b
<1>. HIDE DEF n
<1>7. \A i \in n + 1 .. Len(w) : w[i] \in Load
  BY <1>1, <1>5
<1>8. PICK r : r = SubSeq(w, n + 1, Len(w))
  OBVIOUS
<1>9. /\ r \in Seq(Load)
      /\ \A i \in DOMAIN r : r[i] \in ToSet(w)
  <2>1. /\ r \in Seq(Load)
        /\ Len(r) = IF n + 1 <= Len(w) THEN Len(w) - (n + 1) + 1 ELSE 0
        /\ \A i \in 1 .. Len(w) - (n + 1) + 1 : r[i] = w[(n + 1) + i - 1]
    BY <1>1, <1>5, <1>7, <1>8, SubSeqProperties
  <2>2. DOMAIN r = 1 .. Len(r)
    BY <2>1
  <2>3. ASSUME NEW i \in DOMAIN r
        PROVE  r[i] \in ToSet(w)
    <3>1. i \in 1 .. Len(w) - (n + 1) + 1 /\ (n + 1) + i - 1 \in 1 .. Len(w)
      BY <1>1, <1>5, <2>1, <2>2
    <3>2. r[i] = w[(n + 1) + i - 1]
      BY <2>1, <3>1
    <3>. QED
      BY <3>1, <3>2 DEF ToSet
  <2>. QED
    BY <2>1, <2>3
<1>. QED
  BY <1>6, <1>8, <1>9 DEF ToSet
-----------------------------------------------------------------------------
(* The requests that the memory does not accept                            *)

Rests(f, n, w, accepted) ==
  f = [i \in 0 .. n |-> IF i = 0 THEN <<>> ELSE IF i \in accepted THEN f[i - 1] ELSE Append(f[i - 1], w[i])]

\* The requests that the memory does not accept, as the fold that CacheSystemTick uses.
LEMMA RestExists ==
  ASSUME NEW X, NEW w \in Seq(X), NEW accepted, NEW n, n = Len(w)
  PROVE  \E f : Rests(f, n, w, accepted)
<1>. DEFINE step == [i \in 0 .. n - 1 |-> [q \in Seq(X) |-> IF i + 1 \in accepted THEN q ELSE Append(q, w[i + 1])]]
<1>1. n \in Nat /\ <<>> \in Seq(X) /\ \A i \in 0 .. n - 1 : w[i + 1] \in X
  OBVIOUS
<1>2. step \in [0 .. n - 1 -> [Seq(X) -> Seq(X)]]
  BY <1>1
<1>3. ASSUME NEW i \in 1 .. n, NEW q \in Seq(X)
      PROVE  step[i - 1][q] = IF i \in accepted THEN q ELSE Append(q, w[i])
  <2>1. i - 1 \in 0 .. n - 1 /\ i - 1 + 1 = i
    BY <1>1
  <2>. QED
    BY <2>1
<1>. HIDE DEF step
<1>4. PICK f \in [0 .. n -> Seq(X)] : Iterates(f, n, <<>>, step)
  BY <1>1, <1>2, Recursion
<1>5. f = [i \in 0 .. n |-> IF i = 0 THEN <<>> ELSE step[i - 1][f[i - 1]]]
  BY <1>4 DEF Iterates
<1>6. ASSUME NEW i \in 0 .. n
      PROVE  f[i] = IF i = 0 THEN <<>> ELSE IF i \in accepted THEN f[i - 1] ELSE Append(f[i - 1], w[i])
  <2>1. CASE i = 0
    BY <2>1, <1>5
  <2>2. CASE i # 0
    <3>1. i \in 1 .. n /\ i - 1 \in 0 .. n
      BY <2>2, <1>1
    <3>2. f[i - 1] \in Seq(X)
      BY <3>1, <1>4
    <3>3. f[i] = step[i - 1][f[i - 1]]
      BY <2>2, <1>5
    <3>. QED
      BY <2>2, <3>1, <3>2, <3>3, <1>3
  <2>. QED
    BY <2>1, <2>2
<1>7. Rests(f, n, w, accepted)
  <2>1. f = [i \in 0 .. n |-> f[i]]
    BY <1>4
  <2>. QED
    BY <2>1, <1>6 DEF Rests
<1>. QED
  BY <1>7

\* Nothing is lost.
LEMMA RestFacts ==
  ASSUME NEW X, NEW w \in Seq(X), NEW accepted, NEW n, n = Len(w), NEW f, Rests(f, n, w, accepted)
  PROVE  f[n] \in Seq(X) /\ \A j \in 1 .. n \ accepted : w[j] \in ToSet(f[n])
<1>. DEFINE T == {i \in 0 .. n : f[i] \in Seq(X) /\ \A j \in 1 .. i \ accepted : w[j] \in ToSet(f[i])}
<1>1. n \in Nat /\ <<>> \in Seq(X) /\ \A i \in 1 .. n : w[i] \in X
  OBVIOUS
<1>2. /\ f[0] = <<>>
      /\ \A i \in 0 .. n - 1 : f[i + 1] = IF i + 1 \in accepted THEN f[i] ELSE Append(f[i], w[i + 1])
  <2>1. \A i \in 0 .. n : f[i] = IF i = 0 THEN <<>> ELSE IF i \in accepted THEN f[i - 1] ELSE Append(f[i - 1], w[i])
    BY Zenon DEF Rests
  <2>2. ASSUME NEW i \in 0 .. n - 1
        PROVE  i + 1 \in 0 .. n /\ i + 1 # 0 /\ i + 1 - 1 = i
    BY <1>1
  <2>. QED
    BY <1>1, <2>1, <2>2
<1>3. 0 \in T
  <2>1. 1 .. 0 = {} /\ 0 \in 0 .. n
    BY <1>1
  <2>2. f[0] \in Seq(X)
    BY <1>1, <1>2
  <2>. QED
    BY <2>1, <2>2
<1>4. ASSUME NEW i \in 0 .. n - 1, i \in T
      PROVE  i + 1 \in T
  <2>1. f[i] \in Seq(X) /\ \A j \in 1 .. i \ accepted : w[j] \in ToSet(f[i])
    BY <1>4
  <2>2. i + 1 \in 1 .. n /\ w[i + 1] \in X
    BY <1>1
  <2>3. CASE i + 1 \in accepted
    <3>1. f[i + 1] = f[i]
      BY <2>3, <1>2
    <3>. QED
      BY <2>1, <2>2, <2>3, <3>1
  <2>4. CASE i + 1 \notin accepted
    <3>1. f[i + 1] = Append(f[i], w[i + 1])
      BY <2>4, <1>2
    <3>2. PICK p, r, e : p = f[i] /\ r = Append(p, e) /\ e = w[i + 1]
      OBVIOUS
    <3>3. /\ r \in Seq(X) /\ DOMAIN r = DOMAIN p \cup {Len(p) + 1}
          /\ \A x \in DOMAIN p : r[x] = p[x]
          /\ r[Len(p) + 1] = e
      BY <2>1, <2>2, <3>2, Appended
    <3>4. ToSet(p) \subseteq ToSet(r) /\ e \in ToSet(r)
      BY <3>3 DEF ToSet
    <3>5. f[i + 1] = r
      BY <3>1, <3>2
    <3>6. ASSUME NEW j \in 1 .. i + 1 \ accepted
          PROVE  w[j] \in ToSet(r)
      <4>1. CASE j = i + 1
        BY <4>1, <3>2, <3>4
      <4>2. CASE j # i + 1
        <5>1. j \in 1 .. i \ accepted
          BY <4>2
        <5>. QED
          BY <5>1, <2>1, <3>2, <3>4
      <4>. QED
        BY <4>1, <4>2
    <3>. QED
      BY <2>2, <3>3, <3>5, <3>6
  <2>. QED
    BY <2>3, <2>4
<1>5. n \in T
  <2>. HIDE DEF T
  <2>1. 0 .. n \subseteq T
    BY <1>1, <1>3, <1>4, Induction
  <2>. QED
    BY <1>1, <2>1
<1>. QED
  BY <1>5

\* Passed leaves the block and the type of a request alone.
LEMMA PassedRequest ==
  ASSUME NEW e, DOMAIN e = {"left", "addr", "type"}
  PROVE  Passed(e).addr = e.addr /\ Passed(e).type = e.type /\ DOMAIN Passed(e) = {"left", "addr", "type"}
BY DEF Passed

\* A tick leaves the block of a hit alone.
LEMMA PassedHit ==
  ASSUME NEW h \in [left : Nat, addr : Block]
  PROVE  Passed(h) \in [left : Nat, addr : Block] /\ Passed(h).addr = h.addr
<1>1. PICK l \in Nat : l = IF h.left > 0 THEN h.left - 1 ELSE 0
  OBVIOUS
<1>2. Passed(h) = [h EXCEPT !.left = l]
  BY <1>1 DEF Passed
<1>. QED
  BY <1>2

PassedAll(w, waits) == waits = [i \in DOMAIN w |-> Passed(w[i])]

\* What CacheSystemTick(accepted) makes of the requests w: r is left over, and
\* the reads among those that were accepted are added to the memory.
LeftOver(w, waits, accepted, r) ==
  /\ accepted \subseteq DOMAIN w /\ PassedAll(w, waits)
  /\ \E f : Rests(f, Len(waits), waits, accepted) /\ r = f[Len(waits)]
LEMMA WaitsFacts ==
  ASSUME NEW w, Requests(w), NEW accepted, NEW waits, NEW r, LeftOver(w, waits, accepted, r)
  PROVE  /\ Requests(r)
         /\ \A a : ReadWaits(w, a) =>
              ReadWaits(r, a) \/ \E i \in accepted : waits[i].addr = a /\ waits[i].type = "READ"
<1>0. accepted \subseteq DOMAIN w /\ PassedAll(w, waits)
  BY DEF LeftOver
<1>. PICK n, f : n = Len(waits) /\ Rests(f, n, waits, accepted) /\ r = f[n]
  BY DEF LeftOver
<1>1. w \in Seq(ToSet(w)) /\ \A i \in DOMAIN w : DOMAIN w[i] = {"left", "addr", "type"}
  BY DEF Requests
<1>2. Len(w) \in Nat /\ DOMAIN w = 1 .. Len(w)
  BY <1>1
<1>3. \A i \in DOMAIN w : /\ waits[i].addr = w[i].addr /\ waits[i].type = w[i].type
                          /\ DOMAIN waits[i] = {"left", "addr", "type"}
  BY <1>0, <1>1, PassedRequest DEF PassedAll
<1>. DEFINE X == {waits[i] : i \in DOMAIN w}
<1>4. waits \in Seq(X) /\ n = Len(w)
  <2>1. waits = [i \in 1 .. Len(w) |-> waits[i]] /\ \A i \in 1 .. Len(w) : waits[i] \in X
    BY <1>0, <1>2 DEF PassedAll
  <2>. HIDE DEF X
  <2>. QED
    BY <2>1, <1>2
<1>5. \A x \in X : DOMAIN x = {"left", "addr", "type"}
  BY <1>3
<1>. HIDE DEF X
<1>6. r \in Seq(X) /\ \A j \in 1 .. n \ accepted : waits[j] \in ToSet(r)
  BY <1>4, RestFacts
<1>7. Requests(r)
  <2>1. \A i \in DOMAIN r : r[i] \in ToSet(r)
    BY DEF ToSet
  <2>2. r \in Seq(ToSet(r))
    BY <2>1, <1>6, SeqElements
  <2>3. \A i \in DOMAIN r : r[i] \in X
    BY <1>6
  <2>. QED
    BY <2>2, <2>3, <1>5 DEF Requests
<1>8. ASSUME NEW a, ReadWaits(w, a)
      PROVE  ReadWaits(r, a) \/ \E i \in accepted : waits[i].addr = a /\ waits[i].type = "READ"
  <2>1. PICK i \in DOMAIN w : w[i].addr = a /\ w[i].type = "READ"
    BY <1>8 DEF ReadWaits
  <2>2. waits[i].addr = a /\ waits[i].type = "READ"
    BY <2>1, <1>3
  <2>3. CASE i \in accepted
    BY <2>2, <2>3
  <2>4. CASE i \notin accepted
    <3>1. waits[i] \in ToSet(r)
      BY <2>4, <1>2, <1>4, <1>6
    <3>. QED
      BY <2>2, <3>1 DEF ToSet, ReadWaits
  <2>. QED
    BY <2>3, <2>4
<1>. QED
  BY <1>7, <1>8

HitsPassed(H, hits, r, A) ==
  /\ hits = {Passed(h) : h \in H} /\ r = {h \in hits : h.left > 0}
  /\ A = {h.addr : h \in {g \in hits : g.left = 0}}

\* Hits that are due are answered, and the others stay.
LEMMA HitsFacts ==
  ASSUME NEW H, H \subseteq [left : Nat, addr : Block], NEW hits, NEW r, NEW A, HitsPassed(H, hits, r, A)
  PROVE  /\ r \subseteq [left : Nat, addr : Block]
         /\ \A a : a \notin A /\ (\E h \in H : h.addr = a) => \E h \in r : h.addr = a
<1>1. \A h \in H : Passed(h) \in [left : Nat, addr : Block] /\ Passed(h).addr = h.addr
  BY PassedHit
<1>2. r \subseteq [left : Nat, addr : Block]
  BY <1>1 DEF HitsPassed
<1>3. ASSUME NEW a, a \notin A, NEW h \in H, h.addr = a
      PROVE  \E g \in r : g.addr = a
  <2>1. PICK g : g = Passed(h)
    OBVIOUS
  <2>2. g \in hits /\ g.addr = a /\ g.left \in Nat
    BY <1>1, <1>3, <2>1 DEF HitsPassed
  <2>3. g.left # 0
    BY <1>3, <2>2 DEF HitsPassed
  <2>. QED
    BY <2>2, <2>3 DEF HitsPassed
<1>. QED
  BY <1>2, <1>3
-----------------------------------------------------------------------------
(* The steps of the system                                                 *)

\* The loads of a core in the next state.
LEMMA NextLoads ==
  ASSUME NEW t, Becomes(t), NEW c \in config.cores, NEW w, w = window'[c], LoadsFetched(w, t, c)
  PROVE  LoadsFetched(window[c], Now, c)'
<1>1. Held(Now, first_level_cache(c))' = Held(t, first_level_cache(c))
  BY DEF Held, Now, Becomes, first_level_cache
<1>2. \A a : HitPending(Now, a)' <=> HitPending(t, a)
  BY DEF HitPending, Now, Becomes
<1>. QED
  BY <1>1, <1>2 DEF LoadsFetched

\* Processor::receive, for the blocks A that a hit or the memory answers.
LEMMA Received ==
  ASSUME Unshared, SystemIInv, NEW A, receive(caches, A), config' = config, unsaved' = unsaved, aborted' = aborted,
         hit_list' \subseteq [left : Nat, addr : Block], Requests(wait_list'), memory' \in [Block -> Nat],
         \A a \in Block \ A : memory[a] > 0 \/ ReadWaits(wait_list, a) => memory'[a] > 0 \/ ReadWaits(wait_list', a),
         \A a \in Block \ A : (\E h \in hit_list : h.addr = a) => \E h \in hit_list' : h.addr = a
  PROVE  SystemIInv'
<1>1. Built /\ Good(Now, {}) /\ \A c \in config.cores : window[c] \in Seq(Load) /\ LoadsFetched(window[c], Now, c)
  BY DEF SystemIInv, Built
<1>2. PICK t : t = [caches |-> caches', hits |-> hit_list', waits |-> wait_list', unsaved |-> unsaved', aborted |-> aborted']
  OBVIOUS
<1>3. Becomes(t)
  BY <1>2 DEF Becomes
<1>4. PICK s : s = Now
  OBVIOUS
<1>5. /\ s.caches = caches /\ s.hits = hit_list /\ s.waits = wait_list /\ s.unsaved = unsaved /\ s.aborted = aborted
  BY <1>4 DEF Now
<1>6. Good(s, {}) /\ s.aborted = FALSE
  BY <1>1, <1>4 DEF Good, StateSound
<1>7. caches' = Unlock(caches, A) /\ window' = [c \in config.cores |-> set_ready(window[c], A)]
  BY DEF receive
<1>8. Unlocks(s, t, A)
  BY <1>2, <1>5, <1>6, <1>7 DEF Unlocks
<1>9. \A a \in Block \ A : HitPending(s, a) => HitPending(t, a)
  BY <1>2, <1>5 DEF HitPending
<1>10. PICK m : m = memory'
  OBVIOUS
<1>11. \A a \in Block \ A : memory[a] > 0 \/ ReadWaits(s.waits, a) => m[a] > 0 \/ ReadWaits(t.waits, a)
  BY <1>2, <1>5, <1>10
<1>12. GoodWith(m, t) /\ \A k \in Cache : Held(t, k) = Held(s, k) \ A
  <2>1. StillUnderway(s, t, m, A)
    BY <1>9, <1>11 DEF StillUnderway
  <2>. QED
    BY <2>1, <1>1, <1>6, <1>8, UnlockedGood
<1>13. Good(Now, {})'
  BY <1>3, <1>10, <1>12, NextGood
<1>14. ASSUME NEW c \in config.cores
       PROVE  window'[c] \in Seq(Load) /\ LoadsFetched(window[c], Now, c)'
  <2>1. PICK w : w = window[c]
    OBVIOUS
  <2>2. w \in Seq(Load) /\ LoadsFetched(w, s, c)
    BY <2>1, <1>1, <1>4
  <2>3. set_ready(w, A) \in Seq(Load) /\ LoadsFetched(set_ready(w, A), t, c)
    BY <2>2, <1>1, <1>9, <1>12, ReadyFacts
  <2>4. PICK r : r = set_ready(w, A)
    OBVIOUS
  <2>5. window'[c] = r
    BY <2>1, <2>4, <1>7
  <2>. QED
    BY <2>3, <2>4, <2>5, <1>3, NextLoads
<1>15. window' \in [config.cores -> Seq(Load)]
  BY <1>7, <1>14
<1>. QED
  BY <1>13, <1>14, <1>15 DEF SystemIInv

\* CacheSystem::tick preserves the invariant.
LEMMA TickStep ==
  ASSUME Unshared, SystemIInv, NEW accepted \in SUBSET DOMAIN wait_list, CacheSystemTick(accepted)
  PROVE  SystemIInv'
<1>. DEFINE waits == [i \in DOMAIN wait_list |-> Passed(wait_list[i])]
            n == Len(waits)
            rest == CHOOSE f : Rests(f, n, waits, accepted)
            hits == {Passed(h) : h \in hit_list}
            A == {h.addr : h \in {g \in hits : g.left = 0}}
            reads(a) == {i \in accepted : waits[i].addr = a /\ waits[i].type = "READ"}
<1>1. /\ hit_list \subseteq [left : Nat, addr : Block] /\ Requests(wait_list) /\ memory \in [Block -> Nat]
  BY DEF SystemIInv, Good, StateSound, Now
<1>2. /\ wait_list' = rest[n]
      /\ memory' = [a \in Block |-> memory[a] + Cardinality(reads(a))]
      /\ receive(caches, A)
      /\ hit_list' = {h \in hits : h.left > 0}
      /\ UNCHANGED <<config, unsaved, aborted>>
  BY DEF CacheSystemTick, Rests
<1>3. Rests(rest, n, waits, accepted)
  <2>1. waits \in Seq(ToSet(waits))
    <3>1. wait_list \in Seq(ToSet(wait_list))
      BY <1>1 DEF Requests
    <3>2. Len(wait_list) \in Nat /\ DOMAIN wait_list = 1 .. Len(wait_list)
      BY <3>1
    <3>3. waits = [i \in 1 .. Len(wait_list) |-> waits[i]] /\ \A i \in 1 .. Len(wait_list) : waits[i] \in ToSet(waits)
      BY <3>2 DEF ToSet
    <3>. HIDE DEF waits
    <3>. QED
      BY <3>2, <3>3
  <2>. HIDE DEF waits
  <2>2. \E f : Rests(f, n, waits, accepted)
    <3>1. PICK X, u, x : X = ToSet(waits) /\ u = waits /\ x = n
      OBVIOUS
    <3>2. u \in Seq(X) /\ x = Len(u)
      BY <2>1, <3>1
    <3>3. \E f : Rests(f, x, u, accepted)
      BY <3>2, RestExists
    <3>. QED
      BY <3>1, <3>3
  <2>. HIDE DEF n
  <2>. QED
    BY <2>2
<1>4. PICK u, x, f, r : u = waits /\ x = n /\ f = rest /\ r = rest[n]
  OBVIOUS
<1>5. /\ Requests(r)
      /\ \A a : ReadWaits(wait_list, a) =>
           ReadWaits(r, a) \/ \E i \in accepted : u[i].addr = a /\ u[i].type = "READ"
  <2>1. PassedAll(wait_list, u)
    BY <1>4 DEF PassedAll
  <2>2. x = Len(u) /\ Rests(f, x, u, accepted) /\ r = f[x]
    BY <1>3, <1>4
  <2>3. PICK w : w = wait_list
    OBVIOUS
  <2>4. Requests(w) /\ accepted \subseteq DOMAIN w /\ PassedAll(w, u)
    BY <2>1, <2>3, <1>1
  <2>5. /\ Requests(r)
        /\ \A a : ReadWaits(w, a) =>
             ReadWaits(r, a) \/ \E i \in accepted : u[i].addr = a /\ u[i].type = "READ"
    <3>1. LeftOver(w, u, accepted, r)
      BY <2>2, <2>4 DEF LeftOver
    <3>. QED
      BY <2>4, <3>1, WaitsFacts
  <2>. QED
    BY <2>3, <2>5
<1>6. /\ hit_list' \subseteq [left : Nat, addr : Block]
      /\ \A a : a \notin A /\ (\E h \in hit_list : h.addr = a) => \E h \in hit_list' : h.addr = a
  <2>1. PICK H, h1, h2, B : H = hit_list /\ h1 = hits /\ h2 = hit_list' /\ B = A
    OBVIOUS
  <2>2. H \subseteq [left : Nat, addr : Block]
    BY <2>1, <1>1
  <2>3. HitsPassed(H, h1, h2, B)
    BY <2>1, <1>2 DEF HitsPassed
  <2>4. /\ h2 \subseteq [left : Nat, addr : Block]
        /\ \A a : a \notin B /\ (\E h \in H : h.addr = a) => \E h \in h2 : h.addr = a
    BY <2>2, <2>3, HitsFacts
  <2>. QED
    BY <2>1, <2>4
<1>7. \A a \in Block : IsFiniteSet(reads(a)) /\ Cardinality(reads(a)) \in Nat /\ (reads(a) # {} => Cardinality(reads(a)) # 0)
  <2>1. IsFiniteSet(accepted)
    <3>1. wait_list \in Seq(ToSet(wait_list))
      BY <1>1 DEF Requests
    <3>2. Len(wait_list) \in Nat /\ DOMAIN wait_list = 1 .. Len(wait_list)
      BY <3>1
    <3>3. IsFiniteSet(1 .. Len(wait_list))
      BY <3>2, FS_Interval
    <3>. QED
      BY <3>2, <3>3, FS_Subset
  <2>2. ASSUME NEW a \in Block
        PROVE  IsFiniteSet(reads(a)) /\ Cardinality(reads(a)) \in Nat /\ (reads(a) # {} => Cardinality(reads(a)) # 0)
    <3>1. reads(a) \subseteq accepted
      OBVIOUS
    <3>. HIDE DEF reads
    <3>. QED
      BY <2>1, <3>1, FS_Subset, FS_CardinalityType, FS_EmptySet
  <2>. QED
    BY <2>2
<1>8. memory' \in [Block -> Nat]
  <2>. HIDE DEF reads
  <2>. QED
    BY <1>1, <1>2, <1>7
<1>9. ASSUME NEW a \in Block, memory[a] > 0 \/ ReadWaits(wait_list, a)
      PROVE  memory'[a] > 0 \/ ReadWaits(wait_list', a)
  <2>1. memory'[a] = memory[a] + Cardinality(reads(a)) /\ memory[a] \in Nat /\ Cardinality(reads(a)) \in Nat
    BY <1>1, <1>2, <1>7
  <2>2. reads(a) # {} => memory'[a] > 0
    <3>1. reads(a) # {} => Cardinality(reads(a)) # 0
      BY <1>7
    <3>. HIDE DEF reads
    <3>. QED
      BY <2>1, <3>1
  <2>3. (\E i \in accepted : u[i].addr = a /\ u[i].type = "READ") => reads(a) # {}
    BY <1>4
  <2>4. memory[a] > 0 => memory'[a] > 0
    <3>. HIDE DEF reads
    <3>. QED
      BY <2>1
  <2>5. wait_list' = r
    BY <1>2, <1>4
  <2>. HIDE DEF reads, rest, waits, n
  <2>. QED
    BY <2>2, <2>3, <2>4, <2>5, <1>5, <1>9
<1>10. Requests(wait_list')
  BY <1>2, <1>4, <1>5
<1>11. config' = config /\ unsaved' = unsaved /\ aborted' = aborted /\ receive(caches, A)
  BY <1>2
<1>. HIDE DEF waits, n, rest, hits, A, reads
<1>. QED
  BY <1>6, <1>8, <1>9, <1>10, <1>11, Received

\* So does an answer of the memory,
LEMMA AnswerStep ==
  ASSUME Unshared, SystemIInv, NEW a \in Block, Answer(a)
  PROVE  SystemIInv'
<1>1. /\ hit_list \subseteq [left : Nat, addr : Block] /\ Requests(wait_list) /\ memory \in [Block -> Nat]
  BY DEF SystemIInv, Good, StateSound, Now
<1>2. PICK A : A = {a}
  OBVIOUS
<1>3. /\ receive(caches, A) /\ UNCHANGED <<config, hit_list, wait_list, unsaved, aborted>>
      /\ memory[a] > 0 /\ memory' = [memory EXCEPT ![a] = @ - 1]
  BY <1>2 DEF Answer
<1>4. memory' \in [Block -> Nat] /\ \A b \in Block \ A : memory'[b] = memory[b]
  BY <1>1, <1>2, <1>3
<1>5. hit_list' = hit_list /\ wait_list' = wait_list
  BY <1>3
<1>. QED
  BY <1>1, <1>3, <1>4, <1>5, Received
\* Loads of the window that are not ready stay fetched.
LEMMA LoadsKept ==
  ASSUME Built, NEW s, NEW t, \A h \in Cache : Held(s, h) \subseteq Held(t, h), s.hits \subseteq t.hits,
         NEW c \in config.cores, NEW w, LoadsFetched(w, s, c), NEW r, ToSet(r) \subseteq ToSet(w)
  PROVE  LoadsFetched(r, t, c)
<1>1. first_level_cache(c) \in Cache
  BY Chains DEF first_level_cache, SharedL3, L1, L2, L3
<1>2. ASSUME NEW i \in DOMAIN r
      PROVE  r[i].ready \/ r[i].addr \in Held(t, first_level_cache(c)) \/ HitPending(t, r[i].addr)
  <2>1. PICK j \in DOMAIN w : w[j] = r[i]
    BY DEF ToSet
  <2>2. w[j].ready \/ w[j].addr \in Held(s, first_level_cache(c)) \/ HitPending(s, w[j].addr)
    BY DEF LoadsFetched
  <2>. QED
    BY <1>1, <2>1, <2>2 DEF HitPending
<1>. QED
  BY <1>2 DEF LoadsFetched

Dirtied(r, a) == a \in Block /\ \E k \in Cache : Has(r, k, a) /\ LineOf(r, k, a).dirty

\* t is r, and a write of block a that the caches took is not saved yet.
Saved(r, t, a, write) ==
  /\ t.caches = r.caches /\ t.hits = r.hits /\ t.waits = r.waits /\ t.aborted = r.aborted
  /\ t.unsaved = IF write THEN r.unsaved \cup {a} ELSE r.unsaved
  /\ DOMAIN t = {"caches", "hits", "waits", "unsaved", "aborted"}

\* A write that was accepted has a dirty line.
LEMMA SavedGood ==
  ASSUME Built, NEW r, Good(r, {}), NEW a, NEW write \in BOOLEAN,
         write => Dirtied(r, a), NEW t, Saved(r, t, a, write)
  PROVE  GoodWith(memory, t)
<1>1. /\ StateSound(r) /\ LockedHaveMshrs(r) /\ MshrsFit(r) /\ LockedAbove(r)
      /\ Inclusive(r, {}) /\ Fetching(r, {}) /\ UnsavedDirty(r)
  BY DEF Good
<1>2. \A h, b : (Has(t, h, b) <=> Has(r, h, b)) /\ LineOf(t, h, b) = LineOf(r, h, b) /\ Held(t, h) = Held(r, h)
  BY DEF Has, LineOf, lines, Held, Saved
<1>3. StateSound(t)
  BY <1>1 DEF StateSound, Saved, Dirtied
<1>4. LockedHaveMshrs(t) /\ MshrsFit(t) /\ LockedAbove(t) /\ Inclusive(t, {})
  BY <1>1, <1>2 DEF LockedHaveMshrs, MshrsFit, LockedAbove, Inclusive
<1>5. ASSUME NEW h \in Cache, NEW b \in Held(t, h)
      PROVE  Supplied(memory, t, h, b) \/ HitPending(t, b)
  BY <1>1, <1>2 DEF Fetching, Fetched, Supplied, HitPending, Saved
<1>6. UnsavedDirty(t)
  <2>1. ASSUME NEW b \in t.unsaved
        PROVE  \E h \in Cache : Has(t, h, b) /\ LineOf(t, h, b).dirty
    <3>1. b \in r.unsaved \/ (write /\ b = a)
      BY DEF Saved
    <3>. QED
      BY <3>1, <1>1, <1>2 DEF UnsavedDirty, Dirtied
  <2>. QED
    BY <2>1 DEF UnsavedDirty
<1>. QED
  BY <1>2, <1>3, <1>4, <1>5, <1>6 DEF GoodWith

\* Core c goes on with window w, and the caches with r.
LEMMA CoreStep ==
  ASSUME Unshared, SystemIInv, NEW c \in config.cores, NEW r, Good(r, {}), Extends(Now, r),
         NEW a, NEW write \in BOOLEAN, write => Dirtied(r, a), NEW t, Saved(r, t, a, write), Becomes(t), memory' = memory,
         NEW w \in Seq(Load), LoadsFetched(w, r, c), window' = [window EXCEPT ![c] = w]
  PROVE  SystemIInv'
<1>1. Built /\ window \in [config.cores -> Seq(Load)] /\ \A d \in config.cores : LoadsFetched(window[d], Now, d)
  BY DEF SystemIInv, Built
<1>2. PICK m : m = memory
  OBVIOUS
<1>3. GoodWith(m, t) /\ \A h : Held(t, h) = Held(r, h)
  <2>1. GoodWith(memory, t)
    BY <1>1, SavedGood
  <2>2. \A h : Held(t, h) = Held(r, h)
    BY DEF Saved, Held
  <2>. QED
    BY <2>1, <2>2, <1>2
<1>4. Good(Now, {})'
  <2>1. GoodWith(memory', t)
    BY <1>2, <1>3
  <2>. QED
    BY <2>1, NextGood
<1>5. r.hits = t.hits
  BY DEF Saved
<1>6. PICK s : s = Now
  OBVIOUS
<1>7. (\A h \in Cache : Held(s, h) \subseteq Held(t, h)) /\ s.hits \subseteq t.hits
  BY <1>3, <1>5, <1>6 DEF Extends
<1>8. ASSUME NEW d \in config.cores
      PROVE  window'[d] \in Seq(Load) /\ LoadsFetched(window[d], Now, d)'
  <2>1. PICK x : x = window'[d]
    OBVIOUS
  <2>2. x \in Seq(Load) /\ LoadsFetched(x, t, d)
    <3>1. CASE d = c
      <4>1. x = w
        BY <2>1, <3>1, <1>1
      <4>2. LoadsFetched(w, t, c)
        BY <1>1, <1>3, <1>5, LoadsKept
      <4>. QED
        BY <3>1, <4>1, <4>2
    <3>2. CASE d # c
      <4>1. PICK y : y = window[d]
        OBVIOUS
      <4>2. x = y /\ y \in Seq(Load) /\ LoadsFetched(y, s, d)
        BY <2>1, <3>2, <4>1, <1>1, <1>6
      <4>3. LoadsFetched(y, t, d)
        BY <4>2, <1>1, <1>7, LoadsKept
      <4>. QED
        BY <4>2, <4>3
    <3>. QED
      BY <3>1, <3>2
  <2>. QED
    BY <2>1, <2>2, NextLoads
<1>9. window' \in [config.cores -> Seq(Load)] /\ config' = config
  BY <1>1, <1>8 DEF Becomes
<1>. QED
  BY <1>4, <1>8, <1>9 DEF SystemIInv

\* a core that sends nothing,
LEMMA IdleStep ==
  ASSUME Unshared, SystemIInv, NEW c \in config.cores, CoreIdles(c)
  PROVE  SystemIInv'
<1>1. Built /\ Good(Now, {}) /\ window[c] \in Seq(Load) /\ LoadsFetched(window[c], Now, c)
  BY DEF SystemIInv, Built
<1>2. PICK r : r = Now
  OBVIOUS
<1>3. Good(r, {}) /\ tick(r, c) = r
  <2>1. Good(r, {}) /\ StateSound(r)
    BY <1>1, <1>2 DEF Good
  <2>. QED
    BY <2>1, <1>1, TickFacts
<1>4. Become(r) /\ config' = config /\ memory' = memory /\ window' = [window EXCEPT ![c] = retire(window[c])]
  BY <1>2, <1>3 DEF CoreIdles, Turn
<1>5. Becomes(r)
  BY <1>4 DEF Become, Becomes
<1>6. Saved(r, r, 0, FALSE) /\ Extends(Now, r)
  BY <1>2, <1>3 DEF Saved, Extends, Good, StateSound
<1>7. PICK w : w = retire(window[c])
  OBVIOUS
<1>8. w \in Seq(Load) /\ LoadsFetched(w, r, c)
  <2>1. PICK x : x = window[c]
    OBVIOUS
  <2>2. w \in Seq(Load) /\ ToSet(w) \subseteq ToSet(x)
    BY <2>1, <1>1, <1>7, RetireFacts
  <2>3. LoadsFetched(x, r, c)
    BY <2>1, <1>1, <1>2
  <2>. QED
    BY <2>2, <2>3, <1>1, LoadsKept
<1>9. Good(r, {}) /\ memory' = memory /\ window' = [window EXCEPT ![c] = w]
  BY <1>3, <1>4, <1>7
<1>. QED
  BY <1>5, <1>6, <1>8, <1>9, CoreStep

\* and a core that sends a request.
LEMMA SendStep ==
  ASSUME Unshared, SystemIInv, NEW c \in config.cores, NEW a \in Block, NEW type \in {"READ", "WRITE"}, CoreSends(c, a, type)
  PROVE  SystemIInv'
<1>. DEFINE answer == send(tick(Now, c), first_level_cache(c), a, type = "WRITE")
            x == retire(window[c])
<1>1. Built /\ Good(Now, {}) /\ window[c] \in Seq(Load) /\ LoadsFetched(window[c], Now, c)
  BY DEF SystemIInv, Built
<1>2. /\ window' = [window EXCEPT ![c] = IF answer.ok /\ type = "READ" THEN Append(x, [addr |-> a, ready |-> FALSE]) ELSE x]
      /\ Become([answer.s EXCEPT !.unsaved = IF answer.ok /\ type = "WRITE" THEN answer.s.unsaved \cup {a} ELSE answer.s.unsaved])
      /\ config' = config /\ memory' = memory
  BY DEF CoreSends, Turn
<1>3. PICK s, k, write : s = Now /\ k = first_level_cache(c) /\ write = (type = "WRITE")
  OBVIOUS
<1>4. PICK res : res = send(s, k, a, write)
  OBVIOUS
<1>5. Good(s, {}) /\ tick(s, c) = s
  <2>1. Good(s, {}) /\ StateSound(s)
    BY <1>1, <1>3 DEF Good
  <2>. QED
    BY <2>1, <1>1, TickFacts
<1>6. answer = res
  BY <1>3, <1>4, <1>5
<1>7. k \in Cache /\ Sends(s, res, {}, k, a, write)
  <2>1. write \in BOOLEAN
    BY <1>3
  <2>2. res = send(s, first_level_cache(c), a, write)
    BY <1>3, <1>4
  <2>3. first_level_cache(c) \in Cache /\ Sends(s, res, {}, first_level_cache(c), a, write)
    BY <2>1, <2>2, <1>1, <1>5, SendFacts
  <2>. QED
    BY <2>3, <1>3
<1>. HIDE DEF answer
<1>8. PICK r, t, new : /\ r = res.s /\ new = (res.ok /\ write)
                       /\ t = [res.s EXCEPT !.unsaved = IF new THEN res.s.unsaved \cup {a} ELSE res.s.unsaved]
  OBVIOUS
<1>9. Good(r, {}) /\ Extends(s, r) /\ res.ok \in BOOLEAN
  BY <1>5, <1>7, <1>8 DEF Sends, Sent, Extends
<1>10. new \in BOOLEAN /\ (new => Dirtied(r, a))
  BY <1>7, <1>8, <1>9 DEF Sends, Sent, Dirtied
<1>11. Saved(r, t, a, new)
  <2>1. DOMAIN r = {"caches", "hits", "waits", "unsaved", "aborted"}
    BY <1>9 DEF Good, StateSound
  <2>. QED
    BY <2>1, <1>8 DEF Saved
<1>12. Becomes(t)
  <2>1. Become(t)
    BY <1>2, <1>3, <1>6, <1>8
  <2>. QED
    BY <2>1, <1>2 DEF Become, Becomes
<1>13. PICK w, y : /\ y = x
                   /\ w = IF res.ok /\ type = "READ" THEN Append(y, [addr |-> a, ready |-> FALSE]) ELSE y
  OBVIOUS
<1>14. y \in Seq(Load) /\ LoadsFetched(y, r, c)
  <2>1. PICK v : v = window[c]
    OBVIOUS
  <2>2. y \in Seq(Load) /\ ToSet(y) \subseteq ToSet(v)
    BY <2>1, <1>1, <1>13, RetireFacts
  <2>3. LoadsFetched(v, s, c)
    BY <2>1, <1>1, <1>3
  <2>. QED
    BY <2>2, <2>3, <1>1, <1>9, LoadsKept DEF Extends
<1>15. w \in Seq(Load) /\ LoadsFetched(w, r, c)
  <2>1. CASE ~(res.ok /\ type = "READ")
    BY <2>1, <1>13, <1>14
  <2>2. CASE res.ok /\ type = "READ"
    <3>1. PICK e : e = [addr |-> a, ready |-> FALSE]
      OBVIOUS
    <3>2. e \in Load /\ e.addr = a
      BY <3>1 DEF Load
    <3>3. w = Append(y, e)
      BY <2>2, <3>1, <1>13
    <3>4. /\ w \in Seq(Load) /\ DOMAIN w = DOMAIN y \cup {Len(y) + 1}
          /\ \A i \in DOMAIN y : w[i] = y[i]
          /\ w[Len(y) + 1] = e
      BY <3>2, <3>3, <1>14, Appended
    <3>5. a \in Held(r, k) \/ HitPending(r, a)
      BY <2>2, <1>7, <1>8 DEF Sends, Sent
    <3>. QED
      BY <3>2, <3>4, <3>5, <1>3, <1>14 DEF LoadsFetched
  <2>. QED
    BY <2>1, <2>2
<1>16. window' = [window EXCEPT ![c] = w] /\ memory' = memory /\ Extends(Now, r)
  BY <1>2, <1>3, <1>6, <1>9, <1>13
<1>. QED
  BY <1>9, <1>10, <1>11, <1>12, <1>15, <1>16, CoreStep
\* A step that changes nothing.
LEMMA SameStep ==
  ASSUME Unshared, SystemIInv, UNCHANGED systemVars
  PROVE  SystemIInv'
<1>1. /\ config' = config /\ memory' = memory /\ window' = window /\ caches' = caches /\ hit_list' = hit_list
      /\ wait_list' = wait_list /\ unsaved' = unsaved /\ aborted' = aborted
  BY DEF systemVars, system
<1>2. Built /\ Good(Now, {}) /\ window \in [config.cores -> Seq(Load)] /\ \A d \in config.cores : LoadsFetched(window[d], Now, d)
  BY DEF SystemIInv, Built
<1>3. PICK r : r = Now
  OBVIOUS
<1>4. Becomes(r)
  BY <1>1, <1>3 DEF Becomes, Now
<1>5. Good(r, {}) /\ DOMAIN r = {"caches", "hits", "waits", "unsaved", "aborted"}
  BY <1>2, <1>3 DEF Good, StateSound
<1>6. Saved(r, r, 0, FALSE)
  BY <1>5 DEF Saved
<1>7. GoodWith(memory', r)
  <2>1. GoodWith(memory, r)
    BY <1>2, <1>5, <1>6, SavedGood
  <2>. QED
    BY <2>1, <1>1
<1>8. Good(Now, {})'
  BY <1>4, <1>7, NextGood
<1>9. ASSUME NEW d \in config.cores
      PROVE  LoadsFetched(window[d], Now, d)'
  <2>1. PICK w : w = window[d]
    OBVIOUS
  <2>2. w = window'[d] /\ LoadsFetched(w, r, d)
    BY <2>1, <1>1, <1>2, <1>3
  <2>. QED
    BY <2>2, <1>4, NextLoads
<1>. QED
  BY <1>1, <1>2, <1>8, <1>9 DEF SystemIInv

\* Empty caches satisfy the invariant.
LEMMA InitGood ==
  ASSUME Unshared, SystemInit
  PROVE  SystemIInv
<1>1. Built /\ hit_list = {} /\ wait_list = <<>> /\ unsaved = {} /\ aborted = FALSE
  BY DEF SystemInit, Built
<1>2. PICK s : s = Now
  OBVIOUS
<1>3. /\ DOMAIN s = {"caches", "hits", "waits", "unsaved", "aborted"}
      /\ s.caches = caches /\ s.hits = {} /\ s.waits = <<>> /\ s.unsaved = {} /\ s.aborted = FALSE
  BY <1>1, <1>2 DEF Now
<1>4. ASSUME NEW k \in Cache
      PROVE  /\ s.caches[k] = [lines |-> [i \in 0 .. sets(k) - 1 |-> <<>>], mshr_entries |-> {}, retry_list |-> <<>>]
             /\ sets(k) \in Nat \ {0}
  BY <1>1, <1>3, Levels DEF SystemInit, sets
<1>5. ASSUME NEW k \in Cache
      PROVE  /\ CacheSound(s.caches[k], sets(k)) /\ Held(s, k) = {}
             /\ \A a \in Block : ~Has(s, k, a)
  <2>1. PICK c, n : c = s.caches[k] /\ n = sets(k)
    OBVIOUS
  <2>2. c = [lines |-> [i \in 0 .. n - 1 |-> <<>>], mshr_entries |-> {}, retry_list |-> <<>>] /\ n \in Nat \ {0}
    BY <2>1, <1>4
  <2>3. /\ c.lines = [i \in 0 .. n - 1 |-> <<>>] /\ c.mshr_entries = {} /\ c.retry_list = <<>>
        /\ c = [lines |-> c.lines, mshr_entries |-> c.mshr_entries, retry_list |-> c.retry_list]
    BY <2>2
  <2>4. c.lines \in [0 .. n - 1 -> Seq(CacheLine)]
    BY <2>3
  <2>5. c \in LinesCache(n)
    BY <2>3, <2>4 DEF LinesCache
  <2>6. \A i \in 0 .. n - 1 : LinesSound(c.lines[i], n, i)
    <3>1. Len(<<>>) = 0 /\ DOMAIN <<>> = {} /\ assoc \in Nat
      BY SizeAssumption
    <3>. QED
      BY <3>1, <2>3 DEF LinesSound
  <2>7. \A a \in Block : ~CacheHas(c, n, a)
    BY <2>2, <2>3, IndexFacts DEF CacheHas, ToSet
  <2>. QED
    BY <2>1, <2>3, <2>5, <2>6, <2>7, Views DEF CacheSound, Held
<1>6. StateSound(s)
  <2>1. DOMAIN s.caches = Cache
    BY <1>3 DEF SystemInit
  <2>2. Requests(s.waits)
    BY <1>3 DEF Requests, ToSet
  <2>. QED
    BY <2>1, <2>2, <1>3, <1>5 DEF StateSound
<1>7. MshrsFit(s)
  <2>1. \A k \in Cache : 0 <= mshrs(k)
    BY <1>1, Levels
  <2>. QED
    BY <2>1, <1>5, FS_EmptySet DEF MshrsFit
<1>8. LockedHaveMshrs(s) /\ LockedAbove(s) /\ Inclusive(s, {}) /\ Fetching(s, {}) /\ UnsavedDirty(s)
  BY <1>1, <1>3, <1>5, Below DEF LockedHaveMshrs, LockedAbove, Inclusive, Fetching, UnsavedDirty
<1>9. Good(Now, {})
  BY <1>2, <1>6, <1>7, <1>8 DEF Good
<1>10. window \in [config.cores -> Seq(Load)] /\ \A c \in config.cores : LoadsFetched(window[c], Now, c)
  BY DEF SystemInit, LoadsFetched
<1>. QED
  BY <1>9, <1>10 DEF SystemInit, SystemIInv

\* Every step preserves the invariant.
LEMMA NextKeeps ==
  ASSUME Unshared, SystemIInv, [SystemNext]_systemVars
  PROVE  SystemIInv'
<1>1. ASSUME NEW accepted \in SUBSET DOMAIN wait_list, CacheSystemTick(accepted)
      PROVE  SystemIInv'
  BY <1>1, TickStep
<1>2. ASSUME NEW a \in Block, Answer(a)
      PROVE  SystemIInv'
  BY <1>2, AnswerStep
<1>3. ASSUME NEW c \in config.cores, CoreIdles(c)
      PROVE  SystemIInv'
  BY <1>3, IdleStep
<1>4. ASSUME NEW c \in config.cores, NEW a \in Block, NEW type \in {"READ", "WRITE"}, CoreSends(c, a, type)
      PROVE  SystemIInv'
  BY <1>4, SendStep
<1>5. ASSUME UNCHANGED systemVars
      PROVE  SystemIInv'
  BY <1>5, SameStep
<1>. QED
  BY <1>1, <1>2, <1>3, <1>4, <1>5 DEF SystemNext

\* What the invariant says about all lines of a cache.
LEMMA LinesFacts ==
  ASSUME Unshared, SystemIInv, NEW k \in Cache
  PROVE  /\ \A l \in Lines(k) : l.addr \in Block /\ Has(Now, k, l.addr) /\ LineOf(Now, k, l.addr) = l
         /\ \A a \in Block : Has(Now, k, a) => LineOf(Now, k, a) \in Lines(k) /\ LineOf(Now, k, a).addr = a
<1>1. PICK c, n : c = caches[k] /\ n = sets(k)
  OBVIOUS
<1>2. PICK s : s = Now
  OBVIOUS
<1>3. s.caches[k] = c
  BY <1>1, <1>2 DEF Now
<1>4. CacheSound(c, n) /\ n \in Nat \ {0}
  <2>1. StateSound(s) /\ Built
    BY <1>2 DEF SystemIInv, Good, Built
  <2>. QED
    BY <2>1, <1>1, <1>3, Levels DEF StateSound
<1>5. c.lines \in [0 .. n - 1 -> Seq(CacheLine)] /\ \A i \in 0 .. n - 1 : LinesSound(c.lines[i], n, i)
  BY <1>4 DEF CacheSound, LinesCache
<1>6. \A a : (Has(Now, k, a) <=> CacheHas(c, n, a)) /\ LineOf(Now, k, a) = CacheLineOf(c, n, a)
  BY <1>1, <1>2, <1>3, Views
<1>7. Lines(k) = UNION {ToSet(c.lines[i]) : i \in 0 .. n - 1}
  BY <1>1, <1>5 DEF Lines
<1>8. ASSUME NEW l \in Lines(k)
      PROVE  l.addr \in Block /\ CacheHas(c, n, l.addr) /\ CacheLineOf(c, n, l.addr) = l
  <2>1. PICK i \in 0 .. n - 1 : l \in ToSet(c.lines[i])
    BY <1>7
  <2>2. PICK j \in DOMAIN c.lines[i] : l = c.lines[i][j]
    BY <2>1 DEF ToSet
  <2>3. c.lines[i] \in Seq(CacheLine) /\ LinesSound(c.lines[i], n, i)
    BY <1>5
  <2>4. l \in CacheLine /\ l.addr % n = i
    BY <2>2, <2>3 DEF LinesSound
  <2>5. PICK a \in Block : a = l.addr
    BY <2>4 DEF CacheLine
  <2>6. l \in ToSet(c.lines[a % n]) /\ l.addr = a
    BY <2>1, <2>4, <2>5
  <2>. QED
    BY <2>5, <2>6, <1>4, OneLine
<1>9. ASSUME NEW a \in Block, CacheHas(c, n, a)
      PROVE  CacheLineOf(c, n, a) \in Lines(k) /\ CacheLineOf(c, n, a).addr = a
  <2>1. CacheLineOf(c, n, a) \in ToSet(c.lines[a % n]) /\ CacheLineOf(c, n, a).addr = a
    BY <1>4, <1>9, TheLine
  <2>2. a % n \in 0 .. n - 1
    BY <1>4, IndexFacts
  <2>. QED
    BY <2>1, <2>2, <1>7
<1>. QED
  BY <1>6, <1>8, <1>9

\* The invariant implies the properties.
LEMMA InvariantShows ==
  ASSUME Unshared, SystemIInv
  PROVE  AssertionsHold /\ MSHRsMatchLockedLines /\ NothingForgotten /\ DirtyKept
<1>1. PICK s : s = Now
  OBVIOUS
<1>2. /\ s.caches = caches /\ s.hits = hit_list /\ s.waits = wait_list /\ s.unsaved = unsaved /\ s.aborted = aborted
  BY <1>1 DEF Now
<1>3. /\ StateSound(s) /\ LockedHaveMshrs(s) /\ Fetching(s, {}) /\ UnsavedDirty(s)
      /\ \A c \in config.cores : window[c] \in Seq(Load) /\ LoadsFetched(window[c], s, c)
  BY <1>1 DEF SystemIInv, Good
<1>4. ASSUME NEW k \in Cache
      PROVE  /\ \A l \in Lines(k) : l.addr \in Block /\ Has(s, k, l.addr) /\ LineOf(s, k, l.addr) = l
             /\ \A a \in Block : Has(s, k, a) => LineOf(s, k, a) \in Lines(k) /\ LineOf(s, k, a).addr = a
             /\ Held(s, k) = caches[k].mshr_entries /\ Held(s, k) \subseteq Block
  <2>1. Held(s, k) \subseteq Block
    BY <1>3 DEF StateSound, CacheSound, LinesCache, Held
  <2>. QED
    BY <2>1, <1>1, <1>2, LinesFacts DEF Held
<1>5. AssertionsHold
  BY <1>2, <1>3 DEF AssertionsHold, StateSound
<1>6. MSHRsMatchLockedLines
  <2>1. ASSUME NEW k \in Cache
        PROVE  caches[k].mshr_entries = {l.addr : l \in {m \in Lines(k) : m.lock}}
    <3>1. ASSUME NEW a \in caches[k].mshr_entries
          PROVE  \E l \in Lines(k) : l.lock /\ l.addr = a
      BY <1>3, <1>4 DEF LockedHaveMshrs
    <3>2. ASSUME NEW l \in Lines(k), l.lock
          PROVE  l.addr \in caches[k].mshr_entries
      BY <3>2, <1>3, <1>4 DEF LockedHaveMshrs
    <3>. QED
      BY <3>1, <3>2
  <2>. QED
    BY <2>1 DEF MSHRsMatchLockedLines
<1>7. NothingForgotten
  <2>1. ASSUME NEW k \in Cache, NEW a \in caches[k].mshr_entries
        PROVE  Underway(k, a)
    <3>1. Fetched(s, k, a) \/ HitPending(s, a)
      BY <1>3, <1>4 DEF Fetching
    <3>. QED
      BY <3>1, <1>2 DEF Fetched, HitPending, ReadWaits, Held, Underway
  <2>2. ASSUME NEW c \in config.cores, NEW l \in ToSet(window[c])
        PROVE  l.ready \/ l.addr \in caches[first_level_cache(c)].mshr_entries \/ \E h \in hit_list : h.addr = l.addr
    <3>1. PICK i \in DOMAIN window[c] : l = window[c][i]
      BY DEF ToSet
    <3>. QED
      BY <3>1, <1>2, <1>3 DEF LoadsFetched, Held, HitPending
  <2>. QED
    BY <2>1, <2>2 DEF NothingForgotten
<1>8. DirtyKept
  BY <1>2, <1>3, <1>4 DEF DirtyKept, UnsavedDirty, StateSound
<1>. QED
  BY <1>5, <1>6, <1>7, <1>8

\* The invariant holds at all times.
LEMMA Invariance ==
  ASSUME Unshared
  PROVE  SystemSpec => []SystemIInv
<1>1. SystemInit => SystemIInv
  BY InitGood
<1>2. SystemIInv /\ [SystemNext]_systemVars => SystemIInv'
  BY NextKeeps
<1>. QED
  BY <1>1, <1>2, PTL DEF SystemSpec

\* Cache.cpp:202, "check inclusive cache": where no two caches share a lower one,
\* evictline finds the line on the level below, invalidate no locked copy, and
\* need_eviction no second line of a block, whatever the sizes.
THEOREM CacheAssertionsHold ==
  ASSUME Unshared
  PROVE  SystemSpec => []AssertionsHold
<1>1. SystemIInv => AssertionsHold
  BY InvariantShows
<1>. QED
  BY <1>1, Invariance, PTL

\* The MSHRs of a cache are those of its locked lines: send adds both, callback
\* removes both (Cache.cpp:367-385), and no eviction takes a locked line.
THEOREM MSHRsFollowLocks ==
  ASSUME Unshared
  PROVE  SystemSpec => []MSHRsMatchLockedLines
<1>1. SystemIInv => MSHRsMatchLockedLines
  BY InvariantShows
<1>. QED
  BY <1>1, Invariance, PTL

\* A locked line waits for the level below, for the memory or for a hit, and a
\* load that is not ready for a locked line or a hit: no request is lost between
\* send, the lists of CacheSystem::tick and Processor::receive.
THEOREM NoRequestForgotten ==
  ASSUME Unshared
  PROVE  SystemSpec => []NothingForgotten
<1>1. SystemIInv => NothingForgotten
  BY InvariantShows
<1>. QED
  BY <1>1, Invariance, PTL

\* A written block has a dirty line until evict sends it to the memory, whichever
\* levels evictline has moved the dirty bit through.
THEOREM WritesKept ==
  ASSUME Unshared
  PROVE  SystemSpec => []DirtyKept
<1>1. SystemIInv => DirtyKept
  BY InvariantShows
<1>. QED
  BY <1>1, Invariance, PTL

\* No cache's request is refused by the level below: the loop of Cache::tick
\* (Cache.cpp:392), which erases from the list it walks, has nothing to walk.
RetryListsEmpty == \A k \in Cache : caches[k].retry_list = <<>>

\* Where no two caches share a lower one, retry_list stays empty: the level below
\* has at least as many MSHRs, and each of its sets has its blocks in one set above,
\* so that it is full of locked lines only if that one is, and refused before.
THEOREM RetryListsStayEmpty ==
  ASSUME Unshared
  PROVE  SystemSpec => []RetryListsEmpty
<1>1. ASSUME SystemIInv
      PROVE  RetryListsEmpty
  <2>1. PICK s : s = Now
    OBVIOUS
  <2>2. StateSound(s) /\ s.caches = caches
    BY <1>1, <2>1 DEF SystemIInv, Good, Now
  <2>3. \A k \in Cache : caches[k].retry_list = <<>>
    BY <2>2 DEF StateSound, CacheSound, LinesCache
  <2>. QED
    BY <2>3 DEF RetryListsEmpty
<1>. QED
  BY <1>1, Invariance, PTL
=============================================================================

------------------------------- MODULE Markov -------------------------------
(***************************************************************************)
(* The Markov prefetcher of labs/lab4 (prefetcher/markov.l2c_pref).        *)
(*                                                                         *)
(* A delta is the distance of two lookups of one page in cache lines,      *)
(* shifted to be an index.  The delta cache counts which delta follows     *)
(* which one; the page cache remembers the last offset and delta of a      *)
(* page.  A lookup records its delta and then walks the chain of likely    *)
(* deltas, prefetching the lines on the way that are in the page.          *)
(*                                                                         *)
(* Line and page addresses are integers: the unsigned ones of the code     *)
(* wrap at 2^58, far from any page.                                        *)
(***************************************************************************)
EXTENDS Integers, FiniteSetsExt, Functions

CONSTANTS
  PageOffsets,      \* lines of a page: 64 in the code
  DELTA_NUM_WAYS, PAGE_NUM_SETS, PAGE_NUM_WAYS,
  TagSpan,          \* 2^PAGE_TAG_BITS in the code
  PageAddress,      \* page addresses
  MaxDegree,        \* the prefetch degree with all MSHRs free
  Degree,           \* those to check
  MaxRecorded       \* bound on the transitions that are counted at a time

DELTA_NUM_SETS == 2 * PageOffsets
Delta == 0 .. DELTA_NUM_SETS - 1
DeltaWay == 0 .. DELTA_NUM_WAYS - 1
PageSet == 0 .. PAGE_NUM_SETS - 1
PageWay == 0 .. PAGE_NUM_WAYS - 1
Offset == 0 .. PageOffsets - 1
Tag == 0 .. TagSpan - 1

ASSUME MarkovAssumption ==
  /\ PageOffsets \in Nat \ {0, 1} /\ DELTA_NUM_WAYS \in Nat \ {0}
  /\ PAGE_NUM_SETS \in Nat \ {0} /\ PAGE_NUM_WAYS \in Nat \ {0} /\ TagSpan \in Nat \ {0}
ASSUME LookupAssumption ==
  /\ PageAddress \subseteq Nat /\ MaxRecorded \in Nat
  /\ MaxDegree \in Nat /\ Degree \subseteq 0 .. MaxDegree

VARIABLES
  delta_cache,      \* delta_cache_next and delta_cache_counter
  page_cache,       \* page_cache_tag, _delta, _offset and _lru
  prefetched,       \* lines the last lookup prefetched, as a set, and where it started
  last              \* history: offset of the last lookup of a set and tag, -1 if none

markovVars == <<delta_cache, page_cache, prefetched, last>>
-----------------------------------------------------------------------------
norm_delta(d) == d + DELTA_NUM_SETS \div 2
denorm_delta(d) == d - DELTA_NUM_SETS \div 2

FirstOf(S) == CHOOSE w \in S : \A v \in S : w <= v

\* mutant: the search for the transition stops one way early
KnownShort(row, next) == {w \in DeltaWay : w < DELTA_NUM_WAYS - 1 /\ row[w].next = next}

\* the ways of a row of the delta cache with the given successor
Known(row, next) == {w \in DeltaWay : row[w].next = next}

LeastUsed(row) == FirstOf({w \in DeltaWay : \A v \in DeltaWay : row[w].counter <= row[v].counter})

\* update_delta_cache
Recorded(prev, next) ==
  LET row == delta_cache[prev]  known == Known(row, next) IN
    [delta_cache EXCEPT ![prev] =
       IF known # {} THEN [row EXCEPT ![FirstOf(known)].counter = @ + 1]
                     ELSE [row EXCEPT ![LeastUsed(row)] = [next |-> next, counter |-> 1]]]

\* The search for a page that is not used resets all bits as soon as the first
\* page is used, so that it ends at the second one.
Victim(set) == IF set[0].lru = 0 \/ PAGE_NUM_WAYS = 1 THEN 0 ELSE 1
Flipped(set) == IF set[0].lru = 0 THEN set ELSE [w \in PageWay |-> [set[w] EXCEPT !.lru = 0]]

\* mutant: the page keeps the offset of its first lookup
NotedFirst(set, way, tag, delta, offset) ==
  [set EXCEPT ![way] = [tag |-> tag, delta |-> delta, lru |-> 1,
                        offset |-> IF set[way].tag = tag THEN set[way].offset ELSE offset]]

\* the set of the page cache after a lookup; the delta of a new page is that of
\* the one it replaces
Noted(set, way, tag, delta, offset) ==
  [set EXCEPT ![way] = [tag |-> tag, delta |-> delta, offset |-> offset, lru |-> 1]]
-----------------------------------------------------------------------------
\* the sum over the counters of a row
Total(row) ==
  LET sum[w \in 0 .. DELTA_NUM_WAYS] == IF w = 0 THEN 0 ELSE sum[w - 1] + row[w - 1].counter
  IN sum[DELTA_NUM_WAYS]

\* mutant: any recorded successor is good enough
LikelyAny(counter, sum) == TRUE

\* prop >= 1/3
Likely(counter, sum) == sum > 0 /\ 3 * counter >= sum

\* one way of the inner loop.  delta and line are those of the most likely
\* successor so far: the ways that follow are looked up in its row.
Tried(cache, page, sum, walk, w) ==
  LET e == cache[walk.delta][w]
      pf == walk.line + denorm_delta(e.next)
      inPage == pf \div PageOffsets = page
  IN IF ~Likely(e.counter, sum) THEN walk
     ELSE [delta |-> IF e.counter > walk.best THEN e.next ELSE walk.delta,
           line |-> IF e.counter > walk.best THEN pf ELSE walk.line,
           best |-> IF e.counter > walk.best THEN e.counter ELSE walk.best,
           issued |-> IF inPage THEN walk.issued + 1 ELSE walk.issued,
           lines |-> IF inPage THEN walk.lines \cup {pf} ELSE walk.lines]

\* one round of the outer loop
Round(cache, page, walk) ==
  LET sum == Total(cache[walk.delta])
      tried[w \in 0 .. DELTA_NUM_WAYS] ==
        IF w = 0 THEN [walk EXCEPT !.best = 0] ELSE Tried(cache, page, sum, tried[w - 1], w - 1)
  IN tried[DELTA_NUM_WAYS]

\* the lines prefetched from the given delta and line on
Walked(cache, page, delta, line, degree) ==
  LET start == [delta |-> delta, line |-> line, best |-> 1, issued |-> 0, lines |-> {}]
      walk[j \in 0 .. degree] ==
        IF j = 0 THEN start
        ELSE IF walk[j - 1].issued > degree \/ walk[j - 1].best = 0 THEN walk[j - 1]
        ELSE Round(cache, page, walk[j - 1])
  IN walk[degree].lines
-----------------------------------------------------------------------------
MarkovInit ==
  /\ delta_cache = [d \in Delta |-> [w \in DeltaWay |-> [next |-> norm_delta(1), counter |-> 0]]]
  /\ page_cache = [s \in PageSet |-> [w \in PageWay |-> [tag |-> 0, delta |-> 0, offset |-> 0, lru |-> 0]]]
  /\ prefetched = [from |-> <<norm_delta(1), 0>>, lines |-> {}]
  /\ last = [s \in PageSet |-> [t \in Tag |-> -1]]

PageIndex(page) == page % PAGE_NUM_SETS
TagOf(page) == page % TagSpan
Ways(page) == {w \in PageWay : page_cache[PageIndex(page)][w].tag = TagOf(page)}

\* what every lookup ends with
Traverse(page, offset, delta, degree) ==
  LET line == page * PageOffsets + offset IN
    /\ prefetched' = [from |-> <<delta, line>>, lines |-> Walked(delta_cache', page, delta, line, degree)]
    /\ last' = [last EXCEPT ![PageIndex(page)][TagOf(page)] = offset]

\* the page is known and the lookup missed: its delta is recorded
Learn(page, offset, degree) ==
  LET s == PageIndex(page)  w == FirstOf(Ways(page))
      delta == norm_delta(offset - page_cache[s][w].offset)
  IN /\ Ways(page) # {}
     /\ SumFunction([d \in Delta |-> Total(delta_cache[d])]) < MaxRecorded
     /\ delta_cache' = Recorded(page_cache[s][w].delta, delta)
     /\ page_cache' = [page_cache EXCEPT ![s] = Noted(@, w, TagOf(page), delta, offset)]
     /\ Traverse(page, offset, delta, degree)

\* the page is known and the lookup hit
Pass(page, offset, degree) ==
  LET s == PageIndex(page)  w == FirstOf(Ways(page)) IN
    /\ Ways(page) # {}
    /\ page_cache' = [page_cache EXCEPT ![s] = Noted(@, w, TagOf(page), @[w].delta, offset)]
    /\ UNCHANGED delta_cache
    /\ Traverse(page, offset, norm_delta(1), degree)

\* the page is not known
Enter(page, offset, degree) ==
  LET s == PageIndex(page)  w == Victim(page_cache[s]) IN
    /\ Ways(page) = {}
    /\ page_cache' = [page_cache EXCEPT ![s] = Noted(Flipped(@), w, TagOf(page), @[w].delta, offset)]
    /\ UNCHANGED delta_cache
    /\ Traverse(page, offset, norm_delta(1), degree)

\* l2c_prefetcher_operate
Lookup(page, offset, degree) ==
  Learn(page, offset, degree) \/ Pass(page, offset, degree) \/ Enter(page, offset, degree)

MarkovNext ==
  \E page \in PageAddress, offset \in Offset, degree \in Degree : Lookup(page, offset, degree)

MarkovSpec == MarkovInit /\ [][MarkovNext]_markovVars
-----------------------------------------------------------------------------
\* A transition is never counted in two ways of its row, so that its counter
\* is all there is of its probability: although the ways start with a delta
\* that may be recorded as well, and evictions come in between.
CountedOnce ==
  \A d \in Delta, v, w \in DeltaWay :
    /\ delta_cache[d][v].counter > 0 /\ delta_cache[d][w].counter > 0
    /\ delta_cache[d][v].next = delta_cache[d][w].next
    => v = w

\* A page of the page cache is there once and with its last offset: the next
\* delta is the distance of two successive lookups of pages with this tag.
\* Ways that were never written have tag 0, which pages may have, too.
PagesTracked ==
  \A s \in PageSet, v \in PageWay :
    LET t == page_cache[s][v].tag IN
      t # 0 => /\ page_cache[s][v].offset = last[s][t]
               /\ \A w \in PageWay : page_cache[s][w].tag = t => v = w

\* deltas and lines that recorded transitions lead to, in one step
Children(cache, node) ==
  {<<cache[node[1]][w].next, node[2] + denorm_delta(cache[node[1]][w].next)>> :
     w \in {v \in DeltaWay : cache[node[1]][v].counter > 0}}

\* ... and in at most n steps
Chain(cache, from, n) ==
  LET reached[k \in 0 .. n] ==
        IF k = 0 THEN {from}
        ELSE reached[k - 1] \cup (UNION {Children(cache, node) : node \in reached[k - 1]})
  IN reached[n]

\* Only lines of the page that a chain of recorded transitions leads to, from
\* the line and delta of the lookup on, are prefetched: although the walk goes
\* on with another row in the middle of a row, through lines that may be
\* outside of the page.
ChainsOnly ==
  \A pf \in prefetched.lines :
    /\ \E node \in Chain(delta_cache, prefetched.from, DELTA_NUM_WAYS * MaxDegree) : node[2] = pf
    /\ pf \div PageOffsets = prefetched.from[2] \div PageOffsets
=============================================================================

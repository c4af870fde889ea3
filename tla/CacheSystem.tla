---------------------------- MODULE CacheSystem ----------------------------
(***************************************************************************)
(* The caches of Ramulator (labs/lab3/src/Cache.cpp, Cache.h) and the      *)
(* cores that use them (Processor.cpp): L1 and L2 of each core and an L3   *)
(* for all, or only some of the levels.                                    *)
(*                                                                         *)
(* A miss locks a line on every level down to the one that has the block,  *)
(* and an MSHR remembers the line; whatever answers later, a hit on a      *)
(* lower level or the memory, unlocks the block everywhere at once.  Lines *)
(* are evicted from lower levels together with their copies above.         *)
(*                                                                         *)
(* Addresses are block numbers.  Time is kept as the ticks that are left.  *)
(***************************************************************************)
EXTENDS Integers, FiniteSetsExt, Functions, SequencesExt

CONSTANTS
  Block,
  Configs,          \* the systems to check: records of cores, first_level, last_level
                    \* and, as a bound, the requests that the trace of a core may have
  block_num,        \* sets of a cache, by level
  assoc,
  mshr_entry_num,   \* by level; for each core in L3
  latency,          \* accumulated, by level
  latency_each,     \* by level
  depth, ipc,       \* of the window of a core
  MaxOutstanding    \* bound on the requests to the memory at a time

L1 == 1
L2 == 2
L3 == 3
Level == {L1, L2, L3}

ASSUME SizeAssumption ==
  /\ Block \subseteq Nat
  /\ {assoc, depth, ipc, MaxOutstanding} \subseteq Nat \ {0}
  /\ block_num \in [Level -> Nat \ {0}] /\ mshr_entry_num \in [Level -> Nat \ {0}]
  /\ latency \in [Level -> Nat \ {0}] /\ latency_each \in [Level -> Nat]
\* No level has fewer MSHRs or sets than the one above: 16 MSHRs on each, and
\* sizes of 2^15, 2^18 and 2^23 bytes with the same ways and blocks.
ASSUME LevelsAssumption ==
  \A l \in {L1, L2} :
    /\ mshr_entry_num[l] <= mshr_entry_num[l + 1]
    /\ \E n \in 1 .. block_num[l + 1] : block_num[l + 1] = n * block_num[l]
\* L1 and L2 come together.
ASSUME ConfigAssumption ==
  \A c \in Configs :
    /\ IsFiniteSet(c.cores) /\ c.cores # {} /\ c.cores = 1 .. Cardinality(c.cores)
    /\ <<c.first_level, c.last_level>> \in {<<L1, L2>>, <<L1, L3>>, <<L3, L3>>}

VARIABLES
  config,
  caches,           \* lines, mshr_entries and retry_list of each cache
  hit_list,         \* blocks that were hit, with the ticks left
  wait_list,        \* requests for the memory, with the ticks left
  memory,           \* reads the memory has accepted, with their number
  window,           \* of each core: its loads in order
  request,          \* of each core: the request that was refused, or none
  turn,             \* who is next in Processor::tick: 0 the cache system, then the cores
  unsaved,          \* history: blocks written since they were last written back
  aborted           \* history: an assertion of the code failed

system == <<caches, hit_list, wait_list, unsaved, aborted>>
systemVars == <<config, system, memory, window, request, turn>>

NoRequest == [addr |-> -1, type |-> "NONE"]
-----------------------------------------------------------------------------
(* The tree of caches                                                      *)

SharedL3 == <<L3, 0>>
Cache ==
  {<<l, c>> : l \in {L1, L2} \cap (config.first_level .. config.last_level), c \in config.cores}
  \cup (IF config.last_level = L3 THEN {SharedL3} ELSE {})

level(k) == k[1]
is_last_level(k) == level(k) = config.last_level
lower_cache(k) == IF level(k) = L1 THEN <<L2, k[2]>> ELSE SharedL3
higher_cache(k) == {h \in Cache : level(h) = level(k) - 1 /\ lower_cache(h) = k}

\* k and the caches that lead to it
AtOrAbove(k) == {h \in Cache : h = k \/ (level(h) < level(k) /\ (level(k) = L3 \/ h[2] = k[2]))}

mshrs(k) == mshr_entry_num[level(k)] * (IF level(k) = L3 THEN Cardinality(config.cores) ELSE 1)

index(k, a) == a % block_num[level(k)]

\* The operations below take the state of the system as a record and return
\* the one after them.
Now == [caches |-> caches, hits |-> hit_list, waits |-> wait_list, unsaved |-> unsaved, aborted |-> aborted]

lines(s, k, a) == s.caches[k].lines[index(k, a)]
Has(s, k, a) == \E l \in ToSet(lines(s, k, a)) : l.addr = a
LineOf(s, k, a) == CHOOSE l \in ToSet(lines(s, k, a)) : l.addr = a
Unlocked(s, k, a) == Has(s, k, a) /\ ~LineOf(s, k, a).lock

WithLines(s, k, a, seq) == [s EXCEPT !.caches[k].lines[index(k, a)] = seq]
\* without the line of block a, which the sequence has
Erased(seq, a) == RemoveAt(seq, CHOOSE i \in DOMAIN seq : seq[i].addr = a)
\* the line is moved to the end, where the most recently used one is
Refreshed(s, k, a, l) == WithLines(s, k, a, Append(Erased(lines(s, k, a), a), l))
-----------------------------------------------------------------------------
(* Evictions                                                               *)

\* the caches of the tree above k that invalidate and check_unlock visit: those
\* that have the block, as long as the one below has it
Holders(s, k, a) ==
  {h \in AtOrAbove(k) : \A g \in AtOrAbove(k) : h \in AtOrAbove(g) => Has(s, g, a)}

DirtyIn(s, C, a) == \E h \in C : LineOf(s, h, a).dirty

\* ticks the invalidation takes
InvalidateTime(s, k, a) ==
  LET time[g \in AtOrAbove(k)] ==
        IF lines(s, g, a) = <<>> THEN 0
        ELSE IF ~Has(s, g, a) THEN latency_each[level(g)]
        ELSE latency_each[level(g)] +
             Max({0} \cup {time[h] * (IF DirtyIn(s, Holders(s, h, a), a) THEN 2 ELSE 1)
                             : h \in higher_cache(g)})
  IN time[k]

\* mutant: the line is only dirty if it was written on this level
EvictlineClean(s, k, a, dirty) ==
  IF ~Has(s, k, a) THEN [s EXCEPT !.aborted = TRUE]
  ELSE Refreshed(s, k, a, [LineOf(s, k, a) EXCEPT !.lock = FALSE])

\* the asserted line takes over the dirty bit of the level above
evictline(s, k, a, dirty) ==
  IF ~Has(s, k, a) THEN [s EXCEPT !.aborted = TRUE]
  ELSE Refreshed(s, k, a, [addr |-> a, lock |-> FALSE, dirty |-> dirty \/ LineOf(s, k, a).dirty])

\* the block of line v leaves cache k and those above
evict(s, k, v) ==
  LET gone == UNION {Holders(s, h, v.addr) : h \in higher_cache(k)}
      dirty == v.dirty \/ DirtyIn(s, gone, v.addr)
      time == Max({0} \cup {InvalidateTime(s, h, v.addr) +
                            (IF DirtyIn(s, Holders(s, h, v.addr), v.addr) THEN latency_each[level(k)] ELSE 0)
                              : h \in higher_cache(k)})
      left == [s EXCEPT !.caches = [h \in Cache |->
                 IF h = k \/ h \in gone
                   THEN [s.caches[h] EXCEPT !.lines[index(h, v.addr)] = Erased(lines(s, h, v.addr), v.addr)]
                   ELSE s.caches[h]],
               !.aborted = s.aborted \/ \E h \in gone : LineOf(s, h, v.addr).lock]
      write == [left |-> time + latency[level(k)], addr |-> v.addr, type |-> "WRITE"]
  IN IF ~is_last_level(k) THEN evictline(left, lower_cache(k), v.addr, dirty)
     ELSE IF dirty THEN [left EXCEPT !.waits = Append(s.waits, write), !.unsaved = s.unsaved \ {v.addr}]
     ELSE left

\* mutant: lines may be evicted from under locked copies
VictimsUnlocked(s, k, a) == {i \in DOMAIN lines(s, k, a) : ~lines(s, k, a)[i].lock}

\* the lines that may be evicted
Victims(s, k, a) ==
  {i \in DOMAIN lines(s, k, a) :
     \A h \in Holders(s, k, lines(s, k, a)[i].addr) : Unlocked(s, h, lines(s, k, a)[i].addr)}
-----------------------------------------------------------------------------
(* Requests                                                                *)

Refused(s) == [ok |-> FALSE, s |-> s]
Accepted(s) == [ok |-> TRUE, s |-> s]

\* mutant: a new line can be used at once
AllocatedUnlocked(s, k, a, write) ==
  [s EXCEPT !.caches[k].lines[index(k, a)] = Append(@, [addr |-> a, lock |-> FALSE, dirty |-> write]),
            !.caches[k].mshr_entries = @ \cup {a}]

\* a new line, locked, in a set with room, and its MSHR
Allocated(s, k, a, write) ==
  [s EXCEPT !.caches[k].lines[index(k, a)] = Append(@, [addr |-> a, lock |-> TRUE, dirty |-> write]),
            !.caches[k].mshr_entries = @ \cup {a}]

SetFull(s, k, a) == Len(lines(s, k, a)) >= assoc

\* after a miss that is not refused: a victim made room
Missed(s, k, a, write) ==
  Allocated(IF SetFull(s, k, a) THEN evict(s, k, lines(s, k, a)[Min(Victims(s, k, a))]) ELSE s, k, a, write)

\* the line of a request in flight takes over that it is a write
Joined(seq, a, write) ==
  [i \in DOMAIN seq |-> IF seq[i].addr = a THEN [seq[i] EXCEPT !.dirty = @ \/ write] ELSE seq[i]]

\* Cache::send of cache k, where sent is the state after a miss that is passed on
Answered(s, k, a, write, sent) ==
  IF Unlocked(s, k, a) THEN
    Accepted([Refreshed(s, k, a, [LineOf(s, k, a) EXCEPT !.dirty = @ \/ write])
                EXCEPT !.hits = s.hits \cup {[left |-> latency[level(k)], addr |-> a]}])
  ELSE IF a \in s.caches[k].mshr_entries THEN
    Accepted(WithLines(s, k, a, Joined(lines(s, k, a), a, write)))
  ELSE IF Cardinality(s.caches[k].mshr_entries) = mshrs(k) THEN Refused(s)
  ELSE IF Has(s, k, a) /\ (~SetFull(s, k, a) \/ \E l \in ToSet(lines(s, k, a)) : ~l.lock)
    THEN Accepted([s EXCEPT !.aborted = TRUE])
  ELSE IF SetFull(s, k, a) /\ Victims(s, k, a) = {} THEN Refused(s)
  ELSE Accepted(sent)

\* a miss goes to the memory, or to the next level, which gives the answer
PassedOn(s, k, a, answer) ==
  IF is_last_level(k) THEN [s EXCEPT !.waits = Append(@, [left |-> latency[level(k)], addr |-> a, type |-> "READ"])]
  ELSE IF answer.ok THEN answer.s
  ELSE [s EXCEPT !.caches[k].retry_list = Append(@, a)]

send_L3(s, k, a, write) ==
  LET new == Missed(s, k, a, write)
  IN Answered(s, k, a, write, PassedOn(new, k, a, Refused(new)))
send_L2(s, k, a, write) ==
  LET new == Missed(s, k, a, write)
  IN Answered(s, k, a, write, PassedOn(new, k, a, send_L3(new, lower_cache(k), a, FALSE)))
send_L1(s, k, a, write) ==
  LET new == Missed(s, k, a, write)
  IN Answered(s, k, a, write, PassedOn(new, k, a, send_L2(new, lower_cache(k), a, FALSE)))

send(s, k, a, write) ==
  CASE level(k) = L1 -> send_L1(s, k, a, write)
    [] level(k) = L2 -> send_L2(s, k, a, write)
    [] level(k) = L3 -> send_L3(s, k, a, write)
\* what cache k asks of the next level
send_lower(s, k, a) ==
  IF level(k) = L1 THEN send_L2(s, lower_cache(k), a, FALSE) ELSE send_L3(s, lower_cache(k), a, FALSE)

\* One turn of the loop of Cache::tick over the retry list, at position i: what
\* is accepted is erased and its successor skipped; behind the end of the list
\* the loop goes on at its beginning.
Retry(k, loop) ==
  LET list == loop.s.caches[k].retry_list
      result == send_lower(loop.s, k, list[loop.i])
      rest == RemoveAt(list, loop.i)
  IN IF loop.i > Len(list) THEN loop
     ELSE IF ~result.ok THEN [s |-> loop.s, i |-> loop.i + 1]
     ELSE [s |-> [result.s EXCEPT !.caches[k].retry_list = rest],
           i |-> IF loop.i > Len(rest) THEN 1 ELSE loop.i + 1]

\* The loop ends: between two requests that are accepted it takes no more turns
\* than the list is long.
Retried(s, k) ==
  LET n == Len(s.caches[k].retry_list)
      loop[turns \in 0 .. (n + 1) * (n + 1)] ==
        IF turns = 0 THEN [s |-> s, i |-> 1] ELSE Retry(k, loop[turns - 1])
  IN loop[(n + 1) * (n + 1)].s

\* Cache::tick of the first level: the levels that are not last retry
tick(s, c) ==
  IF config.first_level # L1 THEN s
  ELSE Retried(IF config.last_level = L2 THEN s ELSE Retried(s, <<L2, c>>), <<L1, c>>)

\* mutant: the caches above the last level are not told
UnlockLast(cs, A) ==
  [k \in Cache |-> IF ~is_last_level(k) THEN cs[k] ELSE
     [cs[k] EXCEPT !.mshr_entries = @ \ A,
                   !.lines = [i \in DOMAIN @ |-> [j \in DOMAIN @[i] |->
                      IF @[i][j].addr \in A THEN [@[i][j] EXCEPT !.lock = FALSE] ELSE @[i][j]]]]]

UnlockedLines(seq, A) ==
  [j \in DOMAIN seq |-> IF seq[j].addr \in A THEN [seq[j] EXCEPT !.lock = FALSE] ELSE seq[j]]

\* Processor::receive: all caches and cores look for the blocks A
Unlock(cs, A) ==
  [k \in Cache |->
     [lines |-> [i \in DOMAIN cs[k].lines |-> UnlockedLines(cs[k].lines[i], A \cap cs[k].mshr_entries)],
      mshr_entries |-> cs[k].mshr_entries \ A,
      retry_list |-> cs[k].retry_list]]
set_ready(w, A) == [i \in DOMAIN w |-> [w[i] EXCEPT !.ready = @ \/ w[i].addr \in A]]

receive(cs, A) ==
  /\ caches' = Unlock(cs, A)
  /\ window' = [c \in config.cores |-> set_ready(window[c], A)]
-----------------------------------------------------------------------------
(* The processor                                                           *)

SystemInit ==
  /\ config \in Configs
  /\ caches = [k \in Cache |->
                 [lines |-> [i \in 0 .. block_num[level(k)] - 1 |-> <<>>], mshr_entries |-> {}, retry_list |-> <<>>]]
  /\ hit_list = {} /\ wait_list = <<>> /\ unsaved = {} /\ aborted = FALSE
  /\ memory = [a \in Block |-> 0]
  /\ window = [c \in config.cores |-> <<>>]
  /\ request = [c \in config.cores |-> NoRequest]
  /\ turn = 0

Passed(t) == [t EXCEPT !.left = IF @ > 0 THEN @ - 1 ELSE 0]

\* CacheSystem::tick.  Requests that are due, up to the first that is not, are
\* offered to the memory, which may refuse any of them.
CacheSystemTick(accepted) ==
  LET waits == [i \in DOMAIN wait_list |-> Passed(wait_list[i])]
      due == {i \in DOMAIN waits : \A j \in 1 .. i : waits[j].left = 0}
      rest[n \in 0 .. Len(waits)] ==
        IF n = 0 THEN <<>> ELSE IF n \in accepted THEN rest[n - 1] ELSE Append(rest[n - 1], waits[n])
      hits == {Passed(h) : h \in hit_list}
  IN /\ turn = 0 /\ ~aborted
     /\ accepted \subseteq due
     /\ wait_list' = rest[Len(waits)]
     /\ memory' = [a \in Block |-> memory[a] +
                     Cardinality({i \in accepted : waits[i].addr = a /\ waits[i].type = "READ"})]
     /\ receive(caches, {h.addr : h \in {g \in hits : g.left = 0}})
     /\ hit_list' = {h \in hits : h.left > 0}
     /\ turn' = 1
     /\ UNCHANGED <<config, request, unsaved, aborted>>

\* the memory answers a read, between two ticks of the processor
Answer(a) ==
  /\ turn = 0 /\ ~aborted
  /\ memory[a] > 0 /\ memory' = [memory EXCEPT ![a] = @ - 1]
  /\ receive(caches, {a})
  /\ UNCHANGED <<config, hit_list, wait_list, unsaved, aborted, request, turn>>

first_level_cache(c) == IF config.first_level = L3 THEN SharedL3 ELSE <<L1, c>>

\* loads leave the window in order
retire(w) ==
  LET n == Max({i \in 0 .. Min({ipc, Len(w)}) : \A j \in 1 .. i : w[j].ready}) IN SubSeq(w, n + 1, Len(w))

Become(s) ==
  /\ caches' = s.caches /\ hit_list' = s.hits /\ wait_list' = s.waits
  /\ unsaved' = s.unsaved /\ aborted' = s.aborted

Turn(c) ==
  /\ turn = c /\ ~aborted
  /\ turn' = (c + 1) % (Cardinality(config.cores) + 1)
  /\ UNCHANGED <<config, memory>>

\* Core::tick that sends no request: the core has other instructions first
CoreIdles(c) ==
  /\ Turn(c)
  /\ request[c] = NoRequest
  /\ \E s \in {tick(Now, c)} : Become(s)
  /\ window' = [window EXCEPT ![c] = retire(@)]
  /\ UNCHANGED request

\* Core::tick that sends a request, a new one or the one that was refused
CoreSends(c, a, type) ==
  LET w == retire(window[c])
      new == [addr |-> a, type |-> type]
  IN /\ Turn(c)
     /\ new \in config.requests[c]
     /\ IF request[c] = NoRequest THEN Len(wait_list) + SumFunction(memory) < MaxOutstanding
                                  ELSE request[c] = new
     /\ type = "READ" => Len(w) < depth
     /\ \E s \in {tick(Now, c)} : \E result \in {send(s, first_level_cache(c), a, type = "WRITE")} :
          /\ request' = [request EXCEPT ![c] = IF result.ok THEN NoRequest ELSE new]
          /\ window' = [window EXCEPT ![c] =
                          IF result.ok /\ type = "READ" THEN Append(w, [addr |-> a, ready |-> FALSE]) ELSE w]
          /\ Become([result.s EXCEPT !.unsaved = IF result.ok /\ type = "WRITE" THEN @ \cup {a} ELSE @])

SystemNext ==
  \/ \E accepted \in SUBSET DOMAIN wait_list : CacheSystemTick(accepted)
  \/ \E a \in Block : Answer(a)
  \/ \E c \in config.cores : CoreIdles(c)
  \/ \E c \in config.cores, a \in Block, type \in {"READ", "WRITE"} : CoreSends(c, a, type)

SystemSpec == SystemInit /\ [][SystemNext]_systemVars
-----------------------------------------------------------------------------
Lines(k) == UNION {ToSet(caches[k].lines[i]) : i \in DOMAIN caches[k].lines}

\* Cache.cpp:202: "check inclusive cache".  The assertions of evictline,
\* invalidate and need_eviction never fail: a line that is evicted is on the
\* level below, no copy that is invalidated is locked, and no block gets two lines.
AssertionsHold == ~aborted

\* The MSHRs of a cache are those of its locked lines, although lines move,
\* are evicted and are unlocked by answers to requests of others.
MSHRsMatchLockedLines ==
  \A k \in Cache : caches[k].mshr_entries = {l.addr : l \in {m \in Lines(k) : m.lock}}

Underway(k, a) ==
  \/ a \in ToSet(caches[k].retry_list)
  \/ \E h \in hit_list : h.addr = a
  \/ IF is_last_level(k) THEN memory[a] > 0 \/ \E i \in DOMAIN wait_list : wait_list[i].addr = a /\ wait_list[i].type = "READ"
                         ELSE a \in caches[lower_cache(k)].mshr_entries

\* A load that is not ready, and a locked line, always have an answer under way.
NothingForgotten ==
  /\ \A k \in Cache : \A a \in caches[k].mshr_entries : Underway(k, a)
  /\ \A c \in config.cores : \A l \in ToSet(window[c]) :
       l.ready \/ l.addr \in caches[first_level_cache(c)].mshr_entries \/ \E h \in hit_list : h.addr = l.addr

\* What was written is dirty on some level until it is on its way to the memory,
\* although evictions drop the line that was written and leave the dirty bit to
\* the level below.
DirtyKept ==
  \A a \in unsaved : \E k \in Cache : \E l \in Lines(k) : l.addr = a /\ l.dirty
=============================================================================

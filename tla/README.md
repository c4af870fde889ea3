# Verification of the simulators of eth-computer-architecture

The repository holds the labs of a computer-architecture course. The code written
for it simulates parts of processors: an in-order MIPS pipeline with first-level
caches (`labs/lab1`), the same pipeline over L1 caches, an L2 cache with MSHRs, an
interconnect and a DRAM controller (`labs/lab2`), two memory schedulers added to
Ramulator (`labs/lab3`), and prefetchers added to ChampSim (`labs/lab4`). This
directory holds TLA+ models of that code, the TLC configurations that check them
and proofs of their main properties for every value of their constants.

Contents: [the system](#the-system), [the models](#the-models),
[the runs](#the-runs), [what the runs found](#what-the-runs-found),
[known deviations](#known-deviations), [the proofs](#the-proofs),
[what is not modelled](#what-is-not-modelled).

## The system

### lab2: memory hierarchy

One call of `pipe_cycle` (pipe.c) is one cycle of everything. It runs, in this
order, `interconnect_cycle`, `memory_cycle`, the five stages of the pipeline from
the last to the first, and the branch recovery. Nothing runs in parallel, but
every operation spreads over many cycles, so requests interleave.

| part | state | operations | talks to |
|---|---|---|---|
| pipeline (`pipe.c`) | `PC`, one operation per stage, scheduled recovery | the stages, `pipe_recover` | accesses both L1 caches; a miss stalls the stage, which repeats its access in every cycle; a recovery cancels the fetch |
| L1 caches (`l1_cache.c`) | ways with valid, tag, timestamp | `l1_cache_access`, `l1_insert_block`, `l1_cancel_cache_access` | a miss allocates a `Cache_Block` and probes the L2 cache |
| L2 cache (`l2_cache.c`) | ways, `mshrs`, `mshr_count` | `l2_cache_probe`, `l2_insert_block`, `l2_cancel_cache_access` | answers through the interconnect after 15 cycles, or sends the block to the memory |
| interconnect (`interconnect.c`) | `latency_queue` of messages with cycles left | `interconnect_send`, `interconnect_cycle`, forwarders | calls the receiver when a message is due |
| DRAM controller (`memory.c`) | `pending_requests`, `ongoing_requests`, bank row buffers | `memory_add_request`, `memory_cycle` | sends finished blocks back to the L2 cache |
| list (`list.c`, third-party) | doubly linked lists | push at the head, iterate from the tail, remove | used by interconnect and controller |
| shell (`shell.c`) | simulated registers and memory, `RUN_BIT` | commands, program loader | calls `pipe_cycle` while `RUN_BIT` is set |

What is hard: a `Cache_Block` is passed by pointer from the L1 cache through the
queue, the memory and back and is freed in one of three places; stalled stages
repeat their probes, so L2 hits answer several times and answers come late; a
probe may be refused (no MSHR), merged (same block and cache) or cancelled, and
its block still returns; both caches compete for MSHRs, buses and banks;
`memory_cycle` checks a request for conflicts once, when it starts. What makes it
correct: each block has one owner and is freed once; MSHRs and requests match one
to one; no stage waits for ever; no set holds a block twice; no two requests use a
bus or a bank in the same cycle; requests to one row keep their order.

### lab1: caches

`cache.c` is one cache with six replacement policies named
`<replacement>_<insertion>`, or a disabled one. Its state is an array of ways with
valid, tag, `last_access` and `insert_timestamp`, and two counters. Its only
operation is `cache_access`, which `pipe.c` calls for fetches, loads and stores; on a
miss the stage waits for a fixed number of cycles. What is hard: recency and arrival
are numbers that are compared, so ties, overflow and who writes which number decide
what is evicted. It is correct if the cache holds the blocks an ordered list with
that policy would hold.

### lab1 and lab2: pipeline

`pipe.c` is the same five-stage pipeline in both labs, with a fixed miss penalty in
lab1 and the memory hierarchy in lab2. Its state is an operation per stage, registers,
HI and LO with a counter until they are ready, a scheduled branch recovery and
`RUN_BIT`. Stages run from the last to the first in each cycle and hand operations
over through pointers. What is hard: bypasses from two stages, stalls of any length in
two places, wrong-path instructions, and an exit system call behind which others are
already executing. It is correct if a program cannot tell it from a machine that
executes one instruction after the other.

### lab3: Ramulator with two memory schedulers

The lab adds ATLAS and BLISS to Ramulator, whose code is in the repository.

| part | state | operations | talks to |
|---|---|---|---|
| cores and caches (`Processor.cpp`, `Cache.cpp`) | lines in order of use, MSHRs, `retry_list` of each cache; `hit_list`, `wait_list`; windows | `Core::tick`, `Cache::send`, `evict`, `callback`, `CacheSystem::tick` | sends requests to the memory, which may refuse them; answers come back by address |
| memory controller (`Controller.h`) | four queues, `pending`, `write_mode`, counters of ATLAS and BLISS | `enqueue`, `tick` | asks a scheduling policy for the head of a queue, the row table for hits, the tree of DRAM nodes for the next command and whether it is ready |
| policies, row table (`Scheduler.h`), refresh (`Refresh.h`) | row and hits per bank, ranking, blacklist, streak | `get_head`, `compare`, `update`, `tick_ref` | read the queues |
| DRAM (`DRAM.h` and one file per standard) | tree of channel, ranks, banks, subarrays with states, open rows, times | `decode`, `check`, `update` with tables of functions and constraints | |

What is hard: starvation (only an age threshold and a clearing interval protect
cores); two records of which row is open, the tree and the row table; fourteen files of
prerequisites and constraints copied from each other; answers that go by address, to
whatever line has it by then. It is correct if every request is served, a read sees
the writes before it, tree and table agree, each command has its delay, the data bus
is used by one access at a time, and the levels of caches stay inclusive.

### lab4: prefetchers

| part | state | operations |
|---|---|---|
| GHB stride prefetcher (`inc/ghb.h`, `ghb.l2c_pref`) | index table `it`, circular buffer `ghb` linked by `prev`, `next`, `it` pointers, degree and distance | `operate` for every load, `set_aggressiveness` |
| feedback-directed prefetcher (`fdp.l2c_pref`) | the same, and a counter 1..5 | sampling accuracy and lateness, then `operate` |
| Markov prefetcher (`markov.l2c_pref`) | delta cache (LFU) of which delta follows which, page cache (NRU) of last offsets | `l2c_prefetcher_operate`: record, then walk the likely deltas |

What is hard: the buffer overwrites its oldest load, to which pointers of other loads
and of the index table may still lead; unsigned arithmetic. GHB is correct if a
chain only ever holds loads of one instruction, youngest first, and if predictions
follow from three equidistant loads; FDP if level, counter and tables stay in step and
move by one; Markov if each page is known once by its last offset, each transition is
counted in one place, and only lines that recorded transitions lead to are prefetched.

### The rest

`vivado` has a four-bit ripple-carry adder. `homeworks`, reports, inputs and traces are
texts and data. ChampSim, the prefetchers the lab compares with, and the list library
are third-party, as is most of Ramulator.

## The models

| module | models | how |
|---|---|---|
| `Memory` | `memory.c` | one action per request retired, passed over or scheduled; the order of `memory_cycle` is kept by `stage` and `cursor` |
| `LruSet` | one set of a lab2 cache | sequence of tags, least recently used first |
| `MemHierarchy` | `l1_cache.c`, `l2_cache.c`, `interconnect.c` and the stages of `pipe.c` that use them, composed with `Memory` by `INSTANCE` | `stage` walks through one `pipe_cycle` |
| `Ways` | the searches over ways of all caches, `int` counters | |
| `LruWays` | `l1_cache.c`, `l2_cache.c` as ways with timestamps | one action per access and insertion |
| `LruCache` | what these caches promise: sets of `LruSet` | refined by `LruWays` |
| `CacheWays` | lab1 `cache.c` | `Access` (hit, fill, replace) and `AccessDisabled` |
| `OrderedCache` | what its six policies promise: a set of blocks with an order | written from the names and comments of the policies |
| `CachePolicies` | `CacheWays` and `OrderedCache` seeing the same accesses | `held` and `before` are history variables |
| `Ghb` | `inc/ghb.h`, `ghb.l2c_pref` | one action per call of `operate` |
| `Fdp` | `fdp.l2c_pref` on top of `Ghb` | a sample and the load after it are one action, as in the code |
| `Isa` | what the pipeline promises: one instruction after the other | written from the instruction set |
| `Instructions` | what an instruction does, as parameters | constant operators |
| `Mips` | every instruction of `pipe.c`, in a small word | an operator per use the stages make of an instruction |
| `Pipe` | the five stages of `pipe.c` | `stage` walks through one `pipe_cycle`; one action per stage and outcome |
| `Markov` | `markov.l2c_pref` | one action per lookup, the walk is a recursive function |
| `DramChannel` | `DRAM.h` with DDR3: open rows, and when commands are accepted | operators on `open` and `next` |
| `Controller` | `Controller.h`, `Scheduler.h`, `Refresh.h`, the quanta of `Memory.h`, on `DramChannel` | `Enqueue`, `Tick`, and a request passing ATLAS's threshold |
| `Standards` | the seventeen kinds of DRAM: prerequisites, row hits, state changes | an operator per table of functions |
| `StandardTimings` | their timing constraints | shared parts by the code's comments, differences as arguments |
| `StandardChannel` | the walks over the tree, the row table, row policies, over `Standards` and `StandardTimings` | one action per command for a request |
| `CacheSystem` | `Cache.cpp`, `Cache.h`, `Processor.cpp` | one action per tick of a core or of the cache system, and answers |
| `MC*` | instances for TLC | values of constants only |
| `SeqLemmas`, `*Proofs` | lemmas and theorems | |

### Abstractions

* **Lists** are sequences with the oldest element first: the code pushes at the head
  and iterates from the tail.
* **Time.** The controller stores the absolute cycle of every command, but uses it
  only relative to `curr_cycle`; an ongoing request keeps its age instead.
* **Addresses** are block numbers. Set, bank and row are remainders and quotients of
  the number, of which the code's bit fields are the case of powers of two.
* **LRU order.** `MemHierarchy` keeps the order of a set instead of timestamps.
  `LruWays` justifies this: with ways and timestamps, each operation does to the order
  what `LruSet` says, until a timestamp overflows.
* **Integers.** `int` counters wrap from `IntMax` to `IntMin` (signed overflow is
  undefined; the Makefiles' builds wrap). FDP's unsigned sum is taken modulo `Wrap`.
* **Memory management.** `heap` holds the cache blocks something still refers to.
  `malloc` may return any other address. A block whose probe is refused or merged is
  dropped without `free` in the code; the model lets its address be reused, which
  nothing can observe. That this leaks memory is not a property of the model.
* **Instructions** of `MemHierarchy` are abstracted to what they ask of the caches: any data block or
  none, any branch target or none, and stalls of the execute stage for any time. Every
  program is a behaviour of the model; the model has more.
* **The end.** The exit system call clears `RUN_BIT` and the simulator stops; behaviours
  of `MemHierarchy` go on instead, those of `Pipe` stop.
* **GHB** pointers are slot numbers or `NULL`, addresses are cache-line addresses,
  the list of predicted addresses is a set. The constructor leaves its arrays
  uninitialised; `Init` takes the zero pages a fresh allocation of that size gets.
* **FDP** samples see any accuracy and any lateness: ChampSim computes them.
* **Debug output** and code under debug switches that are off are left out.
* History variables that no action reads: `owner` (`Ghb`: which instruction loaded a
  slot), `overflowed`, `held` and `before`.
* **Instructions of `Pipe`** are parameters: operands, result, target, latency and so on.
  `Isa` and `Pipe` share them, so the refinement is about the pipeline and not about what
  an addition returns. A cache access hits or misses as it likes; the memory is looked up
  and written in the mem stage, as in the code. `-2^31 / -1`, on which the host's division
  raises an exception, is no program of the model; shifts by a register go by the amount
  modulo the width, as the build has it. The bypass from the slot of the mem stage, which
  is always empty when the code looks there, is left out.
* **Controller.** Time since the last refresh and until commands are accepted is kept, absolute
  cycles are not. The service a core attained becomes any order of the cores after any
  quantum; crossing ATLAS's age threshold is a step of its own, of reads only; BLISS's
  clearing interval ends at any time. Statistics are left out. `behind` and `forwarded` are
  history variables.
* **Standards.** One rank, whose tree keeps power state, states of banks and subarrays, and open
  rows. The scheduler is any; when a constraint ends is not modelled there, but which
  constraints apply is. Names of commands are those of DDR3. Frequencies are left out,
  cycles are those of the speeds and chips that `configs/` names.
* **Caches of lab3.** Instructions without a request are ticks without one. A refused request is
  sent again. The invalidation reads a line after it has erased it
  (Cache.cpp:232, 247); the build still finds the dirty bit there, and so does the model.
* **Markov** keeps the free MSHRs of ChampSim as any degree; the walk, its prefetches and its
  changes of row inside a loop are as in the code.

### How they compose

`MemHierarchy` instantiates `Memory` with its own pointers and calls the controller's
actions as conjuncts of its own; the property `MemoryUsedAsSpecified` is `Memory`'s
whole specification, fairness included. So what holds of `Memory` holds of the
controller inside the hierarchy. `Fdp` extends `Ghb` in the same way, and
`CachePolicies` runs `CacheWays` and `OrderedCache` in lockstep. `Pipe` stands on the
hierarchy by its fairness: that an access which is repeated hits in the end is assumed in
`Pipe`, and is what `DataArrives` and `FetchResumes` show of `MemHierarchy`, for
any program. `Controller` extends `DramChannel`, and `StandardChannel` shows for all
standards what `DramChannel` has of one. `CacheSystem` leaves the memory to its
environment: any read it has accepted may be answered at any time.

## The runs

| run | properties | question |
|---|---|---|
| `memory` | `TypeOK`, `NoConflict`, `RowOrder`, `Served` | Do requests ever collide, overtake each other within a row or starve? |
| `memory_row_hits` | `RowHitsFirst` (violated) | Are row hits prioritised? |
| `hierarchy` | `TypeOK`, `Ownership`, `MSHRsMatchRequests`, `CountExact`, `SetsWellFormed`, `DataArrives`, `FetchResumes`, `MemoryUsedAsSpecified` | Do caches, MSHRs, messages and memory agree on who owns which block, for every program? Does every stalled stage go on, and is the controller used as specified? |
| `lru_ways` | `ImplementsLru` | Are ways and timestamps the LRU orders? |
| `cache_policies` | `SameBlocks`, `DisabledWaits` | Do five of the policies keep the blocks they promise? Does a disabled cache make every request wait? |
| `pipe` | `ImplementsIsa`, `StateAtExit` | Can a program tell the pipeline from a machine that executes one instruction after the other, and how far is the state printed at the exit from that of the program? |
| `ghb_and_fdp` | `FdpTypeOK`, `BackLinks`, `ChainsPure`, `StepsByOne`, `PredictionsJustified` | Does a chain ever lead into another instruction's history? Do counter, level and tables stay in step, and are all predictions justified? |
| `markov` | `CountedOnce`, `PagesTracked`, `ChainsOnly` | Are transitions counted in one place and pages known by their last offset, and does a walk leave the recorded chains or the page? |
| `ramulator_controller` | `RowTableAgrees`, `ServingExact`, `ReadsSeeWrites`, `RefreshesKeepUp`, `Served` | Under each of the six policies, do rows, counters and the coherence shortcut agree, do refreshes keep up, and is every core served? |
| `dram_standards` | `TableAgreesWithTree`, `SubArraysAsDesigned`, `RequestsProgress`, `NextIsTimed`, `MigrationIsReady`, `DataBusExclusive` | For each kind of DRAM, after any requests: do tree, row table and timing tables agree, and does every request get to its last command? |
| `ramulator_caches` | `AssertionsHold`, `MSHRsMatchLockedLines`, `NothingForgotten`, `DirtyKept` | Do levels stay inclusive, is every line unlocked in the end, is no write lost? |
| `ramulator_caches_shared` | `AssertionsHold` (violated) | The same with two cores and all three levels |

### Bounds, and why they are enough

* `memory`: four requests at a time, of four tags: two in one row, a third in another
  row of that bank, a fourth in the other bank. A conflict needs two ongoing requests
  and a candidate, overtaking two of one row behind a third, starvation a stream of
  others past a request; banks, rows and buses are told apart, and times keep the
  proportions 1 : 4 : 2 for 4 : 100 : 50 so that bank and bus intervals overlap in every way.
* `hierarchy`: three blocks, two MSHRs, a fully associative instruction cache of
  two blocks and a direct-mapped data cache of two, an L2 cache of two. With three
  blocks over two-block caches everything can be evicted, and the block a stage waits for
  is evicted by the next insertion; with two MSHRs and two caches asking for three blocks
  probes are refused, merged and cancelled. The L2 answer takes two cycles, so several
  copies of an answer are under way. Nine pointers are more than can be in use at once.
  The allocator takes the lowest free address, because no code compares addresses; the
  proofs do without this restriction, and hold for every geometry and every latency.
* `lru_ways`: four blocks compete for three ways of a set, a fifth shares the counter
  from another set. Seven accesses before the overflow are enough to fill the set, hit
  in every position and evict.
* `cache_policies`: three blocks for two ways, and one in another set.
* `pipe`: words of eight bits (two for each byte), registers 0, 1, 2, 3 and 31. The four
  long programs use every instruction, most of them on the result of the one or two before
  it, which is as far as bypasses reach; the others are all sequences of three out of an
  addition, a load, a store, a multiplication, a move from LO and a branch, between setting
  the exit code and the system call, with two instructions behind it. Multiplications take 2
  cycles and divisions 4 instead of 4 and 32: longer and shorter than what is between them
  and their use. A miss stalls for no further cycle, as in lab2, or for two, as the 48 of
  lab1, and may repeat.
* `ghb_and_fdp`: two instructions that share the one index-table entry, and four slots:
  the entry changes hands and the buffer wraps while references are around. The five
  levels of the code, three addresses near a page boundary (equidistant ones, equal ones
  and others). `Wrap` is 16 instead of 2^64. The theorems hold for all sizes and widths.
* `markov`: pages of two lines, so four deltas; two ways of a row, so that the least
  frequent one is evicted; three pages for three ways of one set, one with the tag that
  unwritten ways have. Four transitions at a time (`MaxRecorded`). The theorems hold
  for all sizes and any degree.
* `ramulator_controller`: two banks, one with two rows; core 0 reads two of the three
  addresses, core 1 reads the third and writes the first, so that rows conflict, reads meet
  writes to their address, and one core's row hits can keep the other waiting. Queues
  of two, marks of one, refresh every seven cycles, delays of two: each delay leaves one
  cycle in which the command is not ready. The cap and BLISS's threshold are one. A core
  waits for two reads, or one, at a time and sends one write after each read: traces end,
  and without the bound writes would keep coming for ever. `Served` says that a core does not
  wait for ever with its window full: each read of core 1, whose window is one, is served, and of core 0,
  whose window is two, always some read, although one might be passed over by others of its own.
* `dram_standards`: two banks, three subarrays (SALP-2 closes others one after another, so two
  are not enough), two rows of which one is fast in TL-DRAM. Power-down and self-refresh are
  requests like any other, although no code sends them; auto-precharge and the victims of
  the row policies are included, although the constructor of the controller chooses the row
  policy `Opened`, which has neither.
* `ramulator_caches`: a core with three levels that loads and stores three blocks; two cores with
  two levels and no L3, of which one uses three blocks and the other two of them; two cores that share
  an L3 alone and use two blocks each. One set of two ways in each cache,
  two MSHRs, a window of one load, three requests to the memory at a time: three blocks
  over two ways evict on every level of the first two systems, also under locked lines, and in the L3 of
  the third. Latencies 2, 3, 4 keep the
  order of the code's 4, 16, 47. In these systems no cache ever refuses a request of a cache
  above it, so that `retry_list` stays empty (`RetryListsStayEmpty`); that takes two cores above a shared L3.
* `ramulator_caches_shared`: that case, with a second L3 set; core 1 loads
  blocks 0 and 4, core 2 stores to 0, 1 and 2.

No run uses a state constraint. Bounds that cap a counter: `IntMin` and `IntMax`, which
wrap as the code does; the ages of requests, which end when they retire; `MaxReads`,
`MaxRecorded` and `MaxOutstanding` above. Deadlock is checked in all runs but `pipe`,
where the simulation stops at the exit system call.

### Fairness

The shell calls `pipe_cycle` in `while (RUN_BIT)` (shell.c), and `pipe_cycle` runs every
part once. Nothing is ever skipped or disabled, so weak fairness of the next-state
relation (`MemHierarchy`) is what the loop gives. For `Memory` alone it is weak fairness
of the controller's own steps: the environment may add a request whenever one may
arrive, but `Cycle` goes on. Each cycle of a stall and each choice of a program are
choices without fairness: `FetchResumes` and `DataArrives` hold for every program,
unfair ones included. An instruction in the execute stage may stay there for ever in
the model, which is why neither property is about it.

`Pipe` has weak fairness of its next-state relation for the same loop, and strong fairness of
a data access and a fetch that hits: a stage repeats its access until it does, and the
hierarchy (or lab1's fixed penalty) makes it.

`Controller` has weak fairness of the clock, since the simulator's main loop never stops
calling `tick`; of a read passing ATLAS's threshold, since it is a number of cycles; and of
an empty blacklist, since BLISS clears it every few thousand cycles. Without the last one a
blacklisted core starves. `StandardChannel`, `CacheSystem` and `Markov` are checked for safety
only.

## What the runs found

* **Row hits are not prioritised** (`memory_row_hits`). `memory_get_rb_status` reads
  `row_buffer_open` and `row_buffer`, which no code writes: every request is a row-buffer
  miss, the search for row hits (memory.c:194, README:50) never finds one, and the
  controller is first-come, first-served among the requests that can start. All theorems
  about `Memory` hold for the code as it is.
* **An answer unlocks a line of somebody else** (`ramulator_caches_shared`). Two cores, all three
  levels. Core 2 hits a block that core 1's miss then evicts everywhere, and asks for it
  again: L1 and L2 lock a line, and L3 refuses the request because of its two lines one is
  locked and the other is locked above. The callback of the older hit then unlocks the new lines, whose data nobody has
  asked for, since `Processor::receive` goes by address. When the next miss evicts the block
  from L2, `evictline` does not find it in L3, and the assertion "check inclusive
  cache" (Cache.cpp:202) stops the simulator. The systems of `ramulator_caches`, where
  nothing below L1 is refused, do not have this.

## Known deviations

What else differs from a comment or a report, or from what a reader expects, and is
modelled as it is:

* **MRU replacement with LRU insertion** (lab1 cache.c:138, comment at 117). A block inserted at the
  LRU location gets the timestamp of the block that is there. From then on the search for
  the highest timestamp meets ties and takes the first way: it evicts the block it has
  just inserted, at the other end of the order. The run and the theorem about the
  policies are about the other five.
* **GHB forgets too much** (ghb.h:114, 119). A slot keeps its `it` pointer when the entry
  goes to another instruction, and its `next` pointer when it is reused. When such a
  slot is overwritten, the history of an unrelated instruction is lost or cut. No chain
  is ever wrong because of it (`ChainsPure`), only shorter.
* **A decrement at the lowest level of FDP** goes to the highest one (fdp.l2c_pref:76; comment at 40):
  counter 1 minus 1 is 0, which the test that catches the upper end turns into 5.
  `StepsByOne` states this exception and shows that it is the only one.
* **A merged fetch can be marked as cancelled** (l2_cache.c:91, l2_cache.h:21). A fetch that is
  redirected away and back merges with its own cancelled MSHR, whose `valid` bit stays
  false. The block then enters the L2 cache only and the fetch asks again, which costs
  time; `FetchResumes` shows that it gets through.
* **HI, LO, the memory and the PC at the exit** (lab2 pipe.c:178, 754; lab1 pipe.c:242). The exit
  system call clears `RUN_BIT` in the write-back stage, after the instruction behind it may have
  been executed, and the other stages still run in that cycle. Up to two instructions behind the
  system call have set HI and LO when `rdump` prints them (lab2 shell.c:200) and `run.py`
  compares them (lab2 run.py:84); the first of the two may have stored to the memory that `mdump`
  prints; and a taken branch among them overwrites the `PC`, which the system call has just set. Only
  R0 to R31 are those of the program. `StateAtExit` says this, and that it is all: HI, LO and the PC
  are those after none, one or two of these instructions (the PC may also be that after the system
  call), and the memory is that after none or one. The programs of the run reach each of these cases.
* **FRFCFS_PriorHit has a `get_head` of its own that is never called** (Scheduler.h:143):
  the one of its base class (Scheduler.h:62) is not virtual, so that requests whose row a hit
  waits for are not kept back as the comment says. The model calls the base class's.
* **Markov** (markov.l2c_pref). The NRU victim loop resets the used bits as soon as way 0 is used,
  so that only two of the twelve ways are ever chosen (comment at 135). A page that
  replaces another one keeps that one's delta, so its first transition is counted for a
  delta of another page. `next_delta` changes inside the loop over its own row, and a walk
  may prefetch more lines than the degree. A page with tag 0 hits ways that were never
  written. None of this makes a prefetch leave the recorded chains (`ChainsOnly`).
* **Ramulator's caches.** The early unlock above also leaves an MSHR that points to an erased line.
  A write that the memory refuses stays in `wait_list` and a later read of the block may
  overtake it. The loop over `retry_list` (Cache.cpp:392) skips the successor of what it erases; only cores that
  share an L3 ever put something into that list.
* **Ramulator's standards.** SRE is accepted with open rows in several standards although the comment
  says rows are closed (DDR3.cpp:291). No table has a delay from power-down exit to
  PRE_OTHER or SASEL in SALP. Some times are zero in the speed tables (GDDR5 and STT-MRAM nXS,
  WideIO nXSR, LPDDR4 nCKE, PCM nRFC and nPD; all of ALDRAM's initial table). TL-DRAM has no
  delay from WR to PREM or from PREA to ACT, and its controller starts writing only when the
  write queue is at 80 % (Controller.cpp:81), so that a few last writes may never be served. Of all
  standards only DDR4 separates RDA and WRA from REF (DDR4.cpp:329). `NextIsTimed` names its exceptions.
* **TL-DRAM's and the general controller, on an empty queue.** With a row policy other than `Opened` the
  service of a speculative precharge is booked to `req->coreid`, although `req` may be the end
  of the queue (Controller.h:418). `Opened` never has a victim.
* **The timestamps** of lab1's and lab2's caches are `int`s that count every access, also those that a
  stalled stage repeats. After 2^31 of them they overflow and the newest block looks like
  the oldest one. `SameBlocks` and `ImplementsLru` are about the time before.

## The proofs

Each `*Proofs` module extends the modules it is about. `tlapm` checks every leaf.
The assumptions are the named `ASSUME`s of the modules (sizes are positive numbers,
`malloc` returns a free address if there is one, `NULL` is none of them, page and table sizes fit;
the number of sub-arrays is finite;
of Ramulator's caches, that no level has fewer MSHRs or sets than the one above and that the sets
are multiples of each other, as the sizes in `Processor.h` are;
for refreshes, that no delay of the DRAM is longer than a third of `nREFI`: the longest one in DDR3's
tables, `nRFC`, is less than a twentieth of it). TLC evaluates them in the runs.

| module | theorems |
|---|---|
| `MemoryProofs` | `TypeCorrect`, `NoConflictAlways`, `RowOrderAlways` |
| `MemHierarchyProofs` | `HierarchyTypeCorrect`, `OwnershipAlways`, `MSHRsMatchAlways`, `ProbeFindsMSHR`, `SetsAlwaysWellFormed`, `UsesMemory` |
| `PipeProofs` | `PipelineIsSequential`, `StateKept` |
| `PrefetcherProofs` | `ChainsAlwaysPure`, `BackLinksAlwaysMatch`, `PredictionsAlwaysJustified`, `FdpTypeCorrect`, `FdpStepsByOne`, `FdpPredictionsJustified`, `TablesInRange`, `TransitionsCountedOnce`, `PagesAlwaysTracked`, `PrefetchesFollowChains` |
| `ControllerProofs` | `RowTableAlwaysAgrees`, `ServingAlwaysExact`, `ReadsAlwaysSeeWrites`, `RefreshesAlwaysKeepUp` |
| `StandardChannelProofs` | `TableAlwaysAgrees`, `SubArraysAlwaysAsDesigned`, `MigrationAlwaysReady`, `RequestsAlwaysProgress`, `BusAlwaysExclusive`, `NextAlwaysTimed` |
| `CacheProofs` | of lab1 and lab2: `CachesFollowPolicies`, `CachesTyped`, `DisabledCacheWaits`, `WaysImplementLru`; of lab3: `CacheAssertionsHold`, `MSHRsFollowLocks`, `NoRequestForgotten`, `WritesKept`, `RetryListsStayEmpty` |
| `SeqLemmas` | lemmas: what `Append` and `RemoveAt` do to the elements of a sequence; induction and recursion up to a number |

How the arguments go:

* **No conflicts in the memory.** `NoConflict` with `TypeOK` is inductive: the new
  request was compared with every ongoing one, and from then on all of them age
  together, so that the distance of any two intervals never changes. Timing and number
  of banks are arbitrary.
* **Row order.** Of two requests to one row of one bank, both are candidates or neither is,
  since what `memory_is_candidate` compares depends on bank and row-buffer status
  alone. The older one is found first.
* **Ownership and MSHRs.** The invariant that carries over is stronger than the properties:
  messages, memory and heap are accounted for together (`Accounts`), MSHRs in use are
  in bijection with the outstanding blocks, and no two of them wait for the same block.
  The last part is why a block that returns always finds its own MSHR
  although the code looks for it by tag and cache. `CountExact` then gives that
  an admitted probe finds a free MSHR: the `assert(0)` of `l2_cache_probe` is dead.
* **Composition.** `UsesMemory` shows that each step of the hierarchy is a step of `Memory` or
  leaves it alone; in particular a block is given to the memory only if it is not there.
* **The pipeline.** `PipelineIsSequential` is the safety part of `ImplementsIsa`, for any
  instruction set, any programs and any answers of the caches. The state of the sequential
  machine is what the pipeline has committed when an instruction is executed: registers with
  the results of the mem and write-back slots on top, the memory with the store in front of the mem stage,
  HI and LO at once (`Committed`, after Burch and Dill). Of the stages only execute changes
  that state, and it does what the instruction at its PC does. The invariant says that the
  slots in front of the execute stage hold the instructions that come next, unless a
  recovery is scheduled that will flush them (`SlotsInOrder`), that a recovery is handled in the cycle
  that schedules it (`StagesInOrder`), and where the exit system call is (`ExitInOrder`): on its way
  to the write-back stage with at most one instruction behind it executed (`ExitUnderWay`), or past
  it in its last cycle (`ExitPassed`), in which the mem stage may let one instruction pass and the
  execute stage run one more. `StateKept` follows. It has one premise, `ExitsFallThrough`: an exit
  system call is not a taken branch. In the code the two have different opcodes or subops; `MCPipe`
  evaluates the premise for `Mips` and the instructions of its programs.
* **GHB.** `ChainsPure` is not inductive: the cuts find references to the overwritten slot only
  through its `next` and `it` pointers. `BackLinks` says that every reference can be walked
  back in this way, and holds because stale pointers cause more cuts, never fewer.
  `PredictionsJustified` follows from the chain that `operate` walks.
* **FDP.** For any `Wrap` above the highest counter value, the wrapped sum, its remainder
  and the correction give a change of -1, 0 or 1, or the jump from the lowest level to the
  highest (`UpdatedIs`).
* **Markov.** The invariant is the types of both tables (`TablesTyped`), `PagesTracked`, and, for
  the counters, that of the ways which hold the same delta only the first is ever counted
  (`FirstCounts`): a search takes the first match, and a new delta replaces one that was not
  there. `PrefetchesFollowChains` is about the walk, which only reads the tables: a way that
  is `Likely` has been counted, so that each of the `DELTA_NUM_WAYS` tries of a round takes one recorded
  transition or none (`TriedFacts`), a round stays within that many ranks of the chain
  (`RoundFacts`), and the walk within as many rounds as the degree (`WalkedFacts`). The code's
  loops are recursive functions; that such functions exist, and induction along them, is
  derived in `SeqLemmas` from the least counterexample (`Recursion`, `Induction`).
* **Caches of lab1.** The invariant says how numbers encode the order (`Encoded`): within a set
  the numbers the policy goes by are distinct and ordered like the blocks, and none is
  ahead of its counter (`Stamps`). Distinctness is what MRU_LRU breaks, hence the
  premise of `CachesFollowPolicies`; the counters cannot overflow before
  `timestamp` does, because `insert_counter` never overtakes it. One lemma (`Changed`)
  covers what all writes of one way have in common; each of hit, fill and replace then
  has a lemma of its own. Sets, ways and the range of `int` are arbitrary.
* **Caches of lab2.** Here the timestamp is the only order. The list of a set is its valid ways by
  their timestamps (`Lists`); the refinement mapping picks it with `CHOOSE`, so that its
  uniqueness (`OneList`) is a lemma of its own. Until the overflow every write gets a
  timestamp above all others in the cache: the way goes to the end of the list, wherever
  it was, and the way with the lowest timestamp is the head. That is `ImplementsLru`,
  one step of `LruCache` for each access and insertion.
* **The caches of lab3.** The four properties of the run and `RetryListsStayEmpty` hold for any number
  of cores, sets, ways, MSHRs and blocks and any latencies, under the premise `Unshared`: no two caches share a lower
  one (one core with all levels, any number of cores without an L3, or an L3 alone). With more than one core
  above an L3 they are false, which is what `ramulator_caches_shared` shows.
  None of them is inductive alone. The invariant (`SystemIInv`) adds that no
  set has more lines than ways or a block twice, that each level has every block of the level above
  (`Inclusive`), that what is locked on a level is locked above it (`LockedAbove`), and that what is
  locked is under way (`Fetching`). A miss breaks two of these between its sends:
  the line is locked before the next level has been asked. So `Good(s, E)` excepts the lines `E`, at most one, and each send
  takes `E` one level down (`SendL1`, `SendL2`, `SendL3`, each from `AnsweredFacts`). That the next level does not
  refuse follows from counting: its locked blocks are locked above too, so one more fits into
  its MSHRs (`MshrFree`); and the blocks of one of its sets share a set above, which has a
  line for the new block besides, so that one of them is on no level above; it is unlocked and can be evicted (`VictimFree`).
  A victim is unlocked on all levels, so eviction erases no MSHR's line
  (`EvictFacts`), and the dirty bit goes to a line that is still there (`EvictlineFacts`).
* **The standards of lab3.** `IInv` says for each family of standards how the tree and
  the row table correspond: bank by bank where there are no sub-arrays, sub-array by sub-array
  otherwise. This is not inductive for SALP-1 and DSARP, where closing
  one sub-array marks the whole bank as closed, or closes all others with it: it needs
  that at most one sub-array is open and that the bank's state and rows name it (`OneOpen`, `BanksFollow`, `BanksName`), because
  `init_prereq` closes the other one first. MASA needs that one sub-array at most is selected, and
  that selecting and deselecting never close one. Each family has a lemma for what its
  commands do to the tree, one for which command is next, and one for the step. The number of
  banks, sub-arrays and rows is arbitrary.
* **Migrations of TL-DRAM.** The read that `tick` finds ready and the migration that
  `issue_cmd` asserts ready go through the same prerequisites: they wake the same rank, close the
  same row, or open it (`MigrationFollowsRead`). For each such pair of commands, every
  constraint of `init_timing` into the one is also one into the other (`Covers`).
* **The timing tables.** `NextIsTimed` needs both the invariant and the tables. The invariant and the tree
  say which pairs of commands can follow one another: what wakes the rank and any
  command, what closes a row and what opens one, what opens one and the access (`Moves`, with one lemma for each
  family: after its precharge MASA activates and never selects, and the row that SALP-1 closes for
  another is of another sub-array). For these pairs each standard's table has a constraint that applies
  (`EveryTableHasParts`, `SubArrayTablesTimed`, `TLDRAMTimed`). That the data of accesses stays apart
  (`DataBusExclusive`) is about the numbers: for each standard, its speeds give the two inequalities between
  the latencies, the burst and the turnarounds that are enough (`ColumnsKeepApart`, `OtherRanksKeepApart`).
* **Requests progress.** How many commands are left for a request is a number that can be read
  off the tree (`CommandsLeft`): one to wake the rank, up to three for the row (precharge,
  activate, access, or in MASA select and access), in SALP-2 one for each other open sub-array, and two at most for a
  refresh or a change of power. Each family has a lemma that every command but the last
  lowers it (`Progresses`); it holds of any well-typed tree, so that of `IInv` only `Typed` is
  needed. It starts at no more than 3 + the number of sub-arrays, which `MaxCommands` is; the bound is
  tight, SALP-2 out of power-down needs all of them.
* **The controller of lab3.** For any timing, number of cores and banks, workload and policy. What
  makes reads see writes is that a request that opens a row is served before all others until its data
  moves: the act queue holds one request at most, and a read that waits behind a write waits
  behind that one (`WriteAhead`), so that no read is issued while one is behind a write.
  `Accounts` counts the begun requests queue by queue; each command closes a row,
  opens one, reads or writes, and each of these moves one request from one count to another.
  `RowTableAgrees` is inductive by itself: both records follow the same command, and a row is only
  opened where the tree, and so the table, has none.
* **Refreshes keep up.** From the cycle in which a refresh is due, only three commands can come
  before the queue is empty again: the read or write of a request that has opened a row (`ActOpen`: that row stays
  open, so it needs nothing else), `PREA` for the open rows, and `REF`. Nothing
  else is issued, so that the timing of the next command only runs down: after a command it is at
  most the longest delay (`DelaysBounded`), and with each cycle one less. `OnTime` says that the cycles until
  the next refresh is due suffice for the rest of the way; the policy does
  not matter, since a request alone in its queue is the one that every policy chooses (`AloneIsHead`).

Only model-checked: everything under fairness (`Served` of both controllers, `DataArrives`,
`FetchResumes`, the fairness part of `MemoryUsedAsSpecified` and of `ImplementsIsa`), which is out of
the prover's reach. Every invariant and every action property of the passing runs is stated by a theorem.

## What is not modelled

* The shells' commands that print or set registers and the program loaders; `*_free` functions
  (end of the process); debug switches that are off; statistics; memory leaks.
* What an ALU operation returns is defined in `Mips` and shared by machine and pipeline; that it
  is what MIPS says is not a property.
* Of Ramulator: configuration and trace readers; the page allocator, which draws pages at random;
  the limit on instructions; the wrapper for gem5 and `SpeedyController`, which no lab uses; DSARP's own
  refresh scheduler (`Refresh.cpp`) and the choice of ALDRAM's timing by temperature; when the
  constraints of standards other than DDR3 end. Power-down and self-refresh exist in
  the standards, and nothing ever asks for them.
* Third-party code: ChampSim and the other prefetchers. What the prefetchers of lab4 see of it (accuracy,
  lateness, free MSHRs, loads) is any value. The list library is modelled as sequences.
* The timing of the simulated machine as a number of cycles: not a property of states or steps of
  these models. The four-bit adder is a combinational formula.

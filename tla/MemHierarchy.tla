---------------------------- MODULE MemHierarchy ----------------------------
(***************************************************************************)
(* The memory hierarchy of labs/lab2: two L1 caches, the L2 cache with its *)
(* MSHRs, the interconnect and the DRAM controller, driven by the stages   *)
(* of the pipeline that access the caches.                                 *)
(*                                                                         *)
(* One cycle (pipe_cycle) runs the stages in a fixed order:                *)
(*   interconnect  age the messages and deliver those that are due         *)
(*   retire, schedule  memory_cycle, see Memory                            *)
(*   mem           the data access of the instruction in the mem stage     *)
(*   execute, decode  the slots in front of it move up                     *)
(*   fetch         the access to the instruction cache                     *)
(*   recover       a taken branch redirects the fetch stage                *)
(* Instructions are abstracted to what they ask of the caches: any block   *)
(* of data or none, and any branch target or none.                         *)
(***************************************************************************)
EXTENDS FiniteSets, LruSet

CONSTANTS
  Pointer,      \* addresses malloc may return for a Cache_Block
  Malloc(_),    \* those it may return when a given set of them is free
  NULL,
  Tag,          \* block numbers of the program's instructions and data
  L1Ways, L1Sets,   \* geometry of the two L1 caches, functions on L1
  L2Ways, L2Sets,
  L2_MSHR_SIZE,
  L2ToL1, L2ToMem, MemToL2,   \* latencies: 15, 5 and 5 cycles in the code
  NumBanks, RowBlocks, TCmd, TBank, TData   \* see Memory

L1 == {"inst", "data"}
Message_Direction == {"L2_TO_L1", "L2_TO_MEM", "MEM_TO_L2"}
MessageType == [b : Pointer, cycles : Nat, dir : Message_Direction]
MSHR == 0 .. L2_MSHR_SIZE - 1

ASSUME MallocAssumption ==
  \A free \in SUBSET Pointer : /\ Malloc(free) \subseteq free
                               /\ free # {} => Malloc(free) # {}
ASSUME NullAssumption == NULL \notin Pointer /\ NULL \notin Tag
ASSUME TagAssumption == Tag \subseteq Nat
ASSUME CacheAssumption ==
  /\ L1Ways \in [L1 -> Nat \ {0}] /\ L1Sets \in [L1 -> Nat \ {0}]
  /\ L2Ways \in Nat \ {0} /\ L2Sets \in Nat \ {0}
  /\ L2_MSHR_SIZE \in Nat \ {0}
ASSUME MemoryAssumption ==
  /\ NumBanks \in Nat \ {0} /\ RowBlocks \in Nat \ {0}
  /\ TCmd \in Nat \ {0} /\ TBank \in Nat \ {0} /\ TData \in Nat \ {0}
ASSUME LatencyAssumption ==
  L2ToL1 \in Nat \ {0} /\ L2ToMem \in Nat \ {0} /\ MemToL2 \in Nat \ {0}

VARIABLES
  l1,          \* contents of the L1 caches, one LruSet per set
  l2,          \* contents of the L2 cache
  mshr,        \* mshrs: [cache_block, valid, done]
  mshr_count,  \* number of allocated MSHRs
  messages,    \* the interconnect's latency queue, oldest first
  icursor,     \* iterator over messages
  pending, ongoing, banks, cursor,  \* the memory's state, see Memory
  heap,        \* the cache blocks the hierarchy still refers to
  stage,       \* what pipe_cycle does next
  PC,          \* block the fetch stage reads
  decode_op,   \* is there an instruction in the decode stage?
  execute_op,  \* ... in the execute stage?
  mem_op,      \* block the mem stage accesses, NULL if it accesses none
  branch_dest  \* target of a scheduled recovery, NULL if there is none

memory == <<pending, ongoing, banks, cursor>>
network == <<messages, icursor>>
caches == <<l1, l2, mshr, mshr_count, heap>>
core == <<PC, decode_op, execute_op, mem_op, branch_dest>>
vars == <<memory, network, caches, core, stage>>

MemoryStage == IF stage \in {"retire", "schedule"} THEN stage ELSE "arrive"

Mem == INSTANCE Memory WITH Cache_Block <- Pointer, stage <- MemoryStage
-----------------------------------------------------------------------------
(* The caches *)

Block(tag, cache) == [tag |-> tag, l1 |-> cache]

L1Set(cache, tag) == l1[cache][tag % L1Sets[cache]]
L2Set(tag) == l2[tag % L2Sets]

L1Hit(cache, tag) == Holds(L1Set(cache, tag), tag)
L1Touch(cache, tag) == [l1 EXCEPT ![cache][tag % L1Sets[cache]] = Touched(@, tag)]
L1Insert(b) ==
  [l1 EXCEPT ![b.l1][b.tag % L1Sets[b.l1]] = Inserted(@, b.tag, L1Ways[b.l1])]

L2Touch(tag) == [l2 EXCEPT ![tag % L2Sets] = Touched(@, tag)]
L2Insert(tag) == [l2 EXCEPT ![tag % L2Sets] = Inserted(@, tag, L2Ways)]

First(i, S) == i \in S /\ \A j \in S : i <= j

Allocated(p, b) == [q \in DOMAIN heap \cup {p} |-> IF q = p THEN b ELSE heap[q]]
Freed(p) == [q \in DOMAIN heap \ {p} |-> heap[q]]

\* mutant: the current cycle is subtracted twice
SendEarly(p, cycles, dir) == Append(messages, [b |-> p, cycles |-> cycles - 2, dir |-> dir])

\* cycles - 1: the current cycle does not count
Send(p, cycles, dir) == Append(messages, [b |-> p, cycles |-> cycles - 1, dir |-> dir])

\* cache_block_equal against the MSHRs in use, and the MSHRs not in use
Waiting(b) == {i \in MSHR : ~mshr[i].done /\ heap[mshr[i].cache_block] = b}
Free == {i \in MSHR : mshr[i].done}

\* mutant: the MSHR is freed but not counted as free
ReleaseUncounted(b) ==
  /\ mshr' = [i \in MSHR |-> IF First(i, Waiting(b))
                               THEN [mshr[i] EXCEPT !.valid = FALSE, !.done = TRUE]
                               ELSE mshr[i]]
  /\ UNCHANGED mshr_count

\* mutant: the MSHR of a cancelled request is not freed
ReleaseValid(b) ==
  LET freed == {i \in Waiting(b) : First(i, Waiting(b)) /\ mshr[i].valid} IN
    /\ mshr' = [i \in MSHR |-> IF i \in freed
                                 THEN [mshr[i] EXCEPT !.valid = FALSE, !.done = TRUE]
                                 ELSE mshr[i]]
    /\ mshr_count' = mshr_count - Cardinality(freed)

\* the first MSHR that waits for b, if there is one, is free again
Release(b) ==
  /\ mshr' = [i \in MSHR |-> IF First(i, Waiting(b))
                               THEN [mshr[i] EXCEPT !.valid = FALSE, !.done = TRUE]
                               ELSE mshr[i]]
  /\ mshr_count' = IF Waiting(b) = {} THEN mshr_count ELSE mshr_count - 1

\* l2_cache_probe: block b, which L1 just put at p, is looked up in the L2 cache.
\* A block that is neither sent back nor put into an MSHR is never referred to
\* again (the code does not free it).
ProbeRejected ==
  /\ mshr_count >= L2_MSHR_SIZE
  /\ UNCHANGED <<l2, mshr, mshr_count, messages, heap>>

ProbeHit(p, b) ==
  /\ mshr_count < L2_MSHR_SIZE
  /\ Holds(L2Set(b.tag), b.tag)
  /\ l2' = L2Touch(b.tag)
  /\ heap' = Allocated(p, b)
  /\ messages' = Send(p, L2ToL1, "L2_TO_L1")
  /\ UNCHANGED <<mshr, mshr_count>>

ProbeMerged(b) ==
  /\ mshr_count < L2_MSHR_SIZE
  /\ ~Holds(L2Set(b.tag), b.tag)
  /\ Waiting(b) # {}
  /\ UNCHANGED <<l2, mshr, mshr_count, messages, heap>>

ProbeMiss(p, b) ==
  /\ mshr_count < L2_MSHR_SIZE
  /\ ~Holds(L2Set(b.tag), b.tag)
  /\ Waiting(b) = {}
  /\ \E i \in Free :
       /\ First(i, Free)
       /\ mshr' = [mshr EXCEPT ![i] = [cache_block |-> p, valid |-> TRUE, done |-> FALSE]]
  /\ mshr_count' = mshr_count + 1
  /\ heap' = Allocated(p, b)
  /\ messages' = Send(p, L2ToMem, "L2_TO_MEM")
  /\ UNCHANGED l2

\* l1_cache_access: the result is a hit, or a miss that probes the L2 cache
AccessHit(cache, tag) ==
  /\ L1Hit(cache, tag)
  /\ l1' = L1Touch(cache, tag)
  /\ UNCHANGED <<l2, mshr, mshr_count, messages, heap>>

AccessMiss(cache, tag) ==
  /\ ~L1Hit(cache, tag)
  /\ UNCHANGED l1
  /\ \E p \in Malloc(Pointer \ DOMAIN heap) :
       LET b == Block(tag, cache) IN
         ProbeRejected \/ ProbeHit(p, b) \/ ProbeMerged(b) \/ ProbeMiss(p, b)

\* mutant: cancelling frees the MSHR
CancelFrees(b) ==
  mshr' = [i \in MSHR |-> IF i \in Waiting(b)
                            THEN [mshr[i] EXCEPT !.valid = FALSE, !.done = TRUE] ELSE mshr[i]]

\* l1_cancel_cache_access
Cancel(b) ==
  mshr' = [i \in MSHR |-> IF i \in Waiting(b) THEN [mshr[i] EXCEPT !.valid = FALSE]
                                             ELSE mshr[i]]
-----------------------------------------------------------------------------
(* interconnect_cycle                                                      *)

Due(dir) ==
  /\ stage = "interconnect"
  /\ icursor \in DOMAIN messages
  /\ messages[icursor].cycles = 0
  /\ messages[icursor].dir = dir

InTransit ==
  /\ stage = "interconnect"
  /\ icursor \in DOMAIN messages
  /\ messages[icursor].cycles > 0
  /\ messages' = [messages EXCEPT ![icursor].cycles = @ - 1]
  /\ icursor' = icursor + 1
  /\ UNCHANGED <<memory, caches, core, stage>>

\* mutant: the message is delivered but stays in the queue
DeliveredKept == icursor' = icursor + 1 /\ UNCHANGED <<messages, core, stage>>

Delivered == messages' = RemoveAt(messages, icursor) /\ UNCHANGED <<icursor, core, stage>>

\* l1_insert_block; the cache block is freed
DeliverToL1 ==
  /\ Due("L2_TO_L1")
  /\ l1' = L1Insert(heap[messages[icursor].b])
  /\ heap' = Freed(messages[icursor].b)
  /\ Delivered
  /\ UNCHANGED <<memory, l2, mshr, mshr_count>>

\* memory_add_request
DeliverToMemory ==
  /\ Due("L2_TO_MEM")
  /\ Delivered
  /\ Mem!AddRequest(messages[icursor].b, heap[messages[icursor].b].tag)
  /\ UNCHANGED caches

\* l2_insert_block: the block enters the L2 cache and, unless it was cancelled,
\* the L1 cache that asked for it; its MSHR is free again
DeliverToL2 ==
  /\ Due("MEM_TO_L2")
  /\ Delivered
  /\ LET p == messages[icursor].b
         b == heap[p]
     IN /\ l2' = L2Insert(b.tag)
        /\ l1' = IF \E i \in Waiting(b) : First(i, Waiting(b)) /\ mshr[i].valid
                   THEN L1Insert(b) ELSE l1
        /\ heap' = Freed(p)
        /\ Release(b)
  /\ UNCHANGED memory

AllProcessed ==
  /\ stage = "interconnect"
  /\ icursor \notin DOMAIN messages
  /\ stage' = "retire"
  /\ Mem!StartCycle
  /\ icursor' = 1
  /\ UNCHANGED <<messages, caches, core>>
-----------------------------------------------------------------------------
(* memory_cycle                                                            *)

\* interconnect_mem_to_l2
Retire ==
  /\ stage = "retire"
  /\ UNCHANGED <<caches, icursor, core, stage>>
  /\ Mem!Retire
  /\ messages' = Send(ongoing[cursor].cache_block, MemToL2, "MEM_TO_L2")

KeepOngoing ==
  /\ stage = "retire"
  /\ UNCHANGED <<caches, network, core, stage>>
  /\ Mem!KeepOngoing

AllVisited ==
  /\ stage = "retire"
  /\ stage' = "schedule"
  /\ UNCHANGED <<caches, network, core>>
  /\ Mem!AllVisited

Schedule ==
  /\ stage = "schedule"
  /\ stage' = "mem"
  /\ UNCHANGED <<caches, network, core>>
  /\ (\E i \in DOMAIN pending : Mem!Schedule(i)) \/ Mem!ScheduleNothing
-----------------------------------------------------------------------------
(* The stages of the pipeline, from the last to the first                  *)

\* pipe_stage_mem: a load or store that misses stays and tries again in the
\* next cycle
MemIdle ==
  /\ stage = "mem"
  /\ mem_op = NULL
  /\ stage' = "execute"
  /\ UNCHANGED <<memory, network, caches, core>>

MemHit ==
  /\ stage = "mem"
  /\ mem_op # NULL
  /\ AccessHit("data", mem_op)
  /\ mem_op' = NULL
  /\ stage' = "execute"
  /\ UNCHANGED <<memory, icursor, PC, decode_op, execute_op, branch_dest>>

MemMiss ==
  /\ stage = "mem"
  /\ mem_op # NULL
  /\ AccessMiss("data", mem_op)
  /\ stage' = "execute"
  /\ UNCHANGED <<memory, icursor, core>>

\* pipe_stage_execute: it waits for the mem stage, for an operand or for the
\* multiplier; an instruction without memory access passes the mem stage in
\* the next cycle and need not be remembered
ExecuteStalls ==
  /\ stage = "execute"
  /\ stage' = "decode"
  /\ UNCHANGED <<memory, network, caches, core>>

ExecuteIssues(op) ==
  /\ stage = "execute"
  /\ execute_op /\ mem_op = NULL
  /\ execute_op' = FALSE
  /\ mem_op' = op
  /\ stage' = "decode"
  /\ UNCHANGED <<memory, network, caches, PC, decode_op, branch_dest>>

\* pipe_recover
ExecuteBranches(dest) ==
  /\ stage = "execute"
  /\ execute_op /\ mem_op = NULL
  /\ execute_op' = FALSE
  /\ branch_dest' = dest
  /\ stage' = "decode"
  /\ UNCHANGED <<memory, network, caches, PC, decode_op, mem_op>>

\* pipe_stage_decode
Decode ==
  /\ stage = "decode"
  /\ execute_op' = (execute_op \/ decode_op)
  /\ decode_op' = (execute_op /\ decode_op)
  /\ stage' = "fetch"
  /\ UNCHANGED <<memory, network, caches, PC, mem_op, branch_dest>>

\* what pipe_cycle does after the fetch stage
AfterFetch == stage' = IF branch_dest # NULL THEN "recover" ELSE "interconnect"

\* pipe_stage_fetch
FetchBlocked ==
  /\ stage = "fetch"
  /\ decode_op
  /\ AfterFetch
  /\ UNCHANGED <<memory, network, caches, core>>

\* PC + 4 is in the same block or in the next
FetchHit ==
  /\ stage = "fetch"
  /\ ~decode_op
  /\ AccessHit("inst", PC)
  /\ decode_op' = TRUE
  /\ PC' \in {PC, PC + 1} \cap Tag
  /\ AfterFetch
  /\ UNCHANGED <<memory, icursor, execute_op, mem_op, branch_dest>>

FetchMiss ==
  /\ stage = "fetch"
  /\ ~decode_op
  /\ AccessMiss("inst", PC)
  /\ AfterFetch
  /\ UNCHANGED <<memory, icursor, core>>

\* branch recovery: all recoveries flush the decode and the execute stage
Recover ==
  /\ stage = "recover"
  /\ Cancel(Block(PC, "inst"))
  /\ PC' = branch_dest
  /\ branch_dest' = NULL
  /\ decode_op' = FALSE
  /\ execute_op' = FALSE
  /\ stage' = "interconnect"
  /\ UNCHANGED <<memory, network, l1, l2, mshr_count, heap, mem_op>>
-----------------------------------------------------------------------------
Init ==
  /\ l1 = [c \in L1 |-> [s \in 0 .. L1Sets[c] - 1 |-> <<>>]]
  /\ l2 = [s \in 0 .. L2Sets - 1 |-> <<>>]
  /\ mshr = [i \in MSHR |-> [cache_block |-> NULL, valid |-> FALSE, done |-> TRUE]]
  /\ mshr_count = 0
  /\ heap = <<>>
  /\ messages = <<>> /\ icursor = 1
  /\ stage = "interconnect"
  /\ Mem!Init
  /\ PC \in Tag
  /\ decode_op = FALSE /\ execute_op = FALSE
  /\ mem_op = NULL /\ branch_dest = NULL

Interconnect == InTransit \/ DeliverToL1 \/ DeliverToMemory \/ DeliverToL2 \/ AllProcessed
MemoryCycle == Retire \/ KeepOngoing \/ AllVisited \/ Schedule
Pipeline == \/ MemIdle \/ MemHit \/ MemMiss
            \/ ExecuteStalls \/ (\E op \in Tag \cup {NULL} : ExecuteIssues(op))
            \/ (\E dest \in Tag : ExecuteBranches(dest))
            \/ Decode \/ FetchBlocked \/ FetchHit \/ FetchMiss \/ Recover

Next == Interconnect \/ MemoryCycle \/ Pipeline

\* the shell's loop calls pipe_cycle until the program exits
Spec == Init /\ [][Next]_vars /\ WF_vars(Next)
-----------------------------------------------------------------------------
CacheType ==
  /\ DOMAIN l1 = L1
  /\ \A c \in L1 : l1[c] \in [0 .. L1Sets[c] - 1 -> Seq(Tag)]
  /\ l2 \in [0 .. L2Sets - 1 -> Seq(Tag)]
HeapType == DOMAIN heap \subseteq Pointer /\ \A p \in DOMAIN heap : heap[p] \in [tag : Tag, l1 : L1]
MSHRType ==
  /\ mshr \in [MSHR -> [cache_block : Pointer \cup {NULL}, valid : BOOLEAN, done : BOOLEAN]]
  /\ mshr_count \in Int
NetworkType == messages \in Seq(MessageType) /\ icursor \in Nat \ {0}
CoreType ==
  /\ stage \in {"interconnect", "retire", "schedule",
                "mem", "execute", "decode", "fetch", "recover"}
  /\ PC \in Tag /\ decode_op \in BOOLEAN /\ execute_op \in BOOLEAN
  /\ mem_op \in Tag \cup {NULL} /\ branch_dest \in Tag \cup {NULL}
  /\ stage = "recover" => branch_dest # NULL

TypeOK == CacheType /\ HeapType /\ MSHRType /\ NetworkType /\ CoreType /\ Mem!TypeOK

\* the blocks on the interconnect, by direction, and those on their way to the
\* memory, in it or on their way back
Carried(dirs) == {messages[i].b : i \in {j \in DOMAIN messages : messages[j].dir \in dirs}}
Outstanding == Carried({"L2_TO_MEM", "MEM_TO_L2"}) \cup Mem!InMemory
Busy == {i \in MSHR : ~mshr[i].done}

\* A cache block is owned by exactly one message or memory request, and exactly
\* the owned blocks are allocated: free(b) never frees a block somebody still
\* refers to, and a block that is passed on is never lost on the way.
Ownership ==
  /\ Mem!Once
  /\ \A i, j \in DOMAIN messages : i # j => messages[i].b # messages[j].b
  /\ \A i \in DOMAIN messages : messages[i].b \notin Mem!InMemory
  /\ DOMAIN heap = Carried({"L2_TO_L1"}) \cup Outstanding

MSHRsMatched ==
  /\ \A i \in Busy : mshr[i].cache_block \in Outstanding
  /\ \A p \in Outstanding : \E i \in Busy : mshr[i].cache_block = p

OneRequestPerBlock ==
  \A i, j \in Busy : i # j => heap[mshr[i].cache_block] # heap[mshr[j].cache_block]

\* Every MSHR in use has exactly one request in the memory or on its way, and
\* every such request has its MSHR: no MSHR waits for ever, and no block comes
\* back to an MSHR that has been given to another request.  README: an MSHR "is
\* only allocated if no MSHR with the same tag and origin cache exists", so no
\* L1 cache ever has two memory requests for one block.
MSHRsMatchRequests == MSHRsMatched /\ OneRequestPerBlock

\* mshr_count is the number of MSHRs in use, so a probe that passes the test of
\* mshr_count finds a free one: assert(0) at the end of l2_cache_probe is dead.
CountExact == mshr_count = Cardinality(Busy)

\* No set of a cache holds a block twice or more blocks than it has ways,
\* although blocks arrive late, twice, or after another request for them.
SetsWellFormed ==
  /\ \A c \in L1 : \A s \in DOMAIN l1[c] : WellFormed(l1[c][s], L1Ways[c])
  /\ \A s \in DOMAIN l2 : WellFormed(l2[s], L2Ways)

\* A load or store that misses gets its block in the end and leaves the mem
\* stage, whatever the instruction cache asks for and cancels meanwhile.
DataArrives == mem_op # NULL ~> mem_op = NULL

\* The front of the pipeline never runs dry for good: a fetch that misses, is
\* redirected, merged with a cancelled request or refused for lack of an MSHR
\* ends in an instruction in the decode stage.
FetchResumes == ~decode_op ~> decode_op

\* The hierarchy uses the memory as Memory says it is used, and drives it on.
MemoryUsedAsSpecified == Mem!Spec
=============================================================================

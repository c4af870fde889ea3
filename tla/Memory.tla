------------------------------- MODULE Memory -------------------------------
(***************************************************************************)
(* The DRAM controller of labs/lab2 (memory.c, memory.h).                  *)
(*                                                                         *)
(* Requests wait in pending_requests and, once every resource they need is *)
(* free, move to ongoing_requests with the intervals in which they occupy  *)
(* the command bus, their bank and the data bus.  memory_cycle retires the *)
(* requests whose data has left the bus, then schedules at most one.       *)
(*                                                                         *)
(* The lists of the code grow at the head and are walked from the tail;    *)
(* here they are sequences with the oldest request first.  The code keeps  *)
(* absolute cycles; an interval is used only through its distance to       *)
(* curr_cycle, so an ongoing request keeps its age: the cycles since it    *)
(* was scheduled.                                                          *)
(***************************************************************************)
EXTENDS Integers, SequencesExt

CONSTANTS
  Cache_Block,  \* pointers to the cache blocks passed down by the L2 cache
  Tag,          \* block numbers (addresses divided by the 32-byte block size)
  NumBanks,     \* MEM_NUM_BANKS
  RowBlocks,    \* blocks with one row address, 2^16 \div 32 in the code
  TCmd,         \* cycles a command occupies the command bus: 4
  TBank,        \* cycles a command keeps its bank busy: 100
  TData         \* cycles a block occupies the data bus: 50

ASSUME TagAssumption == Tag \subseteq Nat
ASSUME GeometryAssumption == NumBanks \in Nat \ {0} /\ RowBlocks \in Nat \ {0}
ASSUME TimingAssumption ==
  TCmd \in Nat \ {0} /\ TBank \in Nat \ {0} /\ TData \in Nat \ {0}

VARIABLES
  pending,  \* pending_requests
  ongoing,  \* ongoing_requests
  banks,    \* the row buffer of each bank
  stage,    \* what the cycle does next
  cursor    \* position of the iterator over ongoing_requests

vars == <<pending, ongoing, banks, stage, cursor>>

Bank == 0 .. NumBanks - 1
Memory_Row_Buffer_Status == {"HIT", "MISS", "CONFLICT"}
PendingRequest == [cache_block : Cache_Block, bank_idx : Bank, row : Nat]
OngoingRequest == [cache_block : Cache_Block, bank_idx : Bank, row : Nat,
                   status : Memory_Row_Buffer_Status, age : Nat]
-----------------------------------------------------------------------------
(* Resource usage of a request whose first command is issued in cycle t.   *)

Interval(first, length) == [start |-> first, end |-> first + length - 1]

\* READ/WRITE alone, after ACTIVATE, or after PRECHARGE and ACTIVATE
Commands(status) == CASE status = "HIT" -> 1
                      [] status = "MISS" -> 2
                      [] status = "CONFLICT" -> 3

CmdInterval(k, t) == Interval(t + k * TBank, TCmd)
BankInterval(status, t) == Interval(t, Commands(status) * TBank)
DataInterval(status, t) == Interval(t + Commands(status) * TBank, TData)

Overlap(a, b) == a.start <= b.end /\ b.start <= a.end

CmdConflict(s1, t1, s2, t2) ==
  \E k \in 0 .. Commands(s1) - 1, l \in 0 .. Commands(s2) - 1 :
    Overlap(CmdInterval(k, t1), CmdInterval(l, t2))

DataConflict(s1, t1, s2, t2) == Overlap(DataInterval(s1, t1), DataInterval(s2, t2))

BankConflict(o, bank_idx, status) ==
  /\ o.bank_idx = bank_idx
  /\ Overlap(BankInterval(o.status, 0 - o.age), BankInterval(status, 0))

BankStatus(r) ==
  CASE ~banks[r.bank_idx].row_buffer_open -> "MISS"
    [] banks[r.bank_idx].row_buffer_open /\ r.row = banks[r.bank_idx].row_buffer -> "HIT"
    [] OTHER -> "CONFLICT"

\* mutant: the data bus is not checked
IsCandidateNoDataBus(r) ==
  \A i \in DOMAIN ongoing :
    /\ ~CmdConflict(ongoing[i].status, 0 - ongoing[i].age, BankStatus(r), 0)
    /\ ~BankConflict(ongoing[i], r.bank_idx, BankStatus(r))

IsCandidate(r) ==
  \A i \in DOMAIN ongoing :
    LET o == ongoing[i] IN
      /\ ~CmdConflict(o.status, 0 - o.age, BankStatus(r), 0)
      /\ ~DataConflict(o.status, 0 - o.age, BankStatus(r), 0)
      /\ ~BankConflict(o, r.bank_idx, BankStatus(r))

Candidates == {i \in DOMAIN pending : IsCandidate(pending[i])}
RowHits == {i \in Candidates : BankStatus(pending[i]) = "HIT"}

\* mutant: the queue is walked from the newest request
BestNewest(i) == i \in Candidates /\ \A j \in Candidates : j <= i

\* the oldest candidate that hits the open row, else the oldest candidate
Best(i) == IF RowHits # {}
             THEN i \in RowHits /\ \A j \in RowHits : i <= j
             ELSE i \in Candidates /\ \A j \in Candidates : i <= j
-----------------------------------------------------------------------------
Init ==
  /\ pending = <<>>
  /\ ongoing = <<>>
  /\ banks = [b \in Bank |-> [row_buffer |-> 0, row_buffer_open |-> FALSE]]
  /\ stage = "arrive"
  /\ cursor = 1

\* mutant: the bank mask is one bit too wide
AddRequestWideBank(b, tag) ==
  /\ stage = "arrive"
  /\ pending' = Append(pending, [cache_block |-> b, bank_idx |-> tag % (2 * NumBanks),
                                 row |-> tag \div RowBlocks])
  /\ UNCHANGED <<ongoing, banks, stage, cursor>>

\* interconnect_cycle delivers requests before memory_cycle runs
AddRequest(b, tag) ==
  /\ stage = "arrive"
  /\ pending' = Append(pending, [cache_block |-> b, bank_idx |-> tag % NumBanks,
                                 row |-> tag \div RowBlocks])
  /\ UNCHANGED <<ongoing, banks, stage, cursor>>

StartCycle ==
  /\ stage = "arrive"
  /\ stage' = "retire"
  /\ cursor' = 1
  /\ UNCHANGED <<pending, ongoing, banks>>

Finished(o) == DataInterval(o.status, 0 - o.age).end <= 0

\* the data is off the bus: interconnect_mem_to_l2 takes the block
Retire ==
  /\ stage = "retire"
  /\ cursor \in DOMAIN ongoing
  /\ Finished(ongoing[cursor])
  /\ ongoing' = RemoveAt(ongoing, cursor)
  /\ UNCHANGED <<pending, banks, stage, cursor>>

KeepOngoing ==
  /\ stage = "retire"
  /\ cursor \in DOMAIN ongoing
  /\ ~Finished(ongoing[cursor])
  /\ cursor' = cursor + 1
  /\ UNCHANGED <<pending, ongoing, banks, stage>>

AllVisited ==
  /\ stage = "retire"
  /\ cursor \notin DOMAIN ongoing
  /\ stage' = "schedule"
  /\ cursor' = 1
  /\ UNCHANGED <<pending, ongoing, banks>>

Aged(s) == [i \in DOMAIN s |-> [s[i] EXCEPT !.age = @ + 1]]

Started(r) == [cache_block |-> r.cache_block, bank_idx |-> r.bank_idx, row |-> r.row,
               status |-> BankStatus(r), age |-> 0]

\* the chosen request becomes ongoing and curr_cycle advances; nothing writes
\* row_buffer or row_buffer_open
Schedule(i) ==
  /\ stage = "schedule"
  /\ i \in DOMAIN pending /\ Best(i)
  /\ ongoing' = Aged(Append(ongoing, Started(pending[i])))
  /\ pending' = RemoveAt(pending, i)
  /\ stage' = "arrive"
  /\ UNCHANGED <<banks, cursor>>

ScheduleNothing ==
  /\ stage = "schedule"
  /\ Candidates = {}
  /\ ongoing' = Aged(ongoing)
  /\ stage' = "arrive"
  /\ UNCHANGED <<pending, banks, cursor>>

Cycle == \/ StartCycle \/ Retire \/ KeepOngoing \/ AllVisited
         \/ (\E i \in DOMAIN pending : Schedule(i)) \/ ScheduleNothing

\* a block is given to the memory again only after it has left it; the L2
\* cache's MSHRs see to that (MemHierarchy)
InMemory == {pending[i].cache_block : i \in DOMAIN pending} \cup
            {ongoing[i].cache_block : i \in DOMAIN ongoing}

Next == Cycle \/ \E b \in Cache_Block \ InMemory, tag \in Tag : AddRequest(b, tag)

\* the shell's loop runs one memory_cycle after the other
Spec == Init /\ [][Next]_vars /\ WF_vars(Cycle)
-----------------------------------------------------------------------------
TypeOK ==
  /\ pending \in Seq(PendingRequest)
  /\ ongoing \in Seq(OngoingRequest)
  /\ banks \in [Bank -> [row_buffer : Nat, row_buffer_open : BOOLEAN]]
  /\ stage \in {"arrive", "retire", "schedule"}
  /\ cursor \in Nat \ {0}

\* A block is in the memory at most once.
Once ==
  /\ \A i, j \in DOMAIN pending : i # j => pending[i].cache_block # pending[j].cache_block
  /\ \A i, j \in DOMAIN ongoing : i # j => ongoing[i].cache_block # ongoing[j].cache_block
  /\ \A i \in DOMAIN pending, j \in DOMAIN ongoing :
       pending[i].cache_block # ongoing[j].cache_block

\* No two ongoing requests ever need the command bus, the data bus or the same
\* bank in the same cycle, although each was checked only once, against the
\* requests that were ongoing when it was scheduled (memory_is_candidate).
NoConflict ==
  \A i, j \in DOMAIN ongoing : i # j =>
    LET a == ongoing[i]  b == ongoing[j] IN
      /\ ~CmdConflict(a.status, 0 - a.age, b.status, 0 - b.age)
      /\ ~DataConflict(a.status, 0 - a.age, b.status, 0 - b.age)
      /\ a.bank_idx = b.bank_idx =>
           ~Overlap(BankInterval(a.status, 0 - a.age), BankInterval(b.status, 0 - b.age))

\* pending[i] leaves the pending queue in this step
Leaves(i) == \A k \in DOMAIN pending' : pending'[k].cache_block # pending[i].cache_block

\* Requests to one row of one bank are scheduled in the order they arrived:
\* a later one stays in pending_requests as long as an earlier one is there.
RowOrder ==
  [][\A i, j \in DOMAIN pending :
       /\ i < j
       /\ pending[i].bank_idx = pending[j].bank_idx
       /\ pending[i].row = pending[j].row
       => ~Leaves(j)]_vars

\* Every request memory_add_request accepts is scheduled and retired in the
\* end, however many requests to other banks arrive after it.
Served == \A b \in Cache_Block : b \in InMemory ~> b \notin InMemory

\* The row of the last request that went to the bank of r is the row r wants.
HitsLastRow(r) ==
  \E i \in DOMAIN ongoing :
    /\ ongoing[i].bank_idx = r.bank_idx
    /\ ongoing[i].row = r.row
    /\ \A j \in DOMAIN ongoing : j > i => ongoing[j].bank_idx # r.bank_idx

\* README: "the request is moved to the ongoing requests (prioritizing row
\* hits)".  Whenever a request that can start would hit the row last accessed
\* in its bank, no request that would not is scheduled instead of it.
RowHitsFirst ==
  [][(\E j \in Candidates : HitsLastRow(pending[j])) =>
       \A i \in DOMAIN pending : Leaves(i) => HitsLastRow(pending[i])]_vars
=============================================================================

---------------------------- MODULE MemoryProofs ----------------------------
(***************************************************************************)
(* Theorems about the DRAM controller for any number of banks and blocks,  *)
(* any row size and any timing in which a command is at most as long as    *)
(* the time it keeps its bank busy.                                        *)
(***************************************************************************)
EXTENDS Memory, SeqLemmas

\* An address selects one of the banks and a row.
LEMMA AddressType ==
  ASSUME NEW tag \in Tag
  PROVE  tag % NumBanks \in Bank /\ tag \div RowBlocks \in Nat
  BY TagAssumption, GeometryAssumption DEF Bank

\* The status a pending request is given is one of the three of the enum.
LEMMA StatusType ==
  ASSUME NEW r \in PendingRequest
  PROVE  BankStatus(r) \in Memory_Row_Buffer_Status
  BY DEF BankStatus, Memory_Row_Buffer_Status

\* Advancing curr_cycle changes the ages and nothing else.
LEMMA AgedFacts ==
  ASSUME NEW s \in Seq(OngoingRequest)
  PROVE  /\ Aged(s) \in Seq(OngoingRequest)
         /\ DOMAIN Aged(s) = DOMAIN s
         /\ \A i \in DOMAIN s : /\ Aged(s)[i].age = s[i].age + 1
                                /\ Aged(s)[i].cache_block = s[i].cache_block
                                /\ Aged(s)[i].bank_idx = s[i].bank_idx
                                /\ Aged(s)[i].row = s[i].row
                                /\ Aged(s)[i].status = s[i].status
<1>1. DOMAIN s = 1 .. Len(s) /\ Len(s) \in Nat /\ \A i \in 1 .. Len(s) : s[i] \in OngoingRequest
  OBVIOUS
<1>2. \A r \in OngoingRequest : [r EXCEPT !.age = @ + 1] \in OngoingRequest
  BY DEF OngoingRequest
<1>3. Aged(s) = [i \in 1 .. Len(s) |-> [s[i] EXCEPT !.age = @ + 1]]
  BY <1>1 DEF Aged
<1>4. Aged(s) \in Seq(OngoingRequest)
  BY <1>1, <1>2, <1>3
<1>. QED
  BY <1>1, <1>3, <1>4 DEF OngoingRequest

\* The request that Schedule(i) appends is a well-formed ongoing request.
LEMMA StartedType ==
  ASSUME NEW r \in PendingRequest
  PROVE  Started(r) \in OngoingRequest
  BY StatusType DEF Started, PendingRequest, OngoingRequest

-----------------------------------------------------------------------------
LEMMA TypeInit == Init => TypeOK
  BY DEF Init, TypeOK, PendingRequest, OngoingRequest

LEMMA TypeStep == TypeOK /\ [Next]_vars => TypeOK'
<1>. SUFFICES ASSUME TypeOK, [Next]_vars
              PROVE  TypeOK'
  OBVIOUS
<1>. USE DEF TypeOK
<1>1. ASSUME NEW b \in Cache_Block \ InMemory, NEW tag \in Tag, AddRequest(b, tag)
      PROVE  TypeOK'
  <2>1. [cache_block |-> b, bank_idx |-> tag % NumBanks, row |-> tag \div RowBlocks]
          \in PendingRequest
    BY AddressType DEF PendingRequest
  <2>. QED
    BY <1>1, <2>1, AppendFacts DEF AddRequest
<1>2. CASE StartCycle
  BY <1>2 DEF StartCycle
<1>3. CASE Retire
  <2>1. cursor \in 1 .. Len(ongoing)
    BY <1>3 DEF Retire
  <2>. QED
    BY <1>3, <2>1, RemoveAtFacts DEF Retire
<1>4. CASE KeepOngoing
  BY <1>4 DEF KeepOngoing
<1>5. CASE AllVisited
  BY <1>5 DEF AllVisited
<1>6. ASSUME NEW i \in DOMAIN pending, Schedule(i)
      PROVE  TypeOK'
  <2>1. i \in 1 .. Len(pending) /\ pending[i] \in PendingRequest
    OBVIOUS
  <2>2. pending' \in Seq(PendingRequest)
    BY <1>6, <2>1, RemoveAtFacts DEF Schedule
  <2>3. Append(ongoing, Started(pending[i])) \in Seq(OngoingRequest)
    BY <2>1, StartedType, AppendFacts
  <2>4. ongoing' \in Seq(OngoingRequest)
    BY <1>6, <2>3, AgedFacts DEF Schedule
  <2>. QED
    BY <1>6, <2>2, <2>4 DEF Schedule
<1>7. CASE ScheduleNothing
  BY <1>7, AgedFacts DEF ScheduleNothing
<1>8. CASE UNCHANGED vars
  BY <1>8 DEF vars
<1>. QED
  BY <1>1, <1>2, <1>3, <1>4, <1>5, <1>6, <1>7, <1>8 DEF Next, Cycle

\* In every reachable state the queues hold well-formed requests.
THEOREM TypeCorrect == Spec => []TypeOK
  BY TypeInit, TypeStep, PTL DEF Spec

-----------------------------------------------------------------------------
\* The resources two requests share stay disjoint when time passes: only the
\* distance between their starts matters.
LEMMA OverlapShift ==
  ASSUME NEW p \in Int, NEW m \in Int, NEW q \in Int, NEW n \in Int
  PROVE  Overlap(Interval(p, m), Interval(q, n))
           <=> Overlap(Interval(p - 1, m), Interval(q - 1, n))
  BY DEF Overlap, Interval

\* a and b never use a resource at the same time.
Disjoint(a, b) ==
  /\ ~CmdConflict(a.status, 0 - a.age, b.status, 0 - b.age)
  /\ ~DataConflict(a.status, 0 - a.age, b.status, 0 - b.age)
  /\ a.bank_idx = b.bank_idx =>
       ~Overlap(BankInterval(a.status, 0 - a.age), BankInterval(b.status, 0 - b.age))

LEMMA CommandsType ==
  ASSUME NEW st \in Memory_Row_Buffer_Status
  PROVE  Commands(st) \in 1 .. 3
  BY DEF Commands, Memory_Row_Buffer_Status

LEMMA DisjointSymmetric ==
  ASSUME NEW a \in OngoingRequest, NEW b \in OngoingRequest, Disjoint(a, b)
  PROVE  Disjoint(b, a)
  BY DEF Disjoint, CmdConflict, DataConflict, Overlap

LEMMA DisjointShift ==
  ASSUME NEW a \in OngoingRequest, NEW b \in OngoingRequest, Disjoint(a, b),
         NEW c, NEW d,
         c.status = a.status, c.bank_idx = a.bank_idx, c.age = a.age + 1,
         d.status = b.status, d.bank_idx = b.bank_idx, d.age = b.age + 1
  PROVE  Disjoint(c, d)
<1>1. /\ a.status \in Memory_Row_Buffer_Status /\ a.age \in Nat
      /\ b.status \in Memory_Row_Buffer_Status /\ b.age \in Nat
  BY DEF OngoingRequest
<1>2. Commands(a.status) \in 1 .. 3 /\ Commands(b.status) \in 1 .. 3
  BY <1>1, CommandsType
<1>3. TCmd \in Int /\ TBank \in Int /\ TData \in Int
  BY TimingAssumption
<1>4. ~CmdConflict(c.status, 0 - c.age, d.status, 0 - d.age)
  <2>. SUFFICES ASSUME NEW k \in 0 .. Commands(a.status) - 1,
                       NEW l \in 0 .. Commands(b.status) - 1,
                       Overlap(CmdInterval(k, 0 - c.age), CmdInterval(l, 0 - d.age))
                PROVE  FALSE
    BY DEF CmdConflict
  <2> DEFINE p == 0 - a.age + k * TBank
             q == 0 - b.age + l * TBank
  <2>1. k * TBank \in Int /\ l * TBank \in Int
    BY <1>2, <1>3
  <2>2. p \in Int /\ q \in Int /\ 0 - c.age + k * TBank = p - 1 /\ 0 - d.age + l * TBank = q - 1
    BY <1>1, <2>1
  <2>3. CmdInterval(k, 0 - c.age) = Interval(p - 1, TCmd)
    BY <2>2 DEF CmdInterval
  <2>4. CmdInterval(l, 0 - d.age) = Interval(q - 1, TCmd)
    BY <2>2 DEF CmdInterval
  <2>5. Overlap(CmdInterval(k, 0 - a.age), CmdInterval(l, 0 - b.age))
            <=> Overlap(Interval(p, TCmd), Interval(q, TCmd))
    BY DEF CmdInterval
  <2>. HIDE DEF p, q
  <2>6. Overlap(CmdInterval(k, 0 - a.age), CmdInterval(l, 0 - b.age))
    BY <1>3, <2>2, <2>3, <2>4, <2>5, OverlapShift
  <2>. QED
    BY <2>6 DEF Disjoint, CmdConflict
<1>5. ~DataConflict(c.status, 0 - c.age, d.status, 0 - d.age)
  <2> DEFINE p == 0 - a.age + Commands(a.status) * TBank
             q == 0 - b.age + Commands(b.status) * TBank
  <2>1. Commands(a.status) * TBank \in Int /\ Commands(b.status) * TBank \in Int
    BY <1>2, <1>3
  <2>2. /\ p \in Int /\ q \in Int
        /\ 0 - c.age + Commands(c.status) * TBank = p - 1
        /\ 0 - d.age + Commands(d.status) * TBank = q - 1
    BY <1>1, <2>1
  <2>3. DataInterval(c.status, 0 - c.age) = Interval(p - 1, TData)
    BY <2>2 DEF DataInterval
  <2>4. DataInterval(d.status, 0 - d.age) = Interval(q - 1, TData)
    BY <2>2 DEF DataInterval
  <2>5. ~Overlap(Interval(p, TData), Interval(q, TData))
    BY DEF Disjoint, DataConflict, DataInterval
  <2>. HIDE DEF p, q
  <2>. QED
    BY <1>3, <2>2, <2>3, <2>4, <2>5, OverlapShift DEF DataConflict
<1>6. c.bank_idx = d.bank_idx =>
        ~Overlap(BankInterval(c.status, 0 - c.age), BankInterval(d.status, 0 - d.age))
  <2> DEFINE p == 0 - a.age
             q == 0 - b.age
             m == Commands(a.status) * TBank
             n == Commands(b.status) * TBank
  <2>1. m \in Int /\ n \in Int
    BY <1>2, <1>3
  <2>2. p \in Int /\ q \in Int /\ 0 - c.age = p - 1 /\ 0 - d.age = q - 1
    BY <1>1
  <2>3. BankInterval(c.status, 0 - c.age) = Interval(p - 1, m)
    BY <2>2 DEF BankInterval
  <2>4. BankInterval(d.status, 0 - d.age) = Interval(q - 1, n)
    BY <2>2 DEF BankInterval
  <2>5. a.bank_idx = b.bank_idx => ~Overlap(Interval(p, m), Interval(q, n))
    BY DEF Disjoint, BankInterval
  <2>. HIDE DEF p, q, m, n
  <2>. QED
    BY <2>1, <2>2, <2>3, <2>4, <2>5, OverlapShift
<1>. QED
  BY <1>4, <1>5, <1>6 DEF Disjoint

\* What memory_is_candidate establishes for the request it lets start.
LEMMA CandidateDisjoint ==
  ASSUME TypeOK, NEW r \in PendingRequest, IsCandidate(r), NEW i \in DOMAIN ongoing
  PROVE  Disjoint(ongoing[i], Started(r))
  BY DEF IsCandidate, BankConflict, Disjoint, Started

\* NoConflict is inductive on the well-formed states.
LEMMA NoConflictStep == TypeOK /\ NoConflict /\ [Next]_vars => NoConflict'
<1>. SUFFICES ASSUME TypeOK, NoConflict, [Next]_vars
              PROVE  NoConflict'
  OBVIOUS
<1>0. \A i, j \in DOMAIN ongoing : i # j => Disjoint(ongoing[i], ongoing[j])
  BY DEF NoConflict, Disjoint
<1>a. ongoing \in Seq(OngoingRequest)
  BY DEF TypeOK
<1>b. SUFFICES \A i, j \in DOMAIN ongoing' : i # j => Disjoint(ongoing'[i], ongoing'[j])
  BY DEF NoConflict, Disjoint
<1>1. CASE Retire
  <2>1. cursor \in 1 .. Len(ongoing) /\ ongoing' = RemoveAt(ongoing, cursor)
    BY <1>1, <1>a DEF Retire
  <2>2. /\ DOMAIN ongoing' = 1 .. Len(ongoing) - 1
        /\ \A j \in 1 .. Len(ongoing) - 1 : /\ Skip(cursor, j) \in DOMAIN ongoing
                                            /\ ongoing'[j] = ongoing[Skip(cursor, j)]
        /\ \A j, k \in 1 .. Len(ongoing) - 1 : j < k => Skip(cursor, j) < Skip(cursor, k)
    BY <1>a, <2>1, RemoveAtFacts
  <2>3. \A j, k \in 1 .. Len(ongoing) - 1 : j # k => Skip(cursor, j) # Skip(cursor, k)
    BY <2>1 DEF Skip
  <2>. QED
    BY <1>0, <2>2, <2>3
<1>2. ASSUME NEW i \in DOMAIN pending, Schedule(i)
      PROVE  \A j, k \in DOMAIN ongoing' : j # k => Disjoint(ongoing'[j], ongoing'[k])
  <2> DEFINE r == pending[i]
             s == Append(ongoing, Started(r))
  <2>1. r \in PendingRequest /\ IsCandidate(r)
    BY <1>2 DEF TypeOK, Schedule, Best, Candidates, RowHits
  <2>2. Started(r) \in OngoingRequest
    BY <2>1, StartedType
  <2>3. /\ s \in Seq(OngoingRequest) /\ Len(ongoing) \in Nat
        /\ DOMAIN ongoing = 1 .. Len(ongoing)
        /\ DOMAIN s = 1 .. Len(ongoing) + 1
        /\ \A j \in 1 .. Len(ongoing) : s[j] = ongoing[j]
        /\ s[Len(ongoing) + 1] = Started(r)
    BY <1>a, <2>2, AppendFacts
  <2>4. \A j \in DOMAIN s : s[j] \in OngoingRequest
    BY <2>3
  <2>5. ongoing' = Aged(s)
    BY <1>2 DEF Schedule
  <2>. HIDE DEF r, s
  <2>6. ASSUME NEW j \in DOMAIN s, NEW k \in DOMAIN s, j # k
        PROVE  Disjoint(s[j], s[k])
    <3>1. CASE j <= Len(ongoing) /\ k <= Len(ongoing)
      BY <1>0, <2>3, <2>6, <3>1
    <3>2. CASE j <= Len(ongoing) /\ k = Len(ongoing) + 1
      BY <2>1, <2>3, <3>2, CandidateDisjoint
    <3>3. CASE j = Len(ongoing) + 1 /\ k <= Len(ongoing)
      <4>1. Disjoint(s[k], s[j])
        BY <2>1, <2>3, <3>3, CandidateDisjoint
      <4>. QED
        BY <2>4, <4>1, DisjointSymmetric
    <3>. QED
      BY <2>3, <2>6, <3>1, <3>2, <3>3
  <2>7. ASSUME NEW j \in DOMAIN ongoing', NEW k \in DOMAIN ongoing', j # k
        PROVE  Disjoint(ongoing'[j], ongoing'[k])
    <3>1. j \in DOMAIN s /\ k \in DOMAIN s
      BY <2>3, <2>5, <2>7, AgedFacts
    <3>2. Disjoint(s[j], s[k]) /\ s[j] \in OngoingRequest /\ s[k] \in OngoingRequest
      BY <2>4, <2>6, <2>7, <3>1
    <3>3. /\ ongoing'[j].status = s[j].status /\ ongoing'[k].status = s[k].status
          /\ ongoing'[j].bank_idx = s[j].bank_idx /\ ongoing'[k].bank_idx = s[k].bank_idx
          /\ ongoing'[j].age = s[j].age + 1 /\ ongoing'[k].age = s[k].age + 1
      BY <2>3, <2>5, <3>1, AgedFacts
    <3>. QED
      BY <3>2, <3>3, DisjointShift
  <2>. QED
    BY <2>7
<1>3. CASE ScheduleNothing
  <2>1. ongoing' = Aged(ongoing) /\ DOMAIN ongoing' = DOMAIN ongoing
    BY <1>3, <1>a, AgedFacts DEF ScheduleNothing
  <2>2. ASSUME NEW j \in DOMAIN ongoing, NEW k \in DOMAIN ongoing, j # k
        PROVE  Disjoint(ongoing'[j], ongoing'[k])
    <3>1. /\ ongoing'[j].status = ongoing[j].status /\ ongoing'[k].status = ongoing[k].status
          /\ ongoing'[j].bank_idx = ongoing[j].bank_idx /\ ongoing'[k].bank_idx = ongoing[k].bank_idx
          /\ ongoing'[j].age = ongoing[j].age + 1 /\ ongoing'[k].age = ongoing[k].age + 1
      BY <1>a, <2>1, AgedFacts
    <3>2. ongoing[j] \in OngoingRequest /\ ongoing[k] \in OngoingRequest
      BY <1>a
    <3>. QED
      BY <1>0, <2>2, <3>1, <3>2, DisjointShift
  <2>. QED
    BY <2>1, <2>2
<1>4. CASE UNCHANGED ongoing
  BY <1>0, <1>4
<1>. QED
  BY <1>1, <1>2, <1>3, <1>4 DEF Next, Cycle, AddRequest, StartCycle, KeepOngoing, AllVisited, vars

\* No two ongoing requests ever share the command bus, a bank or the data bus.
THEOREM NoConflictAlways == Spec => []NoConflict
<1>1. Init => NoConflict
  BY DEF Init, NoConflict
<1>. QED
  BY <1>1, TypeInit, TypeStep, NoConflictStep, PTL DEF Spec

-----------------------------------------------------------------------------
\* A request of pending_requests that is not the one scheduled stays there.
LEMMA OnlyScheduledLeaves ==
  ASSUME TypeOK, [Next]_vars, NEW j \in DOMAIN pending, Leaves(j)
  PROVE  Schedule(j)
<1>1. pending \in Seq(PendingRequest) /\ j \in 1 .. Len(pending)
  BY DEF TypeOK
<1>2. CASE UNCHANGED pending
  BY <1>2 DEF Leaves
<1>3. ASSUME NEW b \in Cache_Block \ InMemory, NEW tag \in Tag, AddRequest(b, tag)
      PROVE  FALSE
  <2>1. [cache_block |-> b, bank_idx |-> tag % NumBanks, row |-> tag \div RowBlocks]
          \in PendingRequest
    BY AddressType DEF PendingRequest
  <2>2. j \in DOMAIN pending' /\ pending'[j] = pending[j]
    BY <1>1, <1>3, <2>1, AppendFacts DEF AddRequest
  <2>. QED
    BY <2>2 DEF Leaves
<1>4. ASSUME NEW i \in DOMAIN pending, Schedule(i), i # j
      PROVE  FALSE
  <2>1. pending' = RemoveAt(pending, i) /\ i \in 1 .. Len(pending)
    BY <1>1, <1>4 DEF Schedule
  <2>2. PICK k \in 1 .. Len(pending) - 1 : Skip(i, k) = j
    BY <1>1, <1>4, <2>1, RemoveAtFacts
  <2>3. k \in DOMAIN pending' /\ pending'[k] = pending[j]
    BY <1>1, <2>1, <2>2, RemoveAtFacts
  <2>. QED
    BY <2>3 DEF Leaves
<1>. QED
  BY <1>2, <1>3, <1>4 DEF Next, Cycle, StartCycle, Retire, KeepOngoing, AllVisited,
                          ScheduleNothing, vars

\* Requests to one row of one bank are scheduled in the order they arrived.
THEOREM RowOrderAlways == Spec => RowOrder
<1>1. ASSUME TypeOK, [Next]_vars, NEW i \in DOMAIN pending, NEW j \in DOMAIN pending,
             i < j, pending[i].bank_idx = pending[j].bank_idx, pending[i].row = pending[j].row
      PROVE  ~Leaves(j)
  <2>. SUFFICES ASSUME Schedule(j) PROVE FALSE
    BY <1>1, OnlyScheduledLeaves
  <2>1. BankStatus(pending[i]) = BankStatus(pending[j])
    BY <1>1 DEF BankStatus
  <2>2. IsCandidate(pending[i]) <=> IsCandidate(pending[j])
    BY <1>1, <2>1 DEF IsCandidate
  <2>3. i \in Int /\ j \in Int
    BY <1>1 DEF TypeOK
  <2>. QED
    BY <1>1, <2>1, <2>2, <2>3 DEF Schedule, Best, Candidates, RowHits
<1>2. TypeOK /\ [Next]_vars =>
        [\A i, j \in DOMAIN pending :
           /\ i < j
           /\ pending[i].bank_idx = pending[j].bank_idx
           /\ pending[i].row = pending[j].row
           => ~Leaves(j)]_vars
  BY <1>1
<1>. QED
  BY <1>2, TypeInit, TypeStep, PTL DEF Spec, RowOrder

-----------------------------------------------------------------------------
(* Where the blocks are: facts MemHierarchy's proof builds on.             *)

\* A new request adds its block to those in the memory.
LEMMA AddRequestBlocks ==
  ASSUME TypeOK, Once, NEW b \in Cache_Block \ InMemory, NEW tag \in Tag, AddRequest(b, tag)
  PROVE  Once' /\ InMemory' = InMemory \cup {b}
<1> DEFINE r == [cache_block |-> b, bank_idx |-> tag % NumBanks, row |-> tag \div RowBlocks]
<1>1. r \in PendingRequest /\ r.cache_block = b
  BY AddressType DEF PendingRequest
<1>2. pending \in Seq(PendingRequest) /\ ongoing' = ongoing /\ pending' = Append(pending, r)
  BY DEF TypeOK, AddRequest
<1>. HIDE DEF r
<1>3. /\ DOMAIN pending = 1 .. Len(pending) /\ Len(pending) \in Nat
      /\ DOMAIN pending' = 1 .. Len(pending) + 1
      /\ \A i \in 1 .. Len(pending) : pending'[i] = pending[i]
      /\ pending'[Len(pending) + 1] = r
  BY <1>1, <1>2, AppendFacts
<1>4. DOMAIN pending' = DOMAIN pending \cup {Len(pending) + 1}
  BY <1>3
<1>5. InMemory' = InMemory \cup {b}
  BY <1>1, <1>2, <1>3, <1>4 DEF InMemory
<1>6. Once'
  <2>1. \A i \in DOMAIN pending : pending[i].cache_block # b
    BY DEF InMemory
  <2>2. \A j \in DOMAIN ongoing : ongoing[j].cache_block # b
    BY DEF InMemory
  <2>. QED
    BY <1>1, <1>2, <1>3, <1>4, <2>1, <2>2 DEF Once
<1>. QED
  BY <1>5, <1>6

\* A retired request takes its block out of the memory.
LEMMA RetireBlocks ==
  ASSUME TypeOK, Once, Retire
  PROVE  /\ Once'
         /\ ongoing[cursor].cache_block \in InMemory \cap Cache_Block
         /\ InMemory' = InMemory \ {ongoing[cursor].cache_block}
<1>1. /\ ongoing \in Seq(OngoingRequest) /\ cursor \in DOMAIN ongoing
      /\ pending' = pending /\ ongoing' = RemoveAt(ongoing, cursor)
  BY DEF TypeOK, Retire
<1>2. /\ \A j \in DOMAIN ongoing' : /\ Skip(cursor, j) \in DOMAIN ongoing \ {cursor}
                                    /\ ongoing'[j] = ongoing[Skip(cursor, j)]
      /\ \A k \in DOMAIN ongoing \ {cursor} : \E j \in DOMAIN ongoing' : Skip(cursor, j) = k
      /\ \A j, k \in DOMAIN ongoing' : j # k => Skip(cursor, j) # Skip(cursor, k)
  BY <1>1, RemovedAt
<1>4. ongoing[cursor] \in OngoingRequest
  BY <1>1
<1>5. ongoing[cursor].cache_block \in InMemory \cap Cache_Block
  BY <1>1, <1>2, <1>4 DEF InMemory, OngoingRequest
<1>6. \A i \in DOMAIN pending : pending[i].cache_block # ongoing[cursor].cache_block
  BY <1>1, <1>2 DEF Once
<1>7. \A i \in DOMAIN ongoing \ {cursor} : ongoing[i].cache_block # ongoing[cursor].cache_block
  BY <1>1, <1>2 DEF Once
<1>8. InMemory' = InMemory \ {ongoing[cursor].cache_block}
  BY <1>1, <1>2, <1>6, <1>7 DEF InMemory
<1>9. Once'
  BY <1>1, <1>2 DEF Once
<1>. QED
  BY <1>5, <1>8, <1>9

\* Scheduling a request moves its block from one queue to the other.
LEMMA ScheduleBlocks ==
  ASSUME TypeOK, Once, NEW i \in DOMAIN pending, Schedule(i)
  PROVE  Once' /\ InMemory' = InMemory
<1> DEFINE s == Append(ongoing, Started(pending[i]))
<1>1. /\ pending \in Seq(PendingRequest) /\ i \in DOMAIN pending
      /\ ongoing \in Seq(OngoingRequest)
      /\ pending' = RemoveAt(pending, i) /\ ongoing' = Aged(s)
  BY DEF TypeOK, Schedule
<1>2. /\ \A j \in DOMAIN pending' : /\ Skip(i, j) \in DOMAIN pending \ {i}
                                    /\ pending'[j] = pending[Skip(i, j)]
      /\ \A k \in DOMAIN pending \ {i} : \E j \in DOMAIN pending' : Skip(i, j) = k
      /\ \A j, k \in DOMAIN pending' : j # k => Skip(i, j) # Skip(i, k)
  BY <1>1, RemovedAt
<1>4. /\ Started(pending[i]) \in OngoingRequest
      /\ Started(pending[i]).cache_block = pending[i].cache_block
  BY <1>1, StartedType DEF Started
<1>5. /\ s \in Seq(OngoingRequest) /\ Len(ongoing) \in Nat
      /\ DOMAIN ongoing = 1 .. Len(ongoing)
      /\ DOMAIN s = 1 .. Len(ongoing) + 1
      /\ \A j \in 1 .. Len(ongoing) : s[j] = ongoing[j]
      /\ s[Len(ongoing) + 1] = Started(pending[i])
  BY <1>1, <1>4, AppendFacts
<1>. HIDE DEF s
<1>6. /\ DOMAIN ongoing' = DOMAIN ongoing \cup {Len(ongoing) + 1}
      /\ Len(ongoing) + 1 \notin DOMAIN ongoing
      /\ \A j \in DOMAIN ongoing : ongoing'[j].cache_block = ongoing[j].cache_block
      /\ ongoing'[Len(ongoing) + 1].cache_block = pending[i].cache_block
  <2>1. DOMAIN ongoing' = DOMAIN s /\ \A j \in DOMAIN s : ongoing'[j].cache_block = s[j].cache_block
    BY <1>1, <1>5, AgedFacts
  <2>. QED
    BY <1>4, <1>5, <2>1
<1>7. \A j \in DOMAIN pending \ {i} : pending[j].cache_block # pending[i].cache_block
  BY <1>1, <1>2 DEF Once
<1>8. \A j \in DOMAIN ongoing : ongoing[j].cache_block # pending[i].cache_block
  BY <1>1, <1>2 DEF Once
<1>9. InMemory' = InMemory
  <2>1. {pending'[j].cache_block : j \in DOMAIN pending'}
          = {pending[j].cache_block : j \in DOMAIN pending \ {i}}
    BY <1>2
  <2>2. {ongoing'[j].cache_block : j \in DOMAIN ongoing'}
          = {ongoing[j].cache_block : j \in DOMAIN ongoing} \cup {pending[i].cache_block}
    BY <1>6
  <2>3. i \in DOMAIN pending
    OBVIOUS
  <2>. QED
    BY <2>1, <2>2, <2>3 DEF InMemory
<1>10. Once'
  BY <1>2, <1>6, <1>7, <1>8 DEF Once
<1>. QED
  BY <1>9, <1>10

\* A cycle that schedules nothing leaves the blocks where they are.
LEMMA AgeBlocks ==
  ASSUME TypeOK, Once, ScheduleNothing
  PROVE  Once' /\ InMemory' = InMemory
<1>1. /\ ongoing \in Seq(OngoingRequest) /\ ongoing' = Aged(ongoing) /\ pending' = pending
  BY DEF TypeOK, ScheduleNothing
<1>2. /\ DOMAIN ongoing' = DOMAIN ongoing
      /\ \A j \in DOMAIN ongoing : ongoing'[j].cache_block = ongoing[j].cache_block
  BY <1>1, AgedFacts
<1>. QED
  BY <1>1, <1>2 DEF Once, InMemory
=============================================================================

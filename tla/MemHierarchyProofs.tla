------------------------- MODULE MemHierarchyProofs -------------------------
(***************************************************************************)
(* The memory hierarchy keeps its books: for any geometry of the caches,   *)
(* any number of MSHRs, any latencies and any program, every MSHR in use   *)
(* has exactly one request in the memory or on its way, and no cache block *)
(* is lost, used after it was freed or owned twice.                        *)
(*                                                                         *)
(* The invariant is proved through sets: the blocks carried by messages in *)
(* a direction and the blocks in the memory.  The first part says what     *)
(* every queue operation does to these sets, the second what follows for   *)
(* the MSHRs, the third goes through the actions.                          *)
(***************************************************************************)
EXTENDS MemHierarchy, SeqLemmas, FiniteSetTheorems

MemP == INSTANCE MemoryProofs WITH Cache_Block <- Pointer, stage <- MemoryStage

-----------------------------------------------------------------------------
(* What an access and an insertion do to a set of a cache.                 *)

\* A hit keeps the blocks of a set and their number.
LEMMA TouchedFacts ==
  ASSUME NEW S, NEW s \in Seq(S), NEW t, Holds(s, t)
  PROVE  /\ Touched(s, t) \in Seq(S)
         /\ \A ways : WellFormed(s, ways) => WellFormed(Touched(s, t), ways)
<1> DEFINE k == CHOOSE i \in DOMAIN s : s[i] = t
           r == RemoveAt(s, k)
<1>1. k \in DOMAIN s /\ s[k] = t
  BY DEF Holds
<1>2. t \in S
  BY <1>1
<1>. HIDE DEF k
<1>3. /\ r \in Seq(S)
      /\ \A j \in DOMAIN r : Skip(k, j) \in DOMAIN s \ {k} /\ r[j] = s[Skip(k, j)]
      /\ \A i, j \in DOMAIN r : i # j => Skip(k, i) # Skip(k, j)
  BY <1>1, RemovedAt
<1>4. Len(r) = Len(s) - 1
  BY <1>1, <1>3, RemoveAtFacts
<1>. HIDE DEF r
<1>5. /\ Append(r, t) \in Seq(S)
      /\ DOMAIN Append(r, t) = DOMAIN r \cup {Len(r) + 1} /\ Len(r) + 1 \notin DOMAIN r
      /\ \A i \in DOMAIN r : Append(r, t)[i] = r[i]
      /\ Append(r, t)[Len(r) + 1] = t
  BY <1>2, <1>3, Appended
<1>6. Touched(s, t) = Append(r, t)
  BY DEF Touched, r, k
<1>7. ASSUME NEW ways, WellFormed(s, ways)
      PROVE  WellFormed(Append(r, t), ways)
  <2>1. Len(Append(r, t)) = Len(s)
    BY <1>1, <1>3, <1>4
  <2>2. Len(Append(r, t)) <= ways
    BY <1>7, <2>1 DEF WellFormed
  <2>3. \A i \in DOMAIN r : r[i] # t
    BY <1>1, <1>3, <1>7 DEF WellFormed
  <2>4. \A i, j \in DOMAIN r : i # j => r[i] # r[j]
    BY <1>3, <1>7 DEF WellFormed
  <2>. QED
    BY <1>5, <2>2, <2>3, <2>4 DEF WellFormed
<1>. QED
  BY <1>5, <1>6, <1>7

\* An insertion never duplicates a block nor uses more ways than there are.
LEMMA InsertedFacts ==
  ASSUME NEW S, NEW s \in Seq(S), NEW t \in S, NEW ways \in Nat \ {0}
  PROVE  /\ Inserted(s, t, ways) \in Seq(S)
         /\ WellFormed(s, ways) => WellFormed(Inserted(s, t, ways), ways)
<1>1. CASE Holds(s, t)
  BY <1>1 DEF Inserted
<1>2. CASE ~Holds(s, t) /\ Len(s) < ways
  <2>1. /\ Append(s, t) \in Seq(S)
        /\ DOMAIN Append(s, t) = DOMAIN s \cup {Len(s) + 1} /\ Len(s) + 1 \notin DOMAIN s
        /\ \A i \in DOMAIN s : Append(s, t)[i] = s[i]
        /\ Append(s, t)[Len(s) + 1] = t
    BY Appended
  <2>2. Len(Append(s, t)) <= ways
    BY <1>2
  <2>3. \A i \in DOMAIN s : s[i] # t
    BY <1>2 DEF Holds
  <2>4. Inserted(s, t, ways) = Append(s, t)
    BY <1>2 DEF Inserted
  <2>. QED
    BY <2>1, <2>2, <2>3, <2>4 DEF WellFormed
<1>3. CASE ~Holds(s, t) /\ ~(Len(s) < ways)
  <2> DEFINE r == Tail(s)
  <2>0. Len(s) \in Nat /\ Len(s) >= ways /\ s # <<>> /\ DOMAIN s = 1 .. Len(s)
    BY <1>3
  <2>1. /\ r \in Seq(S) /\ Len(r) = Len(s) - 1
        /\ DOMAIN r = 1 .. Len(s) - 1
        /\ \A i \in DOMAIN r : r[i] = s[i + 1]
    BY <2>0, HeadTailProperties
  <2>. HIDE DEF r
  <2>2. /\ Append(r, t) \in Seq(S)
        /\ DOMAIN Append(r, t) = DOMAIN r \cup {Len(r) + 1} /\ Len(r) + 1 \notin DOMAIN r
        /\ \A i \in DOMAIN r : Append(r, t)[i] = r[i]
        /\ Append(r, t)[Len(r) + 1] = t
    BY <2>1, Appended
  <2>3. Inserted(s, t, ways) = Append(r, t)
    BY <1>3 DEF Inserted, r
  <2>4. ASSUME WellFormed(s, ways)
        PROVE  WellFormed(Append(r, t), ways)
    <3>1. Len(Append(r, t)) <= ways
      <4>1. Len(Append(r, t)) = Len(r) + 1
        BY <2>1
      <4>2. Len(Append(r, t)) = Len(s)
        BY <2>0, <2>1, <4>1
      <4>. QED
        BY <2>4, <4>2 DEF WellFormed
    <3>2. \A i \in DOMAIN r : i + 1 \in DOMAIN s
      BY <2>0, <2>1
    <3>3. \A i \in DOMAIN r : r[i] # t
      BY <1>3, <2>1, <3>2 DEF Holds
    <3>4. \A i, j \in DOMAIN r : i # j => r[i] # r[j]
      <4>. SUFFICES ASSUME NEW i \in DOMAIN r, NEW j \in DOMAIN r, i # j
                    PROVE  r[i] # r[j]
        OBVIOUS
      <4>1. i \in Int /\ j \in Int /\ i + 1 # j + 1
        BY <2>1
      <4>. QED
        BY <2>1, <2>4, <3>2, <4>1 DEF WellFormed
    <3>. QED
      BY <2>2, <3>1, <3>3, <3>4 DEF WellFormed
  <2>. QED
    BY <2>2, <2>3, <2>4
<1>. QED
  BY <1>1, <1>2, <1>3

-----------------------------------------------------------------------------
(* The controller's theorems hold of the controller inside the hierarchy.  *)

LEMMA MemAssumptions ==
  MemP!TagAssumption /\ MemP!GeometryAssumption /\ MemP!TimingAssumption
  BY TagAssumption, MemoryAssumption
     DEF MemP!TagAssumption, MemP!GeometryAssumption, MemP!TimingAssumption

LEMMA SameRemoveAt ==
  \A s, i : Mem!RemoveAt(s, i) = RemoveAt(s, i) /\ MemP!RemoveAt(s, i) = RemoveAt(s, i)
  BY DEF Mem!RemoveAt, MemP!RemoveAt, RemoveAt

LEMMA SameState ==
  /\ Mem!TypeOK = MemP!TypeOK /\ Mem!TypeOK' = MemP!TypeOK'
  /\ Mem!Once = MemP!Once /\ Mem!Once' = MemP!Once'
  /\ Mem!InMemory = MemP!InMemory /\ Mem!InMemory' = MemP!InMemory'
  BY DEF Mem!TypeOK, MemP!TypeOK, Mem!PendingRequest, MemP!PendingRequest,
         Mem!OngoingRequest, MemP!OngoingRequest, Mem!Bank, MemP!Bank,
         Mem!Memory_Row_Buffer_Status, MemP!Memory_Row_Buffer_Status,
         Mem!Once, MemP!Once, Mem!InMemory, MemP!InMemory

LEMMA SameBest == \A i : Mem!Best(i) = MemP!Best(i)
  BY DEF Mem!Best, MemP!Best, Mem!Candidates, MemP!Candidates, Mem!RowHits, MemP!RowHits,
         Mem!IsCandidate, MemP!IsCandidate, Mem!BankStatus, MemP!BankStatus,
         Mem!CmdConflict, MemP!CmdConflict, Mem!DataConflict, MemP!DataConflict,
         Mem!BankConflict, MemP!BankConflict, Mem!Overlap, MemP!Overlap,
         Mem!CmdInterval, MemP!CmdInterval, Mem!DataInterval, MemP!DataInterval,
         Mem!BankInterval, MemP!BankInterval, Mem!Commands, MemP!Commands,
         Mem!Interval, MemP!Interval
LEMMA SameSchedule ==
  /\ \A i : Mem!Schedule(i) = MemP!Schedule(i)
  /\ Mem!ScheduleNothing = MemP!ScheduleNothing
<1>1. \A r : Mem!Started(r) = MemP!Started(r)
  BY DEF Mem!Started, MemP!Started, Mem!BankStatus, MemP!BankStatus
<1>2. \A s : Mem!Aged(s) = MemP!Aged(s)
  BY DEF Mem!Aged, MemP!Aged
<1>3. Mem!Candidates = MemP!Candidates
  BY DEF Mem!Candidates, MemP!Candidates,
         Mem!IsCandidate, MemP!IsCandidate, Mem!BankStatus, MemP!BankStatus,
         Mem!CmdConflict, MemP!CmdConflict, Mem!DataConflict, MemP!DataConflict,
         Mem!BankConflict, MemP!BankConflict, Mem!Overlap, MemP!Overlap,
         Mem!CmdInterval, MemP!CmdInterval, Mem!DataInterval, MemP!DataInterval,
         Mem!BankInterval, MemP!BankInterval, Mem!Commands, MemP!Commands,
         Mem!Interval, MemP!Interval
<1>. QED
  BY <1>1, <1>2, <1>3, SameBest, SameRemoveAt
     DEF Mem!Schedule, MemP!Schedule, Mem!ScheduleNothing, MemP!ScheduleNothing

LEMMA SameSteps ==
  /\ \A b, tag : Mem!AddRequest(b, tag) = MemP!AddRequest(b, tag)
  /\ Mem!StartCycle = MemP!StartCycle
  /\ Mem!Retire = MemP!Retire
  /\ Mem!KeepOngoing = MemP!KeepOngoing
  /\ Mem!AllVisited = MemP!AllVisited
  /\ Mem!vars = MemP!vars /\ Mem!vars' = MemP!vars'
<1>1. \A o : Mem!Finished(o) = MemP!Finished(o)
  BY DEF Mem!Finished, MemP!Finished, Mem!DataInterval, MemP!DataInterval,
         Mem!Commands, MemP!Commands, Mem!Interval, MemP!Interval
<1>. QED
  BY <1>1, SameRemoveAt
     DEF Mem!AddRequest, MemP!AddRequest, Mem!StartCycle, MemP!StartCycle,
              Mem!Retire, MemP!Retire, Mem!KeepOngoing, MemP!KeepOngoing,
              Mem!AllVisited, MemP!AllVisited, Mem!vars, MemP!vars

LEMMA SameNext == Mem!Next = MemP!Next /\ Mem!Init = MemP!Init
  BY SameSteps, SameSchedule, SameState
     DEF Mem!Next, MemP!Next, Mem!Cycle, MemP!Cycle, Mem!Init, MemP!Init, Mem!Bank, MemP!Bank

\* What the steps of the controller do to the blocks in the memory.
LEMMA MemAdd ==
  ASSUME Mem!TypeOK, Mem!Once, NEW b \in Pointer \ Mem!InMemory, NEW tag \in Tag,
         Mem!AddRequest(b, tag)
  PROVE  Mem!Once' /\ Mem!InMemory' = Mem!InMemory \cup {b}
  BY MemP!AddRequestBlocks, SameState, SameSteps, TagAssumption, MemoryAssumption

LEMMA MemRetire ==
  ASSUME Mem!TypeOK, Mem!Once, Mem!Retire
  PROVE  /\ Mem!Once'
         /\ ongoing[cursor].cache_block \in Mem!InMemory \cap Pointer
         /\ Mem!InMemory' = Mem!InMemory \ {ongoing[cursor].cache_block}
  BY MemP!RetireBlocks, SameState, SameSteps, TagAssumption, MemoryAssumption

LEMMA MemSchedule ==
  ASSUME Mem!TypeOK, Mem!Once,
         (\E i \in DOMAIN pending : Mem!Schedule(i)) \/ Mem!ScheduleNothing
  PROVE  Mem!Once' /\ Mem!InMemory' = Mem!InMemory
<1>1. ASSUME NEW i \in DOMAIN pending, MemP!Schedule(i)
      PROVE  MemP!Once' /\ MemP!InMemory' = MemP!InMemory
  BY <1>1, MemP!ScheduleBlocks, SameState, TagAssumption, MemoryAssumption
<1>2. ASSUME MemP!ScheduleNothing
      PROVE  MemP!Once' /\ MemP!InMemory' = MemP!InMemory
  BY <1>2, MemP!AgeBlocks, SameState, TagAssumption, MemoryAssumption
<1>. QED
  BY <1>1, <1>2, SameState, SameSchedule

LEMMA MemUnchanged ==
  ASSUME UNCHANGED <<pending, ongoing>>
  PROVE  (Mem!Once => Mem!Once') /\ Mem!InMemory' = Mem!InMemory
  BY DEF Mem!Once, Mem!InMemory

\* Every step of the controller keeps its queues well formed.
LEMMA MemType ==
  ASSUME Mem!TypeOK, Mem!Next \/ UNCHANGED Mem!vars
  PROVE  Mem!TypeOK'
<1>1. MemP!TypeOK /\ (MemP!Next \/ UNCHANGED MemP!vars)
  BY SameState, SameSteps, SameNext
<1>2. MemP!TypeOK /\ [MemP!Next]_(MemP!vars) => MemP!TypeOK'
  BY MemP!TypeStep, TagAssumption, MemoryAssumption
<1>. QED
  BY <1>1, <1>2, SameState

-----------------------------------------------------------------------------
(* Part 1: what the steps do to the blocks the messages carry.             *)

\* No two messages carry the same block.
DistinctMessages == \A i, j \in DOMAIN messages : i # j => messages[i].b # messages[j].b

LEMMA MessageRemoved ==
  ASSUME messages \in Seq(MessageType), DistinctMessages,
         NEW k \in DOMAIN messages, messages' = RemoveAt(messages, k)
  PROVE  /\ messages' \in Seq(MessageType)
         /\ DistinctMessages'
         /\ \A D : Carried(D)' = Carried(D) \ {messages[k].b}
<1>1. /\ messages' \in Seq(MessageType)
      /\ \A j \in DOMAIN messages' : /\ Skip(k, j) \in DOMAIN messages \ {k}
                                     /\ messages'[j] = messages[Skip(k, j)]
      /\ \A n \in DOMAIN messages \ {k} : \E j \in DOMAIN messages' : Skip(k, j) = n
      /\ \A i, j \in DOMAIN messages' : i # j => Skip(k, i) # Skip(k, j)
  BY RemovedAt
<1>2. DistinctMessages'
  BY <1>1 DEF DistinctMessages
<1>3. ASSUME NEW D
      PROVE  Carried(D)' = Carried(D) \ {messages[k].b}
  <2>1. \A n \in DOMAIN messages \ {k} : messages[n].b # messages[k].b
    BY DEF DistinctMessages
  <2>2. Carried(D)' = {messages[n].b : n \in {j \in DOMAIN messages \ {k} : messages[j].dir \in D}}
    BY <1>1 DEF Carried
  <2>. QED
    BY <2>1, <2>2 DEF Carried
<1>. QED
  BY <1>1, <1>2, <1>3

LEMMA MessageSent ==
  ASSUME messages \in Seq(MessageType), DistinctMessages,
         NEW m \in MessageType, m.b \notin Carried(Message_Direction),
         messages' = Append(messages, m)
  PROVE  /\ messages' \in Seq(MessageType)
         /\ DistinctMessages'
         /\ \A D : Carried(D)' = Carried(D) \cup (IF m.dir \in D THEN {m.b} ELSE {})
<1>1. /\ messages' \in Seq(MessageType)
      /\ DOMAIN messages' = DOMAIN messages \cup {Len(messages) + 1}
      /\ Len(messages) + 1 \notin DOMAIN messages
      /\ \A i \in DOMAIN messages : messages'[i] = messages[i]
      /\ messages'[Len(messages) + 1] = m
  BY Appended
<1>2. \A i \in DOMAIN messages : messages[i].dir \in Message_Direction
  <2>1. \A i \in DOMAIN messages : messages[i] \in MessageType
    OBVIOUS
  <2>. QED
    BY <2>1 DEF MessageType
<1>3. \A i \in DOMAIN messages : messages[i].b # m.b
  BY <1>2 DEF Carried
<1>4. DistinctMessages'
  BY <1>1, <1>3 DEF DistinctMessages
<1>5. ASSUME NEW D
      PROVE  Carried(D)' = Carried(D) \cup (IF m.dir \in D THEN {m.b} ELSE {})
  BY <1>1 DEF Carried
<1>. QED
  BY <1>1, <1>4, <1>5

LEMMA MessageAged ==
  ASSUME messages \in Seq(MessageType), DistinctMessages,
         NEW k \in DOMAIN messages, messages[k].cycles > 0,
         messages' = [messages EXCEPT ![k].cycles = @ - 1]
  PROVE  /\ messages' \in Seq(MessageType)
         /\ DistinctMessages'
         /\ \A D : Carried(D)' = Carried(D)
<1>1. \A i \in DOMAIN messages : messages[i] \in MessageType
  OBVIOUS
<1>2. [messages[k] EXCEPT !.cycles = @ - 1] \in MessageType
  <2>1. messages[k] \in MessageType /\ messages[k].cycles - 1 \in Nat
    BY <1>1 DEF MessageType
  <2>. QED
    BY <2>1 DEF MessageType
<1>3. messages' \in Seq(MessageType)
  BY <1>2, ExceptSeq
<1>4. /\ DOMAIN messages' = DOMAIN messages
      /\ \A i \in DOMAIN messages : /\ messages'[i].b = messages[i].b
                                    /\ messages'[i].dir = messages[i].dir
  BY <1>1 DEF MessageType
<1>. QED
  BY <1>3, <1>4 DEF DistinctMessages, Carried

LEMMA MessagesUnchanged ==
  ASSUME UNCHANGED messages
  PROVE  (DistinctMessages => DistinctMessages') /\ \A D : Carried(D)' = Carried(D)
  BY DEF DistinctMessages, Carried

-----------------------------------------------------------------------------
(* Part 2: what the steps do to the MSHRs.                                 *)

\* The MSHRs agree with the requests in the memory and on their way.
Books == MSHRType /\ MSHRsMatched /\ OneRequestPerBlock /\ CountExact

LEMMA BusyFinite == IsFiniteSet(Busy) /\ Busy \subseteq MSHR
<1>1. L2_MSHR_SIZE \in Nat /\ L2_MSHR_SIZE - 1 \in Int
  BY CacheAssumption
<1>2. IsFiniteSet(MSHR)
  BY <1>1, FS_Interval DEF MSHR
<1>3. Busy \subseteq MSHR
  BY DEF Busy
<1>. QED
  BY <1>2, <1>3, FS_Subset

\* Steps that only move requests along.
LEMMA BooksKept ==
  ASSUME Books, UNCHANGED <<mshr, mshr_count>>, Outstanding' = Outstanding,
         \A p \in Outstanding : heap'[p] = heap[p]
  PROVE  Books'
<1>1. Busy' = Busy
  BY DEF Busy
<1>2. \A i \in Busy : heap'[mshr'[i].cache_block] = heap[mshr[i].cache_block]
  BY DEF Books, MSHRsMatched
<1>3. MSHRType' /\ MSHRsMatched' /\ CountExact'
  BY <1>1 DEF Books, MSHRType, MSHRsMatched, CountExact
<1>4. OneRequestPerBlock'
  BY <1>1, <1>2 DEF Books, OneRequestPerBlock
<1>. QED
  BY <1>3, <1>4 DEF Books

\* l2_insert_block finds the MSHR of the block that comes back, and only it.
LEMMA BooksAfterRelease ==
  ASSUME Books, Outstanding \subseteq DOMAIN heap, NEW p \in Outstanding,
         Outstanding' = Outstanding \ {p}, heap' = Freed(p), Release(heap[p])
  PROVE  Books'
<1>1. PICK i \in Busy : mshr[i].cache_block = p
  BY DEF Books, MSHRsMatched
<1>2. Waiting(heap[p]) = {i}
  BY <1>1 DEF Waiting, Busy, Books, OneRequestPerBlock
<1>3. \A j : First(j, {i}) <=> j = i
  <2>1. i \in Int
    BY CacheAssumption DEF Busy, MSHR
  <2>. QED
    BY <2>1 DEF First
<1>4. /\ mshr' = [j \in MSHR |-> IF j = i THEN [mshr[j] EXCEPT !.valid = FALSE, !.done = TRUE]
                                          ELSE mshr[j]]
      /\ mshr_count' = mshr_count - 1
  BY <1>2, <1>3 DEF Release
<1>5. MSHRType'
  <2>1. \A j \in MSHR : mshr[j] \in [cache_block : Pointer \cup {NULL}, valid : BOOLEAN, done : BOOLEAN]
    BY DEF Books, MSHRType
  <2>2. \A j \in MSHR : mshr'[j] \in [cache_block : Pointer \cup {NULL}, valid : BOOLEAN, done : BOOLEAN]
    BY <1>4, <2>1
  <2>3. mshr_count' \in Int
    <3>1. mshr_count \in Int
      BY DEF Books, MSHRType
    <3>2. mshr_count' = mshr_count - 1
      BY <1>4
    <3>. QED
      BY <3>1, <3>2
  <2>. QED
    BY <1>4, <2>2, <2>3 DEF MSHRType
<1>6. /\ Busy' = Busy \ {i}
      /\ \A j \in Busy' : mshr'[j] = mshr[j]
  BY <1>4 DEF Busy, Books, MSHRType
<1>7. \A j \in Busy' : mshr[j].cache_block # p
  BY <1>1, <1>6 DEF Books, OneRequestPerBlock
<1>8. MSHRsMatched'
  BY <1>1, <1>6, <1>7 DEF Books, MSHRsMatched
<1>9. OneRequestPerBlock'
  <2>1. \A j \in Busy' : mshr[j].cache_block \in DOMAIN heap \ {p}
    BY <1>6, <1>7 DEF Books, MSHRsMatched
  <2>2. \A j \in Busy' : heap'[mshr'[j].cache_block] = heap[mshr[j].cache_block]
    BY <1>6, <2>1 DEF Freed
  <2>. QED
    BY <1>6, <2>2 DEF Books, OneRequestPerBlock
<1>10. CountExact'
  <2>1. Cardinality(Busy \ {i}) = Cardinality(Busy) - 1
    BY <1>1, BusyFinite, FS_RemoveElement
  <2>. QED
    BY <1>4, <1>6, <2>1 DEF Books, CountExact
<1>. QED
  BY <1>5, <1>8, <1>9, <1>10 DEF Books

\* l2_cache_probe gives the new request an MSHR of its own.
LEMMA BooksAfterAllocate ==
  ASSUME Books, Outstanding \subseteq DOMAIN heap, NEW p \in Pointer \ DOMAIN heap, NEW b,
         Waiting(b) = {}, NEW i \in Free,
         mshr' = [mshr EXCEPT ![i] = [cache_block |-> p, valid |-> TRUE, done |-> FALSE]],
         mshr_count' = mshr_count + 1, heap' = Allocated(p, b),
         Outstanding' = Outstanding \cup {p}
  PROVE  Books'
<1>1. MSHRType'
  BY DEF Books, MSHRType, Free
<1>2. /\ i \in MSHR /\ i \notin Busy
      /\ Busy' = Busy \cup {i}
      /\ mshr'[i].cache_block = p
      /\ \A j \in Busy : mshr'[j] = mshr[j]
  BY DEF Busy, Free, Books, MSHRType
<1>3. \A j \in Busy : mshr[j].cache_block \in DOMAIN heap
  BY DEF Books, MSHRsMatched
<1>4. MSHRsMatched'
  BY <1>2 DEF Books, MSHRsMatched
<1>5. OneRequestPerBlock'
  <2>1. \A j \in Busy : heap'[mshr'[j].cache_block] = heap[mshr[j].cache_block]
    BY <1>2, <1>3 DEF Allocated
  <2>2. heap'[mshr'[i].cache_block] = b
    BY <1>2 DEF Allocated
  <2>3. \A j \in Busy : heap[mshr[j].cache_block] # b
    BY DEF Waiting, Busy
  <2>. QED
    BY <1>2, <2>1, <2>2, <2>3 DEF Books, OneRequestPerBlock
<1>6. CountExact'
  <2>1. Cardinality(Busy \cup {i}) = Cardinality(Busy) + 1
    BY <1>2, BusyFinite, FS_AddElement
  <2>. QED
    BY <1>2, <2>1 DEF Books, CountExact
<1>. QED
  BY <1>1, <1>4, <1>5, <1>6 DEF Books

\* Cancelling marks MSHRs and frees none.
LEMMA BooksAfterCancel ==
  ASSUME Books, NEW b, Cancel(b), UNCHANGED <<mshr_count, heap>>, Outstanding' = Outstanding
  PROVE  Books'
<1>1. /\ MSHRType'
      /\ \A i \in MSHR : /\ mshr'[i].cache_block = mshr[i].cache_block
                         /\ mshr'[i].done = mshr[i].done
  BY DEF Books, MSHRType, Cancel, Waiting
<1>2. Busy' = Busy
  BY <1>1 DEF Busy
<1>3. \A i \in Busy : mshr'[i].cache_block = mshr[i].cache_block
  BY <1>1 DEF Busy
<1>4. MSHRsMatched' /\ CountExact' /\ OneRequestPerBlock'
  BY <1>2, <1>3 DEF Books, MSHRsMatched, CountExact, OneRequestPerBlock
<1>. QED
  BY <1>1, <1>4 DEF Books

\* A probe that passes the test of mshr_count finds a free MSHR: the assert(0) at
\* the end of l2_cache_probe is never reached.
LEMMA FreeMSHR ==
  ASSUME Books, mshr_count < L2_MSHR_SIZE
  PROVE  Free # {}
<1>1. ASSUME Free = {} PROVE FALSE
  <2>1. Busy = MSHR
    BY <1>1 DEF Free, Busy
  <2>2. Cardinality(MSHR) = L2_MSHR_SIZE
    <3>1. L2_MSHR_SIZE \in Nat \ {0} /\ L2_MSHR_SIZE - 1 \in Int
      BY CacheAssumption
    <3>2. Cardinality(0 .. L2_MSHR_SIZE - 1) = IF 0 > L2_MSHR_SIZE - 1 THEN 0 ELSE L2_MSHR_SIZE - 1 - 0 + 1
      BY <3>1, FS_Interval
    <3>. QED
      BY <3>1, <3>2 DEF MSHR
  <2>. QED
    BY <2>1, <2>2, CacheAssumption DEF Books, CountExact
<1>. QED
  BY <1>1
-----------------------------------------------------------------------------
(* Part 3: who owns the blocks.                                            *)

Up == Carried({"L2_TO_L1"})
Down == Carried({"L2_TO_MEM", "MEM_TO_L2"})

\* The blocks in use and the MSHRs that wait for them.
Accounts == HeapType /\ messages \in Seq(MessageType) /\ Ownership /\ Books

\* A block in use goes up to L1, travels between the L2 cache and the memory, or
\* is in the memory, and never two of these.
LEMMA OwnershipFacts ==
  ASSUME messages \in Seq(MessageType), Ownership
  PROVE  /\ Mem!Once /\ DistinctMessages
         /\ Up \cap Down = {} /\ (Up \cup Down) \cap Mem!InMemory = {}
         /\ Up \cup Down = Carried(Message_Direction)
         /\ DOMAIN heap = Up \cup Down \cup Mem!InMemory
         /\ Outstanding = Down \cup Mem!InMemory
<1>1. \A i \in DOMAIN messages : messages[i].dir \in Message_Direction
  <2>1. \A i \in DOMAIN messages : messages[i] \in MessageType
    OBVIOUS
  <2>. QED
    BY <2>1 DEF MessageType
<1>2. DistinctMessages
  BY DEF Ownership, DistinctMessages
<1>3. Up \cap Down = {}
  BY <1>2 DEF Up, Down, Carried, DistinctMessages
<1>4. (Up \cup Down) \cap Mem!InMemory = {}
  BY DEF Up, Down, Carried, Ownership
<1>5. Up \cup Down = Carried(Message_Direction)
  BY <1>1 DEF Up, Down, Carried, Message_Direction
<1>. QED
  BY <1>2, <1>3, <1>4, <1>5 DEF Ownership, Up, Down, Outstanding

LEMMA OwnershipNext ==
  ASSUME messages' \in Seq(MessageType), Mem!Once', DistinctMessages',
         (Up' \cup Down') \cap Mem!InMemory' = {},
         DOMAIN heap' = Up' \cup Down' \cup Mem!InMemory'
  PROVE  Ownership'
<1>1. \A i \in DOMAIN messages' : messages'[i].dir \in Message_Direction
  <2>1. \A i \in DOMAIN messages' : messages'[i] \in MessageType
    OBVIOUS
  <2>. QED
    BY <2>1 DEF MessageType
<1>2. \A i \in DOMAIN messages' : messages'[i].b \in Up' \cup Down'
  BY <1>1 DEF Up, Down, Carried, Message_Direction
<1>. QED
  BY <1>2 DEF Ownership, DistinctMessages, Up, Down, Outstanding

\* Sending a block that no message carries.
LEMMA Sent ==
  ASSUME messages \in Seq(MessageType), DistinctMessages,
         NEW p \in Pointer \ Carried(Message_Direction), NEW cycles \in Nat \ {0},
         NEW dir \in Message_Direction, messages' = Send(p, cycles, dir)
  PROVE  /\ messages' \in Seq(MessageType)
         /\ DistinctMessages'
         /\ \A D : Carried(D)' = Carried(D) \cup (IF dir \in D THEN {p} ELSE {})
<1> DEFINE m == [b |-> p, cycles |-> cycles - 1, dir |-> dir]
<1>1. m \in MessageType /\ m.b = p /\ m.dir = dir
  BY DEF MessageType
<1>2. messages' = Append(messages, m)
  BY DEF Send
<1>. HIDE DEF m
<1>. QED
  BY <1>1, <1>2, MessageSent

\* The message under the iterator.
LEMMA DueFacts ==
  ASSUME Accounts, NEW dir \in Message_Direction, Due(dir)
  PROVE  /\ icursor \in DOMAIN messages
         /\ messages[icursor].b \in Carried({dir}) \cap Pointer
         /\ messages[icursor].b \in DOMAIN heap
         /\ heap[messages[icursor].b] \in [tag : Tag, l1 : L1]
<1>1. icursor \in DOMAIN messages /\ messages[icursor].dir = dir
  BY DEF Due
<1>2. messages[icursor] \in MessageType
  BY <1>1 DEF Accounts
<1>3. messages[icursor].b \in Carried({dir}) /\ messages[icursor].b \in Carried(Message_Direction)
  BY <1>1 DEF Carried
<1>4. messages[icursor].b \in DOMAIN heap
  BY <1>3, OwnershipFacts DEF Accounts
<1>. QED
  BY <1>1, <1>2, <1>3, <1>4 DEF Accounts, HeapType, MessageType

LEMMA AccountsUnchanged ==
  ASSUME Accounts, UNCHANGED <<pending, ongoing, messages, mshr, mshr_count, heap>>
  PROVE  Accounts'
<1>1. Outstanding' = Outstanding /\ Mem!Once' = Mem!Once /\ Mem!InMemory' = Mem!InMemory
  BY DEF Outstanding, Carried, Mem!Once, Mem!InMemory
<1>2. Books'
  BY <1>1, BooksKept DEF Accounts
<1>3. Ownership'
  BY <1>1 DEF Accounts, Ownership, Carried
<1>. QED
  BY <1>2, <1>3 DEF Accounts, HeapType

LEMMA AccountsInTransit ==
  ASSUME Accounts, InTransit
  PROVE  Accounts'
<1>1. /\ messages' \in Seq(MessageType) /\ DistinctMessages'
      /\ \A D : Carried(D)' = Carried(D)
  BY OwnershipFacts, MessageAged DEF Accounts, InTransit
<1>2. UNCHANGED <<pending, ongoing, mshr, mshr_count, heap>>
  BY DEF InTransit, memory, caches
<1>3. Mem!Once' /\ Mem!InMemory' = Mem!InMemory
  BY <1>2, OwnershipFacts, MemUnchanged DEF Accounts
<1>4. Up' = Up /\ Down' = Down /\ Outstanding' = Outstanding
  BY <1>1, <1>3 DEF Up, Down, Outstanding
<1>5. Ownership'
  BY <1>1, <1>2, <1>3, <1>4, OwnershipFacts, OwnershipNext DEF Accounts
<1>6. Books'
  BY <1>2, <1>4, BooksKept DEF Accounts
<1>. QED
  BY <1>1, <1>2, <1>5, <1>6 DEF Accounts, HeapType

LEMMA HeapFreed ==
  ASSUME HeapType, NEW p, heap' = Freed(p)
  PROVE  HeapType' /\ DOMAIN heap' = DOMAIN heap \ {p} /\ \A q \in DOMAIN heap \ {p} : heap'[q] = heap[q]
  BY DEF HeapType, Freed

LEMMA HeapAllocated ==
  ASSUME HeapType, NEW p \in Pointer \ DOMAIN heap, NEW b \in [tag : Tag, l1 : L1],
         heap' = Allocated(p, b)
  PROVE  HeapType' /\ DOMAIN heap' = DOMAIN heap \cup {p} /\ \A q \in DOMAIN heap : heap'[q] = heap[q]
  BY DEF HeapType, Allocated

LEMMA AccountsDeliverToL1 ==
  ASSUME Accounts, DeliverToL1
  PROVE  Accounts'
<1> DEFINE p == messages[icursor].b
<1>1. icursor \in DOMAIN messages /\ p \in Up
  BY DueFacts DEF DeliverToL1, Message_Direction, Up
<1>2. /\ messages' = RemoveAt(messages, icursor) /\ heap' = Freed(p)
      /\ UNCHANGED <<pending, ongoing, mshr, mshr_count>>
  BY DEF DeliverToL1, Delivered, memory
<1>3. /\ messages' \in Seq(MessageType) /\ DistinctMessages'
      /\ \A D : Carried(D)' = Carried(D) \ {p}
  BY <1>1, <1>2, OwnershipFacts, MessageRemoved DEF Accounts
<1>4. Mem!Once' /\ Mem!InMemory' = Mem!InMemory
  BY <1>2, OwnershipFacts, MemUnchanged DEF Accounts
<1>. HIDE DEF p
<1>5. Up' = Up \ {p} /\ Down' = Down \ {p}
  BY <1>3 DEF Up, Down
<1>6. HeapType' /\ DOMAIN heap' = DOMAIN heap \ {p} /\ \A q \in DOMAIN heap \ {p} : heap'[q] = heap[q]
  BY <1>2, HeapFreed DEF Accounts
<1>7. p \notin Down /\ p \notin Mem!InMemory
  BY <1>1, OwnershipFacts DEF Accounts
<1>8. Ownership'
  BY <1>3, <1>4, <1>5, <1>6, <1>7, OwnershipFacts, OwnershipNext DEF Accounts
<1>9. Outstanding' = Outstanding /\ \A q \in Outstanding : heap'[q] = heap[q]
  <2>1. Outstanding' = Outstanding
    BY <1>4, <1>5, <1>7 DEF Outstanding, Down
  <2>2. Outstanding \subseteq DOMAIN heap \ {p}
    BY <1>7, OwnershipFacts DEF Accounts
  <2>. QED
    BY <1>6, <2>1, <2>2
<1>10. Books'
  BY <1>2, <1>9, BooksKept DEF Accounts
<1>. QED
  BY <1>3, <1>6, <1>8, <1>10 DEF Accounts

LEMMA AccountsDeliverToMemory ==
  ASSUME Accounts, Mem!TypeOK, DeliverToMemory
  PROVE  Accounts' /\ messages[icursor].b \in Pointer \ Mem!InMemory
<1> DEFINE p == messages[icursor].b
           tag == heap[p].tag
<1>1. icursor \in DOMAIN messages /\ p \in Down \cap Pointer /\ tag \in Tag
  <2>1. /\ icursor \in DOMAIN messages
        /\ p \in Carried({"L2_TO_MEM"}) \cap Pointer
        /\ heap[p] \in [tag : Tag, l1 : L1]
    BY DueFacts DEF DeliverToMemory, Message_Direction
  <2>. QED
    BY <2>1 DEF Down, Carried
<1>2. /\ messages' = RemoveAt(messages, icursor) /\ Mem!AddRequest(p, tag)
      /\ UNCHANGED <<mshr, mshr_count, heap>>
  BY DEF DeliverToMemory, Delivered, caches
<1>. HIDE DEF tag
<1>3. /\ messages' \in Seq(MessageType) /\ DistinctMessages'
      /\ \A D : Carried(D)' = Carried(D) \ {p}
  BY <1>1, <1>2, OwnershipFacts, MessageRemoved DEF Accounts
<1>. HIDE DEF p
<1>4. p \in Pointer \ Mem!InMemory /\ p \notin Up
  BY <1>1, OwnershipFacts DEF Accounts
<1>5. Mem!Once' /\ Mem!InMemory' = Mem!InMemory \cup {p}
  BY <1>1, <1>2, <1>4, OwnershipFacts, MemAdd DEF Accounts
<1>6. Up' = Up /\ Down' = Down \ {p}
  BY <1>3, <1>4 DEF Up, Down
<1>7. Ownership'
  BY <1>1, <1>2, <1>3, <1>5, <1>6, <1>4, OwnershipFacts, OwnershipNext DEF Accounts
<1>8. Outstanding' = Outstanding
  BY <1>1, <1>5, <1>6 DEF Outstanding, Down
<1>9. Books'
  BY <1>2, <1>8, BooksKept DEF Accounts
<1>. QED
  BY <1>2, <1>3, <1>4, <1>7, <1>9 DEF Accounts, HeapType, p

LEMMA AccountsDeliverToL2 ==
  ASSUME Accounts, DeliverToL2
  PROVE  Accounts'
<1> DEFINE p == messages[icursor].b
<1>1. icursor \in DOMAIN messages /\ p \in Down
  <2>1. icursor \in DOMAIN messages /\ p \in Carried({"MEM_TO_L2"})
    BY DueFacts DEF DeliverToL2, Message_Direction
  <2>. QED
    BY <2>1 DEF Down, Carried
<1>2. /\ messages' = RemoveAt(messages, icursor) /\ heap' = Freed(p) /\ Release(heap[p])
      /\ UNCHANGED <<pending, ongoing>>
  BY DEF DeliverToL2, Delivered, memory
<1>3. /\ messages' \in Seq(MessageType) /\ DistinctMessages'
      /\ \A D : Carried(D)' = Carried(D) \ {p}
  BY <1>1, <1>2, OwnershipFacts, MessageRemoved DEF Accounts
<1>4. Mem!Once' /\ Mem!InMemory' = Mem!InMemory
  BY <1>2, OwnershipFacts, MemUnchanged DEF Accounts
<1>. HIDE DEF p
<1>5. p \notin Up /\ p \notin Mem!InMemory /\ p \in Outstanding
  BY <1>1, OwnershipFacts DEF Accounts
<1>6. Up' = Up /\ Down' = Down \ {p} /\ Outstanding' = Outstanding \ {p}
  BY <1>3, <1>4, <1>5 DEF Up, Down, Outstanding
<1>7. HeapType' /\ DOMAIN heap' = DOMAIN heap \ {p}
  BY <1>2, HeapFreed DEF Accounts
<1>8. Ownership'
  BY <1>3, <1>4, <1>5, <1>6, <1>7, OwnershipFacts, OwnershipNext DEF Accounts
<1>9. Books'
  <2>1. Outstanding \subseteq DOMAIN heap
    BY OwnershipFacts DEF Accounts
  <2>. QED
    BY <1>2, <1>5, <1>6, <2>1, BooksAfterRelease DEF Accounts
<1>. QED
  BY <1>3, <1>7, <1>8, <1>9 DEF Accounts

LEMMA AccountsRetire ==
  ASSUME Accounts, Mem!TypeOK, Retire
  PROVE  Accounts'
<1> DEFINE p == ongoing[cursor].cache_block
<1>1. /\ Mem!Once' /\ p \in Mem!InMemory \cap Pointer
      /\ Mem!InMemory' = Mem!InMemory \ {p}
  BY OwnershipFacts, MemRetire DEF Accounts, Retire
<1>2. /\ messages' = Send(p, MemToL2, "MEM_TO_L2")
      /\ UNCHANGED <<mshr, mshr_count, heap>>
  BY DEF Retire, caches
<1>. HIDE DEF p
<1>3. p \in Pointer \ Carried(Message_Direction)
  BY <1>1, OwnershipFacts DEF Accounts
<1>4. /\ messages' \in Seq(MessageType) /\ DistinctMessages'
      /\ \A D : Carried(D)' = Carried(D) \cup (IF "MEM_TO_L2" \in D THEN {p} ELSE {})
  BY <1>2, <1>3, OwnershipFacts, Sent, LatencyAssumption DEF Accounts, Message_Direction
<1>5. Up' = Up /\ Down' = Down \cup {p}
  BY <1>4 DEF Up, Down
<1>6. Outstanding' = Outstanding
  BY <1>1, <1>5 DEF Outstanding, Down
<1>7. Ownership'
  BY <1>1, <1>2, <1>3, <1>4, <1>5, OwnershipFacts, OwnershipNext DEF Accounts
<1>8. Books'
  BY <1>2, <1>6, BooksKept DEF Accounts
<1>. QED
  BY <1>2, <1>4, <1>7, <1>8 DEF Accounts, HeapType

LEMMA AccountsSchedule ==
  ASSUME Accounts, Mem!TypeOK, Schedule
  PROVE  Accounts'
<1>1. /\ (\E i \in DOMAIN pending : Mem!Schedule(i)) \/ Mem!ScheduleNothing
      /\ UNCHANGED <<messages, mshr, mshr_count, heap>>
  BY DEF Schedule, network, caches
<1>2. Mem!Once' /\ Mem!InMemory' = Mem!InMemory
  BY <1>1, OwnershipFacts, MemSchedule DEF Accounts
<1>3. \A D : Carried(D)' = Carried(D)
  BY <1>1, MessagesUnchanged
<1>4. Outstanding' = Outstanding
  BY <1>2, <1>3 DEF Outstanding
<1>5. Books'
  BY <1>1, <1>4, BooksKept DEF Accounts
<1>6. Ownership'
  BY <1>1, <1>2, <1>3, <1>4 DEF Accounts, Ownership
<1>. QED
  BY <1>1, <1>5, <1>6 DEF Accounts, HeapType

\* An access that misses: whatever the probe does with the new block, the blocks
\* in use and the MSHRs agree afterwards.
LEMMA AccountsMiss ==
  ASSUME Accounts, NEW cache \in L1, NEW tag \in Tag, AccessMiss(cache, tag),
         UNCHANGED <<pending, ongoing>>
  PROVE  Accounts'
<1>1. PICK p \in Malloc(Pointer \ DOMAIN heap) :
        \/ ProbeRejected \/ ProbeHit(p, Block(tag, cache))
        \/ ProbeMerged(Block(tag, cache)) \/ ProbeMiss(p, Block(tag, cache))
  BY DEF AccessMiss
<1>2. p \in Pointer \ DOMAIN heap
  BY MallocAssumption
<1>3. p \in Pointer \ Carried(Message_Direction) /\ p \notin Mem!InMemory
  BY <1>2, OwnershipFacts DEF Accounts
<1>4. Mem!Once' /\ Mem!InMemory' = Mem!InMemory
  BY OwnershipFacts, MemUnchanged DEF Accounts
<1>5. Block(tag, cache) \in [tag : Tag, l1 : L1]
  BY DEF Block
<1>. DEFINE b == Block(tag, cache)
<1>. HIDE DEF b
<1>6. CASE ProbeRejected
  BY <1>6, AccountsUnchanged DEF ProbeRejected
<1>7. CASE ProbeMerged(b)
  BY <1>7, AccountsUnchanged DEF ProbeMerged
<1>8. ASSUME heap' = Allocated(p, b)
      PROVE  HeapType' /\ DOMAIN heap' = DOMAIN heap \cup {p} /\ \A q \in DOMAIN heap : heap'[q] = heap[q]
  BY <1>2, <1>5, <1>8, HeapAllocated DEF Accounts, b
<1>9. CASE ProbeHit(p, b)
  <2>1. /\ messages' = Send(p, L2ToL1, "L2_TO_L1") /\ heap' = Allocated(p, b)
        /\ UNCHANGED <<mshr, mshr_count>>
    BY <1>9 DEF ProbeHit
  <2>2. /\ messages' \in Seq(MessageType) /\ DistinctMessages'
        /\ \A D : Carried(D)' = Carried(D) \cup (IF "L2_TO_L1" \in D THEN {p} ELSE {})
    BY <1>3, <2>1, OwnershipFacts, Sent, LatencyAssumption DEF Accounts, Message_Direction
  <2>3. Up' = Up \cup {p} /\ Down' = Down /\ Outstanding' = Outstanding
    BY <1>4, <2>2 DEF Up, Down, Outstanding
  <2>4. Ownership'
    BY <1>3, <1>4, <1>8, <2>1, <2>2, <2>3, OwnershipFacts, OwnershipNext DEF Accounts
  <2>5. \A q \in Outstanding : heap'[q] = heap[q]
    BY <1>8, <2>1, OwnershipFacts DEF Accounts
  <2>6. Books'
    BY <2>1, <2>3, <2>5, BooksKept DEF Accounts
  <2>. QED
    BY <1>8, <2>1, <2>2, <2>4, <2>6 DEF Accounts
<1>10. CASE ProbeMiss(p, b)
  <2>1. /\ messages' = Send(p, L2ToMem, "L2_TO_MEM") /\ heap' = Allocated(p, b)
        /\ Waiting(b) = {} /\ mshr_count' = mshr_count + 1
    BY <1>10 DEF ProbeMiss
  <2>2. PICK i \in Free :
          mshr' = [mshr EXCEPT ![i] = [cache_block |-> p, valid |-> TRUE, done |-> FALSE]]
    BY <1>10 DEF ProbeMiss
  <2>3. /\ messages' \in Seq(MessageType) /\ DistinctMessages'
        /\ \A D : Carried(D)' = Carried(D) \cup (IF "L2_TO_MEM" \in D THEN {p} ELSE {})
    BY <1>3, <2>1, OwnershipFacts, Sent, LatencyAssumption DEF Accounts, Message_Direction
  <2>4. Up' = Up /\ Down' = Down \cup {p} /\ Outstanding' = Outstanding \cup {p}
    BY <1>4, <2>3 DEF Up, Down, Outstanding
  <2>5. Ownership'
    BY <1>3, <1>4, <1>8, <2>1, <2>3, <2>4, OwnershipFacts, OwnershipNext DEF Accounts
  <2>6. Outstanding \subseteq DOMAIN heap
    BY OwnershipFacts DEF Accounts
  <2>7. Books'
    BY <1>2, <2>1, <2>2, <2>4, <2>6, BooksAfterAllocate DEF Accounts
  <2>. QED
    BY <1>8, <2>1, <2>3, <2>5, <2>7 DEF Accounts
<1>. QED
  BY <1>1, <1>6, <1>7, <1>9, <1>10 DEF b

LEMMA AccountsRecover ==
  ASSUME Accounts, Recover
  PROVE  Accounts'
<1>1. /\ UNCHANGED <<pending, ongoing, messages, mshr_count, heap>>
      /\ Cancel(Block(PC, "inst"))
  BY DEF Recover, memory, network
<1>2. Outstanding' = Outstanding /\ Mem!Once' = Mem!Once /\ Mem!InMemory' = Mem!InMemory
  BY <1>1 DEF Outstanding, Carried, Mem!Once, Mem!InMemory
<1>3. Books'
  BY <1>1, <1>2, BooksAfterCancel DEF Accounts
<1>4. Ownership'
  BY <1>1, <1>2 DEF Accounts, Ownership, Carried
<1>. QED
  BY <1>1, <1>3, <1>4 DEF Accounts, HeapType

LEMMA AccountsInit == Init => Accounts
<1>. SUFFICES ASSUME Init PROVE Accounts
  OBVIOUS
<1>1. /\ messages = <<>> /\ heap = <<>> /\ pending = <<>> /\ ongoing = <<>>
      /\ mshr = [i \in MSHR |-> [cache_block |-> NULL, valid |-> FALSE, done |-> TRUE]]
      /\ mshr_count = 0
  BY DEF Init, Mem!Init
<1>2. Mem!InMemory = {} /\ Mem!Once
  BY <1>1 DEF Mem!InMemory, Mem!Once
<1>3. \A D : Carried(D) = {}
  BY <1>1 DEF Carried
<1>4. Outstanding = {}
  BY <1>2, <1>3 DEF Outstanding
<1>5. HeapType /\ messages \in Seq(MessageType)
  BY <1>1 DEF HeapType
<1>6. Busy = {}
  BY <1>1 DEF Busy
<1>7. Books
  <2>1. MSHRType
    BY <1>1 DEF MSHRType
  <2>2. CountExact
    BY <1>1, <1>6, FS_EmptySet DEF CountExact
  <2>. QED
    BY <1>4, <1>6, <2>1, <2>2 DEF Books, MSHRsMatched, OneRequestPerBlock
<1>8. Ownership
  BY <1>1, <1>2, <1>3, <1>4 DEF Ownership
<1>. QED
  BY <1>5, <1>7, <1>8 DEF Accounts

\* An access that hits changes no block in use.
LEMMA AccountsHit ==
  ASSUME Accounts, NEW cache, NEW tag, AccessHit(cache, tag), UNCHANGED <<pending, ongoing>>
  PROVE  Accounts'
  BY AccountsUnchanged DEF AccessHit

LEMMA AccountsStep ==
  ASSUME Accounts, Mem!TypeOK, CoreType, [Next]_vars
  PROVE  Accounts'
<1>1. CASE InTransit
  BY <1>1, AccountsInTransit
<1>2. CASE DeliverToL1
  BY <1>2, AccountsDeliverToL1
<1>3. CASE DeliverToMemory
  BY <1>3, AccountsDeliverToMemory
<1>4. CASE DeliverToL2
  BY <1>4, AccountsDeliverToL2
<1>5. CASE AllProcessed
  BY <1>5, AccountsUnchanged DEF AllProcessed, Mem!StartCycle, caches
<1>6. CASE Retire
  BY <1>6, AccountsRetire
<1>7. CASE KeepOngoing
  BY <1>7, AccountsUnchanged DEF KeepOngoing, Mem!KeepOngoing, caches, network
<1>8. CASE AllVisited
  BY <1>8, AccountsUnchanged DEF AllVisited, Mem!AllVisited, caches, network
<1>9. CASE Schedule
  BY <1>9, AccountsSchedule
<1>10. CASE MemHit
  BY <1>10, AccountsHit DEF MemHit, memory
<1>11. CASE MemMiss
  BY <1>11, AccountsMiss DEF MemMiss, memory, CoreType, L1
<1>12. CASE FetchHit
  BY <1>12, AccountsHit DEF FetchHit, memory
<1>13. CASE FetchMiss
  BY <1>13, AccountsMiss DEF FetchMiss, memory, CoreType, L1
<1>14. CASE Recover
  BY <1>14, AccountsRecover
<1>15. ASSUME UNCHANGED <<memory, network, caches>>
       PROVE  Accounts'
  BY <1>15, AccountsUnchanged DEF memory, network, caches
<1>16. CASE MemIdle \/ ExecuteStalls \/ Decode \/ FetchBlocked \/ UNCHANGED vars
  BY <1>15, <1>16 DEF MemIdle, ExecuteStalls, Decode, FetchBlocked, vars
<1>17. ASSUME NEW op, ExecuteIssues(op) \/ ExecuteBranches(op)
       PROVE  Accounts'
  BY <1>15, <1>17 DEF ExecuteIssues, ExecuteBranches
<1>. QED
  BY <1>1, <1>2, <1>3, <1>4, <1>5, <1>6, <1>7, <1>8, <1>9, <1>10, <1>11, <1>12, <1>13,
     <1>14, <1>16, <1>17 DEF Next, Interconnect, MemoryCycle, Pipeline

-----------------------------------------------------------------------------
(* Part 4: the contents of the caches.                                     *)

L1OK(f) ==
  /\ DOMAIN f = L1
  /\ \A c \in L1 : /\ f[c] \in [0 .. L1Sets[c] - 1 -> Seq(Tag)]
                   /\ \A s \in DOMAIN f[c] : WellFormed(f[c][s], L1Ways[c])
L2OK(g) == g \in [0 .. L2Sets - 1 -> Seq(Tag)] /\ \A s \in DOMAIN g : WellFormed(g[s], L2Ways)

LEMMA CachesOK == CacheType /\ SetsWellFormed <=> L1OK(l1) /\ L2OK(l2)
  BY DEF CacheType, SetsWellFormed, L1OK, L2OK

\* get_set_idx stays within the cache.
LEMMA SetIndex ==
  ASSUME NEW tag \in Tag
  PROVE  /\ tag % L2Sets \in 0 .. L2Sets - 1
         /\ \A c \in L1 : tag % L1Sets[c] \in 0 .. L1Sets[c] - 1
<1>1. tag \in Nat /\ L2Sets \in Nat \ {0} /\ \A c \in L1 : L1Sets[c] \in Nat \ {0}
  BY TagAssumption, CacheAssumption
<1>2. \A n \in Nat \ {0} : tag % n \in 0 .. n - 1
  BY <1>1
<1>. QED
  BY <1>1, <1>2

LEMMA L1Changed ==
  ASSUME L1OK(l1), NEW c \in L1, NEW k \in 0 .. L1Sets[c] - 1, NEW s \in Seq(Tag),
         WellFormed(s, L1Ways[c])
  PROVE  L1OK([l1 EXCEPT ![c][k] = s])
  BY DEF L1OK

LEMMA L2Changed ==
  ASSUME L2OK(l2), NEW k \in 0 .. L2Sets - 1, NEW s \in Seq(Tag), WellFormed(s, L2Ways)
  PROVE  L2OK([l2 EXCEPT ![k] = s])
  BY DEF L2OK

LEMMA L1TouchOK ==
  ASSUME L1OK(l1), NEW c \in L1, NEW tag \in Tag, L1Hit(c, tag)
  PROVE  L1OK(L1Touch(c, tag))
<1> DEFINE k == tag % L1Sets[c]
<1>1. k \in 0 .. L1Sets[c] - 1
  BY SetIndex
<1>. HIDE DEF k
<1>2. l1[c][k] \in Seq(Tag) /\ WellFormed(l1[c][k], L1Ways[c])
  BY <1>1 DEF L1OK
<1>3. Holds(l1[c][k], tag)
  BY DEF L1Hit, L1Set, k
<1>4. Touched(l1[c][k], tag) \in Seq(Tag) /\ WellFormed(Touched(l1[c][k], tag), L1Ways[c])
  BY <1>2, <1>3, TouchedFacts
<1>5. L1Touch(c, tag) = [l1 EXCEPT ![c][k] = Touched(l1[c][k], tag)]
  BY DEF L1Touch, k
<1>. QED
  BY <1>1, <1>4, <1>5, L1Changed

LEMMA L1InsertOK ==
  ASSUME L1OK(l1), NEW b \in [tag : Tag, l1 : L1]
  PROVE  L1OK(L1Insert(b))
<1> DEFINE c == b.l1
           k == b.tag % L1Sets[c]
           s == Inserted(l1[c][k], b.tag, L1Ways[c])
<1>1. b.tag \in Tag /\ c \in L1 /\ L1Ways[c] \in Nat \ {0}
  BY CacheAssumption
<1>2. k \in 0 .. L1Sets[c] - 1
  BY <1>1, SetIndex
<1>3. L1Insert(b) = [l1 EXCEPT ![c][k] = s]
  BY DEF L1Insert
<1>. HIDE DEF c, k
<1>4. l1[c][k] \in Seq(Tag) /\ WellFormed(l1[c][k], L1Ways[c])
  BY <1>1, <1>2 DEF L1OK
<1>5. s \in Seq(Tag) /\ WellFormed(s, L1Ways[c])
  BY <1>1, <1>4, InsertedFacts
<1>. HIDE DEF s
<1>6. L1OK([l1 EXCEPT ![c][k] = s])
  BY <1>1, <1>2, <1>5, L1Changed
<1>. QED
  BY <1>3, <1>6

LEMMA L2TouchOK ==
  ASSUME L2OK(l2), NEW tag \in Tag, Holds(L2Set(tag), tag)
  PROVE  L2OK(L2Touch(tag))
<1> DEFINE k == tag % L2Sets
<1>1. k \in 0 .. L2Sets - 1
  BY SetIndex
<1>. HIDE DEF k
<1>2. l2[k] \in Seq(Tag) /\ WellFormed(l2[k], L2Ways)
  BY <1>1 DEF L2OK
<1>3. Holds(l2[k], tag)
  BY DEF L2Set, k
<1>4. Touched(l2[k], tag) \in Seq(Tag) /\ WellFormed(Touched(l2[k], tag), L2Ways)
  BY <1>2, <1>3, TouchedFacts
<1>5. L2Touch(tag) = [l2 EXCEPT ![k] = Touched(l2[k], tag)]
  BY DEF L2Touch, k
<1>. QED
  BY <1>1, <1>4, <1>5, L2Changed

LEMMA L2InsertOK ==
  ASSUME L2OK(l2), NEW tag \in Tag
  PROVE  L2OK(L2Insert(tag))
<1> DEFINE k == tag % L2Sets
<1>1. k \in 0 .. L2Sets - 1
  BY SetIndex
<1>. HIDE DEF k
<1>2. l2[k] \in Seq(Tag) /\ WellFormed(l2[k], L2Ways) /\ L2Ways \in Nat \ {0}
  BY <1>1, CacheAssumption DEF L2OK
<1> DEFINE s == Inserted(l2[k], tag, L2Ways)
<1>3. s \in Seq(Tag) /\ WellFormed(s, L2Ways)
  BY <1>2, InsertedFacts
<1>4. L2Insert(tag) = [l2 EXCEPT ![k] = s]
  BY DEF L2Insert, k
<1>. HIDE DEF s
<1>. QED
  BY <1>1, <1>3, <1>4, L2Changed

LEMMA CachesMiss ==
  ASSUME L1OK(l1), L2OK(l2), NEW cache \in L1, NEW tag \in Tag, AccessMiss(cache, tag)
  PROVE  L1OK(l1') /\ L2OK(l2')
<1>1. l1' = l1
  BY DEF AccessMiss
<1>2. PICK p : \/ ProbeRejected \/ ProbeHit(p, Block(tag, cache))
               \/ ProbeMerged(Block(tag, cache)) \/ ProbeMiss(p, Block(tag, cache))
  BY DEF AccessMiss
<1>3. CASE ProbeHit(p, Block(tag, cache))
  <2>1. l2' = L2Touch(tag) /\ Holds(L2Set(tag), tag)
    BY <1>3 DEF ProbeHit, Block
  <2>. QED
    BY <1>1, <2>1, L2TouchOK
<1>4. CASE ProbeRejected \/ ProbeMerged(Block(tag, cache)) \/ ProbeMiss(p, Block(tag, cache))
  BY <1>1, <1>4 DEF ProbeRejected, ProbeMerged, ProbeMiss
<1>. QED
  BY <1>2, <1>3, <1>4

LEMMA CachesHit ==
  ASSUME L1OK(l1), L2OK(l2), NEW cache \in L1, NEW tag \in Tag, AccessHit(cache, tag)
  PROVE  L1OK(l1') /\ L2OK(l2')
  BY L1TouchOK DEF AccessHit

LEMMA CachesStep ==
  ASSUME L1OK(l1), L2OK(l2), Accounts, CoreType, [Next]_vars
  PROVE  L1OK(l1') /\ L2OK(l2')
<1>1. CASE DeliverToL1
  <2>1. heap[messages[icursor].b] \in [tag : Tag, l1 : L1]
    BY <1>1, DueFacts DEF DeliverToL1, Message_Direction
  <2>. QED
    BY <1>1, <2>1, L1InsertOK DEF DeliverToL1
<1>2. CASE DeliverToL2
  <2> DEFINE b == heap[messages[icursor].b]
  <2>1. b \in [tag : Tag, l1 : L1]
    BY <1>2, DueFacts DEF DeliverToL2, Message_Direction
  <2>2. l2' = L2Insert(b.tag) /\ (l1' = L1Insert(b) \/ l1' = l1)
    BY <1>2 DEF DeliverToL2
  <2>. QED
    BY <2>1, <2>2, L1InsertOK, L2InsertOK
<1>3. CASE MemHit
  BY <1>3, CachesHit DEF MemHit, CoreType, L1
<1>4. CASE FetchHit
  BY <1>4, CachesHit DEF FetchHit, CoreType, L1
<1>5. CASE MemMiss
  BY <1>5, CachesMiss DEF MemMiss, CoreType, L1
<1>6. CASE FetchMiss
  BY <1>6, CachesMiss DEF FetchMiss, CoreType, L1
<1>7. CASE InTransit \/ DeliverToMemory \/ AllProcessed \/ MemoryCycle
  BY <1>7 DEF InTransit, DeliverToMemory, AllProcessed, MemoryCycle, Retire, KeepOngoing,
              AllVisited, Schedule, caches
<1>8. CASE MemIdle \/ ExecuteStalls \/ Decode \/ FetchBlocked \/ Recover \/ UNCHANGED vars
  BY <1>8 DEF MemIdle, ExecuteStalls, Decode, FetchBlocked, Recover, vars, caches
<1>9. ASSUME NEW op, ExecuteIssues(op) \/ ExecuteBranches(op)
      PROVE  L1OK(l1') /\ L2OK(l2')
  BY <1>9 DEF ExecuteIssues, ExecuteBranches, caches
<1>. QED
  BY <1>1, <1>2, <1>3, <1>4, <1>5, <1>6, <1>7, <1>8, <1>9 DEF Next, Interconnect, Pipeline

-----------------------------------------------------------------------------
(* Part 5: the steps of the hierarchy, seen by the controller, and the     *)
(* theorems.                                                               *)

LEMMA StageFacts ==
  ASSUME CoreType, [Next]_vars
  PROVE  CoreType'
<1>. USE DEF CoreType
<1>1. CASE InTransit \/ DeliverToL1 \/ DeliverToMemory \/ DeliverToL2 \/ AllProcessed
  BY <1>1 DEF InTransit, DeliverToL1, DeliverToMemory, DeliverToL2, AllProcessed, Delivered,
              Due, core
<1>2. CASE Retire \/ KeepOngoing \/ AllVisited \/ Schedule
  BY <1>2 DEF Retire, KeepOngoing, AllVisited, Schedule, core
<1>3. CASE MemIdle \/ MemHit \/ MemMiss
  BY <1>3 DEF MemIdle, MemHit, MemMiss, core
<1>4. ASSUME NEW op \in Tag \cup {NULL}, ExecuteIssues(op) PROVE CoreType'
  BY <1>4 DEF ExecuteIssues
<1>5. ASSUME NEW dest \in Tag, ExecuteBranches(dest) PROVE CoreType'
  BY <1>5 DEF ExecuteBranches
<1>6. CASE ExecuteStalls \/ Decode
  BY <1>6 DEF ExecuteStalls, Decode, core
<1>7. CASE FetchBlocked \/ FetchMiss
  BY <1>7 DEF FetchBlocked, FetchMiss, AfterFetch, core
<1>8. CASE FetchHit
  BY <1>8 DEF FetchHit, AfterFetch
<1>9. CASE Recover
  BY <1>9 DEF Recover
<1>10. CASE UNCHANGED vars
  BY <1>10 DEF vars, core
<1>. QED
  BY <1>1, <1>2, <1>3, <1>4, <1>5, <1>6, <1>7, <1>8, <1>9, <1>10
     DEF Next, Interconnect, MemoryCycle, Pipeline

\* Every step of the hierarchy is a step of the controller or none.
LEMMA MemoryStep ==
  ASSUME Accounts, Mem!TypeOK, CoreType, [Next]_vars
  PROVE  Mem!Next \/ UNCHANGED Mem!vars
<1>. USE DEF Mem!vars, MemoryStage, memory
<1>1. CASE InTransit
  BY <1>1 DEF InTransit
<1>2. CASE DeliverToL1 \/ DeliverToL2
  BY <1>2 DEF DeliverToL1, DeliverToL2, Delivered
<1>3. CASE DeliverToMemory
  <2>1. messages[icursor].b \in Pointer \ Mem!InMemory
    BY <1>3, AccountsDeliverToMemory
  <2>2. heap[messages[icursor].b].tag \in Tag
    <3>1. heap[messages[icursor].b] \in [tag : Tag, l1 : L1]
      BY <1>3, DueFacts DEF DeliverToMemory, Message_Direction
    <3>. QED
      BY <3>1
  <2>3. Mem!AddRequest(messages[icursor].b, heap[messages[icursor].b].tag)
    BY <1>3 DEF DeliverToMemory
  <2>. QED
    BY <2>1, <2>2, <2>3 DEF Mem!Next
<1>4. CASE AllProcessed
  BY <1>4 DEF AllProcessed, Mem!Next, Mem!Cycle
<1>5. CASE Retire
  BY <1>5 DEF Retire, Mem!Next, Mem!Cycle
<1>6. CASE KeepOngoing
  BY <1>6 DEF KeepOngoing, Mem!Next, Mem!Cycle
<1>7. CASE AllVisited
  BY <1>7 DEF AllVisited, Mem!Next, Mem!Cycle
<1>8. CASE Schedule
  BY <1>8 DEF Schedule, Mem!Next, Mem!Cycle
<1>9. CASE MemIdle \/ MemHit \/ MemMiss \/ ExecuteStalls
  BY <1>9 DEF MemIdle, MemHit, MemMiss, ExecuteStalls
<1>10. ASSUME NEW op, ExecuteIssues(op) \/ ExecuteBranches(op)
       PROVE  UNCHANGED Mem!vars
  BY <1>10 DEF ExecuteIssues, ExecuteBranches
<1>11. CASE Decode \/ FetchBlocked \/ FetchHit \/ FetchMiss \/ Recover
  BY <1>11 DEF Decode, FetchBlocked, FetchHit, FetchMiss, AfterFetch, Recover
<1>12. CASE UNCHANGED vars
  BY <1>12 DEF vars
<1>. QED
  BY <1>1, <1>2, <1>3, <1>4, <1>5, <1>6, <1>7, <1>8, <1>9, <1>10, <1>11, <1>12
     DEF Next, Interconnect, MemoryCycle, Pipeline

LEMMA CursorStep ==
  ASSUME icursor \in Nat \ {0}, [Next]_vars
  PROVE  icursor' \in Nat \ {0}
<1>1. CASE InTransit
  BY <1>1 DEF InTransit
<1>2. CASE DeliverToL1 \/ DeliverToMemory \/ DeliverToL2 \/ AllProcessed
  BY <1>2 DEF DeliverToL1, DeliverToMemory, DeliverToL2, AllProcessed, Delivered
<1>3. CASE MemoryCycle
  BY <1>3 DEF MemoryCycle, Retire, KeepOngoing, AllVisited, Schedule, network
<1>4. CASE MemIdle \/ MemHit \/ MemMiss \/ ExecuteStalls \/ Decode
  BY <1>4 DEF MemIdle, MemHit, MemMiss, ExecuteStalls, Decode, network
<1>5. ASSUME NEW op, ExecuteIssues(op) \/ ExecuteBranches(op)
      PROVE  icursor' \in Nat \ {0}
  BY <1>5 DEF ExecuteIssues, ExecuteBranches, network
<1>6. CASE FetchBlocked \/ FetchHit \/ FetchMiss \/ Recover \/ UNCHANGED vars
  BY <1>6 DEF FetchBlocked, FetchHit, FetchMiss, Recover, vars, network
<1>. QED
  BY <1>1, <1>2, <1>3, <1>4, <1>5, <1>6 DEF Next, Interconnect, Pipeline

\* The inductive invariant: the type invariant, the accounts and the sets.  It
\* needs all three: the accounts say that a delivered block is in use, which
\* the types of the caches need, and the types say which cache a block is for.
IInv ==
  /\ TypeOK
  /\ Ownership /\ MSHRsMatched /\ OneRequestPerBlock /\ CountExact
  /\ SetsWellFormed

LEMMA IInvParts ==
  IInv <=> /\ Accounts /\ Mem!TypeOK /\ CoreType /\ icursor \in Nat \ {0}
           /\ L1OK(l1) /\ L2OK(l2)
  BY CachesOK DEF IInv, TypeOK, Accounts, Books, NetworkType

LEMMA IInvPartsNext ==
  IInv' <=> /\ Accounts' /\ Mem!TypeOK' /\ CoreType' /\ icursor' \in Nat \ {0}
            /\ L1OK(l1') /\ L2OK(l2')
  BY DEF IInv, TypeOK, Accounts, Books, NetworkType, CacheType, SetsWellFormed, L1OK, L2OK

LEMMA IInvInit == Init => IInv
<1>. SUFFICES ASSUME Init PROVE IInv
  OBVIOUS
<1>1. Accounts
  BY AccountsInit
<1>2. Mem!TypeOK
  <2>1. MemP!Init => MemP!TypeOK
    BY MemP!TypeInit, TagAssumption, MemoryAssumption
  <2>. QED
    BY <2>1, SameNext, SameState DEF Init
<1>3. CoreType /\ icursor \in Nat \ {0}
  <2>1. /\ stage = "interconnect" /\ icursor = 1
        /\ PC \in Tag /\ decode_op = FALSE /\ execute_op = FALSE
        /\ mem_op = NULL /\ branch_dest = NULL
    BY DEF Init
  <2>2. decode_op \in BOOLEAN /\ execute_op \in BOOLEAN
    BY <2>1, Zenon
  <2>3. CoreType
    BY <2>1, <2>2, Zenon DEF CoreType
  <2>. QED
    BY <2>1, <2>3
<1>4. \A ways \in Nat \ {0} : <<>> \in Seq(Tag) /\ WellFormed(<<>>, ways)
  BY DEF WellFormed
<1>5. L1OK(l1)
  BY <1>4, CacheAssumption DEF Init, L1OK
<1>6. L2OK(l2)
  BY <1>4, CacheAssumption DEF Init, L2OK
<1>. QED
  BY <1>1, <1>2, <1>3, <1>5, <1>6, IInvParts

LEMMA IInvStep == IInv /\ [Next]_vars => IInv'
<1>. SUFFICES ASSUME IInv, [Next]_vars PROVE IInv'
  OBVIOUS
<1>1. Accounts /\ Mem!TypeOK /\ CoreType /\ icursor \in Nat \ {0} /\ L1OK(l1) /\ L2OK(l2)
  BY IInvParts
<1>2. Accounts'
  BY <1>1, AccountsStep
<1>3. Mem!TypeOK'
  BY <1>1, MemoryStep, MemType
<1>4. CoreType' /\ icursor' \in Nat \ {0}
  BY <1>1, StageFacts, CursorStep
<1>5. L1OK(l1') /\ L2OK(l2')
  BY <1>1, CachesStep
<1>. QED
  BY <1>2, <1>3, <1>4, <1>5, IInvPartsNext

\* Every reachable state keeps the books.
THEOREM Invariance == Spec => []IInv
  BY IInvInit, IInvStep, PTL DEF Spec

\* In every reachable state the queues, MSHRs, caches and pipeline slots are
\* well formed.
THEOREM HierarchyTypeCorrect == Spec => []TypeOK
<1>1. IInv => TypeOK
  BY DEF IInv
<1>. QED
  BY <1>1, Invariance, PTL

\* A cache block has one owner and exactly the owned blocks are allocated: none
\* is freed while in use, none is lost while it is passed on.
THEOREM OwnershipAlways == Spec => []Ownership
<1>1. IInv => Ownership
  BY DEF IInv
<1>. QED
  BY <1>1, Invariance, PTL

\* The MSHRs in use and the requests below the L2 cache are matched one to one.
THEOREM MSHRsMatchAlways == Spec => []MSHRsMatchRequests
<1>1. IInv => MSHRsMatchRequests
  BY DEF IInv, MSHRsMatchRequests
<1>. QED
  BY <1>1, Invariance, PTL

\* mshr_count is exact, and whenever it admits a probe there is a free MSHR: the
\* assert(0) of l2_cache_probe is dead code.
THEOREM ProbeFindsMSHR == Spec => [](CountExact /\ (mshr_count < L2_MSHR_SIZE => Free # {}))
<1>1. IInv => CountExact /\ (mshr_count < L2_MSHR_SIZE => Free # {})
  BY FreeMSHR DEF IInv, TypeOK, Books
<1>. QED
  BY <1>1, Invariance, PTL

\* No set of a cache ever holds a block twice or more blocks than it has ways.
THEOREM SetsAlwaysWellFormed == Spec => []SetsWellFormed
<1>1. IInv => SetsWellFormed
  BY DEF IInv
<1>. QED
  BY <1>1, Invariance, PTL

\* The hierarchy uses the controller as Memory says it is used (but for the
\* liveness part of Memory's specification, which TLC checks).
THEOREM UsesMemory == Spec => Mem!Init /\ [][Mem!Next]_(Mem!vars)
<1>1. Init => Mem!Init
  BY DEF Init
<1>2. IInv /\ [Next]_vars => [Mem!Next]_(Mem!vars)
  BY IInvParts, MemoryStep
<1>. QED
  BY <1>1, <1>2, Invariance, PTL DEF Spec

=============================================================================

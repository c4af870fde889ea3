-------------------------- MODULE ControllerProofs --------------------------
(***************************************************************************)
(* The controller of lab3 keeps its books, for any DRAM timing, any number *)
(* of cores and banks, any workload and under each of its policies: row    *)
(* table and DRAM agree, the count of the requests in service is exact,    *)
(* no read overtakes a write that it arrived behind, and every refresh is  *)
(* done before the next one is due.                                        *)
(*                                                                         *)
(* The first part counts elements of sequences, the second says what every *)
(* command does to the queues, the third goes through the actions, the     *)
(* last follows a refresh cycle by cycle.                                  *)
(***************************************************************************)
EXTENDS Controller, SeqLemmas, FiniteSetTheorems

-----------------------------------------------------------------------------
(* Elements of a sequence that are in a set.                               *)

At(s, T) == {i \in DOMAIN s : s[i] \in T}
Count(s, T) == Cardinality(At(s, T))

LEMMA CountType ==
  ASSUME NEW S, NEW s \in Seq(S), NEW T
  PROVE  IsFiniteSet(At(s, T)) /\ Count(s, T) \in Nat
<1>1. Len(s) \in Nat /\ DOMAIN s = 1 .. Len(s)
  OBVIOUS
<1>2. IsFiniteSet(1 .. Len(s))
  BY <1>1, FS_Interval
<1>3. At(s, T) \in SUBSET (1 .. Len(s))
  BY <1>1 DEF At
<1>4. IsFiniteSet(At(s, T))
  BY <1>2, <1>3, FS_Subset
<1>. QED
  BY <1>4, FS_CardinalityType DEF Count

LEMMA CountAppend ==
  ASSUME NEW S, NEW s \in Seq(S), NEW T, NEW e \in S
  PROVE  Count(Append(s, e), T) = Count(s, T) + IF e \in T THEN 1 ELSE 0
<1> DEFINE a == Append(s, e)
<1>1. /\ DOMAIN a = DOMAIN s \cup {Len(s) + 1} /\ Len(s) + 1 \notin DOMAIN s
      /\ \A i \in DOMAIN s : a[i] = s[i]
      /\ a[Len(s) + 1] = e
  BY Appended
<1>. HIDE DEF a
<1>2. IsFiniteSet(At(s, T)) /\ Count(s, T) \in Nat
  BY CountType
<1>3. CASE e \in T
  <2>1. At(a, T) = At(s, T) \cup {Len(s) + 1}
    BY <1>1, <1>3 DEF At
  <2>2. Len(s) + 1 \notin At(s, T)
    BY <1>1 DEF At
  <2>. QED
    BY <1>2, <1>3, <2>1, <2>2, FS_AddElement DEF Count, a
<1>4. CASE e \notin T
  <2>1. At(a, T) = At(s, T)
    BY <1>1, <1>4 DEF At
  <2>. QED
    BY <1>2, <1>4, <2>1 DEF Count, a
<1>. QED
  BY <1>3, <1>4

LEMMA CountRemoved ==
  ASSUME NEW S, NEW s \in Seq(S), NEW T, NEW i \in DOMAIN s
  PROVE  Count(RemoveAt(s, i), T) = Count(s, T) - IF s[i] \in T THEN 1 ELSE 0
<1> DEFINE r == RemoveAt(s, i)
           f == [j \in At(r, T) |-> Skip(i, j)]
<1>1. /\ r \in Seq(S)
      /\ \A j \in DOMAIN r : Skip(i, j) \in DOMAIN s \ {i} /\ r[j] = s[Skip(i, j)]
      /\ \A k \in DOMAIN s \ {i} : \E j \in DOMAIN r : Skip(i, j) = k
      /\ \A j, k \in DOMAIN r : j # k => Skip(i, j) # Skip(i, k)
  BY RemovedAt
<1>. HIDE DEF r
<1>2. IsFiniteSet(At(s, T)) /\ Count(s, T) \in Nat
  BY CountType
<1>3. IsFiniteSet(At(r, T)) /\ Count(r, T) \in Nat
  BY <1>1, CountType
<1>4. \A j \in At(r, T) : Skip(i, j) \in At(s, T) \ {i}
  BY <1>1 DEF At
<1>5. \A k \in At(s, T) \ {i} : \E j \in At(r, T) : Skip(i, j) = k
  BY <1>1 DEF At
<1>6. \A j, k \in At(r, T) : j # k => Skip(i, j) # Skip(i, k)
  BY <1>1 DEF At
<1>7. f \in Bijection(At(r, T), At(s, T) \ {i})
  BY <1>4, <1>5, <1>6 DEF Bijection, Injection, Surjection, IsInjective
<1>8. Cardinality(At(s, T) \ {i}) = Cardinality(At(r, T))
  BY <1>3, <1>7, FS_Bijection DEF ExistsBijection
<1>9. Cardinality(At(s, T) \ {i})
        = IF i \in At(s, T) THEN Cardinality(At(s, T)) - 1 ELSE Cardinality(At(s, T))
  BY <1>2, FS_RemoveElement
<1>10. i \in At(s, T) <=> s[i] \in T
  BY DEF At
<1>. QED
  BY <1>2, <1>8, <1>9, <1>10 DEF Count, r

LEMMA CountReplaced ==
  ASSUME NEW S, NEW s \in Seq(S), NEW T, NEW i \in DOMAIN s, NEW e \in S, s[i] \in T => e \in T
  PROVE  Count(ReplaceAt(s, i, e), T) = Count(s, T) + IF e \in T /\ s[i] \notin T THEN 1 ELSE 0
<1> DEFINE r == ReplaceAt(s, i, e)
<1>1. DOMAIN r = DOMAIN s /\ r[i] = e /\ \A j \in DOMAIN s \ {i} : r[j] = s[j]
  BY DEF ReplaceAt
<1>. HIDE DEF r
<1>2. IsFiniteSet(At(s, T)) /\ Count(s, T) \in Nat
  BY CountType
<1>3. CASE e \in T /\ s[i] \notin T
  <2>1. At(r, T) = At(s, T) \cup {i} /\ i \notin At(s, T)
    BY <1>1, <1>3 DEF At
  <2>. QED
    BY <1>2, <1>3, <2>1, FS_AddElement DEF Count, r
<1>4. CASE ~(e \in T /\ s[i] \notin T)
  <2>1. At(r, T) = At(s, T)
    BY <1>1, <1>4 DEF At
  <2>. QED
    BY <1>2, <1>4, <2>1 DEF Count, r
<1>. QED
  BY <1>3, <1>4

\* Without its first element a sequence is its tail.
LEMMA TailRemoves ==
  ASSUME NEW S, NEW s \in Seq(S), s # <<>>
  PROVE  1 \in DOMAIN s /\ Tail(s) = RemoveAt(s, 1) /\ Tail(s) \in Seq(S)
<1> DEFINE r == RemoveAt(s, 1)
<1>1. Len(s) \in Nat \ {0} /\ DOMAIN s = 1 .. Len(s)
  BY EmptySeq
<1>2. /\ Tail(s) \in Seq(S) /\ Len(Tail(s)) = Len(s) - 1
      /\ \A i \in 1 .. Len(s) - 1 : Tail(s)[i] = s[i + 1]
  BY HeadTailProperties
<1>3. 1 \in DOMAIN s /\ 1 \in 1 .. Len(s)
  BY <1>1
<1>4. /\ r \in Seq(S) /\ DOMAIN r = 1 .. Len(s) - 1
      /\ \A j \in 1 .. Len(s) - 1 : r[j] = s[Skip(1, j)]
  BY <1>3, RemoveAtFacts
<1>. HIDE DEF r
<1>5. Len(r) = Len(s) - 1
  <2>1. Len(r) \in Nat /\ DOMAIN r = 1 .. Len(r)
    BY <1>4
  <2>2. Len(s) - 1 \in Nat
    BY <1>1
  <2>3. \A m, n \in Nat : 1 .. m = 1 .. n => m = n
    <3>. SUFFICES ASSUME NEW m \in Nat, NEW n \in Nat, 1 .. m = 1 .. n, m < n \/ n < m
                  PROVE  FALSE
      OBVIOUS
    <3>1. m \in 1 .. n <=> m \in 1 .. m
      OBVIOUS
    <3>2. n \in 1 .. m <=> n \in 1 .. n
      OBVIOUS
    <3>. QED
      BY <3>1, <3>2
  <2>. QED
    BY <1>4, <2>1, <2>2, <2>3
<1>6. \A j \in 1 .. Len(s) - 1 : Tail(s)[j] = r[j]
  BY <1>1, <1>2, <1>4 DEF Skip
<1>7. Tail(s) = r
  BY <1>1, <1>2, <1>4, <1>5, <1>6, SeqEqual
<1>. QED
  BY <1>2, <1>3, <1>7 DEF r

LEMMA CountTail ==
  ASSUME NEW S, NEW s \in Seq(S), s # <<>>, NEW T
  PROVE  Count(Tail(s), T) = Count(s, T) - IF Head(s) \in T THEN 1 ELSE 0
<1>1. 1 \in DOMAIN s /\ Tail(s) = RemoveAt(s, 1)
  BY TailRemoves
<1>2. Count(RemoveAt(s, 1), T) = Count(s, T) - IF s[1] \in T THEN 1 ELSE 0
  BY <1>1, CountRemoved
<1>3. Head(s) = s[1]
  OBVIOUS
<1>. QED
  BY <1>1, <1>2, <1>3

\* A sequence with the same positions.
LEMMA MappedFacts ==
  ASSUME NEW S, NEW s \in Seq(S), NEW R, NEW t,
         t = [i \in DOMAIN s |-> t[i]], \A i \in DOMAIN s : t[i] \in R
  PROVE  t \in Seq(R) /\ Len(t) = Len(s) /\ DOMAIN t = DOMAIN s
<1>1. Len(s) \in Nat /\ DOMAIN s = 1 .. Len(s)
  OBVIOUS
<1>2. t \in [1 .. Len(s) -> R]
  BY <1>1
<1>3. t \in Seq(R)
  BY <1>1, <1>2, SeqDef
<1>. QED
  BY <1>1, <1>2, <1>3, LenProperties

LEMMA CountMapped ==
  ASSUME NEW s, NEW t, NEW T, NEW U, DOMAIN t = DOMAIN s,
         \A i \in DOMAIN s : t[i] \in T <=> s[i] \in U
  PROVE  Count(t, T) = Count(s, U)
<1>1. At(t, T) = At(s, U)
  BY DEF At
<1>. QED
  BY <1>1 DEF Count

-----------------------------------------------------------------------------
(* The queues.  A request in the act queue has been begun, and none of the *)
(* queues but that of the reads holds a request behind a write.            *)

Reads == {r \in Access : r.type = "READ"}
Writes == {r \in Access : r.type = "WRITE" /\ ~r.behind}
Opened == {r \in Access : ~r.behind /\ ~r.is_first_command}
Refreshes == [type : {"REFRESH"}, core : {0}, is_first_command : BOOLEAN, over : BOOLEAN]

Kind == [n \in Queue |->
  IF n = "read" THEN Reads ELSE IF n = "write" THEN Writes
  ELSE IF n = "act" THEN Opened ELSE Refreshes]

QueuesTyped ==
  /\ DOMAIN queue = Queue /\ queue = [n \in Queue |-> queue[n]]
  /\ \A n \in Queue : queue[n] \in Seq(Kind[n])
  /\ Len(queue["act"]) <= 1

\* Only the request that opened a row, which goes first, can be the write that a
\* read arrived behind.
WriteAhead ==
  \A i \in DOMAIN queue["read"] : queue["read"][i].behind =>
    /\ 1 \in DOMAIN queue["act"]
    /\ queue["act"][1].type = "WRITE"
    /\ queue["act"][1].addr = queue["read"][i].addr

TablesTyped ==
  /\ rowtable \in [Bank -> [row : Row \cup {Closed}, hits : Nat]]
  /\ DOMAIN open = Bank

BegunKind == {r \in Access : ~r.is_first_command}
FromBanks == {p \in Reply : ~p.forwarded}

Accounts ==
  cur_serving_requests =
    Count(queue["read"], BegunKind) + Count(queue["write"], BegunKind)
    + Count(queue["act"], BegunKind) + Count(pending, FromBanks)

PendingTyped == pending \in Seq(Reply)

\* The inductive invariant.
IInv ==
  /\ QueuesTyped /\ PendingTyped /\ TablesTyped
  /\ WriteAhead /\ ReadsSeeWrites /\ RowTableAgrees /\ Accounts

LEMMA InitIInv == Init => IInv
<1>. SUFFICES ASSUME Init PROVE IInv
  OBVIOUS
<1>1. \A T : <<>> \in Seq(T) /\ Count(<<>>, T) = 0
  BY EmptySeq, FS_EmptySet DEF Count, At
<1>2. QueuesTyped
  BY <1>1 DEF Init, QueuesTyped, Queue
<1>3. PendingTyped /\ WriteAhead /\ ReadsSeeWrites
  BY <1>1 DEF Init, PendingTyped, WriteAhead, ReadsSeeWrites, Queue
<1>4. TablesTyped /\ RowTableAgrees
  BY DEF Init, ChannelInit, TablesTyped, RowTableAgrees
<1>5. Accounts
  BY <1>1 DEF Init, Accounts, Queue
<1>. QED
  BY <1>2, <1>3, <1>4, <1>5 DEF IInv

LEMMA AccountsAreExact == QueuesTyped /\ PendingTyped => (Accounts <=> ServingExact)
<1>. SUFFICES ASSUME QueuesTyped, PendingTyped PROVE Accounts <=> ServingExact
  OBVIOUS
<1>1. \A n \in {"read", "write", "act"} : Begun(n) = At(queue[n], BegunKind)
  <2>. SUFFICES ASSUME NEW n \in {"read", "write", "act"}
                PROVE  Begun(n) = At(queue[n], BegunKind)
    OBVIOUS
  <2>1. queue[n] \in Seq(Kind[n]) /\ Kind[n] \subseteq Access
    BY DEF QueuesTyped, Queue, Kind, Reads, Writes, Opened
  <2>2. \A i \in DOMAIN queue[n] : queue[n][i] \in Access
    BY <2>1
  <2>. QED
    BY <2>2 DEF Begun, At, BegunKind
<1>2. {i \in DOMAIN pending : ~pending[i].forwarded} = At(pending, FromBanks)
  <2>1. \A i \in DOMAIN pending : pending[i] \in Reply
    BY DEF PendingTyped
  <2>. QED
    BY <2>1 DEF At, FromBanks
<1>. QED
  BY <1>1, <1>2 DEF Accounts, ServingExact, Count

-----------------------------------------------------------------------------
(* The steps of a tick.                                                    *)

LEMMA QueueTypes ==
  ASSUME QueuesTyped
  PROVE  /\ queue["read"] \in Seq(Reads) /\ queue["write"] \in Seq(Writes)
         /\ queue["act"] \in Seq(Opened) /\ queue["other"] \in Seq(Refreshes)
  BY DEF QueuesTyped, Queue, Kind

\* A due refresh joins the others.
LEMMA WaitingFacts ==
  ASSUME QueuesTyped
  PROVE  /\ \A n \in Queue : Waiting(n) \in Seq(Kind[n])
         /\ \A n \in Queue \ {"other"} : Waiting(n) = queue[n]
<1>1. RefreshRequest \in Refreshes
  BY DEF RefreshRequest, Refreshes
<1>2. queue["other"] \in Seq(Refreshes)
  BY QueueTypes
<1>3. Waiting("other") \in Seq(Refreshes)
  BY <1>1, <1>2, AppendFacts DEF Waiting
<1>4. \A n \in Queue \ {"other"} : Waiting(n) = queue[n]
  BY DEF Waiting
<1>. QED
  BY <1>3, <1>4 DEF QueuesTyped, Kind, Queue

\* While a request that opened a row waits, no other queue is served.
LEMMA ChosenFacts == Chosen \in Queue /\ (Chosen # "act" => queue["act"] = <<>>)
  BY DEF Chosen, Queue

\* At most one read is complete, and the others keep all but their cycles.
LEMMA StillPendingFacts ==
  ASSUME PendingTyped
  PROVE  /\ StillPending \in Seq(Reply)
         /\ Count(StillPending, FromBanks)
              = Count(pending, FromBanks) - IF Completed /\ ~Head(pending).forwarded THEN 1 ELSE 0
         /\ ReadsSeeWrites =>
              \A i \in DOMAIN StillPending : StillPending[i].behind => StillPending[i].forwarded
<1> DEFINE rest == IF Completed THEN Tail(pending) ELSE pending
           s == StillPending
<1>1. pending \in Seq(Reply) /\ Count(pending, FromBanks) \in Nat
  BY CountType DEF PendingTyped
<1>2. rest \in Seq(Reply)
  BY <1>1, TailRemoves DEF Completed
<1>3. Count(rest, FromBanks)
        = Count(pending, FromBanks) - IF Completed /\ ~Head(pending).forwarded THEN 1 ELSE 0
  <2>1. CASE Completed
    <3>1. pending # <<>>
      BY <2>1 DEF Completed
    <3>2. Head(pending) \in FromBanks <=> ~Head(pending).forwarded
      BY <1>1, <3>1 DEF FromBanks
    <3>. QED
      BY <1>1, <2>1, <3>1, <3>2, CountTail
  <2>2. CASE ~Completed
    BY <1>1, <2>2
  <2>. QED
    BY <2>1, <2>2
<1>4. ReadsSeeWrites => \A i \in DOMAIN rest : rest[i].behind => rest[i].forwarded
  <2>1. CASE Completed
    <3>1. 1 \in DOMAIN pending /\ rest = RemoveAt(pending, 1)
      BY <1>1, <2>1, TailRemoves DEF Completed
    <3>. HIDE DEF rest
    <3>2. \A j \in DOMAIN rest : Skip(1, j) \in DOMAIN pending /\ rest[j] = pending[Skip(1, j)]
      BY <1>1, <3>1, RemovedAt
    <3>. QED
      BY <3>2 DEF ReadsSeeWrites
  <2>2. CASE ~Completed
    BY <2>2 DEF ReadsSeeWrites
  <2>. QED
    BY <2>1, <2>2
<1>5. s = [i \in DOMAIN rest |-> [rest[i] EXCEPT !.depart = IF @ = 0 THEN 0 ELSE @ - 1]]
  BY DEF StillPending
<1>. HIDE DEF rest, s
<1>6. ASSUME NEW i \in DOMAIN rest
      PROVE  /\ s[i] \in Reply
             /\ s[i].behind = rest[i].behind /\ s[i].forwarded = rest[i].forwarded
  <2> DEFINE r == rest[i]
             d == IF r.depart = 0 THEN 0 ELSE r.depart - 1
  <2>1. r \in Reply
    BY <1>2
  <2>2. s[i] = [r EXCEPT !.depart = d]
    BY <1>5
  <2>. HIDE DEF r
  <2>3. r.depart \in 0 .. read_latency /\ read_latency \in Nat
    BY <2>1, ControllerAssumption DEF Reply
  <2>4. d \in 0 .. read_latency
    BY <2>3
  <2>. HIDE DEF d
  <2>. QED
    BY <2>1, <2>2, <2>4 DEF Reply, r
<1>7. s \in Seq(Reply) /\ DOMAIN s = DOMAIN rest
  <2>1. s = [i \in DOMAIN rest |-> s[i]]
    BY <1>5
  <2>. QED
    BY <1>2, <1>6, <2>1, MappedFacts
<1>8. \A i \in DOMAIN rest : rest[i] \in Reply
  BY <1>2
<1>9. \A i \in DOMAIN rest : s[i] \in FromBanks <=> rest[i] \in FromBanks
  BY <1>6, <1>8 DEF FromBanks
<1>10. Count(s, FromBanks) = Count(rest, FromBanks)
  BY <1>7, <1>9, CountMapped
<1>. QED
  BY <1>3, <1>4, <1>6, <1>7, <1>10 DEF s

\* The commands a request can need.
LEMMA CommandFacts ==
  ASSUME NEW req
  PROVE  /\ req.type = "REFRESH" => get_first_cmd(req) \in {"PREA", "REF"}
         /\ req.type = "READ" => get_first_cmd(req) \in {"ACT", "PRE", "RD"}
         /\ req.type = "WRITE" => get_first_cmd(req) \in {"ACT", "PRE", "WR"}
  BY DEF get_first_cmd, IsRefresh, DecodeRefresh, DecodeAccess

-----------------------------------------------------------------------------
(* What the command for request i of queue n does to the queues.           *)

Started(req) == [req EXCEPT !.is_first_command = FALSE]
Cmd(n, i) == get_first_cmd(Waiting(n)[i])
Rest(n, i) == IF is_closing(Cmd(n, i)) THEN ReplaceAt(Waiting(n), i, Started(Waiting(n)[i]))
              ELSE RemoveAt(Waiting(n), i)
After(m, n, i) == IF m = n THEN Rest(n, i) ELSE Waiting(m)

Served1(n, i, r) == IF Cmd(n, i) = "WR" /\ r.addr = Waiting(n)[i].addr THEN [r EXCEPT !.behind = FALSE] ELSE r

LEMMA RequestFacts ==
  ASSUME IInv, NEW n \in Queue, n # "act" => queue["act"] = <<>>, NEW i \in DOMAIN Waiting(n)
  PROVE  /\ Waiting(n)[i] \in Kind[n] /\ Started(Waiting(n)[i]) \in Kind[n]
         /\ n # "other" => /\ Waiting(n)[i] \in Access /\ ~Waiting(n)[i].behind
                           /\ Started(Waiting(n)[i]) \in Opened
                           /\ Started(Waiting(n)[i]) \in BegunKind
                           /\ Waiting(n)[i] \in BegunKind <=> ~Waiting(n)[i].is_first_command
                           /\ Started(Waiting(n)[i]).type = Waiting(n)[i].type
                           /\ Started(Waiting(n)[i]).addr = Waiting(n)[i].addr
<1> DEFINE req == Waiting(n)[i]
<1>1. QueuesTyped /\ WriteAhead
  BY DEF IInv
<1>2. req \in Kind[n]
  BY <1>1, WaitingFacts
<1>3. Started(req) \in Kind[n]
  <2>. HIDE DEF req
  <2>. QED
    BY <1>2 DEF Started, Kind, Queue, Reads, Writes, Opened, Refreshes, Access
<1>4. CASE n # "other"
  <2>1. req = queue[n][i] /\ i \in DOMAIN queue[n]
    BY <1>1, <1>4, WaitingFacts
  <2>2. n = "read" => ~req.behind
    <3>1. DOMAIN (<<>>) = {}
      OBVIOUS
    <3>. QED
      BY <1>1, <2>1, <3>1 DEF WriteAhead
  <2>. HIDE DEF req
  <2>3. req \in Access /\ ~req.behind
    BY <1>2, <1>4, <2>2 DEF Kind, Queue, Reads, Writes, Opened
  <2>. QED
    BY <1>2, <1>3, <2>3 DEF Started, Access, Opened, BegunKind, req
<1>. QED
  BY <1>2, <1>3, <1>4

LEMMA RestFacts ==
  ASSUME IInv, NEW n \in Queue, n # "act" => queue["act"] = <<>>, NEW i \in DOMAIN Waiting(n)
  PROVE  /\ Rest(n, i) \in Seq(Kind[n])
         /\ n # "other" =>
              Count(Rest(n, i), BegunKind) = Count(queue[n], BegunKind)
                + (IF Waiting(n)[i].is_first_command THEN 1 ELSE 0) - (IF is_closing(Cmd(n, i)) THEN 0 ELSE 1)
<1> DEFINE req == Waiting(n)[i]
           w == Waiting(n)
<1>1. w \in Seq(Kind[n]) /\ (n # "other" => w = queue[n])
  BY WaitingFacts DEF IInv
<1>2. /\ Started(req) \in Kind[n]
      /\ n # "other" => /\ Started(req) \in BegunKind
                        /\ req \in BegunKind <=> ~req.is_first_command
  BY RequestFacts
<1>3. i \in DOMAIN w /\ w[i] = req
  OBVIOUS
<1>4. Rest(n, i) = IF is_closing(Cmd(n, i)) THEN ReplaceAt(w, i, Started(req)) ELSE RemoveAt(w, i)
  BY DEF Rest
<1>. HIDE DEF w, req
<1>5. CASE is_closing(Cmd(n, i))
  <2>1. ReplaceAt(w, i, Started(req)) \in Seq(Kind[n])
    BY <1>1, <1>2, <1>3, ExceptSeq DEF ReplaceAt
  <2>2. n # "other" => Count(ReplaceAt(w, i, Started(req)), BegunKind)
                         = Count(w, BegunKind) + IF req.is_first_command THEN 1 ELSE 0
    BY <1>1, <1>2, <1>3, CountReplaced
  <2>3. Count(w, BegunKind) \in Nat
    BY <1>1, CountType
  <2>. QED
    BY <1>1, <1>4, <1>5, <2>1, <2>2, <2>3 DEF req
<1>6. CASE ~is_closing(Cmd(n, i))
  <2>1. RemoveAt(w, i) \in Seq(Kind[n])
    BY <1>1, <1>3, RemovedAt
  <2>2. n # "other" => Count(RemoveAt(w, i), BegunKind)
                         = Count(w, BegunKind) - IF req.is_first_command THEN 0 ELSE 1
    BY <1>1, <1>2, <1>3, CountRemoved
  <2>3. Count(w, BegunKind) \in Nat
    BY <1>1, CountType
  <2>. QED
    BY <1>1, <1>4, <1>6, <2>1, <2>2, <2>3 DEF req
<1>. QED
  BY <1>5, <1>6

\* The queues after a command: a request that opens a row moves to the act queue,
\* and after a write no read is behind it any more.
LEMMA IssueQueues ==
  ASSUME IInv, NEW n \in Queue, NEW i \in DOMAIN Waiting(n), NEW black, Issue(n, i, black)
  PROVE  /\ DOMAIN queue' = Queue /\ queue' = [m \in Queue |-> queue'[m]]
         /\ queue'["write"] = After("write", n, i)
         /\ queue'["other"] = After("other", n, i)
         /\ queue'["act"] = IF is_opening(Cmd(n, i))
                              THEN Append(After("act", n, i), Started(Waiting(n)[i]))
                              ELSE After("act", n, i)
         /\ queue'["read"] = [j \in DOMAIN After("read", n, i) |-> Served1(n, i, After("read", n, i)[j])]
<1> DEFINE req == Waiting(n)[i]
           cmd == get_first_cmd(req)
           begun == [req EXCEPT !.is_first_command = FALSE]
           served(q) == [j \in DOMAIN q |->
             IF cmd = "WR" /\ q[j].addr = req.addr THEN [q[j] EXCEPT !.behind = FALSE] ELSE q[j]]
           left == IF is_closing(cmd) THEN ReplaceAt(Waiting(n), i, begun) ELSE RemoveAt(Waiting(n), i)
           kept == [queue EXCEPT !["other"] = Waiting("other"), ![n] = left]
           moved == [kept EXCEPT !["act"] = IF is_opening(cmd) THEN Append(@, begun) ELSE @]
<1>1. queue' = [moved EXCEPT !["read"] = served(@)]
  BY DEF Issue
<1>2. QueuesTyped
  BY DEF IInv
<1>3. DOMAIN queue = Queue /\ queue = [m \in Queue |-> queue[m]]
  BY <1>2 DEF QueuesTyped
<1>4. left = Rest(n, i) /\ cmd = Cmd(n, i) /\ begun = Started(req)
  BY DEF Rest, Cmd, Started
<1>5. \A q : served(q) = [j \in DOMAIN q |-> Served1(n, i, q[j])]
  BY DEF Served1, Cmd
<1>6. \A m \in Queue : After(m, n, i) = IF m = n THEN left ELSE Waiting(m)
  BY <1>4 DEF After
<1>7. \A m \in Queue \ {"other"} : Waiting(m) = queue[m]
  BY <1>2, WaitingFacts
<1>. HIDE DEF req, cmd, begun, served, left
<1>8. DOMAIN kept = Queue /\ \A m \in Queue : kept[m] = After(m, n, i)
  <2> DEFINE one == [queue EXCEPT !["other"] = Waiting("other")]
  <2>1. kept = [one EXCEPT ![n] = left]
    OBVIOUS
  <2>2. DOMAIN one = Queue /\ \A m \in Queue : one[m] = Waiting(m)
    BY <1>3, <1>7 DEF Queue
  <2>. HIDE DEF one, kept
  <2>. QED
    BY <1>6, <2>1, <2>2
<1>. HIDE DEF kept
<1>9. /\ DOMAIN moved = Queue
      /\ \A m \in Queue \ {"act"} : moved[m] = After(m, n, i)
      /\ moved["act"] = IF is_opening(cmd) THEN Append(After("act", n, i), begun) ELSE After("act", n, i)
  BY <1>8 DEF Queue
<1>. HIDE DEF moved
<1>10. /\ DOMAIN queue' = Queue /\ queue' = [m \in Queue |-> queue'[m]]
       /\ queue'["read"] = served(moved["read"])
       /\ \A m \in Queue \ {"read"} : queue'[m] = moved[m]
  BY <1>1, <1>9 DEF Queue
<1>. QED
  BY <1>4, <1>5, <1>9, <1>10 DEF Queue, req

LEMMA IssueTyped ==
  ASSUME IInv, NEW n \in Queue, n # "act" => queue["act"] = <<>>,
         NEW i \in DOMAIN Waiting(n), NEW black, Issue(n, i, black)
  PROVE  QueuesTyped'
<1> DEFINE req == Waiting(n)[i]
<1>1. QueuesTyped /\ queue["act"] \in Seq(Opened) /\ Len(queue["act"]) <= 1
  BY QueueTypes DEF IInv, QueuesTyped
<1>2. \A m \in Queue : After(m, n, i) \in Seq(Kind[m])
  BY <1>1, WaitingFacts, RestFacts DEF After
<1>3. /\ After("act", n, i) \in Seq(Opened) /\ After("read", n, i) \in Seq(Reads)
      /\ After("write", n, i) \in Seq(Writes) /\ After("other", n, i) \in Seq(Refreshes)
  BY <1>2 DEF Kind, Queue
<1>4. /\ DOMAIN queue' = Queue /\ queue' = [m \in Queue |-> queue'[m]]
      /\ queue'["write"] = After("write", n, i)
      /\ queue'["other"] = After("other", n, i)
      /\ queue'["act"] = IF is_opening(Cmd(n, i)) THEN Append(After("act", n, i), Started(req))
                         ELSE After("act", n, i)
      /\ queue'["read"] = [j \in DOMAIN After("read", n, i) |-> Served1(n, i, After("read", n, i)[j])]
  BY IssueQueues
<1>5. queue'["read"] \in Seq(Reads)
  <2> DEFINE q == After("read", n, i)
  <2>1. \A j \in DOMAIN q : q[j] \in Reads
    BY <1>3
  <2>. HIDE DEF q
  <2>2. \A j \in DOMAIN q : Served1(n, i, q[j]) \in Reads
    BY <2>1 DEF Served1, Reads, Access
  <2>3. q \in Seq(Reads) /\ queue'["read"] = [j \in DOMAIN q |-> Served1(n, i, q[j])]
    BY <1>3, <1>4 DEF q
  <2>. HIDE DEF Served1
  <2>. QED
    BY <2>2, <2>3, MappedFacts
<1>6. is_opening(Cmd(n, i)) => n # "other" /\ ~is_closing(Cmd(n, i))
  <2>1. n = "other" => req.type = "REFRESH"
    BY RequestFacts DEF Kind, Refreshes
  <2>2. req.type = "REFRESH" => Cmd(n, i) \in {"PREA", "REF"}
    BY CommandFacts DEF Cmd
  <2>. QED
    BY <2>1, <2>2 DEF is_opening, is_closing
<1>7. n # "other" => Started(req) \in Opened
  BY RequestFacts
<1>8. queue'["act"] \in Seq(Opened)
  BY <1>3, <1>4, <1>6, <1>7
<1>9. Len(queue'["act"]) <= 1
  <2>1. CASE n = "act"
    <3>1. After("act", n, i) = Rest(n, i) /\ Waiting(n) = queue["act"] /\ n # "other"
      BY <1>1, <2>1, WaitingFacts DEF After
    <3>2. i \in DOMAIN queue["act"]
      BY <3>1
    <3>3. Len(queue["act"]) = 1
      <4>1. Len(queue["act"]) \in Nat /\ DOMAIN queue["act"] = 1 .. Len(queue["act"])
        BY <1>1
      <4>2. \A k \in Nat : i \in 1 .. k /\ k <= 1 => k = 1
        OBVIOUS
      <4>. QED
        BY <1>1, <3>2, <4>1, <4>2
    <3>4. CASE is_closing(Cmd(n, i))
      <4>1. Started(req) \in Opened
        BY <1>7, <3>1
      <4>2. Rest(n, i) = ReplaceAt(queue["act"], i, Started(req))
        BY <3>1, <3>4 DEF Rest
      <4>3. Len(Rest(n, i)) = 1
        BY <1>1, <3>2, <3>3, <4>1, <4>2, ExceptSeq DEF ReplaceAt
      <4>4. queue'["act"] = Rest(n, i)
        BY <1>4, <1>6, <3>1, <3>4
      <4>5. Len(queue'["act"]) = 1
        BY <4>3, <4>4
      <4>6. \A k : k = 1 => k <= 1
        OBVIOUS
      <4>. QED
        BY <4>5, <4>6
    <3>5. CASE ~is_closing(Cmd(n, i))
      <4>1. Rest(n, i) = RemoveAt(queue["act"], i)
        BY <3>1, <3>5 DEF Rest
      <4>2. DOMAIN Rest(n, i) = 1 .. 0
        <5>1. i \in 1 .. Len(queue["act"])
          BY <1>1, <3>2
        <5>2. DOMAIN RemoveAt(queue["act"], i) = 1 .. Len(queue["act"]) - 1
          BY <1>1, <5>1, RemoveAtFacts
        <5>. QED
          BY <3>3, <4>1, <5>2
      <4>3. Rest(n, i) \in Seq(Opened)
        BY <1>3, <3>1
      <4>4. Len(Rest(n, i)) = 0
        BY <4>2, <4>3
      <4>5. Len(Append(Rest(n, i), Started(req))) = 1
        BY <4>3, <4>4
      <4>. QED
        BY <1>4, <3>1, <4>4, <4>5
    <3>. QED
      BY <3>4, <3>5
  <2>2. CASE n # "act"
    <3>1. After("act", n, i) = <<>>
      BY <1>1, <2>2, WaitingFacts DEF After, Queue
    <3>2. Len(Append(<<>>, Started(req))) = 1 /\ Len(<<>>) = 0
      OBVIOUS
    <3>. QED
      BY <1>4, <3>1, <3>2
  <2>. QED
    BY <2>1, <2>2
<1>10. queue'["write"] \in Seq(Writes) /\ queue'["other"] \in Seq(Refreshes)
  BY <1>3, <1>4
<1>11. \A m \in Queue : queue'[m] \in Seq(Kind[m])
  BY <1>5, <1>8, <1>10 DEF Kind, Queue
<1>. QED
  BY <1>4, <1>9, <1>11 DEF QueuesTyped, Kind, Reads, Writes, Opened, Refreshes, Access

LEMMA IssueWriteAhead ==
  ASSUME IInv, NEW n \in Queue, n # "act" => queue["act"] = <<>>,
         NEW i \in DOMAIN Waiting(n), NEW black, Issue(n, i, black)
  PROVE  WriteAhead'
<1> DEFINE req == Waiting(n)[i]
           reads == After("read", n, i)
<1>1. /\ QueuesTyped /\ WriteAhead
      /\ queue["act"] \in Seq(Opened) /\ Len(queue["act"]) <= 1
      /\ queue["read"] \in Seq(Reads)
  BY QueueTypes DEF IInv, QueuesTyped
<1>2. /\ queue'["act"] = IF is_opening(Cmd(n, i)) THEN Append(After("act", n, i), Started(req))
                         ELSE After("act", n, i)
      /\ queue'["read"] = [j \in DOMAIN reads |-> Served1(n, i, reads[j])]
  BY IssueQueues
<1>. SUFFICES ASSUME NEW j \in DOMAIN queue'["read"], queue'["read"][j].behind
              PROVE  /\ 1 \in DOMAIN queue'["act"]
                     /\ queue'["act"][1].type = "WRITE"
                     /\ queue'["act"][1].addr = queue'["read"][j].addr
  BY DEF WriteAhead
<1>3. j \in DOMAIN reads /\ queue'["read"][j] = Served1(n, i, reads[j])
  BY <1>2
<1>4. reads \in Seq(Reads)
  BY <1>1, WaitingFacts, RestFacts DEF After, Kind, Queue
<1>5. reads[j] \in Reads
  BY <1>3, <1>4
<1>. HIDE DEF reads
<1>6. /\ reads[j].behind /\ reads[j].addr = queue'["read"][j].addr
      /\ ~(Cmd(n, i) = "WR" /\ reads[j].addr = req.addr)
  BY <1>3, <1>5 DEF Served1, Reads, Access
<1>7. CASE n # "act"
  <2>1. \A k \in DOMAIN queue["read"] : ~queue["read"][k].behind
    <3>1. DOMAIN (<<>>) = {}
      OBVIOUS
    <3>. QED
      BY <1>1, <1>7, <3>1 DEF WriteAhead
  <2>2. CASE n = "read"
    <3>1. Waiting(n) = queue["read"] /\ reads = Rest(n, i) /\ n # "other"
      BY <1>1, <2>2, WaitingFacts DEF After, Queue, reads
    <3>2. ~Started(req).behind
      BY <3>1, <1>7, RequestFacts DEF Opened
    <3>3. CASE is_closing(Cmd(n, i))
      <4>1. reads = ReplaceAt(queue["read"], i, Started(req)) /\ i \in DOMAIN queue["read"]
        BY <3>1, <3>3 DEF Rest
      <4>2. j \in DOMAIN queue["read"] /\ reads[j] = IF j = i THEN Started(req) ELSE queue["read"][j]
        BY <1>3, <4>1 DEF ReplaceAt
      <4>. QED
        BY <1>6, <2>1, <3>2, <4>2
    <3>4. CASE ~is_closing(Cmd(n, i))
      <4>1. reads = RemoveAt(queue["read"], i) /\ i \in DOMAIN queue["read"]
        BY <3>1, <3>4 DEF Rest
      <4>2. Skip(i, j) \in DOMAIN queue["read"] /\ reads[j] = queue["read"][Skip(i, j)]
        BY <1>1, <1>3, <4>1, RemovedAt
      <4>. QED
        BY <1>6, <2>1, <4>2
    <3>. QED
      BY <3>3, <3>4
  <2>3. CASE n # "read"
    <3>1. reads = queue["read"]
      BY <1>1, <2>3, WaitingFacts DEF After, Queue, reads
    <3>. QED
      BY <1>3, <1>6, <2>1, <3>1
  <2>. QED
    BY <2>2, <2>3
<1>8. CASE n = "act"
  <2>1. reads = queue["read"] /\ Waiting(n) = queue["act"] /\ After("act", n, i) = Rest(n, i)
    BY <1>1, <1>8, WaitingFacts DEF After, Queue, reads
  <2>2. /\ 1 \in DOMAIN queue["act"] /\ queue["act"][1].type = "WRITE"
        /\ queue["act"][1].addr = reads[j].addr
    BY <1>1, <1>3, <1>6, <2>1 DEF WriteAhead
  <2>3. i = 1 /\ Len(queue["act"]) = 1
    <3>1. Len(queue["act"]) \in Nat /\ DOMAIN queue["act"] = 1 .. Len(queue["act"])
      BY <1>1
    <3>2. \A k \in Nat : i \in 1 .. k /\ k <= 1 => k = 1 /\ i = 1
      OBVIOUS
    <3>. QED
      BY <1>1, <2>1, <3>1, <3>2
  <2>4. req.type = "WRITE" /\ req.addr = reads[j].addr
    BY <2>1, <2>2, <2>3
  <2>5. Cmd(n, i) \in {"ACT", "PRE"}
    BY <1>6, <2>4, CommandFacts DEF Cmd
  <2>6. /\ Started(req) \in Opened
        /\ Started(req).type = "WRITE" /\ Started(req).addr = reads[j].addr
    BY <1>8, <2>4, RequestFacts
  <2>7. CASE Cmd(n, i) = "PRE"
    <3>1. queue'["act"] = ReplaceAt(queue["act"], 1, Started(req))
      BY <1>2, <2>1, <2>3, <2>7 DEF is_opening, is_closing, Rest
    <3>2. 1 \in DOMAIN queue'["act"] /\ queue'["act"][1] = Started(req)
      BY <2>2, <3>1 DEF ReplaceAt
    <3>. QED
      BY <1>6, <2>6, <3>2
  <2>8. CASE Cmd(n, i) = "ACT"
    <3> DEFINE gone == RemoveAt(queue["act"], 1)
    <3>1. queue'["act"] = Append(gone, Started(req))
      BY <1>2, <2>1, <2>3, <2>8 DEF is_opening, is_closing, Rest
    <3>2. gone \in Seq(Opened) /\ DOMAIN gone = 1 .. Len(queue["act"]) - 1
      <4>1. 1 \in 1 .. Len(queue["act"])
        BY <2>3
      <4>. QED
        BY <1>1, <4>1, RemoveAtFacts
    <3>. HIDE DEF gone
    <3>3. Len(gone) = 0
      BY <2>3, <3>2
    <3>4. DOMAIN Append(gone, Started(req)) = 1 .. 1 /\ Append(gone, Started(req))[1] = Started(req)
      BY <2>6, <3>2, <3>3, AppendFacts
    <3>5. 1 \in DOMAIN queue'["act"] /\ queue'["act"][1] = Started(req)
      BY <3>1, <3>4
    <3>. QED
      BY <1>6, <2>6, <3>5
  <2>. QED
    BY <2>5, <2>7, <2>8
<1>. QED
  BY <1>7, <1>8

LEMMA IssuePending ==
  ASSUME IInv, NEW n \in Queue, n # "act" => queue["act"] = <<>>,
         NEW i \in DOMAIN Waiting(n), NEW black, Issue(n, i, black)
  PROVE  /\ PendingTyped' /\ ReadsSeeWrites'
         /\ Count(pending', FromBanks)
              = Count(StillPending, FromBanks) + IF Cmd(n, i) = "RD" THEN 1 ELSE 0
<1> DEFINE req == Waiting(n)[i]
           cmd == Cmd(n, i)
           answer == [core |-> req.core, addr |-> req.addr, depart |-> read_latency,
                      forwarded |-> FALSE, behind |-> req.behind]
<1>1. pending' = IF cmd # "RD" THEN StillPending ELSE Append(StillPending, answer)
  BY DEF Issue, Cmd
<1>2. PendingTyped /\ ReadsSeeWrites
  BY DEF IInv
<1>3. /\ StillPending \in Seq(Reply)
      /\ \A k \in DOMAIN StillPending : StillPending[k].behind => StillPending[k].forwarded
  BY <1>2, StillPendingFacts
<1>4. Count(StillPending, FromBanks) \in Nat
  BY <1>3, CountType
<1>5. cmd = "RD" => req \in Access /\ ~req.behind
  <2>1. n = "other" => req.type = "REFRESH"
    BY RequestFacts DEF Kind, Refreshes
  <2>2. req.type = "REFRESH" => cmd \in {"PREA", "REF"}
    BY CommandFacts DEF Cmd
  <2>. QED
    BY <2>1, <2>2, RequestFacts
<1>. HIDE DEF req, cmd
<1>6. CASE cmd = "RD"
  <2>1. answer \in Reply
    <3>1. read_latency \in 0 .. read_latency
      BY ControllerAssumption
    <3>. QED
      BY <1>5, <1>6, <3>1 DEF Reply, Access
  <2>2. answer \in FromBanks /\ ~answer.behind
    BY <1>5, <1>6, <2>1 DEF FromBanks
  <2>3. pending' = Append(StillPending, answer)
    BY <1>1, <1>6
  <2>. HIDE DEF answer
  <2>4. /\ pending' \in Seq(Reply)
        /\ DOMAIN pending' = DOMAIN StillPending \cup {Len(StillPending) + 1}
        /\ \A k \in DOMAIN StillPending : pending'[k] = StillPending[k]
        /\ pending'[Len(StillPending) + 1] = answer
    BY <1>3, <2>1, <2>3, Appended
  <2>5. Count(pending', FromBanks) = Count(StillPending, FromBanks) + 1
    BY <1>3, <2>1, <2>2, <2>3, CountAppend
  <2>6. \A k \in DOMAIN pending' : pending'[k].behind => pending'[k].forwarded
    BY <1>3, <2>2, <2>4
  <2>. QED
    BY <1>6, <2>4, <2>5, <2>6 DEF PendingTyped, ReadsSeeWrites, Reply, cmd
<1>7. CASE cmd # "RD"
  BY <1>1, <1>3, <1>4, <1>7 DEF PendingTyped, ReadsSeeWrites, Reply, cmd
<1>. QED
  BY <1>6, <1>7

\* One of four: a command closes a row, opens one, reads or writes.
LEMMA IssueAccounts ==
  ASSUME IInv, NEW n \in Queue, n # "act" => queue["act"] = <<>>,
         NEW i \in DOMAIN Waiting(n), NEW black, Issue(n, i, black)
  PROVE  Accounts'
<1> DEFINE req == Waiting(n)[i]
           cmd == Cmd(n, i)
           C(q) == Count(q, BegunKind)
           first == IF req.is_first_command /\ ~IsRefresh(req) THEN 1 ELSE 0
           done == IF Completed /\ ~Head(pending).forwarded THEN 1 ELSE 0
<1>1. QueuesTyped /\ PendingTyped /\ Accounts
  BY DEF IInv
<1>2. /\ queue'["write"] = After("write", n, i)
      /\ queue'["act"] = IF is_opening(cmd) THEN Append(After("act", n, i), Started(req))
                         ELSE After("act", n, i)
      /\ queue'["read"] = [j \in DOMAIN After("read", n, i) |-> Served1(n, i, After("read", n, i)[j])]
  BY IssueQueues
<1>3. cur_serving_requests' = cur_serving_requests + first - (IF cmd = "WR" THEN 1 ELSE 0) - done
  BY DEF Issue, Counted, Cmd
<1>4. /\ Count(pending', FromBanks) = Count(StillPending, FromBanks) + IF cmd = "RD" THEN 1 ELSE 0
      /\ Count(StillPending, FromBanks) = Count(pending, FromBanks) - done
      /\ Count(pending, FromBanks) \in Nat
  BY <1>1, IssuePending, StillPendingFacts, CountType DEF PendingTyped
<1>5. \A m \in Queue : After(m, n, i) \in Seq(Kind[m])
  BY <1>1, WaitingFacts, RestFacts DEF After
<1>6. C(queue'["read"]) = C(After("read", n, i))
  <2> DEFINE q == After("read", n, i)
  <2>1. \A j \in DOMAIN q : q[j] \in Reads
    BY <1>5 DEF Kind, Queue
  <2>. HIDE DEF q
  <2>2. \A j \in DOMAIN q : Served1(n, i, q[j]) \in BegunKind <=> q[j] \in BegunKind
    BY <2>1 DEF Served1, Reads, Access, BegunKind
  <2>3. queue'["read"] = [j \in DOMAIN q |-> Served1(n, i, q[j])]
    BY <1>2 DEF q
  <2>. HIDE DEF Served1
  <2>4. DOMAIN queue'["read"] = DOMAIN q /\ \A j \in DOMAIN q : queue'["read"][j] \in BegunKind <=> q[j] \in BegunKind
    BY <2>2, <2>3
  <2>. QED
    BY <2>4, CountMapped DEF q
<1>7. C(queue'["act"]) = C(After("act", n, i)) + IF is_opening(cmd) THEN 1 ELSE 0
  <2>1. After("act", n, i) \in Seq(Opened)
    BY <1>5 DEF Kind, Queue
  <2>2. C(After("act", n, i)) \in Nat
    BY <2>1, CountType
  <2>3. CASE is_opening(cmd)
    <3>1. n # "other"
      <4>1. n = "other" => req.type = "REFRESH"
        BY RequestFacts DEF Kind, Refreshes
      <4>. QED
        BY <2>3, <4>1, CommandFacts DEF Cmd, is_opening
    <3>2. Started(req) \in Opened /\ Started(req) \in BegunKind
      BY <3>1, RequestFacts
    <3>. QED
      BY <1>2, <2>1, <2>3, <3>2, CountAppend
  <2>4. CASE ~is_opening(cmd)
    BY <1>2, <2>2, <2>4
  <2>. QED
    BY <2>3, <2>4
<1>8. \A m \in {"read", "write", "act"} : C(queue[m]) \in Nat
  BY <1>1, CountType DEF QueuesTyped, Queue
<1>9. \A m \in {"read", "write", "act"} \ {n} : C(After(m, n, i)) = C(queue[m])
  BY <1>1, WaitingFacts DEF After, Queue
<1>13. cur_serving_requests \in Nat /\ first \in Nat /\ done \in Nat
  BY <1>1, <1>4, <1>8 DEF Accounts
<1>10. CASE n = "other"
  <2>1. req.type = "REFRESH"
    BY <1>10, RequestFacts DEF Kind, Refreshes
  <2>2. cmd \in {"PREA", "REF"}
    BY <2>1, CommandFacts DEF Cmd
  <2>3. first = 0 /\ cmd # "WR" /\ cmd # "RD" /\ ~is_opening(cmd)
    BY <2>1, <2>2 DEF IsRefresh, is_opening
  <2>. HIDE DEF first, done, cmd, C
  <2>4. cur_serving_requests' = cur_serving_requests - done
    BY <1>3, <1>13, <2>3
  <2>5. Count(pending', FromBanks) = Count(pending, FromBanks) - done
    BY <1>4, <1>13, <2>3
  <2>6. /\ C(queue'["read"]) = C(queue["read"]) /\ C(queue'["write"]) = C(queue["write"])
        /\ C(queue'["act"]) = C(queue["act"])
    BY <1>2, <1>6, <1>7, <1>8, <1>9, <1>10, <2>3
  <2>. QED
    BY <1>1, <1>8, <1>4, <2>4, <2>5, <2>6 DEF Accounts, C, done
<1>11. CASE n # "other"
  <2>1. C(After(n, n, i)) = C(queue[n]) + (IF req.is_first_command THEN 1 ELSE 0) - (IF is_closing(cmd) THEN 0 ELSE 1)
    BY <1>11, RestFacts DEF After
  <2>2. req.type \in {"READ", "WRITE"}
    BY <1>11, RequestFacts DEF Access
  <2>3. first = IF req.is_first_command THEN 1 ELSE 0
    BY <2>2 DEF IsRefresh
  <2>4. cmd \in {"ACT", "PRE", "RD", "WR"}
    BY <2>2, CommandFacts DEF Cmd
  <2> DEFINE a == IF is_closing(cmd) THEN 0 ELSE 1
             o == IF is_opening(cmd) THEN 1 ELSE 0
             r == IF cmd = "RD" THEN 1 ELSE 0
             w == IF cmd = "WR" THEN 1 ELSE 0
  <2>5. a \in Nat /\ o \in Nat /\ r \in Nat /\ w \in Nat /\ a = o + r + w
    BY <2>4 DEF is_opening, is_closing
  <2>7. /\ C(queue'["read"]) = C(After("read", n, i)) /\ C(queue'["write"]) = C(After("write", n, i))
        /\ C(queue'["act"]) = C(After("act", n, i)) + o
        /\ Count(pending', FromBanks) = Count(pending, FromBanks) - done + r
        /\ cur_serving_requests' = cur_serving_requests + first - w - done
        /\ C(After(n, n, i)) = C(queue[n]) + first - a
    BY <1>2, <1>3, <1>4, <1>6, <1>7, <1>8, <2>1, <2>3
  <2>8. n \in {"read", "write", "act"}
    BY <1>11 DEF Queue
  <2>9. cur_serving_requests = C(queue["read"]) + C(queue["write"]) + C(queue["act"]) + Count(pending, FromBanks)
    BY <1>1 DEF Accounts
  <2>. HIDE DEF first, done, cmd, C, a, o, r, w
  <2>10. \A m \in {"read", "write", "act"} : C(After(m, n, i)) \in Int
    BY <1>8, <1>9, <1>13, <2>5, <2>7, <2>8
  <2>11. C(After("read", n, i)) + C(After("write", n, i)) + C(After("act", n, i))
           = C(queue["read"]) + C(queue["write"]) + C(queue["act"]) + first - a
    <3> DEFINE x == C(queue["read"])
               y == C(queue["write"])
               z == C(queue["act"])
               X == C(After("read", n, i))
               Y == C(After("write", n, i))
               Z == C(After("act", n, i))
    <3>1. x \in Int /\ y \in Int /\ z \in Int /\ a \in Int
      BY <1>8, <2>5
    <3>2. \/ X = x + first - a /\ Y = y /\ Z = z
          \/ X = x /\ Y = y + first - a /\ Z = z
          \/ X = x /\ Y = y /\ Z = z + first - a
      <4>1. CASE n = "read"
        BY <1>9, <2>7, <4>1
      <4>2. CASE n = "write"
        BY <1>9, <2>7, <4>2
      <4>3. CASE n = "act"
        BY <1>9, <2>7, <4>3
      <4>. QED
        BY <2>8, <4>1, <4>2, <4>3
    <3>. HIDE DEF x, y, z, X, Y, Z
    <3>3. X + Y + Z = x + y + z + first - a
      BY <1>13, <3>1, <3>2
    <3>. QED
      BY <3>3 DEF x, y, z, X, Y, Z
  <2>12. cur_serving_requests' =
           C(queue'["read"]) + C(queue'["write"]) + C(queue'["act"]) + Count(pending', FromBanks)
    <3>1. \A x, y, z, e \in Int : x + y + (z + e) = (x + y + z) + e
      OBVIOUS
    <3> DEFINE v == C(queue["read"]) + C(queue["write"]) + C(queue["act"])
               t == C(After("read", n, i)) + C(After("write", n, i)) + C(After("act", n, i))
               p == Count(pending, FromBanks)
    <3>2. v \in Int /\ t \in Int /\ p \in Int
      BY <1>4, <1>8, <2>10
    <3>3. cur_serving_requests = v + p /\ t = v + first - (o + r + w)
      BY <2>5, <2>9, <2>11
    <3>4. C(queue'["read"]) + C(queue'["write"]) + C(queue'["act"]) = t + o
      <4> DEFINE x == C(After("read", n, i))
                 y == C(After("write", n, i))
                 z == C(After("act", n, i))
      <4>1. x \in Int /\ y \in Int /\ z \in Int /\ o \in Int /\ t = x + y + z
        BY <2>5, <2>10
      <4>2. C(queue'["read"]) = x /\ C(queue'["write"]) = y /\ C(queue'["act"]) = z + o
        BY <2>7
      <4>. HIDE DEF x, y, z, t
      <4>. QED
        BY <3>1, <4>1, <4>2
    <3>. HIDE DEF v, t, p
    <3>5. cur_serving_requests + first - w - done = (t + o) + (p - done + r)
      BY <1>13, <2>5, <3>2, <3>3
    <3>. QED
      BY <2>7, <3>4, <3>5 DEF p
  <2>. QED
    BY <2>12 DEF Accounts, C, BegunKind, FromBanks, Access, Reply
<1>. QED
  BY <1>10, <1>11

\* The row table and the tree follow the same command.
LEMMA IssueTables ==
  ASSUME IInv, NEW n \in Queue, n # "act" => queue["act"] = <<>>,
         NEW i \in DOMAIN Waiting(n), NEW black, Issue(n, i, black)
  PROVE  TablesTyped' /\ RowTableAgrees'
<1> DEFINE req == Waiting(n)[i]
           cmd == get_first_cmd(req)
<1>1. TablesTyped /\ RowTableAgrees
  BY DEF IInv
<1>2. update_state(cmd, BankOf(req), RowOf(req)) /\ UpdateRowTable(cmd, req)
  BY DEF Issue
<1>3. CASE n = "other"
  <2>1. req.type = "REFRESH"
    BY <1>3, RequestFacts DEF Kind, Refreshes
  <2>2. cmd \in {"PREA", "REF"}
    BY <2>1, CommandFacts
  <2>. HIDE DEF req, cmd
  <2>3. /\ open' = [b \in Bank |-> IF cmd = "PREA" THEN Closed ELSE open[b]]
        /\ rowtable' = [b \in Bank |-> IF cmd = "PREA" THEN [row |-> Closed, hits |-> 0] ELSE rowtable[b]]
    BY <1>2, <2>2 DEF update_state, UpdateRowTable, Entries, Target, OfRank,
                      is_opening, is_closing, is_accessing
  <2>. QED
    BY <1>1, <2>3 DEF TablesTyped, RowTableAgrees
<1>4. CASE n # "other"
  <2> DEFINE b == BankOf(req)
             r == RowOf(req)
  <2>1. req \in Access
    BY <1>4, RequestFacts
  <2>2. /\ req.type \in {"READ", "WRITE"} /\ r \in Row
        /\ cmd = DecodeAccess(IF req.type = "READ" THEN "RD" ELSE "WR", b, r)
    BY <2>1, ControllerAssumption DEF Access, IsRefresh, RowOf, get_first_cmd
  <2>3. cmd \in {"ACT", "PRE", "RD", "WR"} /\ (cmd = "ACT" => open[b] = Closed)
    BY <2>2 DEF DecodeAccess
  <2>. HIDE DEF req, cmd, b, r
  <2>4. open' = [c \in Bank |-> IF c # b THEN open[c] ELSE IF cmd = "ACT" THEN r
                                ELSE IF cmd = "PRE" THEN Closed ELSE open[c]]
    BY <1>2, <2>3 DEF update_state, Target, OfRank, is_opening, is_closing, b, r
  <2>5. rowtable' = [c \in Bank |->
          IF c # b THEN rowtable[c]
          ELSE IF cmd = "ACT" /\ rowtable[c].row = Closed THEN [row |-> r, hits |-> 0]
          ELSE IF cmd \in {"RD", "WR"} THEN [rowtable[c] EXCEPT !.hits = IF @ > cap THEN @ ELSE @ + 1]
          ELSE IF cmd = "PRE" THEN [row |-> Closed, hits |-> 0] ELSE rowtable[c]]
    BY <1>2, <2>3 DEF UpdateRowTable, Entries, Target, OfRank, is_opening, is_closing, is_accessing, b, r
  <2>6. TablesTyped'
    BY <1>1, <2>2, <2>4, <2>5 DEF TablesTyped
  <2>7. ASSUME NEW c \in Bank PROVE rowtable'[c].row = open'[c]
    <3>1. rowtable[c].row = open[c] /\ rowtable[c] \in [row : Row \cup {Closed}, hits : Nat]
      BY <1>1 DEF TablesTyped, RowTableAgrees
    <3>2. CASE cmd = "ACT"
      BY <2>3, <2>4, <2>5, <3>1, <3>2
    <3>3. CASE cmd = "PRE"
      BY <2>4, <2>5, <3>1, <3>3
    <3>4. CASE cmd \in {"RD", "WR"}
      BY <2>4, <2>5, <3>1, <3>4
    <3>. QED
      BY <2>3, <3>2, <3>3, <3>4
  <2>. QED
    BY <2>6, <2>7 DEF RowTableAgrees
<1>. QED
  BY <1>3, <1>4

-----------------------------------------------------------------------------
(* The actions.                                                            *)

LEMMA IssueIInv ==
  ASSUME IInv, NEW n \in Queue, n # "act" => queue["act"] = <<>>,
         NEW i \in DOMAIN Waiting(n), NEW black, Issue(n, i, black)
  PROVE  IInv'
  BY IssueTyped, IssueWriteAhead, IssuePending, IssueAccounts, IssueTables DEF IInv

LEMMA NoCommandIInv ==
  ASSUME IInv, NEW black, NoCommand(black)
  PROVE  IInv'
<1>1. QueuesTyped /\ PendingTyped /\ WriteAhead /\ Accounts /\ TablesTyped /\ RowTableAgrees
  BY DEF IInv
<1>2. /\ queue' = [queue EXCEPT !["other"] = Waiting("other")]
      /\ pending' = StillPending
      /\ cur_serving_requests' = cur_serving_requests - IF Completed /\ ~Head(pending).forwarded THEN 1 ELSE 0
      /\ rowtable' = rowtable /\ open' = open
  <2>1. Accounts => cur_serving_requests \in Int
    <3>1. \A m \in {"read", "write", "act"} : Count(queue[m], BegunKind) \in Nat
      BY <1>1, CountType DEF QueuesTyped, Queue
    <3>2. Count(pending, FromBanks) \in Nat
      BY <1>1, CountType DEF PendingTyped
    <3>. QED
      BY <3>1, <3>2 DEF Accounts
  <2>. QED
    BY <1>1, <2>1 DEF NoCommand, Counted, Elapse
<1>3. /\ DOMAIN queue' = Queue /\ queue' = [m \in Queue |-> queue'[m]]
      /\ \A m \in {"read", "write", "act"} : queue'[m] = queue[m]
      /\ queue'["other"] = Waiting("other")
  BY <1>1, <1>2 DEF QueuesTyped, Queue
<1>4. QueuesTyped'
  <2>1. \A m \in Queue : queue'[m] \in Seq(Kind[m])
    BY <1>1, <1>3, WaitingFacts DEF QueuesTyped, Queue
  <2>. QED
    BY <1>1, <1>3, <2>1 DEF QueuesTyped, Kind, Reads, Writes, Opened, Refreshes, Access
<1>5. PendingTyped' /\ ReadsSeeWrites'
  BY <1>1, <1>2, StillPendingFacts DEF PendingTyped, ReadsSeeWrites, IInv, Reply
<1>6. WriteAhead'
  BY <1>1, <1>3 DEF WriteAhead
<1>7. Accounts'
  <2> DEFINE c(m) == Count(queue[m], BegunKind)
             p == Count(pending, FromBanks)
             d == IF Completed /\ ~Head(pending).forwarded THEN 1 ELSE 0
  <2>1. c("read") \in Nat /\ c("write") \in Nat /\ c("act") \in Nat /\ p \in Nat /\ d \in Nat
    BY <1>1, CountType DEF QueuesTyped, PendingTyped, Queue
  <2>2. Count(pending', FromBanks) = p - d
    BY <1>1, <1>2, StillPendingFacts
  <2>3. cur_serving_requests = c("read") + c("write") + c("act") + p
    BY <1>1 DEF Accounts
  <2>4. cur_serving_requests' = cur_serving_requests - d
    BY <1>2
  <2>5. \A m \in {"read", "write", "act"} : Count(queue'[m], BegunKind) = c(m)
    BY <1>3
  <2>. HIDE DEF c, p, d
  <2>6. cur_serving_requests' = c("read") + c("write") + c("act") + (p - d)
    BY <2>1, <2>3, <2>4
  <2>. QED
    BY <2>2, <2>5, <2>6 DEF Accounts, BegunKind, FromBanks, Access, Reply
<1>8. TablesTyped' /\ RowTableAgrees'
  BY <1>1, <1>2 DEF TablesTyped, RowTableAgrees
<1>. QED
  BY <1>4, <1>5, <1>6, <1>7, <1>8 DEF IInv

LEMMA TickIInv ==
  ASSUME IInv, Tick
  PROVE  IInv'
<1>1. PICK ranks \in (IF policy = "ATLAS" THEN Ranks ELSE {rank}), clears \in BOOLEAN :
        LET n == Chosen
            black == IF clears THEN {} ELSE blacklisted
            ready == {i \in get_head(Waiting(n), ranks, black) : is_ready(Waiting(n)[i])}
        IN IF ready # {} THEN \E i \in ready : Issue(n, i, black) ELSE NoCommand(black)
  BY DEF Tick
<1> DEFINE n == Chosen
           black == IF clears THEN {} ELSE blacklisted
           ready == {i \in get_head(Waiting(n), ranks, black) : is_ready(Waiting(n)[i])}
<1>2. ready \subseteq DOMAIN Waiting(n)
  BY DEF get_head
<1>3. (\E i \in ready : Issue(n, i, black)) \/ NoCommand(black)
  BY <1>1
<1>4. n \in Queue /\ (n # "act" => queue["act"] = <<>>)
  BY ChosenFacts
<1>. HIDE DEF n, black, ready
<1>. QED
  BY <1>2, <1>3, <1>4, IssueIInv, NoCommandIInv

LEMMA PassThresholdIInv ==
  ASSUME IInv, PassThreshold
  PROVE  IInv'
<1>1. PICK i \in DOMAIN queue["read"] : queue' = [queue EXCEPT !["read"] = Aged(@, i)]
  BY DEF PassThreshold
<1>2. /\ pending' = pending /\ rowtable' = rowtable /\ open' = open
      /\ cur_serving_requests' = cur_serving_requests
  BY DEF PassThreshold
<1>3. /\ QueuesTyped /\ PendingTyped /\ WriteAhead /\ ReadsSeeWrites /\ Accounts
      /\ TablesTyped /\ RowTableAgrees
  BY DEF IInv
<1> DEFINE q == queue["read"]
           t == queue'["read"]
<1>4. /\ DOMAIN queue' = Queue /\ queue' = [m \in Queue |-> queue'[m]]
      /\ \A m \in Queue \ {"read"} : queue'[m] = queue[m]
      /\ t = Aged(q, i)
  BY <1>1, <1>3 DEF QueuesTyped, Queue
<1>5. q \in Seq(Reads)
  BY <1>3, QueueTypes
<1>. HIDE DEF q, t
<1>6. t = [j \in DOMAIN q |-> t[j]] /\ \A j \in DOMAIN q : t[j] = [q[j] EXCEPT !.over = @ \/ j <= i]
  BY <1>4 DEF Aged
<1>7. ASSUME NEW j \in DOMAIN q
      PROVE  /\ t[j] \in Reads /\ t[j].behind = q[j].behind /\ t[j].addr = q[j].addr
             /\ t[j] \in BegunKind <=> q[j] \in BegunKind
  <2>1. q[j] \in Reads
    BY <1>5
  <2>2. t[j] = [q[j] EXCEPT !.over = q[j].over \/ j <= i]
    BY <1>6
  <2>3. (q[j].over \/ j <= i) \in BOOLEAN
    OBVIOUS
  <2>. QED
    BY <2>1, <2>2, <2>3 DEF Reads, Access, BegunKind
<1>8. t \in Seq(Reads) /\ DOMAIN t = DOMAIN q
  BY <1>5, <1>6, <1>7, MappedFacts
<1>9. Count(t, BegunKind) = Count(q, BegunKind)
  BY <1>7, <1>8, CountMapped
<1>10. QueuesTyped'
  <2>1. \A m \in Queue : queue'[m] \in Seq(Kind[m])
    BY <1>3, <1>4, <1>8 DEF QueuesTyped, Queue, Kind, t
  <2>2. Len(queue'["act"]) <= 1
    BY <1>3, <1>4 DEF QueuesTyped, Queue
  <2>. QED
    BY <1>4, <2>1, <2>2 DEF QueuesTyped, Kind, Reads, Writes, Opened, Refreshes, Access
<1>11. WriteAhead'
  BY <1>3, <1>4, <1>7, <1>8 DEF WriteAhead, Queue, q, t
<1>12. Accounts'
  BY <1>2, <1>3, <1>4, <1>9 DEF Accounts, Queue, q, t, BegunKind, FromBanks, Access, Reply
<1>13. PendingTyped' /\ ReadsSeeWrites' /\ TablesTyped' /\ RowTableAgrees'
  BY <1>2, <1>3 DEF PendingTyped, ReadsSeeWrites, TablesTyped, RowTableAgrees, Reply
<1>. QED
  BY <1>10, <1>11, <1>12, <1>13 DEF IInv

LEMMA EnqueueIInv ==
  ASSUME IInv, NEW w \in Workload, Enqueue(w.core, w.type, w.addr)
  PROVE  IInv'
<1> DEFINE n == IF w.type = "READ" THEN "read" ELSE "write"
           behind == w.type = "READ" /\ WritesTo(w.addr, "write") \cup WritesTo(w.addr, "act") # {}
           reply == [core |-> w.core, addr |-> w.addr, depart |-> 1, forwarded |-> TRUE, behind |-> behind]
           req == [type |-> w.type, core |-> w.core, addr |-> w.addr, is_first_command |-> TRUE,
                   over |-> FALSE, behind |-> behind]
           forwarded == w.type = "READ" /\ Forwards(w.addr)
<1>1. /\ QueuesTyped /\ PendingTyped /\ WriteAhead /\ ReadsSeeWrites /\ Accounts
      /\ TablesTyped /\ RowTableAgrees
  BY DEF IInv
<1>2. w.type \in {"READ", "WRITE"} /\ w.core \in Core /\ w.addr \in Addr
  BY ControllerAssumption
<1>3. behind \in BOOLEAN
  OBVIOUS
<1>4. /\ IF forwarded THEN pending' = Append(pending, reply) /\ queue' = queue
         ELSE queue' = [queue EXCEPT ![n] = Append(@, req)] /\ pending' = pending
      /\ rowtable' = rowtable /\ open' = open /\ cur_serving_requests' = cur_serving_requests
  BY DEF Enqueue
<1>5. TablesTyped' /\ RowTableAgrees'
  BY <1>1, <1>4 DEF TablesTyped, RowTableAgrees
<1>6. \A m \in {"read", "write", "act"} : Count(queue[m], BegunKind) \in Nat
  BY <1>1, CountType DEF QueuesTyped, Queue
<1>7. Count(pending, FromBanks) \in Nat
  BY <1>1, CountType DEF PendingTyped
<1>8. CASE forwarded
  <2>. HIDE DEF behind
  <2>1. reply \in Reply /\ reply.forwarded
    <3>1. 1 \in 0 .. read_latency
      BY ControllerAssumption
    <3>. QED
      BY <1>2, <1>3, <3>1 DEF Reply
  <2>2. pending' = Append(pending, reply) /\ queue' = queue
    BY <1>4, <1>8
  <2>3. reply \notin FromBanks
    BY <2>1 DEF FromBanks
  <2>. HIDE DEF reply
  <2>4. /\ pending' \in Seq(Reply)
        /\ DOMAIN pending' = DOMAIN pending \cup {Len(pending) + 1}
        /\ \A k \in DOMAIN pending : pending'[k] = pending[k]
        /\ pending'[Len(pending) + 1] = reply
    BY <1>1, <2>1, <2>2, Appended DEF PendingTyped
  <2>5. Count(pending', FromBanks) = Count(pending, FromBanks)
    BY <1>1, <1>7, <2>1, <2>2, <2>3, CountAppend DEF PendingTyped
  <2>6. PendingTyped' /\ ReadsSeeWrites'
    BY <1>1, <2>1, <2>4 DEF PendingTyped, ReadsSeeWrites, Reply
  <2>7. QueuesTyped' /\ WriteAhead'
    BY <1>1, <2>2 DEF QueuesTyped, WriteAhead, Kind, Reads, Writes, Opened, Refreshes, Access
  <2>8. Accounts'
    BY <1>1, <1>4, <2>2, <2>5 DEF Accounts, BegunKind, FromBanks, Access, Reply
  <2>. QED
    BY <1>5, <2>6, <2>7, <2>8 DEF IInv
<1>9. CASE ~forwarded
  <2>1. queue' = [queue EXCEPT ![n] = Append(@, req)] /\ pending' = pending
    BY <1>4, <1>9
  <2>2. n \in {"read", "write"} /\ n \in Queue
    BY DEF Queue
  <2>3. req \in Kind[n]
    <3>1. w.type = "WRITE" => ~behind
      OBVIOUS
    <3>. HIDE DEF behind
    <3>. QED
      BY <1>2, <1>3, <3>1 DEF Kind, Queue, Reads, Writes, Access
  <2>4. behind => /\ 1 \in DOMAIN queue["act"]
                  /\ queue["act"][1].type = "WRITE" /\ queue["act"][1].addr = w.addr
    <3>. SUFFICES ASSUME behind
                  PROVE  /\ 1 \in DOMAIN queue["act"]
                         /\ queue["act"][1].type = "WRITE" /\ queue["act"][1].addr = w.addr
      OBVIOUS
    <3>1. WritesTo(w.addr, "act") # {}
      BY <1>9 DEF Forwards
    <3>2. PICK k \in DOMAIN queue["act"] : queue["act"][k].type = "WRITE" /\ queue["act"][k].addr = w.addr
      BY <3>1 DEF WritesTo
    <3>3. queue["act"] \in Seq(Opened) /\ Len(queue["act"]) <= 1
      BY <1>1, QueueTypes DEF QueuesTyped
    <3>4. Len(queue["act"]) \in Nat /\ DOMAIN queue["act"] = 1 .. Len(queue["act"])
      BY <3>3
    <3>5. \A l \in Nat : k \in 1 .. l /\ l <= 1 => k = 1
      OBVIOUS
    <3>6. k = 1
      BY <3>3, <3>4, <3>5
    <3>. QED
      BY <3>2, <3>6
  <2> DEFINE q == queue[n]
             t == queue'[n]
  <2>5. q \in Seq(Kind[n])
    BY <1>1, <2>2 DEF QueuesTyped
  <2>6. /\ DOMAIN queue' = Queue /\ queue' = [m \in Queue |-> queue'[m]]
        /\ \A m \in Queue \ {n} : queue'[m] = queue[m]
        /\ t = Append(q, req)
    BY <1>1, <2>1, <2>2 DEF QueuesTyped
  <2>7. req.addr = w.addr /\ req.behind = behind /\ req.is_first_command /\ req \notin BegunKind
    BY DEF BegunKind
  <2>. HIDE DEF q, t, req, behind, n
  <2>8. /\ t \in Seq(Kind[n])
        /\ DOMAIN t = DOMAIN q \cup {Len(q) + 1}
        /\ \A k \in DOMAIN q : t[k] = q[k]
        /\ t[Len(q) + 1] = req
    BY <2>3, <2>5, <2>6, Appended
  <2>9. Count(t, BegunKind) = Count(q, BegunKind)
    <3>1. Count(q, BegunKind) \in Nat
      BY <2>5, CountType
    <3>. QED
      BY <2>3, <2>5, <2>6, <2>7, <3>1, CountAppend
  <2>10. QueuesTyped'
    <3>1. \A m \in Queue : queue'[m] \in Seq(Kind[m])
      BY <1>1, <2>6, <2>8 DEF QueuesTyped, t
    <3>2. Len(queue'["act"]) <= 1
      BY <1>1, <2>2, <2>6 DEF QueuesTyped, Queue
    <3>. QED
      BY <2>6, <3>1, <3>2 DEF QueuesTyped, Kind, Reads, Writes, Opened, Refreshes, Access
  <2>11. queue'["act"] = queue["act"]
    BY <2>2, <2>6 DEF Queue
  <2>12. WriteAhead'
    <3>1. CASE n = "read"
      <4>. SUFFICES ASSUME NEW k \in DOMAIN t, t[k].behind
                    PROVE  /\ 1 \in DOMAIN queue["act"]
                           /\ queue["act"][1].type = "WRITE" /\ queue["act"][1].addr = t[k].addr
        BY <2>11, <3>1 DEF WriteAhead, t
      <4>1. CASE k \in DOMAIN q
        BY <1>1, <2>8, <3>1, <4>1 DEF WriteAhead, q
      <4>2. CASE k = Len(q) + 1
        BY <2>4, <2>7, <2>8, <4>2
      <4>. QED
        BY <2>8, <4>1, <4>2
    <3>2. CASE n = "write"
      BY <1>1, <2>6, <2>11, <3>2 DEF WriteAhead, Queue
    <3>. QED
      BY <2>2, <3>1, <3>2
  <2>13. Accounts'
    <3>1. \A m \in {"read", "write", "act"} : Count(queue'[m], BegunKind) = Count(queue[m], BegunKind)
      BY <2>6, <2>9 DEF Queue, q, t
    <3>. QED
      BY <1>1, <1>4, <2>1, <3>1 DEF Accounts, BegunKind, FromBanks, Access, Reply
  <2>14. PendingTyped' /\ ReadsSeeWrites'
    BY <1>1, <2>1 DEF PendingTyped, ReadsSeeWrites, Reply
  <2>. QED
    BY <1>5, <2>10, <2>12, <2>13, <2>14 DEF IInv
<1>. QED
  BY <1>8, <1>9

LEMMA NextIInv == IInv /\ [Next]_vars => IInv'
<1>. SUFFICES ASSUME IInv, [Next]_vars PROVE IInv'
  OBVIOUS
<1>1. CASE \E w \in Workload : Enqueue(w.core, w.type, w.addr)
  BY <1>1, EnqueueIInv
<1>2. CASE Tick
  BY <1>2, TickIInv
<1>3. CASE PassThreshold
  BY <1>3, PassThresholdIInv
<1>4. CASE UNCHANGED vars
  BY <1>4 DEF vars, IInv, QueuesTyped, PendingTyped, TablesTyped, WriteAhead, ReadsSeeWrites,
              RowTableAgrees, Accounts, Kind, Reads, Writes, Opened, Refreshes, Access, Reply,
              BegunKind, FromBanks
<1>. QED
  BY <1>1, <1>2, <1>3, <1>4 DEF Next

\* Row table and tree agree on the open row of every bank: the assertions of
\* RowTable::update hold for any timing, workload and policy.
THEOREM RowTableAlwaysAgrees == Spec => []RowTableAgrees
<1>1. IInv => RowTableAgrees
  BY DEF IInv
<1>. QED
  BY InitIInv, NextIInv, <1>1, PTL DEF Spec

\* The count of requests in service is exact, so the assertion that it never falls
\* below zero holds.
THEOREM ServingAlwaysExact == Spec => []ServingExact
<1>1. IInv => ServingExact
  BY AccountsAreExact DEF IInv
<1>. QED
  BY InitIInv, NextIInv, <1>1, PTL DEF Spec

\* The shortcut for reads is enough for coherence: a read never gets its data from
\* a bank before a write to its address that it arrived behind.
THEOREM ReadsAlwaysSeeWrites == Spec => []ReadsSeeWrites
<1>1. IInv => ReadsSeeWrites
  BY DEF IInv
<1>. QED
  BY InitIInv, NextIInv, <1>1, PTL DEF Spec
-----------------------------------------------------------------------------
(* Refreshes keep up.  A refresh waits for the command of the request that *)
(* opened a row, for closing the rows and for its own; no other command is *)
(* issued in the meantime, so that each takes the longest delay at most.   *)

\* A third of the refresh interval: no delay is longer.
Third == nREFI \div 3

DelaysBounded == next \in [Node -> [Command -> 0 .. Third]]

\* The row that a request in the act queue has opened stays open.
ActOpen == queue["act"] # <<>> => get_first_cmd(queue["act"][1]) \in {"RD", "WR"}

\* A command for bank b is accepted after k cycles at most.
Within(cmd, b, k) == \A n \in Path(cmd, b) : next[n][cmd] <= k

\* The command that comes next on the way to the refresh is accepted after k
\* cycles, and if s cycles have passed then there are enough left for the others.
OnTime(s, k) ==
  IF queue["act"] # <<>>
    THEN /\ Within(get_first_cmd(queue["act"][1]), BankOf(queue["act"][1]), k)
         /\ s + k + 2 * Third < nREFI
    ELSE /\ Within(DecodeRefresh, BankOf(RefreshRequest), k)
         /\ s + k + (IF DecodeRefresh = "PREA" THEN Third ELSE 0) < nREFI

RefreshInv ==
  /\ DelaysBounded /\ ActOpen /\ policy \in Policy
  /\ since_refresh \in 0 .. nREFI - 1
  /\ RefreshesKeepUp
  /\ queue["other"] # <<>> => \E k \in 1 .. Third : OnTime(since_refresh, k)

LEMMA ThirdFacts ==
  /\ nREFI \in Nat /\ Third \in Nat /\ 1 <= Third /\ 3 * Third <= nREFI
  /\ \A t \in timing : t.val \in 0 .. Third
<1>1. nREFI \in Nat /\ nREFI >= 3
  BY ControllerAssumption, RefreshAssumption
<1>2. Third \in Nat /\ 1 <= Third /\ 3 * Third <= nREFI
  BY <1>1 DEF Third
<1>3. ASSUME NEW t \in timing PROVE t.val \in 0 .. Third
  <2>1. t.val \in Nat /\ 3 * t.val <= nREFI
    BY ChannelAssumption, RefreshAssumption
  <2>. QED
    BY <1>1, <2>1 DEF Third
<1>. QED
  BY <1>1, <1>2, <1>3

\* A nonempty set of numbers up to n has a greatest one.
LEMMA Greatest ==
  ASSUME NEW n \in Nat, NEW T, T \subseteq 0 .. n, T # {}
  PROVE  \E x \in T : \A y \in T : y <= x
<1>. DEFINE U == {n - x : x \in T}
<1>1. U \subseteq Nat /\ U # {}
  OBVIOUS
<1>2. PICK u \in U : \A v \in U : u <= v
  <2>. HIDE DEF U
  <2>. QED
    BY <1>1, Least
<1>3. PICK x \in T : u = n - x
  OBVIOUS
<1>4. ASSUME NEW y \in T PROVE y <= x
  <2>1. n - y \in U
    OBVIOUS
  <2>2. n - x <= n - y
    BY <1>2, <1>3, <2>1
  <2>. QED
    BY <2>2
<1>. QED
  BY <1>4

LEMMA LeftFacts ==
  ASSUME DelaysBounded, NEW n \in Node, NEW c \in Command
  PROVE  /\ next[n][c] \in 0 .. Third /\ Left(n, c) \in 0 .. Third
         /\ Left(n, c) = IF next[n][c] = 0 THEN 0 ELSE next[n][c] - 1
<1>1. next[n][c] \in 0 .. Third
  BY DEF DelaysBounded
<1>. QED
  BY <1>1, ThirdFacts DEF Left

\* A command delays others by no more than the longest delay.
LEMMA TimingBounded ==
  ASSUME DelaysBounded, NEW cmd \in Command, NEW b, update_timing(cmd, b)
  PROVE  DelaysBounded'
<1>. DEFINE S(n, c) == Delay(n, cmd, c) \cup {Left(n, c)}
            most(n, c) == CHOOSE d \in S(n, c) : \A e \in S(n, c) : e <= d
<1>1. ASSUME NEW n \in Node, NEW c \in Command PROVE most(n, c) \in 0 .. Third
  <2>1. S(n, c) \subseteq 0 .. Third /\ S(n, c) # {}
    BY LeftFacts, ThirdFacts DEF Delay
  <2>. HIDE DEF S
  <2>2. \E d \in S(n, c) : \A e \in S(n, c) : e <= d
    BY <2>1, ThirdFacts, Greatest
  <2>. QED
    BY <2>1, <2>2
<1>2. next' = [n \in Node |-> [c \in Command |-> IF n \notin Path(cmd, b) THEN Left(n, c) ELSE most(n, c)]]
  BY DEF update_timing
<1>. HIDE DEF most
<1>3. \A n \in Node, c \in Command :
        (IF n \notin Path(cmd, b) THEN Left(n, c) ELSE most(n, c)) \in 0 .. Third
  BY <1>1, LeftFacts
<1>. QED
  BY <1>2, <1>3 DEF DelaysBounded

LEMMA ElapseBounded ==
  ASSUME DelaysBounded, Elapse
  PROVE  DelaysBounded'
<1>1. \A n \in Node, c \in Command : Left(n, c) \in 0 .. Third
  BY LeftFacts
<1>. QED
  BY <1>1 DEF Elapse, DelaysBounded

\* The request in the act queue, and a refresh, and the nodes their commands pass.
LEMMA AheadFacts ==
  ASSUME QueuesTyped, ActOpen
  PROVE  /\ queue["act"] # <<>> =>
              /\ queue["act"][1] \in Access /\ Len(queue["act"]) = 1
              /\ get_first_cmd(queue["act"][1]) \in Command \cap {"RD", "WR"}
              /\ Path(get_first_cmd(queue["act"][1]), BankOf(queue["act"][1])) \subseteq Node
         /\ DecodeRefresh \in Command \cap {"PREA", "REF"}
         /\ \A b : Path(DecodeRefresh, b) = {"Channel", "Rank"}
         /\ {"Channel", "Rank"} \subseteq Node
<1>1. ASSUME queue["act"] # <<>>
      PROVE  queue["act"][1] \in Access /\ Len(queue["act"]) = 1 /\ 1 \in DOMAIN queue["act"]
  <2>1. queue["act"] \in Seq(Opened) /\ Len(queue["act"]) <= 1
    BY QueueTypes DEF QueuesTyped
  <2>2. Len(queue["act"]) \in Nat \ {0} /\ DOMAIN queue["act"] = 1 .. Len(queue["act"])
    BY <1>1, <2>1, EmptySeq
  <2>3. Len(queue["act"]) = 1
    <3>1. \A k \in Nat \ {0} : k <= 1 => k = 1
      OBVIOUS
    <3>. QED
      BY <2>1, <2>2, <3>1
  <2>4. queue["act"][1] \in Opened
    BY <2>1, <2>2, <2>3
  <2>. QED
    BY <2>2, <2>3, <2>4 DEF Opened
<1>2. ASSUME queue["act"] # <<>> PROVE BankOf(queue["act"][1]) \in Bank
  <2>1. queue["act"][1].type # "REFRESH" /\ queue["act"][1].addr \in Addr
    BY <1>1, <1>2 DEF Access
  <2>. QED
    BY <2>1, ControllerAssumption DEF BankOf, IsRefresh
<1>3. DecodeRefresh \in Command \cap {"PREA", "REF"}
  BY DEF DecodeRefresh, Command
<1>. QED
  BY <1>1, <1>2, <1>3 DEF ActOpen, Path, Node, Command, OfRank

\* Any command on the way is accepted after the longest delay.
LEMMA AlwaysWithin ==
  ASSUME QueuesTyped, ActOpen, DelaysBounded
  PROVE  /\ queue["act"] # <<>> =>
              Within(get_first_cmd(queue["act"][1]), BankOf(queue["act"][1]), Third)
         /\ \A b : Within(DecodeRefresh, b, Third)
<1>1. \A n \in Node, c \in Command : next[n][c] <= Third
  BY LeftFacts, ThirdFacts
<1>. QED
  BY <1>1, AheadFacts DEF Within

\* The cycles since the last refresh, before this one.
Before == IF RefreshDue THEN -1 ELSE since_refresh

\* With a refresh that is due now, there is one at most, and it is on time.
LEMMA DueFacts ==
  ASSUME QueuesTyped, RefreshInv
  PROVE  /\ Clock => since_refresh' = Before + 1 /\ since_refresh' \in 0 .. nREFI - 1
         /\ Before \in Int
         /\ Waiting("other") # <<>> =>
              Len(Waiting("other")) = 1 /\ \E k \in 1 .. Third : OnTime(Before, k)
<1>1. DelaysBounded /\ ActOpen /\ since_refresh \in 0 .. nREFI - 1 /\ nREFI \in Nat
  BY ThirdFacts DEF RefreshInv
<1>2. queue["other"] \in Seq(Refreshes)
  BY QueueTypes
<1>3. RefreshDue => queue["other"] = <<>>
  <2>. SUFFICES ASSUME queue["other"] # <<>> PROVE ~RefreshDue
    OBVIOUS
  <2>1. PICK k \in 1 .. Third : OnTime(since_refresh, k)
    BY DEF RefreshInv
  <2>2. since_refresh + k < nREFI
    BY <1>1, <2>1, ThirdFacts DEF OnTime
  <2>. QED
    BY <1>1, <2>2, ThirdFacts DEF RefreshDue
<1>4. CASE RefreshDue
  <2>1. Waiting("other") = Append(<<>>, RefreshRequest) /\ Before = -1
    BY <1>3, <1>4 DEF Waiting, Before
  <2>2. Len(Waiting("other")) = 1
    BY <2>1
  <2>3. OnTime(Before, Third)
    BY <1>1, <2>1, AlwaysWithin, ThirdFacts DEF OnTime
  <2>. QED
    BY <1>1, <1>4, <2>1, <2>2, <2>3, ThirdFacts DEF Clock
<1>5. CASE ~RefreshDue
  <2>1. Waiting("other") = queue["other"] /\ Before = since_refresh
    BY <1>5 DEF Waiting, Before
  <2>2. since_refresh + 1 < nREFI
    BY <1>1, <1>5 DEF RefreshDue
  <2>3. Len(queue["other"]) \in Nat /\ (queue["other"] # <<>> => Len(queue["other"]) # 0)
    BY <1>2, EmptySeq
  <2>4. Waiting("other") # <<>> => Len(Waiting("other")) = 1
    <3>1. \A k \in Nat : k # 0 /\ k <= 1 => k = 1
      OBVIOUS
    <3>. QED
      BY <2>1, <2>3, <3>1 DEF RefreshInv, RefreshesKeepUp
  <2>. QED
    BY <1>1, <1>5, <2>1, <2>2, <2>4 DEF RefreshInv, Clock
<1>. QED
  BY <1>4, <1>5

\* A request that waits alone is the one the policy chooses.
LEMMA AloneIsHead ==
  ASSUME policy \in Policy, NEW q, DOMAIN q = {1}, q[1].core \in Core, q[1].over \in BOOLEAN,
         NEW ranks, policy = "ATLAS" => ranks \in Ranks, NEW black
  PROVE  get_head(q, ranks, black) = {1}
<1>1. ~Prefers(q[1], q[1], ranks, black)
  <2>1. CASE policy = "ATLAS"
    <3>1. ranks[q[1].core] \in Int
      <4>1. ranks \in [Core -> 0 .. Cardinality(Core) - 1]
        BY <2>1 DEF Ranks
      <4>2. ranks[q[1].core] \in 0 .. Cardinality(Core) - 1
        BY <4>1
      <4>. QED
        BY <4>2
    <3>2. ~AtlasPrefers(q[1], q[1], ranks)
      BY <3>1 DEF AtlasPrefers
    <3>. QED
      BY <2>1, <3>2 DEF Prefers
  <2>2. CASE policy # "ATLAS"
    BY <2>2 DEF Prefers, Policy
  <2>. QED
    BY <2>1, <2>2
<1>2. ~\E j \in 1 .. 1 - 1 : TRUE
  OBVIOUS
<1>. QED
  BY <1>1, <1>2 DEF get_head

\* What is issued on the way to the refresh.
LEMMA ServedIsAhead ==
  ASSUME IInv, RefreshInv, Waiting("other") # <<>>, Len(Waiting("other")) = 1
  PROVE  /\ Chosen = IF queue["act"] # <<>> THEN "act" ELSE "other"
         /\ DOMAIN Waiting(Chosen) = {1}
         /\ Waiting(Chosen)[1].core \in Core /\ Waiting(Chosen)[1].over \in BOOLEAN
         /\ queue["act"] # <<>> => Waiting(Chosen)[1] = queue["act"][1]
         /\ queue["act"] = <<>> => get_first_cmd(Waiting(Chosen)[1]) = DecodeRefresh
         /\ queue["act"] = <<>> => BankOf(Waiting(Chosen)[1]) = BankOf(RefreshRequest)
<1>1. QueuesTyped /\ ActOpen
  BY DEF IInv, RefreshInv
<1>2. CASE queue["act"] # <<>>
  <2>1. Chosen = "act" /\ Waiting("act") = queue["act"]
    BY <1>2 DEF Chosen, Waiting
  <2>2. queue["act"][1] \in Access /\ Len(queue["act"]) = 1 /\ queue["act"] \in Seq(Opened)
    BY <1>1, <1>2, AheadFacts, QueueTypes
  <2>3. DOMAIN queue["act"] = 1 .. 1
    BY <2>2
  <2>. QED
    BY <1>2, <2>1, <2>2, <2>3 DEF Access
<1>3. CASE queue["act"] = <<>>
  <2>1. Chosen = "other"
    BY <1>3 DEF Chosen
  <2>2. Waiting("other") \in Seq(Refreshes)
    BY <1>1, WaitingFacts DEF Queue, Kind
  <2>3. DOMAIN Waiting("other") = 1 .. 1
    BY <2>2
  <2>4. Waiting("other")[1] \in Refreshes
    BY <2>2, <2>3
  <2>. QED
    BY <1>3, <2>1, <2>3, <2>4, ControllerAssumption
       DEF Refreshes, get_first_cmd, BankOf, IsRefresh, RefreshRequest
<1>. QED
  BY <1>2, <1>3

\* While the command is not ready, a cycle of its delay passes.
LEMMA NoCommandOnTime ==
  ASSUME IInv, RefreshInv, Waiting("other") # <<>>, Len(Waiting("other")) = 1,
         ~is_ready(Waiting(Chosen)[1]), Elapse,
         queue'["act"] = queue["act"], NEW s \in Int, NEW k \in 1 .. Third, OnTime(s, k)
  PROVE  \E j \in 1 .. Third : OnTime(s + 1, j)'
<1>. DEFINE cmd == get_first_cmd(Waiting(Chosen)[1])
            b == BankOf(Waiting(Chosen)[1])
<1>1. QueuesTyped /\ ActOpen /\ DelaysBounded
  BY DEF IInv, RefreshInv
<1>2. /\ cmd = IF queue["act"] # <<>> THEN get_first_cmd(queue["act"][1]) ELSE DecodeRefresh
      /\ b = IF queue["act"] # <<>> THEN BankOf(queue["act"][1]) ELSE BankOf(RefreshRequest)
  BY ServedIsAhead
<1>3. cmd \in Command /\ Path(cmd, b) \subseteq Node
  BY <1>1, <1>2, AheadFacts
<1>4. Within(cmd, b, k)
  BY <1>2 DEF OnTime
<1>5. ~check(cmd, b)
  BY DEF is_ready
<1>. HIDE DEF cmd, b
<1>6. PICK n \in Path(cmd, b) : Left(n, cmd) # 0
  BY <1>5 DEF check
<1>7. k - 1 \in 1 .. Third
  <2>1. next[n][cmd] <= k
    BY <1>4 DEF Within
  <2>2. n \in Node
    BY <1>3
  <2>. QED
    BY <1>1, <1>3, <1>6, <2>1, <2>2, LeftFacts, ThirdFacts
<1>8. \A m \in Path(cmd, b) : next'[m][cmd] <= k - 1
  <2>1. ASSUME NEW m \in Path(cmd, b) PROVE next'[m][cmd] <= k - 1
    <3>1. next[m][cmd] <= k /\ m \in Node
      BY <1>3, <1>4 DEF Within
    <3>2. next'[m][cmd] = Left(m, cmd)
      BY <1>3, <3>1 DEF Elapse
    <3>3. next[m][cmd] \in Nat /\ Left(m, cmd) = IF next[m][cmd] = 0 THEN 0 ELSE next[m][cmd] - 1
      BY <1>1, <1>3, <3>1, LeftFacts
    <3>. QED
      BY <1>7, <3>1, <3>2, <3>3
  <2>. QED
    BY <2>1
<1>9. open' = open
  BY DEF Elapse
<1>10. CASE queue["act"] # <<>>
  <2>1. cmd = get_first_cmd(queue["act"][1]) /\ b = BankOf(queue["act"][1])
    BY <1>2, <1>10
  <2>2. get_first_cmd(queue["act"][1])' = cmd /\ BankOf(queue["act"][1])' = b
    BY <1>9, <2>1 DEF get_first_cmd, DecodeRefresh, DecodeAccess, IsRefresh, BankOf, RowOf
  <2>3. Within(get_first_cmd(queue["act"][1]), BankOf(queue["act"][1]), k - 1)'
    BY <1>8, <2>2 DEF Within, Path, OfRank
  <2>4. s + 1 + (k - 1) + 2 * Third < nREFI
    BY <1>10, ThirdFacts DEF OnTime
  <2>. QED
    BY <1>7, <1>10, <2>3, <2>4 DEF OnTime
<1>11. CASE queue["act"] = <<>>
  <2>1. cmd = DecodeRefresh /\ b = BankOf(RefreshRequest)
    BY <1>2, <1>11
  <2>2. DecodeRefresh' = cmd
    BY <1>9, <2>1 DEF DecodeRefresh
  <2>3. Within(DecodeRefresh, BankOf(RefreshRequest), k - 1)'
    BY <1>8, <2>1, <2>2 DEF Within, Path, OfRank, BankOf, IsRefresh, RefreshRequest
  <2>4. s + 1 + (k - 1) + (IF cmd = "PREA" THEN Third ELSE 0) < nREFI
    BY <1>11, <2>1, ThirdFacts DEF OnTime
  <2>. QED
    BY <1>7, <1>11, <2>2, <2>3, <2>4 DEF OnTime
<1>. QED
  BY <1>10, <1>11

\* Without its only element a sequence is empty.
LEMMA LastRemoved ==
  ASSUME NEW S, NEW q \in Seq(S), Len(q) = 1
  PROVE  RemoveAt(q, 1) = <<>>
<1>1. 1 \in 1 .. Len(q)
  OBVIOUS
<1>2. RemoveAt(q, 1) \in Seq(S) /\ DOMAIN RemoveAt(q, 1) = 1 .. Len(q) - 1
  BY <1>1, RemoveAtFacts
<1>3. DOMAIN RemoveAt(q, 1) = {}
  BY <1>2
<1>. HIDE DEF RemoveAt
<1>. QED
  BY <1>2, <1>3, EmptySeq

\* The request in the act queue is done with its next command.
LEMMA ActServed ==
  ASSUME IInv, ActOpen, queue["act"] # <<>>,
         NEW i \in DOMAIN Waiting("act"), NEW black, Issue("act", i, black)
  PROVE  queue'["act"] = <<>> /\ Cmd("act", i) \in {"RD", "WR"} /\ i = 1
<1>1. QueuesTyped
  BY DEF IInv
<1>2. Waiting("act") = queue["act"] /\ "act" \in Queue
  BY DEF Waiting, Queue
<1>3. Len(queue["act"]) = 1 /\ queue["act"] \in Seq(Opened)
  BY <1>1, AheadFacts, QueueTypes
<1>4. i = 1
  <2>1. DOMAIN queue["act"] = 1 .. 1
    BY <1>3
  <2>. QED
    BY <1>2, <2>1
<1>5. Cmd("act", i) \in {"RD", "WR"}
  BY <1>2, <1>4 DEF Cmd, ActOpen
<1>6. queue'["act"] = Rest("act", i)
  BY <1>2, <1>5, IssueQueues DEF After, is_opening
<1>7. Rest("act", i) = RemoveAt(queue["act"], 1)
  BY <1>2, <1>4, <1>5 DEF Rest, is_closing
<1>. QED
  BY <1>3, <1>4, <1>5, <1>6, <1>7, LastRemoved

\* A request that enters the act queue has opened its row.
LEMMA IssueActOpen ==
  ASSUME IInv, ActOpen, NEW n \in Queue, n # "act" => queue["act"] = <<>>,
         NEW i \in DOMAIN Waiting(n), NEW black, Issue(n, i, black)
  PROVE  ActOpen'
<1>. DEFINE req == Waiting(n)[i]
<1>1. CASE queue["act"] # <<>>
  <2>1. queue'["act"] = <<>>
    BY <1>1, ActServed
  <2>. QED
    BY <2>1 DEF ActOpen
<1>2. CASE queue["act"] = <<>>
  <2>1. Waiting("act") = <<>> /\ n # "act"
    <3>1. Waiting("act") = queue["act"] /\ DOMAIN (<<>>) = {}
      BY DEF Waiting
    <3>. QED
      BY <1>2, <3>1
  <2>2. queue'["act"] = IF is_opening(Cmd(n, i)) THEN Append(<<>>, Started(req)) ELSE <<>>
    BY <2>1, IssueQueues DEF After
  <2>3. CASE ~is_opening(Cmd(n, i))
    BY <2>2, <2>3 DEF ActOpen
  <2>4. CASE is_opening(Cmd(n, i))
    <3>1. Cmd(n, i) = "ACT"
      BY <2>4 DEF is_opening
    <3>2. n # "other"
      <4>1. n = "other" => req.type = "REFRESH"
        BY RequestFacts DEF Kind, Refreshes
      <4>. QED
        BY <3>1, <4>1, CommandFacts DEF Cmd
    <3>3. /\ req \in Access /\ Started(req) \in Access
          /\ Started(req).type = req.type /\ Started(req).addr = req.addr
      BY <3>2, RequestFacts DEF Opened
    <3>4. req.type \in {"READ", "WRITE"} /\ req.addr \in Addr
      BY <3>3 DEF Access
    <3>5. bankOf[req.addr] \in Bank /\ rowOf[req.addr] \in Row
      BY <3>4, ControllerAssumption
    <3>6. update_state("ACT", bankOf[req.addr], rowOf[req.addr])
      <4>1. update_state(get_first_cmd(req), BankOf(req), RowOf(req))
        BY DEF Issue
      <4>2. get_first_cmd(req) = "ACT"
        BY <3>1 DEF Cmd
      <4>3. BankOf(req) = bankOf[req.addr] /\ RowOf(req) = rowOf[req.addr]
        BY <3>4 DEF BankOf, RowOf, IsRefresh
      <4>. QED
        BY <4>1, <4>2, <4>3
    <3>7. open'[bankOf[req.addr]] = rowOf[req.addr]
      BY <3>5, <3>6 DEF update_state, Target, OfRank, is_opening
    <3>8. rowOf[req.addr] # Closed
      BY <3>5, ChannelAssumption
    <3>9. queue'["act"][1] = Started(req)
      BY <2>2, <2>4
    <3>. HIDE DEF req
    <3>10. get_first_cmd(queue["act"][1])' \in {"RD", "WR"}
      BY <3>3, <3>4, <3>7, <3>8, <3>9 DEF get_first_cmd, IsRefresh, DecodeAccess, BankOf, RowOf
    <3>. QED
      BY <3>10 DEF ActOpen
  <2>. QED
    BY <2>3, <2>4
<1>. QED
  BY <1>1, <1>2

\* After a command on the way to the refresh there is time for the next.
LEMMA IssueOnTime ==
  ASSUME IInv, RefreshInv, IInv', DelaysBounded', ActOpen',
         Waiting("other") # <<>>, Len(Waiting("other")) = 1,
         NEW black, Issue(Chosen, 1, black), NEW s \in Int, NEW k \in 1 .. Third, OnTime(s, k)
  PROVE  /\ Len(queue'["other"]) <= 1
         /\ queue'["other"] # <<>> => \E j \in 1 .. Third : OnTime(s + 1, j)'
<1>1. QueuesTyped /\ ActOpen /\ DelaysBounded
  BY DEF IInv, RefreshInv
<1>2. QueuesTyped'
  BY DEF IInv
<1>3. /\ Chosen = IF queue["act"] # <<>> THEN "act" ELSE "other"
      /\ DOMAIN Waiting(Chosen) = {1} /\ Chosen \in Queue
      /\ queue["act"] = <<>> => get_first_cmd(Waiting(Chosen)[1]) = DecodeRefresh
  BY ServedIsAhead DEF Queue
<1>4. Waiting("other") \in Seq(Refreshes)
  BY <1>1, WaitingFacts DEF Queue, Kind
<1>5. Within(DecodeRefresh, BankOf(RefreshRequest), Third)'
  <2>1. DecodeRefresh' \in Command \cap {"PREA", "REF"}
    BY DEF DecodeRefresh, Command
  <2>2. \A n \in Node, c \in Command : next'[n][c] \in 0 .. Third
    BY DEF DelaysBounded
  <2>3. \A n \in {"Channel", "Rank"} : next'[n][DecodeRefresh'] <= Third
    BY <2>1, <2>2, ThirdFacts DEF Node
  <2>. QED
    BY <2>1, <2>3 DEF Within, Path, OfRank
<1>6. CASE queue["act"] # <<>>
  <2>1. queue'["act"] = <<>> /\ queue'["other"] = Waiting("other")
    <3>1. Chosen = "act" /\ 1 \in DOMAIN Waiting("act")
      BY <1>3, <1>6
    <3>2. queue'["other"] = After("other", "act", 1)
      <4>1. "act" \in Queue /\ Issue("act", 1, black)
        BY <3>1 DEF Queue
      <4>. QED
        BY <3>1, <4>1, IssueQueues
    <3>. QED
      BY <1>1, <1>6, <3>1, <3>2, ActServed DEF After
  <2>2. s + k + 2 * Third < nREFI
    BY <1>6 DEF OnTime
  <2>3. s + 1 + Third + (IF DecodeRefresh' = "PREA" THEN Third ELSE 0) < nREFI
    BY <2>2, ThirdFacts
  <2>4. OnTime(s + 1, Third)'
    BY <1>5, <2>1, <2>3 DEF OnTime
  <2>5. Len(queue'["other"]) = 1 /\ \A m : m = 1 => m <= 1
    BY <2>1
  <2>. QED
    BY <2>4, <2>5, ThirdFacts
<1>7. CASE queue["act"] = <<>>
  <2>1. Chosen = "other" /\ 1 \in DOMAIN Waiting("other") /\ Cmd("other", 1) = DecodeRefresh
    BY <1>3, <1>7 DEF Cmd
  <2>2. /\ queue'["other"] = Rest("other", 1)
        /\ queue'["act"] = <<>>
    <3>1. "other" \in Queue /\ Waiting("act") = <<>>
      BY <1>7 DEF Queue, Waiting
    <3>2. ~is_opening(Cmd("other", 1))
      BY <1>1, <2>1, AheadFacts DEF is_opening
    <3>. QED
      BY <2>1, <3>1, <3>2, IssueQueues DEF After
  <2>3. CASE DecodeRefresh = "REF"
    <3>1. queue'["other"] = RemoveAt(Waiting("other"), 1)
      BY <2>1, <2>2, <2>3 DEF Rest, is_closing
    <3>2. queue'["other"] = <<>>
      BY <1>4, <3>1, LastRemoved
    <3>3. Len(<<>>) <= 1
      OBVIOUS
    <3>. QED
      BY <3>2, <3>3
  <2>4. CASE DecodeRefresh = "PREA"
    <3>1. queue'["other"] = ReplaceAt(Waiting("other"), 1, Started(Waiting("other")[1]))
      BY <2>1, <2>2, <2>4 DEF Rest, is_closing
    <3>2. Started(Waiting("other")[1]) \in Refreshes
      <4>1. Waiting("other")[1] \in Refreshes
        BY <1>4, <2>1
      <4>. QED
        BY <4>1 DEF Started, Refreshes
    <3>3. Len(queue'["other"]) = 1
      BY <1>4, <2>1, <3>1, <3>2, ExceptSeq DEF ReplaceAt
    <3>4. update_state("PREA", BankOf(Waiting("other")[1]), RowOf(Waiting("other")[1]))
      <4>1. update_state(Cmd("other", 1), BankOf(Waiting("other")[1]), RowOf(Waiting("other")[1]))
        BY <2>1 DEF Issue, Cmd
      <4>. QED
        BY <2>1, <2>4, <4>1
    <3>5. DecodeRefresh' = "REF"
      BY <3>4 DEF update_state, Target, OfRank, is_opening, is_closing, DecodeRefresh
    <3>6. s + k + Third < nREFI
      BY <1>7, <2>4 DEF OnTime
    <3>7. s + 1 + Third + 0 < nREFI
      BY <3>6, ThirdFacts
    <3>8. OnTime(s + 1, Third)'
      BY <1>5, <2>2, <3>5, <3>7 DEF OnTime
    <3>9. \A m : m = 1 => m <= 1
      OBVIOUS
    <3>. QED
      BY <3>3, <3>8, <3>9, ThirdFacts
  <2>. QED
    BY <1>1, <2>3, <2>4, AheadFacts
<1>. QED
  BY <1>6, <1>7

LEMMA TickRefreshInv ==
  ASSUME IInv, RefreshInv, Tick
  PROVE  RefreshInv'
<1>1. PICK ranks \in (IF policy = "ATLAS" THEN Ranks ELSE {rank}), clears \in BOOLEAN :
        LET n == Chosen
            black == IF clears THEN {} ELSE blacklisted
            ready == {i \in get_head(Waiting(n), ranks, black) : is_ready(Waiting(n)[i])}
        IN /\ IF ready # {} THEN \E i \in ready : Issue(n, i, black) ELSE NoCommand(black)
           /\ Clock /\ UNCHANGED <<stored, policy>>
  BY DEF Tick
<1>. DEFINE n == Chosen
            black == IF clears THEN {} ELSE blacklisted
            head == get_head(Waiting(n), ranks, black)
            ready == {i \in head : is_ready(Waiting(n)[i])}
<1>2. QueuesTyped /\ ActOpen /\ DelaysBounded /\ policy \in Policy
  BY DEF IInv, RefreshInv
<1>3. IInv'
  BY TickIInv
<1>4. PICK s \in Int : /\ s = Before /\ since_refresh' = s + 1
                      /\ since_refresh' \in 0 .. nREFI - 1 /\ policy' \in Policy
  BY <1>1, <1>2, DueFacts
<1>5. n \in Queue /\ (n # "act" => queue["act"] = <<>>)
  BY ChosenFacts
<1>6. CASE ready = {}
  <2>1. NoCommand(black)
    BY <1>1, <1>6
  <2>2. Elapse /\ open' = open /\ queue' = [queue EXCEPT !["other"] = Waiting("other")]
    BY <2>1 DEF NoCommand, Elapse
  <2>3. queue'["act"] = queue["act"] /\ queue'["other"] = Waiting("other")
    BY <1>2, <2>2 DEF QueuesTyped, Queue
  <2>4. DelaysBounded'
    BY <1>2, <2>2, ElapseBounded
  <2>5. ActOpen'
    BY <1>2, <2>2, <2>3 DEF ActOpen, get_first_cmd, DecodeRefresh, DecodeAccess, IsRefresh, BankOf, RowOf
  <2>6. CASE Waiting("other") = <<>>
    <3>1. queue'["other"] = <<>> /\ Len(<<>>) <= 1
      BY <2>3, <2>6
    <3>. QED
      BY <1>4, <2>4, <2>5, <3>1 DEF RefreshInv, RefreshesKeepUp
  <2>7. CASE Waiting("other") # <<>>
    <3>1. PICK k \in 1 .. Third : Len(Waiting("other")) = 1 /\ OnTime(s, k)
      BY <1>2, <1>4, <2>7, DueFacts
    <3>2. head = {1}
      BY <1>1, <1>2, <2>7, <3>1, ServedIsAhead, AloneIsHead
    <3>3. ~is_ready(Waiting(n)[1])
      BY <1>6, <3>2
    <3>4. \E j \in 1 .. Third : OnTime(s + 1, j)'
      BY <1>4, <2>2, <2>3, <2>7, <3>1, <3>3, NoCommandOnTime
    <3>5. \E j \in 1 .. Third : OnTime(since_refresh, j)'
      BY <1>4, <3>4 DEF OnTime
    <3>6. Len(queue'["other"]) <= 1
      <4>1. Len(queue'["other"]) = 1 /\ \A m : m = 1 => m <= 1
        BY <2>3, <3>1
      <4>. QED
        BY <4>1
    <3>. QED
      BY <1>4, <2>4, <2>5, <3>5, <3>6 DEF RefreshInv, RefreshesKeepUp
  <2>. QED
    BY <2>6, <2>7
<1>7. CASE ready # {}
  <2>1. PICK i \in ready : Issue(n, i, black)
    BY <1>1, <1>7
  <2>2. i \in DOMAIN Waiting(n) /\ i \in head
    BY DEF get_head
  <2>. HIDE DEF n, black, head, ready
  <2>3. ActOpen'
    BY <1>2, <1>5, <2>1, <2>2, IssueActOpen
  <2>4. DelaysBounded'
    <3>1. update_timing(get_first_cmd(Waiting(n)[i]), BankOf(Waiting(n)[i]))
      BY <2>1 DEF Issue
    <3>2. get_first_cmd(Waiting(n)[i]) \in Command
      BY DEF get_first_cmd, DecodeRefresh, DecodeAccess, Command
    <3>. QED
      BY <1>2, <3>1, <3>2, TimingBounded
  <2>5. CASE Waiting("other") = <<>>
    <3>1. n # "other"
      <4>1. DOMAIN (<<>>) = {}
        OBVIOUS
      <4>. QED
        BY <2>2, <2>5, <4>1
    <3>2. queue'["other"] = Waiting("other")
      BY <1>5, <2>1, <2>2, <3>1, IssueQueues DEF After
    <3>3. queue'["other"] = <<>> /\ Len(<<>>) <= 1
      BY <2>5, <3>2
    <3>. QED
      BY <1>4, <2>3, <2>4, <3>3 DEF RefreshInv, RefreshesKeepUp
  <2>6. CASE Waiting("other") # <<>>
    <3>1. PICK k \in 1 .. Third : Len(Waiting("other")) = 1 /\ OnTime(s, k)
      BY <1>2, <1>4, <2>6, DueFacts
    <3>2. i = 1
      BY <2>2, <2>6, <3>1, ServedIsAhead DEF n
    <3>3. Issue(Chosen, 1, black)
      BY <2>1, <3>2 DEF n
    <3>4. /\ Len(queue'["other"]) <= 1
          /\ queue'["other"] # <<>> => \E j \in 1 .. Third : OnTime(s + 1, j)'
      BY <1>3, <1>4, <2>3, <2>4, <2>6, <3>1, <3>3, IssueOnTime
    <3>5. queue'["other"] # <<>> => \E j \in 1 .. Third : OnTime(since_refresh, j)'
      BY <1>4, <3>4 DEF OnTime
    <3>. QED
      BY <1>4, <2>3, <2>4, <3>4, <3>5 DEF RefreshInv, RefreshesKeepUp
  <2>. QED
    BY <2>5, <2>6
<1>. QED
  BY <1>6, <1>7

\* Nothing else moves the rows, the delays or the queues of a refresh.
LEMMA RefreshInvKept ==
  ASSUME RefreshInv, queue'["act"] = queue["act"], queue'["other"] = queue["other"],
         UNCHANGED <<open, next, since_refresh, policy>>
  PROVE  RefreshInv'
<1>1. DelaysBounded' /\ ActOpen'
  BY DEF RefreshInv, DelaysBounded, ActOpen, get_first_cmd, DecodeRefresh, DecodeAccess, IsRefresh, BankOf, RowOf
<1>2. ASSUME NEW k \in 1 .. Third, OnTime(since_refresh, k) PROVE OnTime(since_refresh, k)'
  BY <1>2 DEF OnTime, Within, get_first_cmd, DecodeRefresh, DecodeAccess, IsRefresh, BankOf, RowOf,
              Path, OfRank, RefreshRequest
<1>3. queue'["other"] # <<>> => \E k \in 1 .. Third : OnTime(since_refresh, k)'
  BY <1>2 DEF RefreshInv
<1>. QED
  BY <1>1, <1>3 DEF RefreshInv, RefreshesKeepUp

LEMMA NextRefreshInv ==
  ASSUME IInv, RefreshInv, [Next]_vars
  PROVE  RefreshInv'
<1>1. DOMAIN queue = Queue
  BY DEF IInv, QueuesTyped
<1>2. ASSUME NEW w \in Workload, Enqueue(w.core, w.type, w.addr) PROVE RefreshInv'
  <2>1. queue'["act"] = queue["act"] /\ queue'["other"] = queue["other"]
    BY <1>1, <1>2 DEF Enqueue, Queue
  <2>. QED
    BY <1>2, <2>1, RefreshInvKept DEF Enqueue
<1>3. CASE PassThreshold
  <2>1. queue'["act"] = queue["act"] /\ queue'["other"] = queue["other"]
    BY <1>1, <1>3 DEF PassThreshold, Queue
  <2>. QED
    BY <1>3, <2>1, RefreshInvKept DEF PassThreshold
<1>4. CASE UNCHANGED vars
  BY <1>4, RefreshInvKept DEF vars
<1>. QED
  BY <1>2, <1>3, <1>4, TickRefreshInv DEF Next

LEMMA InitRefreshInv == Init => RefreshInv
<1>. SUFFICES ASSUME Init PROVE RefreshInv
  OBVIOUS
<1>1. queue["act"] = <<>> /\ queue["other"] = <<>> /\ Len(<<>>) <= 1
  BY DEF Init, Queue
<1>2. policy \in Policy /\ since_refresh \in 0 .. nREFI - 1
  BY ControllerAssumption DEF Init
<1>3. DelaysBounded
  BY ThirdFacts DEF Init, ChannelInit, DelaysBounded
<1>. QED
  BY <1>1, <1>2, <1>3 DEF RefreshInv, ActOpen, RefreshesKeepUp

\* A refresh is always done before the next one is due, so the assertion that the
\* queue takes it holds: whatever the policy and however many reads and writes
\* wait, if three of the longest delays fit between two refreshes.
THEOREM RefreshesAlwaysKeepUp == Spec => []RefreshesKeepUp
<1>1. RefreshInv => RefreshesKeepUp
  BY DEF RefreshInv
<1>2. Init => IInv /\ RefreshInv
  BY InitIInv, InitRefreshInv
<1>3. IInv /\ RefreshInv /\ [Next]_vars => IInv' /\ RefreshInv'
  BY NextIInv, NextRefreshInv
<1>. QED
  BY <1>1, <1>2, <1>3, PTL DEF Spec
=============================================================================

----------------------------- MODULE Controller -----------------------------
(***************************************************************************)
(* The memory controller of labs/lab3 (src/Controller.h), with its six     *)
(* scheduling policies (src/Scheduler.h), the refresh of src/Refresh.h and *)
(* the quanta of ATLAS (src/Memory.h).                                     *)
(*                                                                         *)
(* Cores send reads and writes.  A tick completes a read, injects a        *)
(* refresh, picks a queue and in it a request by the policy, and issues    *)
(* the command this request needs next.  Queues are in order of arrival.   *)
(***************************************************************************)
EXTENDS DramChannel, Sequences, SequencesExt, FiniteSets

CONSTANTS
  Core,               \* 0 .. N-1
  Addr, bankOf, rowOf,
  Workload,           \* [core, type, addr]: the requests that the cores of a run send
  Policies,           \* the policies a run chooses from
  QueueMax,           \* 32 in the code
  HighMark, LowMark,  \* int(wr_high_watermark * max), int(wr_low_watermark * max)
  nREFI,
  read_latency,
  cap,                \* of FRFCFS_Cap
  THRESHOLD,          \* of BLISS
  MaxReads            \* bound: the reads each core waits for at once, its window

Policy == {"FCFS", "FRFCFS", "FRFCFS_Cap", "FRFCFS_PriorHit", "ATLAS", "BLISS"}
Queue == {"read", "write", "act", "other"}

ASSUME ControllerAssumption ==
  /\ 0 \in Core /\ Core \subseteq Nat /\ Policies \subseteq Policy
  /\ bankOf \in [Addr -> Bank] /\ rowOf \in [Addr -> Row]
  /\ Workload \subseteq [core : Core, type : {"READ", "WRITE"}, addr : Addr]
  /\ QueueMax \in Nat /\ 0 < LowMark /\ LowMark <= HighMark /\ HighMark < QueueMax
  /\ read_latency \in Nat \ {0, 1} /\ nREFI \in Nat \ {0}

\* A refresh takes up to three commands, with the longest delay before each one.
\* In the speed tables of DDR3 nREFI is more than twenty times the longest, nRFC.
ASSUME RefreshAssumption == nREFI >= 3 /\ \A t \in timing : 3 * t.val <= nREFI

VARIABLES
  stored,             \* cores that sent a write after their last read
  policy,             \* Scheduler::policy, never changed
  queue,              \* readq, writeq, actq, otherq
  pending,            \* reads whose data is on its way
  write_mode,
  rowtable,           \* RowTable::table
  since_refresh,      \* clk - refreshed
  cur_serving_requests,
  rank,                                                     \* ATLAS
  blacklisted, last_request_coreid, request_served_counter  \* BLISS

bliss == <<blacklisted, last_request_coreid, request_served_counter>>
vars == <<stored, policy, queue, pending, write_mode, rowtable, since_refresh, cur_serving_requests,
          open, next, rank, bliss>>

\* over: waiting for longer than ATLAS's THRESHOLD.  behind (history): when it
\* arrived, a write to its address was waiting, and none was served since.
Access == [type : {"READ", "WRITE"}, core : Core, addr : Addr,
           is_first_command : BOOLEAN, over : BOOLEAN, behind : BOOLEAN]

\* refresh_target: the request gets the default coreid
RefreshRequest == [type |-> "REFRESH", core |-> 0, is_first_command |-> TRUE, over |-> FALSE]

\* depart is the number of cycles left
Reply == [core : Core, addr : Addr, depart : 0 .. read_latency, forwarded : BOOLEAN, behind : BOOLEAN]
-----------------------------------------------------------------------------
IsRefresh(req) == req.type = "REFRESH"
BankOf(req) == IF IsRefresh(req) THEN CHOOSE b \in Bank : TRUE ELSE bankOf[req.addr]
RowOf(req) == IF IsRefresh(req) THEN CHOOSE r \in Row : TRUE ELSE rowOf[req.addr]

get_first_cmd(req) ==
  IF IsRefresh(req) THEN DecodeRefresh
  ELSE DecodeAccess(IF req.type = "READ" THEN "RD" ELSE "WR", BankOf(req), RowOf(req))

is_ready(req) == check(get_first_cmd(req), BankOf(req))
is_row_hit(req) == ~IsRefresh(req) /\ check_row_hit(BankOf(req), RowOf(req))
get_hits(req) == IF rowtable[BankOf(req)].row = RowOf(req) THEN rowtable[BankOf(req)].hits ELSE 0

UnderCap(req) == is_ready(req) /\ get_hits(req) <= cap
ReadyHit(req) == is_ready(req) /\ is_row_hit(req)

\* mutant: a request that waits for too long has no priority
NoThreshold(r1, r2, ranks) ==
  \/ ranks[r2.core] < ranks[r1.core]
  \/ ranks[r2.core] = ranks[r1.core] /\ ~ReadyHit(r1) /\ ReadyHit(r2)

\* ATLAS::compare
AtlasPrefers(r1, r2, ranks) ==
  /\ ~r1.over
  /\ \/ r2.over
     \/ ranks[r2.core] < ranks[r1.core]
     \/ ranks[r2.core] = ranks[r1.core] /\ ~ReadyHit(r1) /\ ReadyHit(r2)

\* the compare functions: does r2, which arrived after r1, win?  ranks order
\* the cores, black are the blacklisted ones.
Prefers(r1, r2, ranks, black) ==
  CASE policy = "FCFS" -> FALSE
    [] policy = "FRFCFS" -> ~is_ready(r1) /\ is_ready(r2)
    [] policy = "FRFCFS_Cap" -> ~UnderCap(r1) /\ UnderCap(r2)
    [] policy = "FRFCFS_PriorHit" -> ~ReadyHit(r1) /\ ReadyHit(r2)
    [] policy = "ATLAS" -> AtlasPrefers(r1, r2, ranks)
    [] policy = "BLISS" ->
         \/ r1.core \in black /\ r2.core \notin black
         \/ (r1.core \in black <=> r2.core \in black) /\ ~ReadyHit(r1) /\ ReadyHit(r2)

\* get_head: the position that the walk over the queue ends at, if there is one.
\* All policies compare by classes and ranks, so it is the first request to which
\* none is preferred.  get_head is not virtual: the one that FRFCFS_PriorHit
\* defines for itself is never called.
get_head(q, ranks, black) ==
  {i \in DOMAIN q : /\ \A j \in DOMAIN q : ~Prefers(q[i], q[j], ranks, black)
                    /\ \A j \in 1 .. i - 1 : Prefers(q[j], q[i], ranks, black)}
-----------------------------------------------------------------------------
\* step 1 of a tick: at most one read is complete
Completed == pending # <<>> /\ Head(pending).depart <= 1
StillPending ==
  LET rest == IF Completed THEN Tail(pending) ELSE pending
  IN [i \in DOMAIN rest |-> [rest[i] EXCEPT !.depart = IF @ = 0 THEN 0 ELSE @ - 1]]

\* step 2: a refresh is due
RefreshDue == since_refresh + 1 >= nREFI
Clock == since_refresh' = IF RefreshDue THEN 0 ELSE since_refresh + 1
Waiting(n) == IF n = "other" /\ RefreshDue THEN Append(queue[n], RefreshRequest) ELSE queue[n]

\* step 3: the write mode
WriteMode ==
  LET reads == Len(queue["read"]) writes == Len(queue["write"])
  IN IF write_mode THEN ~(writes < LowMark /\ reads # 0) ELSE writes > HighMark \/ reads = 0

\* mutant: refreshes wait for an empty read queue
ReadsFirst ==
  IF queue["act"] # <<>> THEN "act"
  ELSE IF queue["read"] # <<>> THEN "read"
  ELSE IF Waiting("other") # <<>> THEN "other" ELSE "write"

\* step 4: the queue to serve.  Requests that opened a row go before all others.
Chosen ==
  IF queue["act"] # <<>> THEN "act"
  ELSE IF Waiting("other") # <<>> THEN "other" ELSE IF WriteMode THEN "write" ELSE "read"

\* ATLAS: what the cores are ordered by.  A core's TotalAS counts the commands and
\* the waiting reads of many quanta; any order of the cores may be the next.
Ranks == {r \in [Core -> 0 .. Cardinality(Core) - 1] : IsInjective(r)}

\* BLISS: the first command for a request lengthens the streak of its core
Streak(req) == IF last_request_coreid = req.core THEN request_served_counter + 1 ELSE 0

\* the queues when some prefix of each has become over
Aged(q, n) == [i \in DOMAIN q |-> [q[i] EXCEPT !.over = @ \/ i <= n]]
-----------------------------------------------------------------------------
Init ==
  /\ stored = {} /\ policy \in Policies
  /\ queue = [n \in Queue |-> <<>>] /\ pending = <<>>
  /\ write_mode = FALSE /\ since_refresh = 0 /\ cur_serving_requests = 0
  /\ rowtable = [b \in Bank |-> [row |-> Closed, hits |-> 0]]
  /\ rank = [c \in Core |-> 0]
  /\ blacklisted = {} /\ last_request_coreid = -1 /\ request_served_counter = 0
  /\ ChannelInit

WaitingFor(c) ==
  Cardinality({i \in DOMAIN queue["read"] : queue["read"][i].core = c})
  + Cardinality({i \in DOMAIN queue["act"] : queue["act"][i].core = c /\ queue["act"][i].type = "READ"})
  + Cardinality({i \in DOMAIN pending : pending[i].core = c})

WritesTo(addr, n) == {i \in DOMAIN queue[n] : queue[n][i].type = "WRITE" /\ queue[n][i].addr = addr}

HasRoom(n) == Len(queue[n]) < QueueMax

ForwardsOpened(addr) == WritesTo(addr, "act") # {}   \* mutant: searches the wrong queue
Forwards(addr) == WritesTo(addr, "write") # {}

\* enqueue.  A read of an address that a waiting write writes is answered from
\* the write queue.  A core that waits for MaxReads[c] reads sends nothing, and as
\* traces are finite, writes do not go on for ever: bound: one after each read.
Enqueue(c, type, addr) ==
  LET n == IF type = "READ" THEN "read" ELSE "write"
      forwarded == type = "READ" /\ Forwards(addr)
      behind == type = "READ" /\ WritesTo(addr, "write") \cup WritesTo(addr, "act") # {}
  IN /\ WaitingFor(c) < MaxReads[c]
     /\ type = "WRITE" => c \notin stored
     /\ stored' = IF type = "WRITE" THEN stored \cup {c} ELSE stored \ {c}
     /\ HasRoom(n)
     /\ IF forwarded
          THEN /\ pending' = Append(pending, [core |-> c, addr |-> addr, depart |-> 1,
                                              forwarded |-> TRUE, behind |-> behind])
               /\ UNCHANGED queue
          ELSE /\ queue' = [queue EXCEPT ![n] = Append(@,
                    [type |-> type, core |-> c, addr |-> addr, is_first_command |-> TRUE,
                     over |-> FALSE, behind |-> behind])]
               /\ UNCHANGED pending
     /\ UNCHANGED <<policy, write_mode, rowtable, since_refresh, cur_serving_requests,
                    open, next, rank, bliss>>

\* the entries of the row table that a command can change
OneEntry(cmd, req) == {BankOf(req)}   \* mutant: closing a rank removes one entry
Entries(cmd, req) == IF is_closing(cmd) THEN Target(cmd, BankOf(req)) ELSE {BankOf(req)}

\* RowTable::update.  A refresh changes nothing.
UpdateRowTable(cmd, req) ==
  rowtable' = [b \in Bank |->
    IF b \notin Entries(cmd, req) THEN rowtable[b]
    ELSE IF is_opening(cmd) /\ rowtable[b].row = Closed THEN [row |-> RowOf(req), hits |-> 0]
    ELSE IF is_accessing(cmd) THEN [rowtable[b] EXCEPT !.hits = IF @ > cap THEN @ ELSE @ + 1]
    ELSE IF is_closing(cmd) THEN [row |-> Closed, hits |-> 0] ELSE rowtable[b]]

\* mutant: forwarded reads are subtracted, too
CountedAll(begins, written) ==
  cur_serving_requests' = cur_serving_requests + (IF begins THEN 1 ELSE 0) - (IF written THEN 1 ELSE 0)
                          - (IF Completed THEN 1 ELSE 0)

\* the first command for a read or write, and its completion, are counted
Counted(begins, written) ==
  cur_serving_requests' = cur_serving_requests + (IF begins THEN 1 ELSE 0) - (IF written THEN 1 ELSE 0)
                          - (IF Completed /\ ~Head(pending).forwarded THEN 1 ELSE 0)

\* BLISS: the streak and the blacklist after the first command for a request
Blacklist(req, black) ==
  LET over == Streak(req) > THRESHOLD
  IN /\ last_request_coreid' = req.core
     /\ blacklisted' = IF over THEN black \cup {req.core} ELSE black
     /\ request_served_counter' = IF over THEN 0 ELSE Streak(req)

\* no request, or its command is not ready; the row policy Opened closes no row
\* on its own account
NoCommand(black) ==
  /\ queue' = [queue EXCEPT !["other"] = Waiting("other")]
  /\ pending' = StillPending
  /\ Counted(FALSE, FALSE) /\ Elapse
  /\ blacklisted' = black
  /\ UNCHANGED <<rowtable, last_request_coreid, request_served_counter>>

\* a command for the i-th request of queue n.  A request that opens a row moves
\* to the act queue, one that accesses it or refreshes is done.
Issue(n, i, black) ==
  LET req == Waiting(n)[i]
      cmd == get_first_cmd(req)
      begun == [req EXCEPT !.is_first_command = FALSE]
      stays == is_closing(cmd)
      served(q) == [j \in DOMAIN q |->
        IF cmd = "WR" /\ q[j].addr = req.addr THEN [q[j] EXCEPT !.behind = FALSE] ELSE q[j]]
      left == IF stays THEN ReplaceAt(Waiting(n), i, begun) ELSE RemoveAt(Waiting(n), i)
      kept == [queue EXCEPT !["other"] = Waiting("other"), ![n] = left]
      moved == [kept EXCEPT !["act"] = IF is_opening(cmd) THEN Append(@, begun) ELSE @]
  IN /\ queue' = [moved EXCEPT !["read"] = served(@)]
     /\ pending' = IF cmd # "RD" THEN StillPending
                   ELSE Append(StillPending, [core |-> req.core, addr |-> req.addr, depart |-> read_latency,
                                              forwarded |-> FALSE, behind |-> req.behind])
     /\ Counted(req.is_first_command /\ ~IsRefresh(req), cmd = "WR")
     /\ update_state(cmd, BankOf(req), RowOf(req)) /\ update_timing(cmd, BankOf(req))
     /\ UpdateRowTable(cmd, req)
     /\ IF policy = "BLISS" /\ req.is_first_command THEN Blacklist(req, black)
        ELSE blacklisted' = black /\ UNCHANGED <<last_request_coreid, request_served_counter>>

\* Controller::tick, with the end of the quantum of ATLAS that Memory::tick may
\* have found just before.  Quanta and BLISS's clearing intervals end at any time;
\* the variables of a policy change only where it is in use.
Tick ==
  \E ranks \in (IF policy = "ATLAS" THEN Ranks ELSE {rank}) : \E clears \in BOOLEAN :
    LET n == Chosen
        black == IF clears THEN {} ELSE blacklisted
        ready == {i \in get_head(Waiting(n), ranks, black) : is_ready(Waiting(n)[i])}
    IN /\ clears => blacklisted # {}
       /\ IF ready # {} THEN \E i \in ready : Issue(n, i, black) ELSE NoCommand(black)
       /\ rank' = ranks
       /\ write_mode' = WriteMode
       /\ Clock
       /\ UNCHANGED <<stored, policy>>

\* ATLAS: the oldest reads have waited for longer than THRESHOLD.  Bound: the
\* writes of a run have not.
PassThreshold ==
  /\ policy = "ATLAS"
  /\ \E i \in DOMAIN queue["read"] :
       ~queue["read"][i].over /\ queue' = [queue EXCEPT !["read"] = Aged(@, i)]
  /\ UNCHANGED <<stored, policy, pending, write_mode, rowtable, since_refresh, cur_serving_requests,
                 open, next, rank, bliss>>

Next ==
  \/ \E w \in Workload : Enqueue(w.core, w.type, w.addr)
  \/ Tick
  \/ PassThreshold

Spec == Init /\ [][Next]_vars

\* The simulator calls tick as long as it runs: Tick is always enabled, and the one
\* action that changes since_refresh.  So time passes for a request, and the
\* clearing intervals, of thousands of cycles, end with an empty blacklist.
Fairness ==
  /\ WF_since_refresh(Clock) /\ WF_vars(PassThreshold)
  /\ WF_blacklisted(blacklisted' = {})
FairSpec == Spec /\ Fairness
-----------------------------------------------------------------------------
\* RowTable::update asserts that an accessed row is in the table and a closed one
\* was.  The table and the tree, updated by different code, agree on the rows.
RowTableAgrees == \A b \in Bank : rowtable[b].row = open[b]

Begun(n) == {i \in DOMAIN queue[n] : ~queue[n][i].is_first_command}

\* update_serving_requests asserts that the count never falls below zero: it is
\* the number of requests whose first command was issued and whose data is not
\* served yet, although forwarded reads complete without ever being counted.
ServingExact ==
  cur_serving_requests =
    Cardinality(Begun("read")) + Cardinality(Begun("write")) + Cardinality(Begun("act"))
    + Cardinality({i \in DOMAIN pending : ~pending[i].forwarded})

\* Controller.h: "shortcut for read requests, if a write to same addr exists;
\* necessary for coherence".  A read never gets its data from a bank before a
\* write to its address that it arrived behind, whatever queue that was in.
ReadsSeeWrites == \A i \in DOMAIN pending : pending[i].behind => pending[i].forwarded

\* refresh_target asserts that the queue takes the request: a refresh is done
\* before the next one is due, although reads and writes keep it waiting.
RefreshesKeepUp == Len(queue["other"]) <= 1

\* No core waits for ever with its window full because of the requests of the
\* others, of refreshes or of writes, whatever the policy: a core that waits for
\* one read at a time gets each of them.
Served == \A c \in Core : (WaitingFor(c) > 0) ~> (WaitingFor(c) < MaxReads[c])
=============================================================================

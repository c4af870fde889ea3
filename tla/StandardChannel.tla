-------------------------- MODULE StandardChannel --------------------------
(***************************************************************************)
(* One rank of a channel of labs/lab3 under any of its standards           *)
(* (Standards.tla), with the row table of the controller beside it: the    *)
(* walks down the tree of src/DRAM.h, the address of a command             *)
(* (src/Controller.cpp), the row table, the row policies and the upgrade   *)
(* to an auto-precharge (src/Scheduler.h, src/Controller.h).               *)
(*                                                                         *)
(* Which request comes next is up to the scheduler: here, any.  Time is    *)
(* not modelled, but the delay that init_timing puts between two commands  *)
(* is (StandardTimings.tla).                                               *)
(***************************************************************************)
EXTENDS Standards, StandardTimings

CONSTANT Standards  \* those a run chooses from

ASSUME ChannelAssumption == Standards \subseteq Standard

VARIABLES
  std,    \* never changed
  tree,   \* the nodes of the rank
  table   \* RowTable::table: the row of each bank or subarray, None without an entry

vars == <<std, tree, table>>

Address == [bank : Bank, sa : SubArray, row : Row]
WholeRank == [bank |-> None, sa |-> None, row |-> None]
GroupOf(a) == <<a.bank, IF std \in Flat THEN 0 ELSE a.sa>>

\* the addresses of a request
Addresses(type) ==
  CASE type \in Access -> {a \in Address : std \in Flat => a.sa = 0}
    [] type = "REFRESH" /\ spec(std).translate[type] = "REFPB" ->
         {[a EXCEPT !.row = None] : a \in Address}
    [] OTHER -> {WholeRank}
-----------------------------------------------------------------------------
\* DRAM::decode: the first level of the address with a prerequisite names it
decode(cmd, t, a) ==
  LET atRank == prereq(std, "Rank", cmd, t, a)
      atBank == prereq(std, "Bank", cmd, t, a)
      atSubArray == prereq(std, "SubArray", cmd, t, a)
  IN CASE atRank # "MAX" -> atRank
       [] atRank = "MAX" /\ a.bank = None -> cmd
       [] atRank = "MAX" /\ a.bank # None ->
            IF atBank # "MAX" THEN atBank
            ELSE IF std \in Flat \/ atSubArray = "MAX" THEN cmd ELSE atSubArray

\* DRAM::update_state: every level down to the scope of the command
update_state(cmd, t, a) ==
  LET atRank == lambda(std, "Rank", cmd, t, a)
      atBank == lambda(std, "Bank", cmd, atRank, a)
  IN IF cmd \in spec(std).rank THEN atRank
     ELSE IF cmd \in spec(std).bank \/ std \in Flat THEN atBank
     ELSE lambda(std, "SubArray", cmd, atBank, a)

\* DRAM::check_row_hit, check_row_open: of an access.  ALDRAM has no rowopen.
check_row_hit(t, a) ==
  CASE std = "DDR3" -> DDR3_rowhit(t, a) [] std = "DDR4" -> DDR4_rowhit(t, a)
    [] std = "LPDDR3" -> LPDDR3_rowhit(t, a) [] std = "LPDDR4" -> LPDDR4_rowhit(t, a)
    [] std = "GDDR5" -> GDDR5_rowhit(t, a) [] std = "HBM" -> HBM_rowhit(t, a)
    [] std = "WideIO" -> WideIO_rowhit(t, a) [] std = "WideIO2" -> WideIO2_rowhit(t, a)
    [] std = "PCM" -> PCM_rowhit(t, a) [] std = "STTMRAM" -> STTMRAM_rowhit(t, a)
    [] std = "ALDRAM" -> ALDRAM_rowhit(t, a) [] std = "TLDRAM" -> TLDRAM_rowhit(t, a)
    [] std \in {"SALP_1", "SALP_2", "MASA"} -> SALP_rowhit(t, a)
    [] std \in {"REFAB", "DSARP"} -> DSARP_rowhit(t, a)

check_row_open(t, a) ==
  CASE std = "DDR3" -> DDR3_rowopen(t, a) [] std = "DDR4" -> DDR4_rowopen(t, a)
    [] std = "LPDDR3" -> LPDDR3_rowopen(t, a) [] std = "LPDDR4" -> LPDDR4_rowopen(t, a)
    [] std = "GDDR5" -> GDDR5_rowopen(t, a) [] std = "HBM" -> HBM_rowopen(t, a)
    [] std = "WideIO" -> WideIO_rowopen(t, a) [] std = "WideIO2" -> WideIO2_rowopen(t, a)
    [] std = "PCM" -> PCM_rowopen(t, a) [] std = "STTMRAM" -> STTMRAM_rowopen(t, a)
    [] std = "ALDRAM" -> FALSE [] std = "TLDRAM" -> TLDRAM_rowopen(t, a)
    [] std \in {"SALP_1", "SALP_2", "MASA"} -> SALP_rowopen(std, t, a)
    [] std \in {"REFAB", "DSARP"} -> DSARP_rowopen(t, a)

\* get_offending_subarray: the first other subarray that is open, or number 0
Offending(t, a) ==
  LET others == {s \in SubArray \ {a.sa} : t.sa[a.bank][s].state = "Opened"}
  IN [a EXCEPT !.row = None,
               !.sa = IF others = {} THEN 0 ELSE CHOOSE s \in others : \A r \in others : s <= r]

get_addr_vec(cmd, t, a) == IF cmd = "PRE_OTHER" THEN Offending(t, a) ELSE a

\* get_first_cmd and the address it is issued to
FirstCommand(type, t, a) == decode(spec(std).translate[type], t, a)
-----------------------------------------------------------------------------
\* RowTable::update.  An entry that is there is not replaced.  A command that
\* accesses and closes, RDA or WRA, removes the entry of its row group.
RemovedOwn(cmd, a) ==   \* mutant: whatever the command closes, one entry goes
  IF cmd \in spec(std).closing THEN {GroupOf(a)} ELSE {}
Removed(cmd, a) ==
  CASE cmd \notin spec(std).closing -> {}
    [] cmd \in spec(std).closing /\ cmd \in spec(std).rank -> Group(std)
    [] cmd \in spec(std).closing /\ cmd \in spec(std).bank -> {g \in Group(std) : g[1] = a.bank}
    [] OTHER -> {GroupOf(a)}

UpdateRowTable(cmd, a) ==
  table' = [g \in Group(std) |->
    IF g \in Removed(cmd, a) THEN None
    ELSE IF cmd \in spec(std).opening /\ g = GroupOf(a) /\ table[g] = None THEN a.row ELSE table[g]]

\* issue_cmd: channel->update and rowtable->update
issue_cmd(cmd, a) ==
  /\ tree' = update_state(cmd, tree, a)
  /\ UpdateRowTable(cmd, a)
  /\ UNCHANGED std

\* a command for a request
Serve(type, a) ==
  LET cmd == FirstCommand(type, tree, a)
  IN issue_cmd(cmd, get_addr_vec(cmd, tree, a))

\* cmd_issue_autoprecharge, under the row policy ClosedAP: the last request of its
\* queue to the open row closes it.  TLDRAM has no such command.
AutoPrecharge(type, a) ==
  LET cmd == FirstCommand(type, tree, a)
  IN /\ std # "TLDRAM" /\ cmd \in ReadWrite
     /\ issue_cmd(IF cmd = "RD" THEN "RDA" ELSE "WRA", a)

\* get_victim, under the row policies Closed, ClosedAP and Timeout
PrechargeVictim(g) ==
  /\ table[g] # None
  /\ issue_cmd("PRE", [bank |-> g[1], sa |-> g[2], row |-> None])

Init ==
  /\ std \in Standards
  /\ tree = [rank |-> "PowerUp", bank |-> [b \in Bank |-> ClosedNode],
             sa |-> [b \in Bank |-> [s \in SubArray |-> ClosedNode]]]
  /\ table = [g \in Group(std) |-> None]

Next ==
  \/ \E type \in Request : \E a \in Addresses(type) : Serve(type, a)
  \/ \E type \in Access : \E a \in Addresses(type) : AutoPrecharge(type, a)
  \/ \E g \in Group(std) : PrechargeVictim(g)

Spec == Init /\ [][Next]_vars
-----------------------------------------------------------------------------
\* the open rows of a bank or subarray, as the tree has them
RowsOf(g) ==
  IF std \in Flat THEN tree.bank[g[1]].rows
  ELSE tree.sa[g[1]][g[2]].rows

\* What a hit is called is a hit: a request whose own command is next is a row hit,
\* and one that is a row hit needs no row opened or closed in its bank.
HitsAgree ==
  tree.rank = "PowerUp" =>
    \A type \in Access : \A a \in Addresses(type) :
      LET cmd == FirstCommand(type, tree, a)
      IN /\ cmd \in spec(std).accessing => check_row_hit(tree, a)
         /\ check_row_hit(tree, a) => cmd \notin spec(std).opening \cup (spec(std).closing \ {"PRE_OTHER"})
         /\ check_row_hit(tree, a) /\ std # "ALDRAM" => check_row_open(tree, a)

\* RowTable::update asserts that a row that is accessed is the one in the table and
\* that a closing command removes an entry.  The tree and the table, updated by
\* different code, agree: each standard keeps one row open per bank or subarray,
\* and what closes a row in the one closes it in the other, so that hits are hits.
TableAgreesWithTree ==
  /\ \A g \in Group(std) : RowsOf(g) = IF table[g] = None THEN {} ELSE {table[g]}
  /\ HitsAgree

\* The states of banks and subarrays say which rows are open, and as many as the
\* standard allows: in SALP-1 and DSARP one subarray of a bank, in MASA any, one of
\* which at most is selected.
SubArraysAsDesigned ==
  \A b \in Bank :
    LET open == {s \in SubArray : tree.sa[b][s].state # "Closed"}
        selected == {s \in SubArray : tree.sa[b][s].state = "Selected"}
    IN /\ std \in Flat => (tree.bank[b].state = "Opened" <=> tree.bank[b].rows # {})
       /\ \A s \in SubArray : s \in open <=> tree.sa[b][s].rows # {}
       /\ std = "SALP_1" => Cardinality(open) <= 1 /\ (tree.bank[b].state = "Opened" <=> open # {})
       /\ std \in {"REFAB", "DSARP"} => tree.bank[b].rows = open /\ Cardinality(open) <= 1
       /\ Cardinality(selected) <= 1

\* the state that a command of a request leads to
After(cmd, t, a) == update_state(cmd, t, get_addr_vec(cmd, t, a))
NextCommand(type, a, s) ==
  LET cmd == FirstCommand(type, s.t, a)
  IN IF s.done THEN s ELSE [t |-> After(cmd, s.t, a), done |-> cmd = spec(std).translate[type]]

\* Served alone, a request is done after a few commands: it never opens what it
\* must close again and closes what it has opened.  The longest way is that of
\* SALP-2: out of power-down, precharge, activate, precharge each other subarray.
MaxCommands == 3 + Cardinality(SubArray)
RequestsProgress ==
  \A type \in Request : \A a \in Addresses(type) :
    LET s[n \in 0 .. MaxCommands] ==
          IF n = 0 THEN [t |-> tree, done |-> FALSE] ELSE NextCommand(type, a, s[n - 1])
    IN s[MaxCommands].done

-----------------------------------------------------------------------------
\* update_timing and check: the node of the tree that a constraint is about is on
\* the way of both addresses, or it is a sibling of one that is.  Banks are in
\* groups of their own, there is one rank.
Path(level, a, b) ==
  CASE level \in {"Channel", "Rank"} -> TRUE
    [] level \in {"BankGroup", "Bank"} -> a.bank # None /\ a.bank = b.bank
    [] level = "SubArray" -> a.bank # None /\ a.bank = b.bank /\ a.sa = b.sa
Beside(level, a, b) ==
  CASE level = "Bank" -> b.bank # None /\ a.bank # b.bank
    [] level = "SubArray" -> a.bank # None /\ a.bank = b.bank /\ a.sa # b.sa
    [] OTHER -> FALSE

Checked(to) ==
  CASE to \in spec(std).rank -> {"Channel", "Rank"}
    [] to \in spec(std).bank -> {"Channel", "Rank", "BankGroup", "Bank"}
    [] OTHER -> {"Channel", "Rank", "BankGroup", "Bank", "SubArray"}

Timings == [s \in Standards |-> timing(s)]

\* the constraints that command from for a puts on command to for b
Delays(from, a, to, b) ==
  {r \in Timings[std] :
     /\ r.from = from /\ r.to = to /\ r.dist = 1 /\ r.level \in Checked(to)
     /\ IF r.sibling THEN Beside(r.level, a, b) ELSE Path(r.level, a, b)}

\* The tree says which command is next and the tables when: for each step from one
\* command of a request to its next, the tables have a constraint.  Not for what
\* SALP-2 does in other subarrays, not for PDX with PRE_OTHER and SASEL, which no
\* table has, and not out of a self-refresh, which SRE can begin with open rows.
NextIsTimed ==
  tree.rank # "SelfRefresh" =>
    \A type \in Request : \A a \in Addresses(type) :
      LET cmd == FirstCommand(type, tree, a)
          to == get_addr_vec(cmd, tree, a)
          t == update_state(cmd, tree, to)
          next == FirstCommand(type, t, a)
      IN \/ cmd = spec(std).translate[type]
         \/ std = "SALP_2" /\ "PRE_OTHER" \in {cmd, next}
         \/ cmd = "PDX" /\ next \in {"PRE_OTHER", "SASEL"}
         \/ Delays(cmd, to, next, get_addr_vec(next, t, a)) # {}

\* Controller<TLDRAM>::tick finds a read ready by the next command of RD and issues
\* that of MIG, and issue_cmd asserts that it is ready: every constraint into the
\* command it issues is one into the command it has checked.
MigrationIsReady ==
  std = "TLDRAM" =>
    \A a \in Addresses("READ") :
      LET found == decode("RD", tree, a)
          issued == decode("MIG", tree, a)
      IN \A r \in Timings[std] :
           r.to = issued => \E q \in Timings[std] : q.to = found /\ q.val >= r.val
                              /\ [q EXCEPT !.to = issued, !.val = r.val] = r

\* The data of an access is on the bus nBL cycles, from latency on.  Two accesses to
\* other banks of the same rank, or to two ranks, never have data on it at once.
\* GDDR5 and WideIO have one rank, HBM has no constraints between ranks.
DataBusExclusive ==
  LET s == speed(std)
      dqsck == IF "nDQSCK" \in DOMAIN s THEN s.nDQSCK ELSE 0
      latency(c) == IF c = "WR" THEN s.nCWL ELSE s.nCL + dqsck
      Exclusive(rows) ==
        \A from, to \in spec(std).accessing \cap {"RD", "WR", "MIG"} :
          \E r \in rows : r.from = from /\ r.to = to /\ r.val + latency(to) >= latency(from) + s.nBL
      shared == {r \in Timings[std] : r.level = "Channel"}
      Ranks(sibling) == {r \in Timings[std] : r.level = "Rank" /\ r.sibling = sibling}
  IN /\ Exclusive(shared \cup Ranks(FALSE))
     /\ std \in {"GDDR5", "WideIO", "HBM"} \/ Exclusive(shared \cup Ranks(TRUE))
=============================================================================

----------------------------- MODULE Standards -----------------------------
(***************************************************************************)
(* The DRAM standards of labs/lab3 (src/DDR3.cpp, ..., src/DSARP.cpp): for *)
(* each the commands it has, the command that must come before another one *)
(* (init_prereq), what counts as a row hit (init_rowhit, init_rowopen) and *)
(* what a command does to the tree (init_lambda); and the walks down the   *)
(* tree of src/DRAM.h that call them.                                      *)
(*                                                                         *)
(* The tree is one rank: its power state, and a node per bank and subarray *)
(* with its state and its row_state.  Nodes of a bank group have neither.  *)
(* An address is [bank, sa, row], None for the parts a request leaves out. *)
(* The functions of a standard get the address where the code gets a node  *)
(* and the id of its child.                                                *)
(*                                                                         *)
(* Names that differ are those of DDR3: PREA is also PRA and PRER, REFPB   *)
(* also REFSB, PDE, SRE and SRX also PD, SREF and SREFX.                   *)
(***************************************************************************)
EXTENDS Integers, FiniteSets

CONSTANTS
  Bank, SubArray, Row,  \* the numbers 0 .. n-1
  segment_ratio         \* of TLDRAM: every segment_ratio-th row is a fast one

None == -1

ASSUME StandardsAssumption ==
  /\ Bank \subseteq Nat /\ SubArray \subseteq Nat /\ Row \subseteq Nat
  /\ 0 \in SubArray /\ IsFiniteSet(SubArray) /\ segment_ratio \in Nat \ {0}

Flat == {"DDR3", "DDR4", "LPDDR3", "LPDDR4", "GDDR5", "HBM", "WideIO", "WideIO2",
         "PCM", "STTMRAM", "ALDRAM", "TLDRAM"}
WithSubArrays == {"SALP_1", "SALP_2", "MASA", "REFAB", "DSARP"}
Standard == Flat \cup WithSubArrays

Access == {"READ", "WRITE"}
Request == Access \cup {"REFRESH", "POWERDOWN", "SELFREFRESH"}
Group(std) == Bank \X (IF std \in Flat THEN {0} ELSE SubArray)  \* of RowTable: bank or subarray

Node(states) == [state : states, rows : SUBSET (Row \cup SubArray)]
Tree == [rank : {"PowerUp", "ActPowerDown", "PrePowerDown", "SelfRefresh"},
         bank : [Bank -> Node({"Opened", "Closed"})],
         sa : [Bank -> [SubArray -> Node({"Opened", "Closed", "Selected"})]]]
-----------------------------------------------------------------------------
\* The commands of a standard: those that end at the rank and at the bank (all
\* others go all the way down the tree), what they do to rows, and translate.
DDR3_spec == [
  levels |-> <<"Channel", "Rank", "Bank">>,
  rank |-> {"PREA", "REF", "PDE", "PDX", "SRE", "SRX"}, bank |-> {"PRE"},
  opening |-> {"ACT"}, accessing |-> {"RD", "WR", "RDA", "WRA"},
  closing |-> {"RDA", "WRA", "PRE", "PREA"}, refreshing |-> {"REF"},
  translate |-> [READ |-> "RD", WRITE |-> "WR", REFRESH |-> "REF",
                 POWERDOWN |-> "PDE", SELFREFRESH |-> "SRE"]]

Grouped(spec) == [spec EXCEPT !.levels = <<"Channel", "Rank", "BankGroup", "Bank">>]
PerBank(spec) == [spec EXCEPT !.bank = @ \cup {"REFPB"}, !.refreshing = @ \cup {"REFPB"}]

DDR4_spec == Grouped(DDR3_spec)
GDDR5_spec == Grouped(DDR3_spec)
HBM_spec == PerBank(Grouped(DDR3_spec))
LPDDR3_spec == PerBank(DDR3_spec)
LPDDR4_spec == PerBank(DDR3_spec)
WideIO_spec == DDR3_spec
WideIO2_spec == PerBank(DDR3_spec)
PCM_spec == DDR3_spec
STTMRAM_spec == DDR3_spec
ALDRAM_spec == DDR3_spec

\* a row closes at the subarray
SALP_spec == [DDR3_spec EXCEPT
  !.levels = <<"Channel", "Rank", "Bank", "SubArray">>, !.bank = {},
  !.closing = @ \cup {"PRE_OTHER"}]

\* no auto-precharge; fast rows (F) and rows to be migrated (M) have commands of
\* their own.  Controller<TLDRAM>::tick makes a migration of every read.
TLDRAM_spec == [DDR3_spec EXCEPT
  !.rank = @ \cup {"PREAF", "PREAM"}, !.bank = @ \cup {"PREF", "PREM"},
  !.opening = {"ACT", "ACTF", "ACTM"}, !.accessing = {"RD", "WR", "MIG"},
  !.closing = {"PRE", "PREF", "PREM", "PREA", "PREAF", "PREAM"},
  !.translate["READ"] = "MIG"]

\* every type but REFAB refreshes one bank at a time
DSARP_spec(type) == [PerBank(DDR3_spec) EXCEPT
  !.levels = <<"Channel", "Rank", "Bank", "SubArray">>,
  !.translate["REFRESH"] = IF type = "REFAB" THEN "REF" ELSE "REFPB"]

spec(std) ==
  CASE std = "DDR3" -> DDR3_spec [] std = "DDR4" -> DDR4_spec [] std = "GDDR5" -> GDDR5_spec
    [] std = "HBM" -> HBM_spec [] std = "LPDDR3" -> LPDDR3_spec [] std = "LPDDR4" -> LPDDR4_spec
    [] std = "WideIO" -> WideIO_spec [] std = "WideIO2" -> WideIO2_spec [] std = "PCM" -> PCM_spec
    [] std = "STTMRAM" -> STTMRAM_spec [] std = "ALDRAM" -> ALDRAM_spec [] std = "TLDRAM" -> TLDRAM_spec
    [] std \in {"SALP_1", "SALP_2", "MASA"} -> SALP_spec
    [] std \in {"REFAB", "DSARP"} -> DSARP_spec(std)
-----------------------------------------------------------------------------
\* What the prerequisites are made of.  "MAX": none at this level.
MemoryAwake(t) ==
  CASE t.rank = "PowerUp" -> "MAX" [] t.rank = "SelfRefresh" -> "SRX" [] OTHER -> "PDX"
ToPowerDown(t) == IF t.rank = "SelfRefresh" THEN "SRX" ELSE "PDE"
ToSelfRefresh(t) == IF t.rank \in {"ActPowerDown", "PrePowerDown"} THEN "PDX" ELSE "SRE"

\* the row with this id is to be open in a node before cmd
RowOpen(node, id, cmd) ==
  IF node.state = "Closed" THEN "ACT" ELSE IF id \in node.rows THEN cmd ELSE "PRE"

BanksClosed(t) == \A b \in Bank : t.bank[b].state = "Closed"
SubArraysClosed(t) == \A b \in Bank, s \in SubArray : t.sa[b][s].state = "Closed"

ReadWrite == {"RD", "WR"}

DDR3_prereq(level, cmd, t, a) ==
  CASE level = "Rank" /\ cmd \in ReadWrite -> MemoryAwake(t)
    [] level = "Bank" /\ cmd \in ReadWrite -> RowOpen(t.bank[a.bank], a.row, cmd)
    [] level = "Rank" /\ cmd = "REF" -> IF BanksClosed(t) THEN "REF" ELSE "PREA"
    [] level = "Rank" /\ cmd = "PDE" -> ToPowerDown(t)
    [] level = "Rank" /\ cmd = "SRE" -> ToSelfRefresh(t)
    [] OTHER -> "MAX"

\* a bank is closed before it is refreshed
PerBankRefresh(t, a) == IF t.bank[a.bank].state = "Closed" THEN "REFPB" ELSE "PRE"

DDR4_prereq(level, cmd, t, a) == DDR3_prereq(level, cmd, t, a)
GDDR5_prereq(level, cmd, t, a) == DDR3_prereq(level, cmd, t, a)
LPDDR3_prereq(level, cmd, t, a) ==
  IF level = "Bank" /\ cmd = "REFPB" THEN PerBankRefresh(t, a) ELSE DDR3_prereq(level, cmd, t, a)
HBM_prereq(level, cmd, t, a) == LPDDR3_prereq(level, cmd, t, a)
LPDDR4_prereq(level, cmd, t, a) == DDR3_prereq(level, cmd, t, a)
WideIO_prereq(level, cmd, t, a) == DDR3_prereq(level, cmd, t, a)
WideIO2_prereq(level, cmd, t, a) == DDR3_prereq(level, cmd, t, a)
PCM_prereq(level, cmd, t, a) == DDR3_prereq(level, cmd, t, a)
STTMRAM_prereq(level, cmd, t, a) == DDR3_prereq(level, cmd, t, a)
ALDRAM_prereq(level, cmd, t, a) == DDR3_prereq(level, cmd, t, a)

\* SALP_1: one row of a bank is open
SALP_1_prereq(level, cmd, t, a) ==
  LET sa == t.sa[a.bank][a.sa]
  IN CASE level = "Bank" /\ cmd \in ReadWrite ->
            IF t.bank[a.bank].state = "Closed" THEN "ACT" ELSE "MAX"
       [] level = "SubArray" /\ cmd \in ReadWrite ->
            IF a.row \in sa.rows THEN cmd ELSE IF sa.rows # {} THEN "PRE" ELSE "PRE_OTHER"
       [] level = "Rank" /\ cmd = "REF" -> IF BanksClosed(t) THEN "REF" ELSE "PREA"
       [] OTHER -> "MAX"

\* SALP_2: rows of several subarrays are, but only one while it is accessed
SALP_2_PrechargesItself(level, cmd, t, a) ==   \* mutant: PRE for PRE_OTHER
  IF level = "SubArray" /\ cmd \in ReadWrite /\ \E s \in SubArray \ {a.sa} : t.sa[a.bank][s].state = "Opened"
  THEN RowOpen(t.sa[a.bank][a.sa], a.row, "PRE")
  ELSE IF level = "SubArray" /\ cmd \in ReadWrite THEN RowOpen(t.sa[a.bank][a.sa], a.row, cmd)
  ELSE IF level = "Rank" /\ cmd = "REF" THEN IF SubArraysClosed(t) THEN "REF" ELSE "PREA" ELSE "MAX"
SALP_2_prereq(level, cmd, t, a) ==
  CASE level = "SubArray" /\ cmd \in ReadWrite ->
         LET first == RowOpen(t.sa[a.bank][a.sa], a.row, cmd)
         IN IF first = cmd /\ \E s \in SubArray \ {a.sa} : t.sa[a.bank][s].state = "Opened"
            THEN "PRE_OTHER" ELSE first
    [] level = "Rank" /\ cmd = "REF" -> IF SubArraysClosed(t) THEN "REF" ELSE "PREA"
    [] OTHER -> "MAX"

\* MASA: the one that is accessed is selected
MASA_prereq(level, cmd, t, a) ==
  CASE level = "SubArray" /\ cmd \in ReadWrite ->
         LET first == RowOpen(t.sa[a.bank][a.sa], a.row, cmd)
         IN IF first = cmd /\ t.sa[a.bank][a.sa].state = "Opened" THEN "SASEL" ELSE first
    [] level = "Rank" /\ cmd = "REF" -> IF SubArraysClosed(t) THEN "REF" ELSE "PREA"
    [] OTHER -> "MAX"

SALP_prereq(type, level, cmd, t, a) ==
  CASE level = "Rank" /\ cmd \in ReadWrite -> MemoryAwake(t)
    [] level = "Rank" /\ cmd = "PDE" -> ToPowerDown(t)
    [] level = "Rank" /\ cmd = "SRE" -> ToSelfRefresh(t)
    [] OTHER -> CASE type = "SALP_1" -> SALP_1_prereq(level, cmd, t, a)
                  [] type = "SALP_2" -> SALP_2_prereq(level, cmd, t, a)
                  [] type = "MASA" -> MASA_prereq(level, cmd, t, a)

Fast(id) == id # None /\ id % segment_ratio = 0

\* The row or, for REF, the bank that the request names chooses between the
\* commands of slow and fast rows: for a refresh it is None.
TLDRAM_prereq(level, cmd, t, a) ==
  LET first == RowOpen(t.bank[a.bank], a.row, cmd)
      slow == [c \in {"ACT", "PRE", cmd} |-> c]
      fast == [slow EXCEPT !["ACT"] = "ACTF", !["PRE"] = "PREF"]
      migrated == [slow EXCEPT !["ACT"] = "ACTM", !["PRE"] = "PREM"]
  IN CASE level = "Rank" /\ cmd = "MIG" -> MemoryAwake(t)
       [] level = "Bank" /\ cmd = "MIG" -> migrated[first]
       [] level = "Bank" /\ cmd \in ReadWrite -> IF Fast(a.row) THEN fast[first] ELSE slow[first]
       [] level = "Rank" /\ cmd = "REF" ->
            IF BanksClosed(t) THEN "REF" ELSE IF Fast(a.bank) THEN "PREAF" ELSE "PREA"
       [] OTHER -> DDR3_prereq(level, cmd, t, a)

\* DSARP: in row_state a bank keeps the subarray that is open
DSARP_prereq(level, cmd, t, a) ==
  CASE level = "Bank" /\ cmd \in ReadWrite ->
         LET first == RowOpen(t.bank[a.bank], a.sa, cmd) IN IF first = cmd THEN "MAX" ELSE first
    [] level = "SubArray" /\ cmd \in ReadWrite -> RowOpen(t.sa[a.bank][a.sa], a.row, cmd)
    [] level = "Bank" /\ cmd = "REFPB" -> PerBankRefresh(t, a)
    [] OTHER -> DDR3_prereq(level, cmd, t, a)

prereq(std, level, cmd, t, a) ==
  CASE std = "DDR3" -> DDR3_prereq(level, cmd, t, a)
    [] std = "DDR4" -> DDR4_prereq(level, cmd, t, a)
    [] std = "LPDDR3" -> LPDDR3_prereq(level, cmd, t, a)
    [] std = "LPDDR4" -> LPDDR4_prereq(level, cmd, t, a)
    [] std = "GDDR5" -> GDDR5_prereq(level, cmd, t, a)
    [] std = "HBM" -> HBM_prereq(level, cmd, t, a)
    [] std = "WideIO" -> WideIO_prereq(level, cmd, t, a)
    [] std = "WideIO2" -> WideIO2_prereq(level, cmd, t, a)
    [] std = "PCM" -> PCM_prereq(level, cmd, t, a)
    [] std = "STTMRAM" -> STTMRAM_prereq(level, cmd, t, a)
    [] std = "ALDRAM" -> ALDRAM_prereq(level, cmd, t, a)
    [] std = "TLDRAM" -> TLDRAM_prereq(level, cmd, t, a)
    [] std \in {"SALP_1", "SALP_2", "MASA"} -> SALP_prereq(std, level, cmd, t, a)
    [] std \in {"REFAB", "DSARP"} -> DSARP_prereq(level, cmd, t, a)
-----------------------------------------------------------------------------
\* Row hits and open rows: a bank, or a subarray, that an access finds open
DDR3_rowhit(t, a) == t.bank[a.bank].state = "Opened" /\ a.row \in t.bank[a.bank].rows
DDR4_rowhit(t, a) == DDR3_rowhit(t, a)
LPDDR3_rowhit(t, a) == DDR3_rowhit(t, a)
LPDDR4_rowhit(t, a) == DDR3_rowhit(t, a)
GDDR5_rowhit(t, a) == DDR3_rowhit(t, a)
HBM_rowhit(t, a) == DDR3_rowhit(t, a)
WideIO_rowhit(t, a) == DDR3_rowhit(t, a)
WideIO2_rowhit(t, a) == DDR3_rowhit(t, a)
PCM_rowhit(t, a) == DDR3_rowhit(t, a)
STTMRAM_rowhit(t, a) == DDR3_rowhit(t, a)
ALDRAM_rowhit(t, a) == DDR3_rowhit(t, a)
TLDRAM_rowhit(t, a) == DDR3_rowhit(t, a)
SALP_rowhit(t, a) == t.sa[a.bank][a.sa].state # "Closed" /\ a.row \in t.sa[a.bank][a.sa].rows
DSARP_rowhit(t, a) == t.sa[a.bank][a.sa].state = "Opened" /\ a.row \in t.sa[a.bank][a.sa].rows

DDR3_rowopen(t, a) == t.bank[a.bank].state = "Opened"
DDR4_rowopen(t, a) == DDR3_rowopen(t, a)
LPDDR3_rowopen(t, a) == DDR3_rowopen(t, a)
LPDDR4_rowopen(t, a) == DDR3_rowopen(t, a)
GDDR5_rowopen(t, a) == DDR3_rowopen(t, a)
HBM_rowopen(t, a) == DDR3_rowopen(t, a)
WideIO_rowopen(t, a) == DDR3_rowopen(t, a)
WideIO2_rowopen(t, a) == DDR3_rowopen(t, a)
PCM_rowopen(t, a) == DDR3_rowopen(t, a)
STTMRAM_rowopen(t, a) == DDR3_rowopen(t, a)
TLDRAM_rowopen(t, a) == DDR3_rowopen(t, a)
SALP_rowopen(type, t, a) ==
  IF type = "SALP_1" THEN t.bank[a.bank].state = "Opened" ELSE t.sa[a.bank][a.sa].state # "Closed"
DSARP_rowopen(t, a) == t.sa[a.bank][a.sa].state = "Opened"
-----------------------------------------------------------------------------
\* What the effects of the commands are made of
ClosedNode == [state |-> "Closed", rows |-> {}]
OpenedNode(node, id) == [state |-> "Opened", rows |-> node.rows \cup {id}]
CloseBanks(t, banks) == [t EXCEPT !.bank = [b \in Bank |-> IF b \in banks THEN ClosedNode ELSE @[b]]]
CloseSubArrays(t, groups) ==
  [t EXCEPT !.sa = [b \in Bank |-> [s \in SubArray |-> IF <<b, s>> \in groups THEN ClosedNode ELSE @[b][s]]]]

Power(t, state) == [t EXCEPT !.rank = state]
PowerDown(t, closed) == Power(t, IF closed THEN "PrePowerDown" ELSE "ActPowerDown")

\* the commands that change the power state alone
PowerCommand(cmd, t, closed) ==
  CASE cmd = "PDE" -> PowerDown(t, closed)
    [] cmd \in {"PDX", "SRX"} -> Power(t, "PowerUp")
    [] cmd = "SRE" -> Power(t, "SelfRefresh")
    [] OTHER -> t

DDR3_lambda(level, cmd, t, a) ==
  CASE level = "Bank" /\ cmd = "ACT" -> [t EXCEPT !.bank[a.bank] = OpenedNode(@, a.row)]
    [] level = "Bank" /\ cmd \in {"PRE", "RDA", "WRA"} -> CloseBanks(t, {a.bank})
    [] level = "Rank" /\ cmd = "PREA" -> CloseBanks(t, Bank)
    [] level = "Rank" /\ cmd # "PREA" -> PowerCommand(cmd, t, BanksClosed(t))
    [] OTHER -> t

DDR4_lambda(level, cmd, t, a) == DDR3_lambda(level, cmd, t, a)
LPDDR3_lambda(level, cmd, t, a) == DDR3_lambda(level, cmd, t, a)
LPDDR4_lambda(level, cmd, t, a) == DDR3_lambda(level, cmd, t, a)
GDDR5_lambda(level, cmd, t, a) == DDR3_lambda(level, cmd, t, a)
HBM_lambda(level, cmd, t, a) == DDR3_lambda(level, cmd, t, a)
WideIO_lambda(level, cmd, t, a) == DDR3_lambda(level, cmd, t, a)
WideIO2_lambda(level, cmd, t, a) == DDR3_lambda(level, cmd, t, a)
PCM_lambda(level, cmd, t, a) == DDR3_lambda(level, cmd, t, a)
STTMRAM_lambda(level, cmd, t, a) == DDR3_lambda(level, cmd, t, a)
ALDRAM_lambda(level, cmd, t, a) == DDR3_lambda(level, cmd, t, a)

\* a precharge of one subarray closes the bank
SALP_1_lambda(level, cmd, t, a) ==
  CASE level = "Bank" /\ cmd = "ACT" -> [t EXCEPT !.bank[a.bank].state = "Opened"]
    [] level = "SubArray" /\ cmd = "ACT" -> [t EXCEPT !.sa[a.bank][a.sa] = OpenedNode(@, a.row)]
    [] level = "Bank" /\ cmd \in {"PRE", "PRE_OTHER", "RDA", "WRA"} ->
         CloseSubArrays([t EXCEPT !.bank[a.bank].state = "Closed"], {<<a.bank, a.sa>>})
    [] level = "Rank" /\ cmd = "PREA" ->
         CloseSubArrays([t EXCEPT !.bank = [b \in Bank |-> [@[b] EXCEPT !.state = "Closed"]]], Bank \X SubArray)
    [] level = "Rank" /\ cmd # "PREA" -> PowerCommand(cmd, t, BanksClosed(t))
    [] OTHER -> t

SALP_2_lambda(level, cmd, t, a) ==
  CASE level = "SubArray" /\ cmd = "ACT" -> [t EXCEPT !.sa[a.bank][a.sa] = OpenedNode(@, a.row)]
    [] level = "SubArray" /\ cmd \in {"PRE", "PRE_OTHER", "RDA", "WRA"} -> CloseSubArrays(t, {<<a.bank, a.sa>>})
    [] level = "Rank" /\ cmd = "PREA" -> CloseSubArrays(t, Bank \X SubArray)
    [] level = "Rank" /\ cmd # "PREA" -> PowerCommand(cmd, t, SubArraysClosed(t))
    [] OTHER -> t

SelectToo(t, a) == [t EXCEPT !.sa[a.bank][a.sa].state = "Selected"]   \* mutant: deselects none
\* at most one other subarray is deselected: the loops stop at the first
Select(t, a) ==
  LET selected == {s \in SubArray \ {a.sa} : t.sa[a.bank][s].state = "Selected"}
      first == CHOOSE s \in selected : \A r \in selected : s <= r
      alone == IF selected = {} THEN t ELSE [t EXCEPT !.sa[a.bank][first].state = "Opened"]
  IN [alone EXCEPT !.sa[a.bank][a.sa].state = "Selected"]

MASA_lambda(level, cmd, t, a) ==
  CASE level = "SubArray" /\ cmd = "ACT" ->
         Select([t EXCEPT !.sa[a.bank][a.sa] = OpenedNode(@, a.row)], a)
    [] level = "SubArray" /\ cmd = "SASEL" -> Select(t, a)
    [] level = "SubArray" /\ cmd \in {"PRE", "RDA", "WRA"} -> CloseSubArrays(t, {<<a.bank, a.sa>>})
    [] level = "Rank" /\ cmd = "PREA" -> CloseSubArrays(t, Bank \X SubArray)
    [] level = "Rank" /\ cmd # "PREA" -> PowerCommand(cmd, t, SubArraysClosed(t))
    [] OTHER -> t

TLDRAM_lambda(level, cmd, t, a) ==
  CASE level = "Bank" /\ cmd \in {"ACT", "ACTF", "ACTM"} -> [t EXCEPT !.bank[a.bank] = OpenedNode(@, a.row)]
    [] level = "Bank" /\ cmd \in {"PRE", "PREF", "PREM"} -> CloseBanks(t, {a.bank})
    [] level = "Rank" /\ cmd \in {"PREA", "PREAF", "PREAM"} -> CloseBanks(t, Bank)
    [] level = "Rank" /\ cmd \notin {"PREA", "PREAF", "PREAM"} -> PowerCommand(cmd, t, BanksClosed(t))
    [] OTHER -> t

\* REFPB clears the bank's row_state, after the assertion that it is closed
DSARP_lambda(level, cmd, t, a) ==
  CASE level = "Rank" /\ cmd = "PREA" -> CloseSubArrays(CloseBanks(t, Bank), Bank \X SubArray)
    [] level = "Bank" /\ cmd = "ACT" -> [t EXCEPT !.bank[a.bank] = OpenedNode(@, a.sa)]
    [] level = "SubArray" /\ cmd = "ACT" -> [t EXCEPT !.sa[a.bank][a.sa] = OpenedNode(@, a.row)]
    [] level = "Bank" /\ cmd = "PRE" -> CloseSubArrays(CloseBanks(t, {a.bank}), {a.bank} \X SubArray)
    [] level = "Bank" /\ cmd \in {"RDA", "WRA"} -> CloseBanks(t, {a.bank})
    [] level = "Bank" /\ cmd = "REFPB" -> [t EXCEPT !.bank[a.bank].rows = {}]
    [] level = "SubArray" /\ cmd \in {"RDA", "WRA"} -> CloseSubArrays(t, {<<a.bank, a.sa>>})
    [] level = "Rank" /\ cmd # "PREA" -> PowerCommand(cmd, t, SubArraysClosed(t))
    [] OTHER -> t

lambda(std, level, cmd, t, a) ==
  CASE std = "DDR3" -> DDR3_lambda(level, cmd, t, a)
    [] std = "DDR4" -> DDR4_lambda(level, cmd, t, a)
    [] std = "LPDDR3" -> LPDDR3_lambda(level, cmd, t, a)
    [] std = "LPDDR4" -> LPDDR4_lambda(level, cmd, t, a)
    [] std = "GDDR5" -> GDDR5_lambda(level, cmd, t, a)
    [] std = "HBM" -> HBM_lambda(level, cmd, t, a)
    [] std = "WideIO" -> WideIO_lambda(level, cmd, t, a)
    [] std = "WideIO2" -> WideIO2_lambda(level, cmd, t, a)
    [] std = "PCM" -> PCM_lambda(level, cmd, t, a)
    [] std = "STTMRAM" -> STTMRAM_lambda(level, cmd, t, a)
    [] std = "ALDRAM" -> ALDRAM_lambda(level, cmd, t, a)
    [] std = "TLDRAM" -> TLDRAM_lambda(level, cmd, t, a)
    [] std = "SALP_1" -> SALP_1_lambda(level, cmd, t, a)
    [] std = "SALP_2" -> SALP_2_lambda(level, cmd, t, a)
    [] std = "MASA" -> MASA_lambda(level, cmd, t, a)
    [] std \in {"REFAB", "DSARP"} -> DSARP_lambda(level, cmd, t, a)
=============================================================================

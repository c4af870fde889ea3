------------------------ MODULE StandardChannelProofs ------------------------
(***************************************************************************)
(* The rows that the tree of a channel has open are those of the row       *)
(* table, as many as the design of the standard allows, for all standards  *)
(* of labs/lab3 and any number of banks, subarrays and rows; TLDRAM's      *)
(* migrations are ready when their reads are; and every request is done    *)
(* after a bounded number of commands.                                     *)
(*                                                                         *)
(* The inductive invariant has a part for each family of standards.  Its   *)
(* lemmas say, family by family, which command is next, what it does to    *)
(* the tree and to the table, and what a step of the channel does.         *)
(*                                                                         *)
(* The timing tables of all standards keep the data of accesses apart and  *)
(* have a time for every step from a command of a request to its next.     *)
(***************************************************************************)
EXTENDS StandardChannel, SeqLemmas, FiniteSetTheorems, TLAPS

(* The tree, piece by piece                                                *)

Nodes(t) == t.bank \in [Bank -> Node({"Opened", "Closed"})]
SaNodes(t) == t.sa \in [Bank -> [SubArray -> Node({"Opened", "Closed", "Selected"})]]

\* A tree is its three fields.
LEMMA TreeFields ==
  ASSUME NEW t \in Tree
  PROVE  /\ t.rank \in {"PowerUp", "ActPowerDown", "PrePowerDown", "SelfRefresh"}
         /\ Nodes(t) /\ SaNodes(t)
         /\ t = [rank |-> t.rank, bank |-> t.bank, sa |-> t.sa]
BY DEF Tree, Nodes, SaNodes

LEMMA ClosedNodeType == ClosedNode \in Node({"Opened", "Closed"})
                        /\ ClosedNode \in Node({"Opened", "Closed", "Selected"})
                        /\ ClosedNode.state = "Closed" /\ ClosedNode.rows = {}
BY DEF ClosedNode, Node

LEMMA OpenedNodeFacts ==
  ASSUME NEW states, "Opened" \in states, NEW n \in Node(states), NEW id \in Row \cup SubArray
  PROVE  /\ OpenedNode(n, id) \in Node(states)
         /\ OpenedNode(n, id).state = "Opened" /\ OpenedNode(n, id).rows = n.rows \cup {id}
BY DEF OpenedNode, Node

\* Only the power state changes.
LEMMA PowerFacts ==
  ASSUME NEW t \in Tree, NEW cmd, NEW closed
  PROVE  LET u == PowerCommand(cmd, t, closed) IN u \in Tree /\ u.bank = t.bank /\ u.sa = t.sa
<1>1. ASSUME NEW x \in {"PowerUp", "ActPowerDown", "PrePowerDown", "SelfRefresh"}
      PROVE  LET u == Power(t, x) IN u \in Tree /\ u.bank = t.bank /\ u.sa = t.sa
  BY DEF Power, Tree
<1>2. LET u == PowerDown(t, closed) IN u \in Tree /\ u.bank = t.bank /\ u.sa = t.sa
  BY <1>1 DEF PowerDown
<1>3. CASE cmd = "PDE"
  BY <1>2, <1>3 DEF PowerCommand
<1>4. CASE cmd \in {"PDX", "SRX"}
  BY <1>1, <1>4 DEF PowerCommand
<1>5. CASE cmd = "SRE"
  BY <1>1, <1>5 DEF PowerCommand
<1>6. CASE cmd \notin {"PDE", "PDX", "SRX", "SRE"}
  BY <1>6 DEF PowerCommand
<1>. QED
  BY <1>3, <1>4, <1>5, <1>6

\* Banks are closed, and nothing else.
LEMMA CloseBanksFacts ==
  ASSUME NEW t \in Tree, NEW banks
  PROVE  LET u == CloseBanks(t, banks) IN
           /\ u \in Tree /\ u.rank = t.rank /\ u.sa = t.sa
           /\ \A b \in Bank : u.bank[b] = IF b \in banks THEN ClosedNode ELSE t.bank[b]
<1>. DEFINE f == [b \in Bank |-> IF b \in banks THEN ClosedNode ELSE t.bank[b]]
            u == CloseBanks(t, banks)
<1>1. u = [t EXCEPT !.bank = f]
  BY DEF CloseBanks
<1>2. f \in [Bank -> Node({"Opened", "Closed"})]
  BY ClosedNodeType, TreeFields DEF Nodes
<1>. HIDE DEF f
<1>3. u = [rank |-> t.rank, bank |-> f, sa |-> t.sa]
  BY <1>1, TreeFields
<1>4. u \in Tree
  BY <1>2, <1>3, TreeFields DEF Tree, SaNodes
<1>. QED
  BY <1>3, <1>4 DEF f

LEMMA CloseSubArraysFacts ==
  ASSUME NEW t \in Tree, NEW groups
  PROVE  LET u == CloseSubArrays(t, groups) IN
           /\ u \in Tree /\ u.rank = t.rank /\ u.bank = t.bank
           /\ \A b \in Bank, s \in SubArray :
                u.sa[b][s] = IF <<b, s>> \in groups THEN ClosedNode ELSE t.sa[b][s]
<1>. DEFINE f == [b \in Bank |-> [s \in SubArray |-> IF <<b, s>> \in groups THEN ClosedNode ELSE t.sa[b][s]]]
            u == CloseSubArrays(t, groups)
<1>1. u = [t EXCEPT !.sa = f]
  BY DEF CloseSubArrays
<1>2. f \in [Bank -> [SubArray -> Node({"Opened", "Closed", "Selected"})]]
  BY ClosedNodeType, TreeFields DEF SaNodes
<1>3. \A b \in Bank, s \in SubArray :
        f[b][s] = IF <<b, s>> \in groups THEN ClosedNode ELSE t.sa[b][s]
  OBVIOUS
<1>. HIDE DEF f
<1>4. u = [rank |-> t.rank, bank |-> t.bank, sa |-> f]
  BY <1>1, TreeFields
<1>5. u \in Tree
  BY <1>2, <1>4, TreeFields DEF Tree, Nodes
<1>. QED
  BY <1>3, <1>4, <1>5

\* A row, or a subarray, is opened in a bank.
LEMMA OpenBankFacts ==
  ASSUME NEW t \in Tree, NEW c \in Bank, NEW id \in Row \cup SubArray
  PROVE  LET u == [t EXCEPT !.bank[c] = OpenedNode(@, id)] IN
           /\ u \in Tree /\ u.rank = t.rank /\ u.sa = t.sa
           /\ \A b \in Bank : u.bank[b] = IF b = c THEN OpenedNode(t.bank[c], id) ELSE t.bank[b]
<1>. DEFINE n == OpenedNode(t.bank[c], id)
            u == [t EXCEPT !.bank[c] = OpenedNode(@, id)]
<1>1. n \in Node({"Opened", "Closed"})
  BY OpenedNodeFacts, TreeFields DEF Nodes
<1>2. u = [rank |-> t.rank, bank |-> [t.bank EXCEPT ![c] = n], sa |-> t.sa]
  BY TreeFields
<1>. HIDE DEF n
<1>3. u \in Tree
  BY <1>1, <1>2, TreeFields DEF Tree, Nodes, SaNodes
<1>. QED
  BY <1>2, <1>3, TreeFields DEF n, Nodes

LEMMA OpenSubArrayFacts ==
  ASSUME NEW t \in Tree, NEW c \in Bank, NEW r \in SubArray, NEW id \in Row \cup SubArray
  PROVE  LET u == [t EXCEPT !.sa[c][r] = OpenedNode(@, id)] IN
           /\ u \in Tree /\ u.rank = t.rank /\ u.bank = t.bank
           /\ \A b \in Bank, s \in SubArray :
                u.sa[b][s] = IF b = c /\ s = r THEN OpenedNode(t.sa[c][r], id) ELSE t.sa[b][s]
<1>. DEFINE n == OpenedNode(t.sa[c][r], id)
            u == [t EXCEPT !.sa[c][r] = OpenedNode(@, id)]
            f == [t.sa EXCEPT ![c][r] = n]
<1>1. n \in Node({"Opened", "Closed", "Selected"})
  BY OpenedNodeFacts, TreeFields DEF SaNodes
<1>2. u = [rank |-> t.rank, bank |-> t.bank, sa |-> f]
  BY TreeFields
<1>. HIDE DEF n, u
<1>3. f \in [Bank -> [SubArray -> Node({"Opened", "Closed", "Selected"})]]
  BY <1>1, TreeFields DEF SaNodes
<1>4. \A b \in Bank, s \in SubArray : f[b][s] = IF b = c /\ s = r THEN n ELSE t.sa[b][s]
  BY TreeFields DEF SaNodes
<1>. HIDE DEF f
<1>5. u \in Tree
  BY <1>2, <1>3, TreeFields DEF Tree, Nodes
<1>. QED
  BY <1>2, <1>4, <1>5 DEF n, u

LEMMA BankStateFacts ==
  ASSUME NEW t \in Tree, NEW c \in Bank, NEW x \in {"Opened", "Closed"}
  PROVE  LET u == [t EXCEPT !.bank[c].state = x] IN
           /\ u \in Tree /\ u.rank = t.rank /\ u.sa = t.sa
           /\ \A b \in Bank : /\ u.bank[b].state = IF b = c THEN x ELSE t.bank[b].state
                              /\ u.bank[b].rows = t.bank[b].rows
<1>. DEFINE n == [t.bank[c] EXCEPT !.state = x]
            u == [t EXCEPT !.bank[c].state = x]
<1>1. n \in Node({"Opened", "Closed"}) /\ n.state = x /\ n.rows = t.bank[c].rows
  BY TreeFields DEF Nodes, Node
<1>2. u = [rank |-> t.rank, bank |-> [t.bank EXCEPT ![c] = n], sa |-> t.sa]
  BY TreeFields
<1>. HIDE DEF n
<1>3. u \in Tree
  BY <1>1, <1>2, TreeFields DEF Tree, Nodes, SaNodes
<1>. QED
  BY <1>1, <1>2, <1>3, TreeFields DEF Nodes

WithState(t, c, r, x) == [t EXCEPT !.sa[c][r].state = x]

LEMMA SubArrayStateFacts ==
  ASSUME NEW t \in Tree, NEW c \in Bank, NEW r \in SubArray, NEW x \in {"Opened", "Closed", "Selected"}
  PROVE  /\ WithState(t, c, r, x) \in Tree
         /\ WithState(t, c, r, x).rank = t.rank /\ WithState(t, c, r, x).bank = t.bank
         /\ \A b \in Bank, s \in SubArray :
              /\ WithState(t, c, r, x).sa[b][s].state = IF b = c /\ s = r THEN x ELSE t.sa[b][s].state
              /\ WithState(t, c, r, x).sa[b][s].rows = t.sa[b][s].rows
<1>. DEFINE n == [t.sa[c][r] EXCEPT !.state = x]
            u == WithState(t, c, r, x)
            f == [t.sa EXCEPT ![c][r] = n]
<1>1. n \in Node({"Opened", "Closed", "Selected"}) /\ n.state = x /\ n.rows = t.sa[c][r].rows
  BY TreeFields DEF SaNodes, Node
<1>2. u = [rank |-> t.rank, bank |-> t.bank, sa |-> f]
  BY TreeFields DEF WithState
<1>. HIDE DEF n, u
<1>3. f \in [Bank -> [SubArray -> Node({"Opened", "Closed", "Selected"})]]
  BY <1>1, TreeFields DEF SaNodes
<1>4. \A b \in Bank, s \in SubArray : f[b][s] = IF b = c /\ s = r THEN n ELSE t.sa[b][s]
  BY TreeFields DEF SaNodes
<1>. HIDE DEF f
<1>5. u \in Tree
  BY <1>2, <1>3, TreeFields DEF Tree, Nodes
<1>6. \A b \in Bank, s \in SubArray : u.sa[b][s] = IF b = c /\ s = r THEN n ELSE t.sa[b][s]
  BY <1>2, <1>4
<1>7. \A b \in Bank, s \in SubArray :
        /\ u.sa[b][s].state = IF b = c /\ s = r THEN x ELSE t.sa[b][s].state
        /\ u.sa[b][s].rows = t.sa[b][s].rows
  BY <1>1, <1>6
<1>8. u.rank = t.rank /\ u.bank = t.bank
  BY <1>2
<1>. QED
  BY <1>5, <1>7, <1>8 DEF u

\* A nonempty set of subarrays has a first one.
LEMMA FirstSubArray ==
  ASSUME NEW S, S \subseteq SubArray, S # {}
  PROVE  \E s \in S : \A r \in S : s <= r
<1>1. S \subseteq Nat
  BY StandardsAssumption
<1>. QED
  BY <1>1, Least

\* One subarray of a bank at most is selected.
SelectedOnce(t) ==
  \A b \in Bank, s, r \in SubArray :
    t.sa[b][s].state = "Selected" /\ t.sa[b][r].state = "Selected" => s = r

Deselected(t, c, first) == WithState(t, c, first, "Opened")

\* Deselecting the only one that may be selected deselects all others.
LEMMA DeselectFacts ==
  ASSUME NEW t \in Tree, NEW c \in Bank, NEW e \in SubArray, SelectedOnce(t),
         NEW first \in SubArray \ {e}, t.sa[c][first].state = "Selected"
  PROVE  LET u == Deselected(t, c, first) IN
           /\ u \in Tree /\ u.rank = t.rank /\ u.bank = t.bank
           /\ \A b \in Bank, s \in SubArray :
                /\ u.sa[b][s].rows = t.sa[b][s].rows
                /\ u.sa[b][s].state = IF b = c /\ s # e /\ t.sa[b][s].state = "Selected"
                                      THEN "Opened" ELSE t.sa[b][s].state
<1>1. \A s \in SubArray : t.sa[c][s].state = "Selected" <=> s = first
  BY DEF SelectedOnce
<1>. DEFINE u == Deselected(t, c, first)
<1>2. /\ u \in Tree /\ u.rank = t.rank /\ u.bank = t.bank
      /\ \A b \in Bank, s \in SubArray :
           /\ u.sa[b][s].state = IF b = c /\ s = first THEN "Opened" ELSE t.sa[b][s].state
           /\ u.sa[b][s].rows = t.sa[b][s].rows
  BY SubArrayStateFacts DEF Deselected
<1>. HIDE DEF u
<1>3. \A b \in Bank, s \in SubArray :
        /\ u.sa[b][s].rows = t.sa[b][s].rows
        /\ u.sa[b][s].state = IF b = c /\ s # e /\ t.sa[b][s].state = "Selected"
                              THEN "Opened" ELSE t.sa[b][s].state
  BY <1>1, <1>2
<1>. QED
  BY <1>2, <1>3 DEF u

\* In u the subarray e of bank c is the one selected, and otherwise u is t.
SelectedIn(u, t, c, e) ==
  /\ u \in Tree /\ u.rank = t.rank /\ u.bank = t.bank
  /\ \A b \in Bank, s \in SubArray :
       /\ u.sa[b][s].rows = t.sa[b][s].rows
       /\ u.sa[b][s].state = IF b # c THEN t.sa[b][s].state
                             ELSE IF s = e THEN "Selected"
                             ELSE IF t.sa[b][s].state = "Selected" THEN "Opened"
                             ELSE t.sa[b][s].state

\* If one at most is selected, the one of the address is afterwards.
LEMMA SelectFacts ==
  ASSUME NEW t \in Tree, NEW a \in Address, SelectedOnce(t)
  PROVE  SelectedIn(Select(t, a), t, a.bank, a.sa)
<1>. DEFINE Alone(u, c, e) ==
              /\ u \in Tree /\ u.rank = t.rank /\ u.bank = t.bank
              /\ \A b \in Bank, s \in SubArray :
                   /\ u.sa[b][s].rows = t.sa[b][s].rows
                   /\ u.sa[b][s].state = IF b = c /\ s # e /\ t.sa[b][s].state = "Selected"
                                         THEN "Opened" ELSE t.sa[b][s].state
            selected(c, e) == {s \in SubArray \ {e} : t.sa[c][s].state = "Selected"}
            first(c, e) == CHOOSE s \in selected(c, e) : \A r \in selected(c, e) : s <= r
            alone(c, e) == IF selected(c, e) = {} THEN t ELSE WithState(t, c, first(c, e), "Opened")
            chosen(c, e) == WithState(alone(c, e), c, e, "Selected")
<1>1. ASSUME NEW c \in Bank, NEW e \in SubArray
      PROVE  Alone(alone(c, e), c, e)
  <2>1. CASE selected(c, e) = {}
    <3>1. alone(c, e) = t
      BY <2>1
    <3>. HIDE DEF alone
    <3>. QED
      BY <2>1, <3>1
  <2>2. CASE selected(c, e) # {}
    <3>1. first(c, e) \in selected(c, e)
      BY <2>2, FirstSubArray
    <3>2. first(c, e) \in SubArray \ {e} /\ t.sa[c][first(c, e)].state = "Selected"
      BY <3>1
    <3>3. alone(c, e) = Deselected(t, c, first(c, e))
      BY <2>2 DEF Deselected
    <3>. HIDE DEF first, alone, selected
    <3>4. Alone(Deselected(t, c, first(c, e)), c, e)
      BY <3>2, DeselectFacts
    <3>. HIDE DEF Alone
    <3>. QED
      BY <3>3, <3>4
  <2>. QED
    BY <2>1, <2>2
<1>2. ASSUME NEW c \in Bank, NEW e \in SubArray
      PROVE  SelectedIn(chosen(c, e), t, c, e)
  <2>. DEFINE y == alone(c, e)
              u == WithState(y, c, e, "Selected")
  <2>1. Alone(y, c, e)
    BY <1>1
  <2>. HIDE DEF alone, first
  <2>2. /\ u \in Tree /\ u.rank = y.rank /\ u.bank = y.bank
        /\ \A b \in Bank, s \in SubArray :
             /\ u.sa[b][s].state = IF b = c /\ s = e THEN "Selected" ELSE y.sa[b][s].state
             /\ u.sa[b][s].rows = y.sa[b][s].rows
    <3>1. y \in Tree
      BY <2>1
    <3>. HIDE DEF y, Alone
    <3>. QED
      BY <3>1, SubArrayStateFacts
  <2>. HIDE DEF u, y
  <2>3. SelectedIn(u, t, c, e)
    BY <2>1, <2>2 DEF SelectedIn
  <2>. QED
    BY <2>3 DEF u, y
<1>3. Select(t, a) = chosen(a.bank, a.sa)
  BY DEF Select, WithState
<1>4. a.bank \in Bank /\ a.sa \in SubArray
  BY DEF Address
<1>. HIDE DEF chosen
<1>. QED
  BY <1>2, <1>3, <1>4

-----------------------------------------------------------------------------
(* The inductive invariant                                                 *)

\* the open rows that go with an entry of the table
Entry(row) == IF row = None THEN {} ELSE {row}
IsOpen(b, s) == tree.sa[b][s].state # "Closed"

Typed == std \in Standard /\ tree \in Tree /\ table \in [Group(std) -> Row \cup {None}]

\* Without subarrays, the nodes of the banks are what the table has.
BanksAgree ==
  /\ \A b \in Bank : /\ tree.bank[b].rows = Entry(table[<<b, 0>>])
                     /\ tree.bank[b].state = "Opened" <=> table[<<b, 0>>] # None
  /\ \A b \in Bank, s \in SubArray : tree.sa[b][s] = ClosedNode

\* With them, the nodes of the subarrays are.
SubArraysAgree ==
  \A b \in Bank, s \in SubArray :
    /\ tree.sa[b][s].rows = Entry(table[<<b, s>>])
    /\ IsOpen(b, s) <=> table[<<b, s>>] # None

\* What a precharge relies on where it closes the bank: one subarray is open.
OneOpen == \A b \in Bank, s, r \in SubArray : IsOpen(b, s) /\ IsOpen(b, r) => s = r
BanksFollow == \A b \in Bank : tree.bank[b].state = "Opened" <=> \E s \in SubArray : IsOpen(b, s)
BanksName == \A b \in Bank : tree.bank[b].rows = {s \in SubArray : IsOpen(b, s)}
NoneSelected == \A b \in Bank, s \in SubArray : tree.sa[b][s].state # "Selected"

IInv ==
  /\ Typed
  /\ IF std \in Flat THEN BanksAgree ELSE SubArraysAgree
  /\ std \in {"SALP_1", "REFAB", "DSARP"} => OneOpen /\ BanksFollow
  /\ std \in {"REFAB", "DSARP"} => BanksName
  /\ IF std = "MASA" THEN SelectedOnce(tree) ELSE NoneSelected

-----------------------------------------------------------------------------
(* The families of standards                                               *)

\* the standards that are DDR3 with other levels
Plain == Flat \ {"TLDRAM"}

LEMMA PlainSpec ==
  ASSUME NEW s \in Plain
  PROVE  /\ spec(s).rank = {"PREA", "REF", "PDE", "PDX", "SRE", "SRX"}
         /\ spec(s).bank \in {{"PRE"}, {"PRE", "REFPB"}}
         /\ spec(s).opening = {"ACT"} /\ spec(s).accessing = {"RD", "WR", "RDA", "WRA"}
         /\ spec(s).closing = {"RDA", "WRA", "PRE", "PREA"}
         /\ spec(s).translate = [READ |-> "RD", WRITE |-> "WR", REFRESH |-> "REF",
                                 POWERDOWN |-> "PDE", SELFREFRESH |-> "SRE"]
<1>. DEFINE Fits(p) == /\ p.rank = {"PREA", "REF", "PDE", "PDX", "SRE", "SRX"}
         /\ p.bank \in {{"PRE"}, {"PRE", "REFPB"}}
         /\ p.opening = {"ACT"} /\ p.accessing = {"RD", "WR", "RDA", "WRA"}
         /\ p.closing = {"RDA", "WRA", "PRE", "PREA"}
         /\ p.translate = [READ |-> "RD", WRITE |-> "WR", REFRESH |-> "REF",
                                 POWERDOWN |-> "PDE", SELFREFRESH |-> "SRE"]
<1>1. Fits(DDR3_spec) /\ Fits(Grouped(DDR3_spec)) /\ Fits(PerBank(DDR3_spec)) /\ Fits(PerBank(Grouped(DDR3_spec)))
  BY DEF DDR3_spec, Grouped, PerBank
<1>2. spec(s) \in {DDR3_spec, Grouped(DDR3_spec), PerBank(DDR3_spec), PerBank(Grouped(DDR3_spec))}
  BY DEF Plain, Flat, spec, DDR4_spec, GDDR5_spec, HBM_spec, LPDDR3_spec, LPDDR4_spec,
         WideIO_spec, WideIO2_spec, PCM_spec, STTMRAM_spec, ALDRAM_spec
<1>. HIDE DEF Fits
<1>3. Fits(spec(s))
  BY <1>1, <1>2
<1>. QED
  BY <1>3 DEF Fits

LEMMA TLDRAMSpec ==
  /\ spec("TLDRAM").rank = {"PREA", "PREAF", "PREAM", "REF", "PDE", "PDX", "SRE", "SRX"}
  /\ spec("TLDRAM").bank = {"PRE", "PREF", "PREM"}
  /\ spec("TLDRAM").opening = {"ACT", "ACTF", "ACTM"} /\ spec("TLDRAM").accessing = {"RD", "WR", "MIG"}
  /\ spec("TLDRAM").closing = {"PRE", "PREF", "PREM", "PREA", "PREAF", "PREAM"}
  /\ spec("TLDRAM").translate = [READ |-> "MIG", WRITE |-> "WR", REFRESH |-> "REF",
                                 POWERDOWN |-> "PDE", SELFREFRESH |-> "SRE"]
<1>1. spec("TLDRAM") = TLDRAM_spec
  BY DEF spec
<1>. DEFINE tr == [READ |-> "MIG", WRITE |-> "WR", REFRESH |-> "REF",
                   POWERDOWN |-> "PDE", SELFREFRESH |-> "SRE"]
<1>2. [DDR3_spec.translate EXCEPT !["READ"] = "MIG"] = tr
  BY DEF DDR3_spec
<1>3. TLDRAM_spec = [DDR3_spec EXCEPT
        !.rank = @ \cup {"PREAF", "PREAM"}, !.bank = @ \cup {"PREF", "PREM"},
        !.opening = {"ACT", "ACTF", "ACTM"}, !.accessing = {"RD", "WR", "MIG"},
        !.closing = {"PRE", "PREF", "PREM", "PREA", "PREAF", "PREAM"},
        !.translate = tr]
  BY <1>2 DEF TLDRAM_spec
<1>. HIDE DEF tr
<1>4. /\ TLDRAM_spec.rank = {"PREA", "PREAF", "PREAM", "REF", "PDE", "PDX", "SRE", "SRX"}
      /\ TLDRAM_spec.bank = {"PRE", "PREF", "PREM"}
      /\ TLDRAM_spec.opening = {"ACT", "ACTF", "ACTM"} /\ TLDRAM_spec.accessing = {"RD", "WR", "MIG"}
      /\ TLDRAM_spec.closing = {"PRE", "PREF", "PREM", "PREA", "PREAF", "PREAM"}
      /\ TLDRAM_spec.translate = tr
  BY <1>3 DEF DDR3_spec
<1>. QED
  BY <1>1, <1>4 DEF tr

LEMMA SALPSpec ==
  ASSUME NEW s \in {"SALP_1", "SALP_2", "MASA"}
  PROVE  /\ spec(s).rank = {"PREA", "REF", "PDE", "PDX", "SRE", "SRX"} /\ spec(s).bank = {}
         /\ spec(s).opening = {"ACT"} /\ spec(s).accessing = {"RD", "WR", "RDA", "WRA"}
         /\ spec(s).closing = {"RDA", "WRA", "PRE", "PREA", "PRE_OTHER"}
         /\ spec(s).translate = [READ |-> "RD", WRITE |-> "WR", REFRESH |-> "REF",
                                 POWERDOWN |-> "PDE", SELFREFRESH |-> "SRE"]
BY DEF spec, SALP_spec, DDR3_spec

LEMMA DSARPSpec ==
  ASSUME NEW s \in {"REFAB", "DSARP"}
  PROVE  /\ spec(s).rank = {"PREA", "REF", "PDE", "PDX", "SRE", "SRX"} /\ spec(s).bank = {"PRE", "REFPB"}
         /\ spec(s).opening = {"ACT"} /\ spec(s).accessing = {"RD", "WR", "RDA", "WRA"}
         /\ spec(s).closing = {"RDA", "WRA", "PRE", "PREA"}
         /\ spec(s).translate = [READ |-> "RD", WRITE |-> "WR",
                                 REFRESH |-> IF s = "REFAB" THEN "REF" ELSE "REFPB",
                                 POWERDOWN |-> "PDE", SELFREFRESH |-> "SRE"]
BY DEF spec, DSARP_spec, PerBank, DDR3_spec

-----------------------------------------------------------------------------
(* What a step does to the table and to the invariant                      *)

LEMMA GroupTypes ==
  /\ std \in Flat => Group(std) = Bank \X {0}
  /\ std \in Standard \ Flat => Group(std) = Bank \X SubArray
BY DEF Group

LEMMA TableKept ==
  ASSUME Typed, NEW cmd, NEW a, UpdateRowTable(cmd, a),
         cmd \notin spec(std).opening, cmd \notin spec(std).closing
  PROVE  table' = table
<1>1. Removed(cmd, a) = {}
  BY DEF Removed
<1>. QED
  BY <1>1 DEF UpdateRowTable, Typed

LEMMA TableOpens ==
  ASSUME Typed, NEW cmd, NEW a, UpdateRowTable(cmd, a),
         cmd \in spec(std).opening, cmd \notin spec(std).closing,
         GroupOf(a) \in Group(std), table[GroupOf(a)] = None
  PROVE  table' = [table EXCEPT ![GroupOf(a)] = a.row]
<1>1. Removed(cmd, a) = {}
  BY DEF Removed
<1>. QED
  BY <1>1 DEF UpdateRowTable, Typed

LEMMA TableCloses ==
  ASSUME Typed, NEW cmd, NEW a, UpdateRowTable(cmd, a), cmd \notin spec(std).opening
  PROVE  table' = [g \in Group(std) |-> IF g \in Removed(cmd, a) THEN None ELSE table[g]]
BY DEF UpdateRowTable

\* Nothing but the power state changes.
Keeps == tree' \in Tree /\ tree'.bank = tree.bank /\ tree'.sa = tree.sa /\ table' = table

LEMMA KeepsIInv ==
  ASSUME IInv, std' = std, Keeps
  PROVE  IInv'
BY DEF IInv, Keeps, Typed, BanksAgree, SubArraysAgree, IsOpen, OneOpen, BanksFollow, BanksName,
       NoneSelected, SelectedOnce

\* A row is opened in a closed bank.
BankOpens(c, r) ==
  /\ table[<<c, 0>>] = None /\ table' = [table EXCEPT ![<<c, 0>>] = r]
  /\ tree' \in Tree /\ tree'.sa = tree.sa
  /\ \A b \in Bank : tree'.bank[b] = IF b = c THEN OpenedNode(tree.bank[c], r) ELSE tree.bank[b]

LEMMA BankOpensIInv ==
  ASSUME IInv, std' = std, std \in Flat, NEW c \in Bank, NEW r \in Row, BankOpens(c, r)
  PROVE  IInv'
<1>1. r # None /\ Group(std) = Bank \X {0}
  BY StandardsAssumption, GroupTypes DEF None
<1>2. Typed'
  BY <1>1 DEF IInv, Typed, BankOpens, Group
<1>3. \A b \in Bank : table'[<<b, 0>>] = IF b = c THEN r ELSE table[<<b, 0>>]
  BY <1>1 DEF IInv, Typed, BankOpens
<1>4. tree'.bank[c] = OpenedNode(tree.bank[c], r)
  BY DEF BankOpens
<1>5. tree.bank[c].rows = {}
  BY DEF IInv, BanksAgree, BankOpens, Entry
<1>6. tree'.bank[c].rows = {r} /\ tree'.bank[c].state = "Opened"
  BY <1>4, <1>5 DEF OpenedNode
<1>7. \A b \in Bank \ {c} : tree'.bank[b] = tree.bank[b]
  BY DEF BankOpens
<1>8. ASSUME NEW b \in Bank
      PROVE  /\ tree'.bank[b].rows = Entry(table'[<<b, 0>>])
             /\ tree'.bank[b].state = "Opened" <=> table'[<<b, 0>>] # None
  BY <1>1, <1>3, <1>6, <1>7 DEF IInv, BanksAgree, Entry
<1>9. BanksAgree'
  BY <1>8 DEF IInv, BanksAgree, BankOpens
<1>10. NoneSelected' /\ std # "MASA" /\ std \notin {"SALP_1", "REFAB", "DSARP"}
  BY <1>9, ClosedNodeType DEF BanksAgree, NoneSelected, Flat
<1>. QED
  BY <1>2, <1>9, <1>10 DEF IInv

\* Banks are closed.
BanksClose(banks) ==
  /\ table' = [g \in Group(std) |-> IF g[1] \in banks THEN None ELSE table[g]]
  /\ tree' \in Tree /\ tree'.sa = tree.sa
  /\ \A b \in Bank : tree'.bank[b] = IF b \in banks THEN ClosedNode ELSE tree.bank[b]

LEMMA BanksCloseIInv ==
  ASSUME IInv, std' = std, std \in Flat, NEW banks, BanksClose(banks)
  PROVE  IInv'
<1>1. Group(std) = Bank \X {0}
  BY GroupTypes
<1>2. Typed'
  BY DEF IInv, Typed, BanksClose
<1>3. \A b \in Bank : table'[<<b, 0>>] = IF b \in banks THEN None ELSE table[<<b, 0>>]
  BY <1>1 DEF BanksClose
<1>8. ASSUME NEW b \in Bank
      PROVE  /\ tree'.bank[b].rows = Entry(table'[<<b, 0>>])
             /\ tree'.bank[b].state = "Opened" <=> table'[<<b, 0>>] # None
  <2>1. CASE b \in banks
    BY <1>3, <2>1, ClosedNodeType DEF Entry, BanksClose
  <2>2. CASE b \notin banks
    BY <1>3, <2>2 DEF IInv, BanksAgree, BanksClose
  <2>. QED
    BY <2>1, <2>2
<1>9. BanksAgree'
  BY <1>8 DEF IInv, BanksAgree, BanksClose
<1>10. NoneSelected' /\ std # "MASA" /\ std \notin {"SALP_1", "REFAB", "DSARP"}
  BY <1>9, ClosedNodeType DEF BanksAgree, NoneSelected, Flat
<1>. QED
  BY <1>2, <1>9, <1>10 DEF IInv

\* A row is opened in a closed subarray.
SubArrayOpens(c, e, r) ==
  /\ table[<<c, e>>] = None /\ table' = [table EXCEPT ![<<c, e>>] = r]
  /\ tree' \in Tree
  /\ \A b \in Bank, s \in SubArray :
       /\ tree'.sa[b][s].rows = IF b = c /\ s = e THEN tree.sa[b][s].rows \cup {r} ELSE tree.sa[b][s].rows
       /\ IsOpen(b, s)' <=> (b = c /\ s = e) \/ IsOpen(b, s)

LEMMA SubArrayOpensAgree ==
  ASSUME Typed, SubArraysAgree, std' = std, std \notin Flat,
         NEW c \in Bank, NEW e \in SubArray, NEW r \in Row, SubArrayOpens(c, e, r)
  PROVE  Typed' /\ SubArraysAgree'
<1>1. r # None /\ Group(std) = Bank \X SubArray
  BY StandardsAssumption, GroupTypes DEF None, Typed
<1>2. Typed'
  BY <1>1 DEF Typed, SubArrayOpens, Group
<1>3. \A b \in Bank, s \in SubArray : table'[<<b, s>>] = IF b = c /\ s = e THEN r ELSE table[<<b, s>>]
  BY <1>1 DEF Typed, SubArrayOpens
<1>4. tree.sa[c][e].rows = {}
  BY DEF SubArraysAgree, SubArrayOpens, Entry
<1>5. ASSUME NEW b \in Bank, NEW s \in SubArray
      PROVE  /\ tree'.sa[b][s].rows = Entry(table'[<<b, s>>])
             /\ IsOpen(b, s)' <=> table'[<<b, s>>] # None
  <2>1. CASE b = c /\ s = e
    BY <1>1, <1>3, <1>4, <2>1 DEF SubArrayOpens, Entry
  <2>2. CASE ~(b = c /\ s = e)
    <3>1. /\ tree'.sa[b][s].rows = tree.sa[b][s].rows /\ (tree'.sa[b][s].state # "Closed" <=> tree.sa[b][s].state # "Closed")
          /\ table'[<<b, s>>] = table[<<b, s>>]
      BY <1>3, <2>2 DEF SubArrayOpens, IsOpen
    <3>. QED
      BY <3>1 DEF SubArraysAgree, IsOpen
  <2>. QED
    BY <2>1, <2>2
<1>. QED
  BY <1>2, <1>5 DEF SubArraysAgree, IsOpen

\* Subarrays are closed.
SubArraysClose(groups) ==
  /\ table' = [g \in Group(std) |-> IF g \in groups THEN None ELSE table[g]]
  /\ tree' \in Tree
  /\ \A b \in Bank, s \in SubArray :
       tree'.sa[b][s] = IF <<b, s>> \in groups THEN ClosedNode ELSE tree.sa[b][s]

LEMMA ClosesSubArrays ==
  ASSUME NEW u \in Tree, u.sa = tree.sa, NEW groups, tree' = CloseSubArrays(u, groups),
         table' = [g \in Group(std) |-> IF g \in groups THEN None ELSE table[g]]
  PROVE  SubArraysClose(groups) /\ tree'.bank = u.bank
BY CloseSubArraysFacts DEF SubArraysClose

LEMMA SubArraysCloseAgree ==
  ASSUME Typed, SubArraysAgree, std' = std, std \notin Flat, NEW groups, SubArraysClose(groups)
  PROVE  /\ Typed' /\ SubArraysAgree'
         /\ \A b \in Bank, s \in SubArray : IsOpen(b, s)' <=> IsOpen(b, s) /\ <<b, s>> \notin groups
         /\ NoneSelected => NoneSelected'
         /\ SelectedOnce(tree) => SelectedOnce(tree')
<1>1. Group(std) = Bank \X SubArray
  BY GroupTypes DEF Typed
<1>2. Typed'
  BY DEF Typed, SubArraysClose
<1>3. \A b \in Bank, s \in SubArray :
        table'[<<b, s>>] = IF <<b, s>> \in groups THEN None ELSE table[<<b, s>>]
  BY <1>1 DEF SubArraysClose
<1>4. ASSUME NEW b \in Bank, NEW s \in SubArray
      PROVE  /\ tree'.sa[b][s].rows = Entry(table'[<<b, s>>])
             /\ IsOpen(b, s)' <=> table'[<<b, s>>] # None
             /\ IsOpen(b, s)' <=> IsOpen(b, s) /\ <<b, s>> \notin groups
             /\ tree'.sa[b][s].state = "Selected" => tree.sa[b][s].state = "Selected"
  <2>1. CASE <<b, s>> \in groups
    BY <1>3, <2>1, ClosedNodeType DEF SubArraysClose, Entry, IsOpen
  <2>2. CASE <<b, s>> \notin groups
    <3>1. tree'.sa[b][s] = tree.sa[b][s] /\ table'[<<b, s>>] = table[<<b, s>>]
      BY <1>3, <2>2 DEF SubArraysClose
    <3>. QED
      BY <2>2, <3>1 DEF SubArraysAgree, IsOpen
  <2>. QED
    BY <2>1, <2>2
<1>. QED
  BY <1>2, <1>4 DEF SubArraysAgree, IsOpen, NoneSelected, SelectedOnce
-----------------------------------------------------------------------------
(* DDR3 and its like                                                       *)

LEMMA RowOpenFacts ==
  ASSUME NEW states, NEW n \in Node(states), NEW id, NEW cmd \in {"RD", "WR", "MIG"}
  PROVE  /\ RowOpen(n, id, cmd) \in {"ACT", "PRE", cmd}
         /\ RowOpen(n, id, cmd) = "ACT" <=> n.state = "Closed"
         /\ RowOpen(n, id, cmd) = cmd <=> n.state # "Closed" /\ id \in n.rows
BY DEF RowOpen

\* the access command of a request
Accessing(type) == spec(std).translate[type]

LEMMA AwakeFacts ==
  ASSUME NEW t
  PROVE  MemoryAwake(t) \in {"MAX", "SRX", "PDX"} /\ (t.rank = "PowerUp" <=> MemoryAwake(t) = "MAX")
BY DEF MemoryAwake

LEMMA AccessAddress ==
  ASSUME NEW type \in Access, NEW a \in Addresses(type)
  PROVE  /\ a.bank \in Bank /\ a.sa \in SubArray /\ a.row \in Row
         /\ a \in Address /\ a.bank # None
         /\ std \in Flat => a.sa = 0
BY StandardsAssumption DEF Access, Addresses, Address, None

LEMMA RankAddress ==
  ASSUME NEW type \in Request \ Access, NEW a \in Addresses(type), std \notin {"DSARP"}, std \in Standard
  PROVE  a = WholeRank /\ a.bank = None
<1>1. ~(type = "REFRESH" /\ spec(std).translate[type] = "REFPB")
  <2>1. CASE std \in Plain
    BY <2>1, PlainSpec
  <2>2. CASE std = "TLDRAM"
    BY <2>2, TLDRAMSpec
  <2>3. CASE std \in {"SALP_1", "SALP_2", "MASA"}
    BY <2>3, SALPSpec
  <2>4. CASE std = "REFAB"
    BY <2>4, DSARPSpec
  <2>. QED
    BY <2>1, <2>2, <2>3, <2>4 DEF Standard, Flat, WithSubArrays, Plain
<1>2. type \notin Access
  OBVIOUS
<1>3. a = WholeRank
  BY <1>1, <1>2 DEF Addresses
<1>. QED
  BY <1>3 DEF WholeRank

LEMMA DDR3First ==
  ASSUME NEW cmd, NEW t, NEW a
  PROVE  /\ cmd \in ReadWrite => /\ DDR3_prereq("Rank", cmd, t, a) = MemoryAwake(t)
                                 /\ DDR3_prereq("Bank", cmd, t, a) = RowOpen(t.bank[a.bank], a.row, cmd)
         /\ cmd \in {"REF", "PDE", "SRE"} =>
              DDR3_prereq("Rank", cmd, t, a) \in {"REF", "PREA", "PDE", "PDX", "SRE", "SRX"}
         /\ cmd = "REFPB" => DDR3_prereq("Rank", cmd, t, a) = "MAX"
BY DEF DDR3_prereq, ReadWrite, ToPowerDown, ToSelfRefresh

LEMMA PlainPrereq ==
  ASSUME std \in Plain, NEW cmd, cmd # "REFPB", NEW t, NEW a
  PROVE  /\ prereq(std, "Rank", cmd, t, a) = DDR3_prereq("Rank", cmd, t, a)
         /\ prereq(std, "Bank", cmd, t, a) = DDR3_prereq("Bank", cmd, t, a)
<1>1. prereq(std, "Rank", cmd, t, a) = DDR3_prereq("Rank", cmd, t, a)
  BY DEF Plain, Flat, prereq, DDR4_prereq, LPDDR3_prereq, LPDDR4_prereq, GDDR5_prereq, HBM_prereq,
         WideIO_prereq, WideIO2_prereq, PCM_prereq, STTMRAM_prereq, ALDRAM_prereq
<1>2. prereq(std, "Bank", cmd, t, a) = DDR3_prereq("Bank", cmd, t, a)
  BY DEF Plain, Flat, prereq, DDR4_prereq, LPDDR3_prereq, LPDDR4_prereq, GDDR5_prereq, HBM_prereq,
         WideIO_prereq, WideIO2_prereq, PCM_prereq, STTMRAM_prereq, ALDRAM_prereq
<1>. QED
  BY <1>1, <1>2

LEMMA PlainLambda ==
  ASSUME std \in Plain, NEW cmd, NEW t, NEW a
  PROVE  /\ lambda(std, "Rank", cmd, t, a) = DDR3_lambda("Rank", cmd, t, a)
         /\ lambda(std, "Bank", cmd, t, a) = DDR3_lambda("Bank", cmd, t, a)
<1>1. lambda(std, "Rank", cmd, t, a) = DDR3_lambda("Rank", cmd, t, a)
  BY DEF Plain, Flat, lambda, DDR4_lambda, LPDDR3_lambda, LPDDR4_lambda, GDDR5_lambda, HBM_lambda,
         WideIO_lambda, WideIO2_lambda, PCM_lambda, STTMRAM_lambda, ALDRAM_lambda
<1>2. lambda(std, "Bank", cmd, t, a) = DDR3_lambda("Bank", cmd, t, a)
  BY DEF Plain, Flat, lambda, DDR4_lambda, LPDDR3_lambda, LPDDR4_lambda, GDDR5_lambda, HBM_lambda,
         WideIO_lambda, WideIO2_lambda, PCM_lambda, STTMRAM_lambda, ALDRAM_lambda
<1>. QED
  BY <1>1, <1>2

LEMMA PlainUpdate ==
  ASSUME std \in Plain, NEW cmd, NEW t, NEW a
  PROVE  LET rank == DDR3_lambda("Rank", cmd, t, a)
         IN update_state(cmd, t, a) = IF cmd \in {"PREA", "REF", "PDE", "PDX", "SRE", "SRX"} THEN rank
                                      ELSE DDR3_lambda("Bank", cmd, rank, a)
<1>. DEFINE rank == DDR3_lambda("Rank", cmd, t, a)
<1>1. lambda(std, "Rank", cmd, t, a) = rank
  BY PlainLambda
<1>. HIDE DEF rank
<1>2. lambda(std, "Bank", cmd, rank, a) = DDR3_lambda("Bank", cmd, rank, a)
  BY PlainLambda
<1>3. std \in Flat
  BY DEF Plain
<1>. QED
  BY <1>1, <1>2, <1>3, PlainSpec DEF update_state, rank

LEMMA PlainFirst ==
  ASSUME std \in Plain, NEW t \in Tree
  PROVE  /\ \A type \in Access : \A a \in Addresses(type) :
              FirstCommand(type, t, a) =
                IF t.rank = "PowerUp" THEN RowOpen(t.bank[a.bank], a.row, Accessing(type))
                ELSE MemoryAwake(t)
         /\ \A type \in Request \ Access : \A a \in Addresses(type) :
              FirstCommand(type, t, a) \in {"REF", "PREA", "PDE", "PDX", "SRE", "SRX"}
<1>1. ASSUME NEW type \in Access, NEW a \in Addresses(type)
      PROVE  FirstCommand(type, t, a) =
               IF t.rank = "PowerUp" THEN RowOpen(t.bank[a.bank], a.row, Accessing(type))
               ELSE MemoryAwake(t)
  <2>. DEFINE c == Accessing(type)
  <2>1. c \in ReadWrite
    BY PlainSpec DEF Accessing, Access, ReadWrite
  <2>0. c # "REFPB"
    BY <2>1 DEF ReadWrite
  <2>2. prereq(std, "Rank", c, t, a) = MemoryAwake(t)
    BY <2>0, <2>1, PlainPrereq, DDR3First
  <2>3. prereq(std, "Bank", c, t, a) = RowOpen(t.bank[a.bank], a.row, c)
    BY <2>0, <2>1, PlainPrereq, DDR3First
  <2>4. RowOpen(t.bank[a.bank], a.row, c) # "MAX"
    BY <2>1 DEF RowOpen, ReadWrite
  <2>5. FirstCommand(type, t, a) = decode(c, t, a)
    BY DEF FirstCommand, Accessing
  <2>. HIDE DEF c
  <2>. QED
    BY <2>2, <2>3, <2>4, <2>5, AwakeFacts, AccessAddress DEF decode, c
<1>2. ASSUME NEW type \in Request \ Access, NEW a \in Addresses(type)
      PROVE  FirstCommand(type, t, a) \in {"REF", "PREA", "PDE", "PDX", "SRE", "SRX"}
  <2>1. a.bank = None
    BY RankAddress DEF Plain, Flat, Standard
  <2>2. Accessing(type) \in {"REF", "PDE", "SRE"}
    BY PlainSpec DEF Accessing, Request, Access
  <2>3. prereq(std, "Rank", Accessing(type), t, a) \in {"REF", "PREA", "PDE", "PDX", "SRE", "SRX"}
    BY <2>2, PlainPrereq, DDR3First
  <2>. QED
    BY <2>3 DEF FirstCommand, decode, Accessing
<1>. QED
  BY <1>1, <1>2

LEMMA PlainIssue ==
  ASSUME IInv, std \in Plain, NEW cmd, NEW a, issue_cmd(cmd, a)
  PROVE  /\ cmd \in {"RD", "WR", "REF", "PDE", "PDX", "SRE", "SRX"} => Keeps
         /\ cmd = "ACT" /\ a.bank \in Bank /\ a.row \in Row /\ table[<<a.bank, 0>>] = None
              => BankOpens(a.bank, a.row)
         /\ cmd \in {"PRE", "RDA", "WRA"} => BanksClose({a.bank})
         /\ cmd = "PREA" => BanksClose(Bank)
<1>. DEFINE bank(t) == DDR3_lambda("Bank", cmd, t, a)
            rank == DDR3_lambda("Rank", cmd, tree, a)
<1>1. tree' = IF cmd \in {"PREA", "REF", "PDE", "PDX", "SRE", "SRX"} THEN rank ELSE bank(rank)
  BY PlainUpdate DEF issue_cmd
<1>2. UpdateRowTable(cmd, a) /\ Typed /\ tree \in Tree
  BY DEF issue_cmd, IInv, Typed
<1>3. std \in Flat /\ GroupOf(a) = <<a.bank, 0>> /\ Group(std) = Bank \X {0}
  BY GroupTypes DEF GroupOf, Plain
<1>. HIDE DEF bank, rank
<1>4. cmd \notin {"PREA", "PDE", "PDX", "SRE", "SRX"} => rank = tree
  BY DEF rank, DDR3_lambda, PowerCommand
<1>5. ASSUME cmd \in {"RD", "WR", "REF", "PDE", "PDX", "SRE", "SRX"} PROVE Keeps
  <2>1. table' = table
    BY <1>2, <1>5, PlainSpec, TableKept
  <2>2. rank \in Tree /\ rank.bank = tree.bank /\ rank.sa = tree.sa
    BY <1>2, <1>5, PowerFacts DEF rank, DDR3_lambda
  <2>3. cmd \in {"RD", "WR"} => bank(rank) = rank
    BY DEF bank, DDR3_lambda
  <2>. QED
    BY <1>1, <1>5, <2>1, <2>2, <2>3 DEF Keeps
<1>6. ASSUME cmd = "ACT", a.bank \in Bank, a.row \in Row, table[<<a.bank, 0>>] = None
      PROVE  BankOpens(a.bank, a.row)
  <2>1. tree' = [tree EXCEPT !.bank[a.bank] = OpenedNode(@, a.row)]
    BY <1>1, <1>4, <1>6 DEF bank, DDR3_lambda
  <2>2. table' = [table EXCEPT ![<<a.bank, 0>>] = a.row]
    BY <1>2, <1>3, <1>6, PlainSpec, TableOpens
  <2>. DEFINE c == a.bank  r == a.row
  <2>3. c \in Bank /\ r \in Row
    BY <1>6
  <2>4. tree' = [tree EXCEPT !.bank[c] = OpenedNode(@, r)]
    BY <2>1
  <2>. HIDE DEF c, r
  <2>5. /\ tree' \in Tree /\ tree'.sa = tree.sa
        /\ \A b \in Bank : tree'.bank[b] = IF b = c THEN OpenedNode(tree.bank[c], r) ELSE tree.bank[b]
    BY <1>2, <2>3, <2>4, OpenBankFacts
  <2>. QED
    BY <1>6, <2>2, <2>5 DEF BankOpens, c, r
<1>7. ASSUME cmd \in {"PRE", "RDA", "WRA"} PROVE BanksClose({a.bank})
  <2>1. tree' = CloseBanks(tree, {a.bank})
    BY <1>1, <1>4, <1>7 DEF bank, DDR3_lambda
  <2>2. \A g \in Group(std) : g \in Removed(cmd, a) <=> g[1] \in {a.bank}
    <3>1. CASE cmd = "PRE"
      BY <3>1, PlainSpec DEF Removed
    <3>2. CASE cmd \in {"RDA", "WRA"}
      <4>1. Removed(cmd, a) = {<<a.bank, 0>>}
        BY <1>3, <3>2, PlainSpec DEF Removed
      <4>. QED
        BY <1>3, <4>1
    <3>. QED
      BY <1>7, <3>1, <3>2
  <2>3. table' = [g \in Group(std) |-> IF g \in Removed(cmd, a) THEN None ELSE table[g]]
    BY <1>2, <1>7, PlainSpec, TableCloses
  <2>4. table' = [g \in Group(std) |-> IF g[1] \in {a.bank} THEN None ELSE table[g]]
    BY <2>2, <2>3
  <2>. QED
    BY <1>2, <2>1, <2>4, CloseBanksFacts DEF BanksClose
<1>8. ASSUME cmd = "PREA" PROVE BanksClose(Bank)
  <2>1. tree' = CloseBanks(tree, Bank)
    BY <1>1, <1>8 DEF rank, DDR3_lambda
  <2>2. \A g \in Group(std) : g \in Removed(cmd, a) <=> g[1] \in Bank
    BY <1>3, <1>8, PlainSpec DEF Removed
  <2>3. table' = [g \in Group(std) |-> IF g \in Removed(cmd, a) THEN None ELSE table[g]]
    BY <1>2, <1>8, PlainSpec, TableCloses
  <2>4. table' = [g \in Group(std) |-> IF g[1] \in Bank THEN None ELSE table[g]]
    BY <2>2, <2>3
  <2>. QED
    BY <1>2, <2>1, <2>4, CloseBanksFacts DEF BanksClose
<1>. QED
  BY <1>5, <1>6, <1>7, <1>8

\* A bank that is closed has no row in the table.
LEMMA ClosedBank ==
  ASSUME IInv, std \in Flat, NEW c \in Bank
  PROVE  /\ tree.bank[c] \in Node({"Opened", "Closed"})
         /\ tree.bank[c].state = "Closed" <=> table[<<c, 0>>] = None
<1>1. tree.bank[c] \in Node({"Opened", "Closed"})
  BY TreeFields DEF IInv, Typed, Nodes
<1>2. tree.bank[c].state \in {"Opened", "Closed"}
  BY <1>1 DEF Node
<1>. QED
  BY <1>1, <1>2 DEF IInv, BanksAgree

\* A step is one of the three: what a request, a row policy or an upgrade issues
\* opens a row of a closed bank, closes banks, or does neither.
LEMMA PlainStep ==
  ASSUME IInv, std \in Plain, Next
  PROVE  IInv'
<1>0. std \in Flat /\ std \in Standard
  BY DEF Plain, Standard
<1>1. ASSUME NEW cmd, NEW a, issue_cmd(cmd, a),
             \/ cmd \in {"RD", "WR", "REF", "PDE", "PDX", "SRE", "SRX", "PRE", "RDA", "WRA", "PREA"}
             \/ cmd = "ACT" /\ a.bank \in Bank /\ a.row \in Row /\ table[<<a.bank, 0>>] = None
      PROVE  IInv'
  <2>1. std' = std
    BY <1>1 DEF issue_cmd
  <2>2. Keeps \/ (cmd = "ACT" /\ BankOpens(a.bank, a.row)) \/ BanksClose({a.bank}) \/ BanksClose(Bank)
    BY <1>1, PlainIssue
  <2>3. CASE Keeps
    BY <2>1, <2>3, KeepsIInv
  <2>4. CASE cmd = "ACT" /\ BankOpens(a.bank, a.row)
    <3>1. a.bank \in Bank /\ a.row \in Row
      BY <1>1, <2>4
    <3>. QED
      BY <1>0, <2>1, <2>4, <3>1, BankOpensIInv
  <2>5. CASE BanksClose({a.bank})
    BY <1>0, <2>1, <2>5, BanksCloseIInv
  <2>6. CASE BanksClose(Bank)
    BY <1>0, <2>1, <2>6, BanksCloseIInv
  <2>. QED
    BY <2>2, <2>3, <2>4, <2>5, <2>6
<1>2. tree \in Tree
  BY DEF IInv, Typed
<1>3. ASSUME NEW type \in Request, NEW a \in Addresses(type), Serve(type, a)
      PROVE  IInv'
  <2>. DEFINE cmd == FirstCommand(type, tree, a)
  <2>1. issue_cmd(cmd, get_addr_vec(cmd, tree, a))
    BY <1>3 DEF Serve
  <2>2. CASE type \in Access
    <3>1. a.bank \in Bank /\ a.row \in Row
      BY <2>2, AccessAddress
    <3>2. Accessing(type) \in {"RD", "WR"}
      BY <2>2, PlainSpec DEF Accessing, Access
    <3>3. cmd = IF tree.rank = "PowerUp" THEN RowOpen(tree.bank[a.bank], a.row, Accessing(type))
                ELSE MemoryAwake(tree)
      BY <1>2, <2>2, PlainFirst
    <3>. HIDE DEF cmd
    <3>4. tree.bank[a.bank] \in Node({"Opened", "Closed"})
      BY <1>0, <3>1, ClosedBank
    <3>5. cmd \in {"SRX", "PDX", "RD", "WR", "PRE"} \/ (cmd = "ACT" /\ tree.bank[a.bank].state = "Closed")
      BY <3>2, <3>3, <3>4, AwakeFacts, RowOpenFacts
    <3>6. get_addr_vec(cmd, tree, a) = a
      BY <3>5 DEF get_addr_vec
    <3>7. tree.bank[a.bank].state = "Closed" => table[<<a.bank, 0>>] = None
      BY <1>0, <3>1, ClosedBank
    <3>. QED
      BY <1>1, <2>1, <3>1, <3>5, <3>6, <3>7
  <2>3. CASE type \notin Access
    <3>1. cmd \in {"REF", "PREA", "PDE", "PDX", "SRE", "SRX"}
      BY <1>2, <2>3, PlainFirst
    <3>2. get_addr_vec(cmd, tree, a) = a
      BY <3>1 DEF get_addr_vec
    <3>. HIDE DEF cmd
    <3>. QED
      BY <1>1, <2>1, <3>1, <3>2
  <2>. QED
    BY <2>2, <2>3
<1>4. ASSUME NEW type \in Access, NEW a \in Addresses(type), AutoPrecharge(type, a)
      PROVE  IInv'
  <2>1. \E cmd \in {"RDA", "WRA"} : issue_cmd(cmd, a)
    BY <1>4 DEF AutoPrecharge
  <2>. QED
    BY <1>1, <2>1
<1>5. ASSUME NEW g \in Group(std), PrechargeVictim(g) PROVE IInv'
  <2>1. \E a : issue_cmd("PRE", a)
    BY <1>5 DEF PrechargeVictim
  <2>. QED
    BY <1>1, <2>1
<1>. QED
  BY <1>3, <1>4, <1>5 DEF Next

\* The first command and the row hit are told by the same node.
LEMMA PlainHits ==
  ASSUME IInv, std \in Plain
  PROVE  HitsAgree
<1>0. std \in Flat /\ tree \in Tree
  BY DEF Plain, IInv, Typed
<1>1. ASSUME NEW type \in Access, NEW a \in Addresses(type), tree.rank = "PowerUp"
      PROVE  LET cmd == FirstCommand(type, tree, a)
             IN /\ cmd \in spec(std).accessing => DDR3_rowhit(tree, a)
                /\ DDR3_rowhit(tree, a) => cmd \notin spec(std).opening \cup (spec(std).closing \ {"PRE_OTHER"})
                /\ DDR3_rowhit(tree, a) /\ std # "ALDRAM" => DDR3_rowopen(tree, a)
  <2>. DEFINE cmd == FirstCommand(type, tree, a)
  <2>1. cmd = RowOpen(tree.bank[a.bank], a.row, Accessing(type))
    BY <1>0, <1>1, PlainFirst
  <2>2. Accessing(type) \in {"RD", "WR"}
    BY PlainSpec DEF Accessing, Access
  <2>3. tree.bank[a.bank] \in Node({"Opened", "Closed"})
    BY <1>0, ClosedBank, AccessAddress
  <2>4. tree.bank[a.bank].state \in {"Opened", "Closed"}
    BY <2>3 DEF Node
  <2>. HIDE DEF cmd
  <2>5. cmd \in {"ACT", "PRE", "RD", "WR"} /\ (cmd \in {"RD", "WR"} <=> DDR3_rowhit(tree, a))
    BY <2>1, <2>2, <2>3, <2>4, RowOpenFacts DEF DDR3_rowhit
  <2>6. cmd \in spec(std).accessing => DDR3_rowhit(tree, a)
    BY <2>5, PlainSpec
  <2>7. DDR3_rowhit(tree, a) => cmd \notin spec(std).opening \cup (spec(std).closing \ {"PRE_OTHER"})
    BY <2>5, PlainSpec
  <2>8. DDR3_rowhit(tree, a) => DDR3_rowopen(tree, a)
    BY DEF DDR3_rowhit, DDR3_rowopen
  <2>. QED
    BY <2>6, <2>7, <2>8 DEF cmd
<1>2. ASSUME NEW a
      PROVE  /\ check_row_hit(tree, a) = DDR3_rowhit(tree, a)
             /\ std # "ALDRAM" => check_row_open(tree, a) = DDR3_rowopen(tree, a)
  <2>1. check_row_hit(tree, a) = DDR3_rowhit(tree, a)
    BY DEF Plain, Flat, check_row_hit, DDR4_rowhit, LPDDR3_rowhit, LPDDR4_rowhit, GDDR5_rowhit,
           HBM_rowhit, WideIO_rowhit, WideIO2_rowhit, PCM_rowhit, STTMRAM_rowhit, ALDRAM_rowhit
  <2>2. std # "ALDRAM" => check_row_open(tree, a) = DDR3_rowopen(tree, a)
    BY DEF Plain, Flat, check_row_open, DDR4_rowopen, LPDDR3_rowopen, LPDDR4_rowopen, GDDR5_rowopen,
           HBM_rowopen, WideIO_rowopen, WideIO2_rowopen, PCM_rowopen, STTMRAM_rowopen
  <2>. QED
    BY <2>1, <2>2
<1>. QED
  BY <1>1, <1>2 DEF HitsAgree
-----------------------------------------------------------------------------
(* TLDRAM                                                                  *)

LEMMA TLDRAMPrereq ==
  ASSUME std = "TLDRAM", NEW cmd, NEW t, NEW a
  PROVE  /\ prereq(std, "Rank", cmd, t, a) = TLDRAM_prereq("Rank", cmd, t, a)
         /\ prereq(std, "Bank", cmd, t, a) = TLDRAM_prereq("Bank", cmd, t, a)
BY DEF prereq

\* Fast rows and rows to be migrated have commands of their own.
LEMMA TLDRAMBank ==
  ASSUME NEW cmd \in {"WR", "MIG"}, NEW t, NEW a
  PROVE  LET first == RowOpen(t.bank[a.bank], a.row, cmd)
             c == TLDRAM_prereq("Bank", cmd, t, a)
         IN /\ c \in {"ACT", "ACTF", "ACTM", "PRE", "PREF", "PREM", cmd}
            /\ c \in {"ACT", "ACTF", "ACTM"} <=> first = "ACT"
            /\ c = cmd <=> first = cmd
<1>. DEFINE first == RowOpen(t.bank[a.bank], a.row, cmd)
            slow == [c \in {"ACT", "PRE", cmd} |-> c]
            fast == [slow EXCEPT !["ACT"] = "ACTF", !["PRE"] = "PREF"]
            migrated == [slow EXCEPT !["ACT"] = "ACTM", !["PRE"] = "PREM"]
<1>1. first \in {"ACT", "PRE", cmd}
  BY DEF RowOpen
<1>2. slow["ACT"] = "ACT" /\ slow["PRE"] = "PRE" /\ slow[cmd] = cmd
  OBVIOUS
<1>3. fast["ACT"] = "ACTF" /\ fast["PRE"] = "PREF" /\ fast[cmd] = cmd
  OBVIOUS
<1>4. migrated["ACT"] = "ACTM" /\ migrated["PRE"] = "PREM" /\ migrated[cmd] = cmd
  OBVIOUS
<1>5. TLDRAM_prereq("Bank", cmd, t, a) \in {slow[first], fast[first], migrated[first]}
  <2>1. CASE cmd = "MIG"
    BY <2>1 DEF TLDRAM_prereq, ReadWrite
  <2>2. CASE cmd = "WR"
    BY <2>2 DEF TLDRAM_prereq, ReadWrite
  <2>. QED
    BY <2>1, <2>2
<1>. HIDE DEF first, slow, fast, migrated
<1>6. LET c == TLDRAM_prereq("Bank", cmd, t, a)
      IN /\ c \in {"ACT", "ACTF", "ACTM", "PRE", "PREF", "PREM", cmd}
         /\ c \in {"ACT", "ACTF", "ACTM"} <=> first = "ACT"
         /\ c = cmd <=> first = cmd
  BY <1>1, <1>2, <1>3, <1>4, <1>5
<1>. QED
  BY <1>6 DEF first

LEMMA TLDRAMRank ==
  ASSUME NEW cmd, NEW t, NEW a
  PROVE  /\ cmd \in {"WR", "MIG"} => TLDRAM_prereq("Rank", cmd, t, a) = MemoryAwake(t)
         /\ cmd \in {"REF", "PDE", "SRE"} =>
              TLDRAM_prereq("Rank", cmd, t, a) \in {"REF", "PREA", "PREAF", "PDE", "PDX", "SRE", "SRX"}
<1>1. ASSUME cmd = "MIG" PROVE TLDRAM_prereq("Rank", cmd, t, a) = MemoryAwake(t)
  BY <1>1 DEF TLDRAM_prereq
<1>2. ASSUME cmd = "WR" PROVE TLDRAM_prereq("Rank", cmd, t, a) = MemoryAwake(t)
  BY <1>2, DDR3First DEF TLDRAM_prereq, ReadWrite
<1>3. ASSUME cmd = "REF"
      PROVE  TLDRAM_prereq("Rank", cmd, t, a) \in {"REF", "PREA", "PREAF", "PDE", "PDX", "SRE", "SRX"}
  BY <1>3 DEF TLDRAM_prereq
<1>4. ASSUME cmd \in {"PDE", "SRE"}
      PROVE  TLDRAM_prereq("Rank", cmd, t, a) \in {"REF", "PREA", "PREAF", "PDE", "PDX", "SRE", "SRX"}
  <2>1. TLDRAM_prereq("Rank", cmd, t, a) = DDR3_prereq("Rank", cmd, t, a)
    BY <1>4 DEF TLDRAM_prereq
  <2>. QED
    BY <1>4, <2>1, DDR3First
<1>. QED
  BY <1>1, <1>2, <1>3, <1>4

LEMMA TLDRAMFirst ==
  ASSUME std = "TLDRAM", NEW t \in Tree
  PROVE  /\ \A type \in Access : \A a \in Addresses(type) :
              FirstCommand(type, t, a) =
                IF t.rank = "PowerUp" THEN TLDRAM_prereq("Bank", Accessing(type), t, a)
                ELSE MemoryAwake(t)
         /\ \A type \in Request \ Access : \A a \in Addresses(type) :
              FirstCommand(type, t, a) \in {"REF", "PREA", "PREAF", "PDE", "PDX", "SRE", "SRX"}
<1>1. ASSUME NEW type \in Access, NEW a \in Addresses(type)
      PROVE  FirstCommand(type, t, a) =
               IF t.rank = "PowerUp" THEN TLDRAM_prereq("Bank", Accessing(type), t, a)
               ELSE MemoryAwake(t)
  <2>. DEFINE c == Accessing(type)
  <2>1. c \in {"WR", "MIG"}
    BY TLDRAMSpec DEF Accessing, Access
  <2>. HIDE DEF c
  <2>2. prereq(std, "Rank", c, t, a) = MemoryAwake(t)
    BY <2>1, TLDRAMPrereq, TLDRAMRank
  <2>3. prereq(std, "Bank", c, t, a) = TLDRAM_prereq("Bank", c, t, a)
    BY TLDRAMPrereq
  <2>4. TLDRAM_prereq("Bank", c, t, a) # "MAX"
    BY <2>1, TLDRAMBank
  <2>5. FirstCommand(type, t, a) = decode(c, t, a)
    BY DEF FirstCommand, Accessing, c
  <2>. QED
    BY <2>2, <2>3, <2>4, <2>5, AwakeFacts, AccessAddress DEF decode, c
<1>2. ASSUME NEW type \in Request \ Access, NEW a \in Addresses(type)
      PROVE  FirstCommand(type, t, a) \in {"REF", "PREA", "PREAF", "PDE", "PDX", "SRE", "SRX"}
  <2>2. Accessing(type) \in {"REF", "PDE", "SRE"}
    BY TLDRAMSpec DEF Accessing, Request, Access
  <2>3. prereq(std, "Rank", Accessing(type), t, a) \in {"REF", "PREA", "PREAF", "PDE", "PDX", "SRE", "SRX"}
    BY <2>2, TLDRAMPrereq, TLDRAMRank
  <2>. QED
    BY <2>3 DEF FirstCommand, decode, Accessing
<1>. QED
  BY <1>1, <1>2

LEMMA TLDRAMUpdate ==
  ASSUME std = "TLDRAM", NEW cmd, NEW t, NEW a
  PROVE  LET rank == TLDRAM_lambda("Rank", cmd, t, a)
         IN update_state(cmd, t, a) =
              IF cmd \in {"PREA", "PREAF", "PREAM", "REF", "PDE", "PDX", "SRE", "SRX"} THEN rank
              ELSE TLDRAM_lambda("Bank", cmd, rank, a)
<1>. DEFINE rank == TLDRAM_lambda("Rank", cmd, t, a)
<1>1. lambda(std, "Rank", cmd, t, a) = rank
  BY DEF lambda
<1>. HIDE DEF rank
<1>2. lambda(std, "Bank", cmd, rank, a) = TLDRAM_lambda("Bank", cmd, rank, a)
  BY DEF lambda
<1>3. std \in Flat
  BY DEF Flat
<1>. QED
  BY <1>1, <1>2, <1>3, TLDRAMSpec DEF update_state, rank

LEMMA TLDRAMIssue ==
  ASSUME IInv, std = "TLDRAM", NEW cmd, NEW a, issue_cmd(cmd, a)
  PROVE  /\ cmd \in {"MIG", "WR", "REF", "PDE", "PDX", "SRE", "SRX"} => Keeps
         /\ cmd \in {"ACT", "ACTF", "ACTM"} /\ a.bank \in Bank /\ a.row \in Row /\ table[<<a.bank, 0>>] = None
              => BankOpens(a.bank, a.row)
         /\ cmd \in {"PRE", "PREF", "PREM"} => BanksClose({a.bank})
         /\ cmd \in {"PREA", "PREAF"} => BanksClose(Bank)
<1>. DEFINE bank(t) == TLDRAM_lambda("Bank", cmd, t, a)
            rank == TLDRAM_lambda("Rank", cmd, tree, a)
<1>1. tree' = IF cmd \in {"PREA", "PREAF", "PREAM", "REF", "PDE", "PDX", "SRE", "SRX"} THEN rank ELSE bank(rank)
  BY TLDRAMUpdate DEF issue_cmd
<1>2. UpdateRowTable(cmd, a) /\ Typed /\ tree \in Tree
  BY DEF issue_cmd, IInv, Typed
<1>3. std \in Flat /\ GroupOf(a) = <<a.bank, 0>> /\ Group(std) = Bank \X {0}
  BY GroupTypes DEF GroupOf, Flat
<1>. HIDE DEF bank, rank
<1>4. cmd \notin {"PREA", "PREAF", "PREAM", "PDE", "PDX", "SRE", "SRX"} => rank = tree
  BY DEF rank, TLDRAM_lambda, PowerCommand
<1>5. ASSUME cmd \in {"MIG", "WR", "REF", "PDE", "PDX", "SRE", "SRX"} PROVE Keeps
  <2>1. table' = table
    BY <1>2, <1>5, TLDRAMSpec, TableKept
  <2>2. rank \in Tree /\ rank.bank = tree.bank /\ rank.sa = tree.sa
    BY <1>2, <1>5, PowerFacts DEF rank, TLDRAM_lambda
  <2>3. cmd \in {"MIG", "WR"} => bank(rank) = rank
    BY DEF bank, TLDRAM_lambda
  <2>. QED
    BY <1>1, <1>5, <2>1, <2>2, <2>3 DEF Keeps
<1>6. ASSUME cmd \in {"ACT", "ACTF", "ACTM"}, a.bank \in Bank, a.row \in Row, table[<<a.bank, 0>>] = None
      PROVE  BankOpens(a.bank, a.row)
  <2>1. tree' = [tree EXCEPT !.bank[a.bank] = OpenedNode(@, a.row)]
    BY <1>1, <1>4, <1>6 DEF bank, TLDRAM_lambda
  <2>2. table' = [table EXCEPT ![<<a.bank, 0>>] = a.row]
    BY <1>2, <1>3, <1>6, TLDRAMSpec, TableOpens
  <2>. DEFINE c == a.bank  r == a.row
  <2>3. c \in Bank /\ r \in Row
    BY <1>6
  <2>4. tree' = [tree EXCEPT !.bank[c] = OpenedNode(@, r)]
    BY <2>1
  <2>. HIDE DEF c, r
  <2>5. /\ tree' \in Tree /\ tree'.sa = tree.sa
        /\ \A b \in Bank : tree'.bank[b] = IF b = c THEN OpenedNode(tree.bank[c], r) ELSE tree.bank[b]
    BY <1>2, <2>3, <2>4, OpenBankFacts
  <2>. QED
    BY <1>6, <2>2, <2>5 DEF BankOpens, c, r
<1>7. ASSUME cmd \in {"PRE", "PREF", "PREM"} PROVE BanksClose({a.bank})
  <2>1. tree' = CloseBanks(tree, {a.bank})
    BY <1>1, <1>4, <1>7 DEF bank, TLDRAM_lambda
  <2>2. \A g \in Group(std) : g \in Removed(cmd, a) <=> g[1] \in {a.bank}
    BY <1>7, TLDRAMSpec DEF Removed
  <2>3. table' = [g \in Group(std) |-> IF g \in Removed(cmd, a) THEN None ELSE table[g]]
    BY <1>2, <1>7, TLDRAMSpec, TableCloses
  <2>4. table' = [g \in Group(std) |-> IF g[1] \in {a.bank} THEN None ELSE table[g]]
    BY <2>2, <2>3
  <2>. QED
    BY <1>2, <2>1, <2>4, CloseBanksFacts DEF BanksClose
<1>8. ASSUME cmd \in {"PREA", "PREAF"} PROVE BanksClose(Bank)
  <2>1. tree' = CloseBanks(tree, Bank)
    BY <1>1, <1>8 DEF rank, TLDRAM_lambda
  <2>2. \A g \in Group(std) : g \in Removed(cmd, a) <=> g[1] \in Bank
    BY <1>3, <1>8, TLDRAMSpec DEF Removed
  <2>3. table' = [g \in Group(std) |-> IF g \in Removed(cmd, a) THEN None ELSE table[g]]
    BY <1>2, <1>8, TLDRAMSpec, TableCloses
  <2>4. table' = [g \in Group(std) |-> IF g[1] \in Bank THEN None ELSE table[g]]
    BY <2>2, <2>3
  <2>. QED
    BY <1>2, <2>1, <2>4, CloseBanksFacts DEF BanksClose
<1>. QED
  BY <1>5, <1>6, <1>7, <1>8

LEMMA TLDRAMStep ==
  ASSUME IInv, std = "TLDRAM", Next
  PROVE  IInv'
<1>0. std \in Flat /\ std \in Standard
  BY DEF Flat, Standard
<1>1. ASSUME NEW cmd, NEW a, issue_cmd(cmd, a),
             \/ cmd \in {"MIG", "WR", "REF", "PDE", "PDX", "SRE", "SRX", "PRE", "PREF", "PREM", "PREA", "PREAF"}
             \/ cmd \in {"ACT", "ACTF", "ACTM"} /\ a.bank \in Bank /\ a.row \in Row /\ table[<<a.bank, 0>>] = None
      PROVE  IInv'
  <2>1. std' = std
    BY <1>1 DEF issue_cmd
  <2>2. \/ Keeps \/ BanksClose({a.bank}) \/ BanksClose(Bank)
        \/ cmd \in {"ACT", "ACTF", "ACTM"} /\ BankOpens(a.bank, a.row)
    BY <1>1, TLDRAMIssue
  <2>3. CASE Keeps
    BY <2>1, <2>3, KeepsIInv
  <2>4. CASE cmd \in {"ACT", "ACTF", "ACTM"} /\ BankOpens(a.bank, a.row)
    <3>1. a.bank \in Bank /\ a.row \in Row
      BY <1>1, <2>4
    <3>. QED
      BY <1>0, <2>1, <2>4, <3>1, BankOpensIInv
  <2>5. CASE BanksClose({a.bank})
    BY <1>0, <2>1, <2>5, BanksCloseIInv
  <2>6. CASE BanksClose(Bank)
    BY <1>0, <2>1, <2>6, BanksCloseIInv
  <2>. QED
    BY <2>2, <2>3, <2>4, <2>5, <2>6
<1>2. tree \in Tree
  BY DEF IInv, Typed
<1>3. ASSUME NEW type \in Request, NEW a \in Addresses(type), Serve(type, a)
      PROVE  IInv'
  <2>. DEFINE cmd == FirstCommand(type, tree, a)
  <2>1. issue_cmd(cmd, get_addr_vec(cmd, tree, a))
    BY <1>3 DEF Serve
  <2>2. CASE type \in Access
    <3>1. a.bank \in Bank /\ a.row \in Row
      BY <2>2, AccessAddress
    <3>. DEFINE acc == Accessing(type)
                pre == TLDRAM_prereq("Bank", acc, tree, a)
                first == RowOpen(tree.bank[a.bank], a.row, acc)
    <3>2. acc \in {"WR", "MIG"}
      BY <2>2, TLDRAMSpec DEF Accessing, Access
    <3>3. cmd = IF tree.rank = "PowerUp" THEN pre ELSE MemoryAwake(tree)
      BY <1>2, <2>2, TLDRAMFirst
    <3>. HIDE DEF cmd, acc
    <3>4. /\ pre \in {"ACT", "ACTF", "ACTM", "PRE", "PREF", "PREM", acc}
          /\ pre \in {"ACT", "ACTF", "ACTM"} <=> first = "ACT"
      BY <3>2, TLDRAMBank
    <3>5. tree.bank[a.bank] \in Node({"Opened", "Closed"})
      BY <1>0, <3>1, ClosedBank
    <3>6. first = "ACT" <=> tree.bank[a.bank].state = "Closed"
      BY <3>2, <3>5, RowOpenFacts
    <3>. HIDE DEF pre, first
    <3>7. \/ cmd \in {"MIG", "WR", "PDX", "SRX", "PRE", "PREF", "PREM"}
          \/ cmd \in {"ACT", "ACTF", "ACTM"} /\ tree.bank[a.bank].state = "Closed"
      BY <3>2, <3>3, <3>4, <3>6, AwakeFacts
    <3>8. get_addr_vec(cmd, tree, a) = a
      BY <3>7 DEF get_addr_vec
    <3>9. tree.bank[a.bank].state = "Closed" => table[<<a.bank, 0>>] = None
      BY <1>0, <3>1, ClosedBank
    <3>. QED
      BY <1>1, <2>1, <3>1, <3>7, <3>8, <3>9
  <2>3. CASE type \notin Access
    <3>1. cmd \in {"REF", "PREA", "PREAF", "PDE", "PDX", "SRE", "SRX"}
      BY <1>2, <2>3, TLDRAMFirst
    <3>2. get_addr_vec(cmd, tree, a) = a
      BY <3>1 DEF get_addr_vec
    <3>. HIDE DEF cmd
    <3>. QED
      BY <1>1, <2>1, <3>1, <3>2
  <2>. QED
    BY <2>2, <2>3
<1>4. ASSUME NEW g \in Group(std), PrechargeVictim(g) PROVE IInv'
  <2>1. \E a : issue_cmd("PRE", a)
    BY <1>4 DEF PrechargeVictim
  <2>. QED
    BY <1>1, <2>1
<1>5. \A type, a : ~AutoPrecharge(type, a)
  BY DEF AutoPrecharge
<1>. QED
  BY <1>3, <1>4, <1>5 DEF Next

LEMMA TLDRAMHits ==
  ASSUME IInv, std = "TLDRAM"
  PROVE  HitsAgree
<1>0. std \in Flat /\ tree \in Tree
  BY DEF Flat, IInv, Typed
<1>1. ASSUME NEW type \in Access, NEW a \in Addresses(type), tree.rank = "PowerUp"
      PROVE  LET cmd == FirstCommand(type, tree, a)
             IN /\ cmd \in spec(std).accessing => DDR3_rowhit(tree, a)
                /\ DDR3_rowhit(tree, a) => cmd \notin spec(std).opening \cup (spec(std).closing \ {"PRE_OTHER"})
                /\ DDR3_rowhit(tree, a) /\ std # "ALDRAM" => DDR3_rowopen(tree, a)
  <2>. DEFINE acc == Accessing(type)
              cmd == FirstCommand(type, tree, a)
              first == RowOpen(tree.bank[a.bank], a.row, acc)
  <2>1. cmd = TLDRAM_prereq("Bank", acc, tree, a)
    BY <1>0, <1>1, TLDRAMFirst
  <2>2. acc \in {"WR", "MIG"}
    BY TLDRAMSpec DEF Accessing, Access
  <2>3. tree.bank[a.bank] \in Node({"Opened", "Closed"})
    BY <1>0, ClosedBank, AccessAddress
  <2>4. tree.bank[a.bank].state \in {"Opened", "Closed"}
    BY <2>3 DEF Node
  <2>. HIDE DEF cmd, acc
  <2>5. cmd \in {"ACT", "ACTF", "ACTM", "PRE", "PREF", "PREM", acc} /\ (cmd = acc <=> first = acc)
    BY <2>1, <2>2, TLDRAMBank
  <2>6. first = acc <=> DDR3_rowhit(tree, a)
    BY <2>2, <2>3, <2>4, RowOpenFacts DEF DDR3_rowhit
  <2>. HIDE DEF first
  <2>7. cmd \in spec(std).accessing => DDR3_rowhit(tree, a)
    BY <2>2, <2>5, <2>6, TLDRAMSpec
  <2>8. DDR3_rowhit(tree, a) => cmd \notin spec(std).opening \cup (spec(std).closing \ {"PRE_OTHER"})
    BY <2>2, <2>5, <2>6, TLDRAMSpec
  <2>9. DDR3_rowhit(tree, a) => DDR3_rowopen(tree, a)
    BY DEF DDR3_rowhit, DDR3_rowopen
  <2>. QED
    BY <2>7, <2>8, <2>9 DEF cmd
<1>2. ASSUME NEW a
      PROVE  check_row_hit(tree, a) = DDR3_rowhit(tree, a) /\ check_row_open(tree, a) = DDR3_rowopen(tree, a)
  BY DEF check_row_hit, check_row_open, TLDRAM_rowhit, TLDRAM_rowopen
<1>. QED
  BY <1>1, <1>2 DEF HitsAgree
-----------------------------------------------------------------------------
(* The standards of SALP                                                   *)

SALP == {"SALP_1", "SALP_2", "MASA"}

LEMMA SALPRank ==
  ASSUME std \in SALP, NEW cmd, NEW t, NEW a
  PROVE  /\ cmd \in ReadWrite => prereq(std, "Rank", cmd, t, a) = MemoryAwake(t)
         /\ cmd \in {"REF", "PDE", "SRE"} =>
              prereq(std, "Rank", cmd, t, a) \in {"REF", "PREA", "PDE", "PDX", "SRE", "SRX"}
<1>1. prereq(std, "Rank", cmd, t, a) = SALP_prereq(std, "Rank", cmd, t, a)
  BY DEF prereq, SALP
<1>2. ASSUME cmd \in ReadWrite PROVE SALP_prereq(std, "Rank", cmd, t, a) = MemoryAwake(t)
  BY <1>2 DEF SALP_prereq, ReadWrite
<1>3. ASSUME cmd \in {"PDE", "SRE"}
      PROVE  SALP_prereq(std, "Rank", cmd, t, a) \in {"PDE", "PDX", "SRE", "SRX"}
  BY <1>3 DEF SALP_prereq, ReadWrite, ToPowerDown, ToSelfRefresh
<1>4. ASSUME cmd = "REF" PROVE SALP_prereq(std, "Rank", cmd, t, a) \in {"REF", "PREA"}
  <2>1. CASE std = "SALP_1"
    BY <1>4, <2>1 DEF SALP_prereq, SALP_1_prereq, ReadWrite
  <2>2. CASE std = "SALP_2"
    BY <1>4, <2>2 DEF SALP_prereq, SALP_2_prereq, ReadWrite
  <2>3. CASE std = "MASA"
    BY <1>4, <2>3 DEF SALP_prereq, MASA_prereq, ReadWrite
  <2>. QED
    BY <2>1, <2>2, <2>3 DEF SALP
<1>. QED
  BY <1>1, <1>2, <1>3, <1>4

\* An access is decoded at the bank and at the subarray.
LEMMA SALPFirst ==
  ASSUME std \in SALP, NEW t
  PROVE  /\ \A type \in Access : \A a \in Addresses(type) :
              /\ Accessing(type) \in {"RD", "WR"}
              /\ FirstCommand(type, t, a) =
                   LET atBank == SALP_prereq(std, "Bank", Accessing(type), t, a)
                       atSubArray == SALP_prereq(std, "SubArray", Accessing(type), t, a)
                   IN IF t.rank # "PowerUp" THEN MemoryAwake(t)
                      ELSE IF atBank # "MAX" THEN atBank
                      ELSE IF atSubArray = "MAX" THEN Accessing(type) ELSE atSubArray
         /\ \A type \in Request \ Access : \A a \in Addresses(type) :
              FirstCommand(type, t, a) \in {"REF", "PREA", "PDE", "PDX", "SRE", "SRX"}
<1>1. ASSUME NEW type \in Access, NEW a \in Addresses(type)
      PROVE  /\ Accessing(type) \in {"RD", "WR"}
             /\ FirstCommand(type, t, a) =
                  LET atBank == SALP_prereq(std, "Bank", Accessing(type), t, a)
                      atSubArray == SALP_prereq(std, "SubArray", Accessing(type), t, a)
                  IN IF t.rank # "PowerUp" THEN MemoryAwake(t)
                     ELSE IF atBank # "MAX" THEN atBank
                     ELSE IF atSubArray = "MAX" THEN Accessing(type) ELSE atSubArray
  <2>. DEFINE c == Accessing(type)
  <2>1. c \in ReadWrite
    BY SALPSpec DEF Accessing, Access, ReadWrite, SALP
  <2>. HIDE DEF c
  <2>2. prereq(std, "Rank", c, t, a) = MemoryAwake(t)
    BY <2>1, SALPRank
  <2>3. prereq(std, "Bank", c, t, a) = SALP_prereq(std, "Bank", c, t, a)
    BY DEF prereq, SALP
  <2>4. prereq(std, "SubArray", c, t, a) = SALP_prereq(std, "SubArray", c, t, a)
    BY DEF prereq, SALP
  <2>5. FirstCommand(type, t, a) = decode(c, t, a)
    BY DEF FirstCommand, Accessing, c
  <2>6. std \notin Flat
    BY DEF SALP, Flat
  <2>7. FirstCommand(type, t, a) =
          LET atBank == SALP_prereq(std, "Bank", c, t, a)
              atSubArray == SALP_prereq(std, "SubArray", c, t, a)
          IN IF t.rank # "PowerUp" THEN MemoryAwake(t)
             ELSE IF atBank # "MAX" THEN atBank
             ELSE IF atSubArray = "MAX" THEN c ELSE atSubArray
    BY <2>2, <2>3, <2>4, <2>5, <2>6, AwakeFacts, AccessAddress DEF decode
  <2>. QED
    BY <2>1, <2>7 DEF c, ReadWrite
<1>2. ASSUME NEW type \in Request \ Access, NEW a \in Addresses(type)
      PROVE  FirstCommand(type, t, a) \in {"REF", "PREA", "PDE", "PDX", "SRE", "SRX"}
  <2>2. Accessing(type) \in {"REF", "PDE", "SRE"}
    BY SALPSpec DEF Accessing, Request, Access, SALP
  <2>3. prereq(std, "Rank", Accessing(type), t, a) \in {"REF", "PREA", "PDE", "PDX", "SRE", "SRX"}
    BY <2>2, SALPRank
  <2>. QED
    BY <2>3 DEF FirstCommand, decode, Accessing
<1>. QED
  BY <1>1, <1>2

\* What a command does to the table.
LEMMA SALPTable ==
  ASSUME IInv, std \in SALP, NEW cmd, NEW a, issue_cmd(cmd, a)
  PROVE  /\ cmd \in {"RD", "WR", "SASEL", "REF", "PDE", "PDX", "SRE", "SRX"} => table' = table
         /\ cmd = "ACT" /\ a.bank \in Bank /\ a.sa \in SubArray /\ table[<<a.bank, a.sa>>] = None
              => table' = [table EXCEPT ![<<a.bank, a.sa>>] = a.row]
         /\ cmd \in {"PRE", "PRE_OTHER", "RDA", "WRA"}
              => table' = [g \in Group(std) |-> IF g \in {<<a.bank, a.sa>>} THEN None ELSE table[g]]
         /\ cmd = "PREA"
              => table' = [g \in Group(std) |-> IF g \in Bank \X SubArray THEN None ELSE table[g]]
<1>1. UpdateRowTable(cmd, a) /\ Typed
  BY DEF issue_cmd, IInv
<1>2. GroupOf(a) = <<a.bank, a.sa>> /\ Group(std) = Bank \X SubArray
  BY GroupTypes DEF GroupOf, SALP, Flat, Standard, WithSubArrays
<1>3. ASSUME cmd \in {"RD", "WR", "SASEL", "REF", "PDE", "PDX", "SRE", "SRX"} PROVE table' = table
  BY <1>1, <1>3, SALPSpec, TableKept DEF SALP
<1>4. ASSUME cmd = "ACT", a.bank \in Bank, a.sa \in SubArray, table[<<a.bank, a.sa>>] = None
      PROVE  table' = [table EXCEPT ![<<a.bank, a.sa>>] = a.row]
  BY <1>1, <1>2, <1>4, SALPSpec, TableOpens DEF SALP
<1>5. ASSUME cmd \in {"PRE", "PRE_OTHER", "RDA", "WRA"}
      PROVE  table' = [g \in Group(std) |-> IF g \in {<<a.bank, a.sa>>} THEN None ELSE table[g]]
  <2>1. Removed(cmd, a) = {<<a.bank, a.sa>>}
    BY <1>2, <1>5, SALPSpec DEF Removed, SALP
  <2>2. table' = [g \in Group(std) |-> IF g \in Removed(cmd, a) THEN None ELSE table[g]]
    BY <1>1, <1>5, SALPSpec, TableCloses DEF SALP
  <2>. QED
    BY <2>1, <2>2
<1>6. ASSUME cmd = "PREA"
      PROVE  table' = [g \in Group(std) |-> IF g \in Bank \X SubArray THEN None ELSE table[g]]
  <2>1. Removed(cmd, a) = Bank \X SubArray
    BY <1>2, <1>6, SALPSpec DEF Removed, SALP
  <2>2. table' = [g \in Group(std) |-> IF g \in Removed(cmd, a) THEN None ELSE table[g]]
    BY <1>1, <1>6, SALPSpec, TableCloses DEF SALP
  <2>. QED
    BY <2>1, <2>2
<1>. QED
  BY <1>3, <1>4, <1>5, <1>6

\* A subarray that is closed has no row in the table.
LEMMA ClosedSubArray ==
  ASSUME IInv, std \notin Flat, NEW c \in Bank, NEW e \in SubArray
  PROVE  /\ tree.sa[c][e] \in Node({"Opened", "Closed", "Selected"})
         /\ tree.sa[c][e].state = "Closed" <=> table[<<c, e>>] = None
         /\ tree.sa[c][e].state = "Closed" <=> tree.sa[c][e].rows = {}
<1>1. tree.sa[c][e] \in Node({"Opened", "Closed", "Selected"})
  BY TreeFields DEF IInv, Typed, SaNodes
<1>. QED
  BY <1>1 DEF IInv, SubArraysAgree, IsOpen, Entry

\* Opening a row in a subarray that is closed.
LEMMA OpensSubArray ==
  ASSUME NEW u \in Tree, u.sa = tree.sa,
         NEW c \in Bank, NEW e \in SubArray, NEW r \in Row,
         table[<<c, e>>] = None, table' = [table EXCEPT ![<<c, e>>] = r],
         tree' = [u EXCEPT !.sa[c][e] = OpenedNode(@, r)]
  PROVE  /\ SubArrayOpens(c, e, r)
         /\ NoneSelected => NoneSelected'
         /\ tree'.bank = u.bank
<1>2. /\ tree' \in Tree /\ tree'.bank = u.bank
      /\ \A b \in Bank, s \in SubArray :
           tree'.sa[b][s] = IF b = c /\ s = e THEN OpenedNode(tree.sa[c][e], r) ELSE tree.sa[b][s]
  BY OpenSubArrayFacts
<1>3. /\ OpenedNode(tree.sa[c][e], r).state = "Opened"
      /\ OpenedNode(tree.sa[c][e], r).rows = tree.sa[c][e].rows \cup {r}
  BY DEF OpenedNode
<1>4. ASSUME NEW b \in Bank, NEW s \in SubArray
      PROVE  /\ tree'.sa[b][s].rows = IF b = c /\ s = e THEN tree.sa[b][s].rows \cup {r} ELSE tree.sa[b][s].rows
             /\ IsOpen(b, s)' <=> (b = c /\ s = e) \/ IsOpen(b, s)
             /\ tree'.sa[b][s].state = "Selected" => tree.sa[b][s].state = "Selected"
  <2>1. CASE b = c /\ s = e
    <3>1. tree'.sa[b][s] = OpenedNode(tree.sa[c][e], r)
      BY <1>2, <2>1
    <3>. QED
      BY <1>3, <2>1, <3>1 DEF IsOpen
  <2>2. CASE ~(b = c /\ s = e)
    <3>1. tree'.sa[b][s] = tree.sa[b][s]
      BY <1>2, <2>2
    <3>. QED
      BY <2>2, <3>1 DEF IsOpen
  <2>. QED
    BY <2>1, <2>2
<1>5. \A b \in Bank, s \in SubArray :
        /\ tree'.sa[b][s].rows = IF b = c /\ s = e THEN tree.sa[b][s].rows \cup {r} ELSE tree.sa[b][s].rows
        /\ IsOpen(b, s)' <=> (b = c /\ s = e) \/ IsOpen(b, s)
  BY <1>4
<1>6. SubArrayOpens(c, e, r)
  BY <1>2, <1>5 DEF SubArrayOpens
<1>7. NoneSelected => NoneSelected'
  BY <1>4 DEF NoneSelected
<1>. QED
  BY <1>2, <1>6, <1>7

LEMMA SALP2Update ==
  ASSUME std = "SALP_2", NEW cmd, NEW t, NEW a
  PROVE  LET rank == SALP_2_lambda("Rank", cmd, t, a)
         IN update_state(cmd, t, a) = IF cmd \in {"PREA", "REF", "PDE", "PDX", "SRE", "SRX"} THEN rank
                                      ELSE SALP_2_lambda("SubArray", cmd, rank, a)
<1>. DEFINE rank == SALP_2_lambda("Rank", cmd, t, a)
            bank == SALP_2_lambda("Bank", cmd, rank, a)
<1>1. lambda(std, "Rank", cmd, t, a) = rank
  BY DEF lambda
<1>. HIDE DEF rank
<1>2. lambda(std, "Bank", cmd, rank, a) = bank
  BY DEF lambda
<1>3. bank = rank
  BY DEF SALP_2_lambda
<1>. HIDE DEF bank
<1>4. lambda(std, "SubArray", cmd, rank, a) = SALP_2_lambda("SubArray", cmd, rank, a)
  BY DEF lambda
<1>5. std \notin Flat /\ std \in {"SALP_1", "SALP_2", "MASA"}
  BY DEF Flat
<1>. QED
  BY <1>1, <1>2, <1>3, <1>4, <1>5, SALPSpec DEF update_state, rank

LEMMA SALP2Issue ==
  ASSUME IInv, std = "SALP_2", NEW cmd, NEW a, issue_cmd(cmd, a)
  PROVE  /\ cmd \in {"RD", "WR", "REF", "PDE", "PDX", "SRE", "SRX"} => Keeps
         /\ cmd = "ACT" /\ a.bank \in Bank /\ a.sa \in SubArray /\ table[<<a.bank, a.sa>>] = None
              => /\ table' = [table EXCEPT ![<<a.bank, a.sa>>] = a.row]
                 /\ tree' = [tree EXCEPT !.sa[a.bank][a.sa] = OpenedNode(@, a.row)]
         /\ cmd \in {"PRE", "PRE_OTHER", "RDA", "WRA"} => SubArraysClose({<<a.bank, a.sa>>})
         /\ cmd = "PREA" => SubArraysClose(Bank \X SubArray)
<1>. DEFINE sub(t) == SALP_2_lambda("SubArray", cmd, t, a)
            rank == SALP_2_lambda("Rank", cmd, tree, a)
<1>1. tree' = IF cmd \in {"PREA", "REF", "PDE", "PDX", "SRE", "SRX"} THEN rank ELSE sub(rank)
  BY SALP2Update DEF issue_cmd
<1>2. tree \in Tree /\ std \in SALP
  BY DEF IInv, Typed, SALP
<1>. HIDE DEF sub, rank
<1>4. cmd \notin {"PREA", "PDE", "PDX", "SRE", "SRX"} => rank = tree
  BY DEF rank, SALP_2_lambda, PowerCommand
<1>5. ASSUME cmd \in {"RD", "WR", "REF", "PDE", "PDX", "SRE", "SRX"} PROVE Keeps
  <2>1. table' = table
    BY <1>2, <1>5, SALPTable
  <2>2. rank \in Tree /\ rank.bank = tree.bank /\ rank.sa = tree.sa
    BY <1>2, <1>5, PowerFacts DEF rank, SALP_2_lambda
  <2>3. cmd \in {"RD", "WR"} => sub(rank) = rank
    BY DEF sub, SALP_2_lambda
  <2>. QED
    BY <1>1, <1>5, <2>1, <2>2, <2>3 DEF Keeps
<1>6. ASSUME cmd = "ACT", a.bank \in Bank, a.sa \in SubArray, table[<<a.bank, a.sa>>] = None
      PROVE  /\ table' = [table EXCEPT ![<<a.bank, a.sa>>] = a.row]
             /\ tree' = [tree EXCEPT !.sa[a.bank][a.sa] = OpenedNode(@, a.row)]
  <2>1. tree' = [tree EXCEPT !.sa[a.bank][a.sa] = OpenedNode(@, a.row)]
    BY <1>1, <1>4, <1>6 DEF sub, SALP_2_lambda
  <2>2. table' = [table EXCEPT ![<<a.bank, a.sa>>] = a.row]
    BY <1>2, <1>6, SALPTable
  <2>. QED
    BY <2>1, <2>2
<1>7. ASSUME cmd \in {"PRE", "PRE_OTHER", "RDA", "WRA"} PROVE SubArraysClose({<<a.bank, a.sa>>})
  <2>1. tree' = CloseSubArrays(tree, {<<a.bank, a.sa>>})
    BY <1>1, <1>4, <1>7 DEF sub, SALP_2_lambda
  <2>2. table' = [g \in Group(std) |-> IF g \in {<<a.bank, a.sa>>} THEN None ELSE table[g]]
    BY ZenonT(30), <1>2, <1>7, SALPTable
  <2>. QED
    BY <1>2, <2>1, <2>2, ClosesSubArrays
<1>8. ASSUME cmd = "PREA" PROVE SubArraysClose(Bank \X SubArray)
  <2>1. tree' = CloseSubArrays(tree, Bank \X SubArray)
    BY <1>1, <1>8 DEF rank, SALP_2_lambda
  <2>2. table' = [g \in Group(std) |-> IF g \in Bank \X SubArray THEN None ELSE table[g]]
    BY <1>2, <1>8, SALPTable
  <2>. QED
    BY <1>2, <2>1, <2>2, ClosesSubArrays
<1>. QED
  BY <1>5, <1>6, <1>7, <1>8

\* The command of an access: its own needs its row open.
LEMMA SALP2Access ==
  ASSUME IInv, std = "SALP_2", NEW type \in Access, NEW a \in Addresses(type)
  PROVE  LET cmd == FirstCommand(type, tree, a)  sa == tree.sa[a.bank][a.sa]
         IN /\ cmd \in {"RD", "WR", "ACT", "PRE", "PRE_OTHER", "PDX", "SRX"}
            /\ cmd = "ACT" => table[<<a.bank, a.sa>>] = None
            /\ cmd \in {"RD", "WR"} => sa.state # "Closed" /\ a.row \in sa.rows
            /\ tree.rank = "PowerUp" /\ sa.state # "Closed" /\ a.row \in sa.rows => cmd \in {"RD", "WR", "PRE_OTHER"}
<1>. DEFINE acc == Accessing(type)
            sa == tree.sa[a.bank][a.sa]
            cmd == FirstCommand(type, tree, a)
            first == RowOpen(sa, a.row, acc)
<1>1. std \in SALP /\ std \notin Flat
  BY DEF SALP, Flat
<1>2. acc \in {"RD", "WR"}
  BY <1>1, SALPFirst
<1>3. cmd = LET atBank == SALP_prereq(std, "Bank", acc, tree, a)
                atSubArray == SALP_prereq(std, "SubArray", acc, tree, a)
            IN IF tree.rank # "PowerUp" THEN MemoryAwake(tree)
               ELSE IF atBank # "MAX" THEN atBank
               ELSE IF atSubArray = "MAX" THEN acc ELSE atSubArray
  BY <1>1, SALPFirst
<1>4. a.bank \in Bank /\ a.sa \in SubArray
  BY AccessAddress
<1>5. sa \in Node({"Opened", "Closed", "Selected"}) /\ (sa.state = "Closed" <=> table[<<a.bank, a.sa>>] = None)
  BY <1>1, <1>4, ClosedSubArray
<1>. HIDE DEF cmd, acc
<1>6. SALP_prereq(std, "Bank", acc, tree, a) = "MAX"
  BY <1>2 DEF SALP_prereq, SALP_2_prereq
<1>7. SALP_prereq(std, "SubArray", acc, tree, a) \in {first, "PRE_OTHER"}
      /\ (first # acc => SALP_prereq(std, "SubArray", acc, tree, a) = first)
  BY <1>2 DEF SALP_prereq, SALP_2_prereq, ReadWrite
<1>8. /\ first \in {"ACT", "PRE", acc}
      /\ first = "ACT" <=> sa.state = "Closed"
      /\ first = acc <=> sa.state # "Closed" /\ a.row \in sa.rows
  BY <1>2, <1>5, RowOpenFacts
<1>. HIDE DEF first
<1>9. \/ tree.rank # "PowerUp" /\ cmd \in {"PDX", "SRX"}
      \/ cmd = first
      \/ cmd = "PRE_OTHER" /\ first = acc
  BY <1>2, <1>3, <1>6, <1>7, <1>8, AwakeFacts
<1>10. /\ cmd \in {"RD", "WR", "ACT", "PRE", "PRE_OTHER", "PDX", "SRX"}
       /\ cmd = "ACT" => table[<<a.bank, a.sa>>] = None
       /\ cmd \in {"RD", "WR"} => sa.state # "Closed" /\ a.row \in sa.rows
       /\ tree.rank = "PowerUp" /\ sa.state # "Closed" /\ a.row \in sa.rows => cmd \in {"RD", "WR", "PRE_OTHER"}
  BY <1>2, <1>5, <1>8, <1>9
<1>. QED
  BY <1>10 DEF cmd

LEMMA SALP2Step ==
  ASSUME IInv, std = "SALP_2", Next
  PROVE  IInv'
<1>0. std \notin Flat /\ std \in SALP
  BY DEF Flat, SALP
<1>2. tree \in Tree
  BY DEF IInv, Typed
<1>1. ASSUME NEW cmd, NEW a, issue_cmd(cmd, a),
             \/ cmd \in {"RD", "WR", "REF", "PDE", "PDX", "SRE", "SRX", "PRE", "PRE_OTHER", "RDA", "WRA", "PREA"}
             \/ /\ cmd = "ACT" /\ a.bank \in Bank /\ a.sa \in SubArray /\ a.row \in Row
                /\ table[<<a.bank, a.sa>>] = None
      PROVE  IInv'
  <2>1. std' = std
    BY <1>1 DEF issue_cmd
  <2>2. CASE cmd \in {"RD", "WR", "REF", "PDE", "PDX", "SRE", "SRX"}
    BY <1>1, <2>1, <2>2, SALP2Issue, KeepsIInv
  <2>3. CASE cmd \in {"PRE", "PRE_OTHER", "RDA", "WRA", "PREA"}
    <3>1. PICK groups : SubArraysClose(groups)
      BY <1>1, <2>3, SALP2Issue
    <3>2. Typed /\ SubArraysAgree /\ NoneSelected
      BY <1>0 DEF IInv
    <3>3. Typed' /\ SubArraysAgree' /\ NoneSelected'
      BY <1>0, <2>1, <3>1, <3>2, SubArraysCloseAgree
    <3>. QED
      BY <1>0, <2>1, <3>3 DEF IInv
  <2>4. CASE cmd = "ACT"
    <3>. DEFINE c == a.bank  e == a.sa  r == a.row
    <3>1. c \in Bank /\ e \in SubArray /\ r \in Row /\ table[<<c, e>>] = None
      BY <1>1, <2>4
    <3>2. /\ table' = [table EXCEPT ![<<c, e>>] = r]
          /\ tree' = [tree EXCEPT !.sa[c][e] = OpenedNode(@, r)]
      BY <1>1, <2>4, <3>1, SALP2Issue
    <3>. HIDE DEF c, e, r
    <3>3. SubArrayOpens(c, e, r) /\ (NoneSelected => NoneSelected')
      BY <1>2, <3>1, <3>2, OpensSubArray
    <3>4. Typed /\ SubArraysAgree /\ NoneSelected
      BY <1>0 DEF IInv
    <3>5. Typed' /\ SubArraysAgree' /\ NoneSelected'
      BY <1>0, <2>1, <3>1, <3>3, <3>4, SubArrayOpensAgree
    <3>. QED
      BY <1>0, <2>1, <3>5 DEF IInv
  <2>. QED
    BY <1>1, <2>2, <2>3, <2>4
<1>3. ASSUME NEW type \in Request, NEW a \in Addresses(type), Serve(type, a)
      PROVE  IInv'
  <2>. DEFINE cmd == FirstCommand(type, tree, a)
  <2>1. issue_cmd(cmd, get_addr_vec(cmd, tree, a))
    BY <1>3 DEF Serve
  <2>2. CASE type \in Access
    <3>1. a.bank \in Bank /\ a.row \in Row /\ a.sa \in SubArray
      BY <2>2, AccessAddress
    <3>2. /\ cmd \in {"RD", "WR", "ACT", "PRE", "PRE_OTHER", "PDX", "SRX"}
          /\ cmd = "ACT" => table[<<a.bank, a.sa>>] = None
      BY <2>2, SALP2Access
    <3>3. cmd # "PRE_OTHER" => get_addr_vec(cmd, tree, a) = a
      BY DEF get_addr_vec
    <3>. HIDE DEF cmd
    <3>. QED
      BY <1>1, <2>1, <3>1, <3>2, <3>3
  <2>3. CASE type \notin Access
    <3>1. cmd \in {"REF", "PREA", "PDE", "PDX", "SRE", "SRX"}
      BY <1>0, <2>3, SALPFirst
    <3>. HIDE DEF cmd
    <3>. QED
      BY <1>1, <2>1, <3>1
  <2>. QED
    BY <2>2, <2>3
<1>4. ASSUME NEW type \in Access, NEW a \in Addresses(type), AutoPrecharge(type, a)
      PROVE  IInv'
  <2>1. \E cmd \in {"RDA", "WRA"} : issue_cmd(cmd, a)
    BY <1>4 DEF AutoPrecharge
  <2>. QED
    BY <1>1, <2>1
<1>5. ASSUME NEW g \in Group(std), PrechargeVictim(g) PROVE IInv'
  <2>1. \E a : issue_cmd("PRE", a)
    BY <1>5 DEF PrechargeVictim
  <2>. QED
    BY <1>1, <2>1
<1>. QED
  BY <1>3, <1>4, <1>5 DEF Next

LEMMA SALP1Update ==
  ASSUME std = "SALP_1", NEW cmd, NEW t, NEW a
  PROVE  LET rank == SALP_1_lambda("Rank", cmd, t, a)
         IN update_state(cmd, t, a) = IF cmd \in {"PREA", "REF", "PDE", "PDX", "SRE", "SRX"} THEN rank
                                      ELSE SALP_1_lambda("SubArray", cmd, SALP_1_lambda("Bank", cmd, rank, a), a)
<1>. DEFINE rank == SALP_1_lambda("Rank", cmd, t, a)
            bank == SALP_1_lambda("Bank", cmd, rank, a)
<1>1. lambda(std, "Rank", cmd, t, a) = rank
  BY DEF lambda
<1>. HIDE DEF rank
<1>2. lambda(std, "Bank", cmd, rank, a) = bank
  BY DEF lambda
<1>. HIDE DEF bank
<1>4. lambda(std, "SubArray", cmd, bank, a) = SALP_1_lambda("SubArray", cmd, bank, a)
  BY DEF lambda
<1>5. std \notin Flat /\ std \in {"SALP_1", "SALP_2", "MASA"}
  BY DEF Flat
<1>. QED
  BY <1>1, <1>2, <1>4, <1>5, SALPSpec DEF update_state, rank, bank

LEMMA SALP1Issue ==
  ASSUME IInv, std = "SALP_1", NEW cmd, NEW a, issue_cmd(cmd, a)
  PROVE  /\ cmd \in {"RD", "WR", "REF", "PDE", "PDX", "SRE", "SRX"} => Keeps
         /\ cmd = "ACT" /\ a.bank \in Bank /\ a.sa \in SubArray /\ table[<<a.bank, a.sa>>] = None
              => /\ table' = [table EXCEPT ![<<a.bank, a.sa>>] = a.row]
                 /\ tree' = [[tree EXCEPT !.bank[a.bank].state = "Opened"]
                              EXCEPT !.sa[a.bank][a.sa] = OpenedNode(@, a.row)]
         /\ cmd \in {"PRE", "PRE_OTHER", "RDA", "WRA"}
              => /\ table' = [g \in Group(std) |-> IF g \in {<<a.bank, a.sa>>} THEN None ELSE table[g]]
                 /\ tree' = CloseSubArrays([tree EXCEPT !.bank[a.bank].state = "Closed"], {<<a.bank, a.sa>>})
         /\ cmd = "PREA"
              => /\ table' = [g \in Group(std) |-> IF g \in Bank \X SubArray THEN None ELSE table[g]]
                 /\ tree' = CloseSubArrays([tree EXCEPT !.bank = [b \in Bank |-> [@[b] EXCEPT !.state = "Closed"]]],
                                           Bank \X SubArray)
<1>. DEFINE bank(t) == SALP_1_lambda("Bank", cmd, t, a)
            sub(t) == SALP_1_lambda("SubArray", cmd, t, a)
            rank == SALP_1_lambda("Rank", cmd, tree, a)
<1>1. tree' = IF cmd \in {"PREA", "REF", "PDE", "PDX", "SRE", "SRX"} THEN rank ELSE sub(bank(rank))
  BY SALP1Update DEF issue_cmd
<1>2. tree \in Tree /\ std \in SALP
  BY DEF IInv, Typed, SALP
<1>3. \A t : cmd # "ACT" => sub(t) = t
  BY DEF SALP_1_lambda
<1>. HIDE DEF sub, bank, rank
<1>4. cmd \notin {"PREA", "PDE", "PDX", "SRE", "SRX"} => rank = tree
  BY DEF rank, SALP_1_lambda, PowerCommand
<1>5. ASSUME cmd \in {"RD", "WR", "REF", "PDE", "PDX", "SRE", "SRX"} PROVE Keeps
  <2>1. table' = table
    BY <1>2, <1>5, SALPTable
  <2>2. rank \in Tree /\ rank.bank = tree.bank /\ rank.sa = tree.sa
    BY <1>2, <1>5, PowerFacts DEF rank, SALP_1_lambda
  <2>3. cmd \in {"RD", "WR"} => bank(rank) = rank
    BY DEF bank, SALP_1_lambda
  <2>4. sub(bank(rank)) = bank(rank)
    BY <1>3, <1>5
  <2>. QED
    BY <1>1, <1>5, <2>1, <2>2, <2>3, <2>4 DEF Keeps
<1>6. ASSUME cmd = "ACT", a.bank \in Bank, a.sa \in SubArray, table[<<a.bank, a.sa>>] = None
      PROVE  /\ table' = [table EXCEPT ![<<a.bank, a.sa>>] = a.row]
             /\ tree' = [[tree EXCEPT !.bank[a.bank].state = "Opened"]
                          EXCEPT !.sa[a.bank][a.sa] = OpenedNode(@, a.row)]
  <2>1. bank(rank) = [tree EXCEPT !.bank[a.bank].state = "Opened"]
    BY <1>4, <1>6 DEF bank, SALP_1_lambda
  <2>. DEFINE u == [tree EXCEPT !.bank[a.bank].state = "Opened"]
  <2>. HIDE DEF u
  <2>2. sub(u) = [u EXCEPT !.sa[a.bank][a.sa] = OpenedNode(@, a.row)]
    BY <1>6 DEF sub, SALP_1_lambda
  <2>3. tree' = [u EXCEPT !.sa[a.bank][a.sa] = OpenedNode(@, a.row)]
    BY <1>1, <1>6, <2>1, <2>2 DEF u
  <2>4. table' = [table EXCEPT ![<<a.bank, a.sa>>] = a.row]
    BY <1>2, <1>6, SALPTable
  <2>. QED
    BY <2>3, <2>4 DEF u
<1>7. ASSUME cmd \in {"PRE", "PRE_OTHER", "RDA", "WRA"}
      PROVE  /\ table' = [g \in Group(std) |-> IF g \in {<<a.bank, a.sa>>} THEN None ELSE table[g]]
             /\ tree' = CloseSubArrays([tree EXCEPT !.bank[a.bank].state = "Closed"], {<<a.bank, a.sa>>})
  <2>1. bank(tree) = CloseSubArrays([tree EXCEPT !.bank[a.bank].state = "Closed"], {<<a.bank, a.sa>>})
    BY <1>7 DEF bank, SALP_1_lambda
  <2>2. tree' = bank(tree)
    BY <1>1, <1>3, <1>4, <1>7
  <2>3. table' = [g \in Group(std) |-> IF g \in {<<a.bank, a.sa>>} THEN None ELSE table[g]]
    BY ZenonT(30), <1>2, <1>7, SALPTable
  <2>. QED
    BY <2>1, <2>2, <2>3
<1>8. ASSUME cmd = "PREA"
      PROVE  /\ table' = [g \in Group(std) |-> IF g \in Bank \X SubArray THEN None ELSE table[g]]
             /\ tree' = CloseSubArrays([tree EXCEPT !.bank = [b \in Bank |-> [@[b] EXCEPT !.state = "Closed"]]],
                                       Bank \X SubArray)
  <2>1. tree' = CloseSubArrays([tree EXCEPT !.bank = [b \in Bank |-> [@[b] EXCEPT !.state = "Closed"]]],
                               Bank \X SubArray)
    BY <1>1, <1>8 DEF rank, SALP_1_lambda
  <2>2. table' = [g \in Group(std) |-> IF g \in Bank \X SubArray THEN None ELSE table[g]]
    BY <1>2, <1>8, SALPTable
  <2>. QED
    BY <2>1, <2>2
<1>. QED
  BY <1>5, <1>6, <1>7, <1>8

\* The bank is closed and every subarray with it.
LEMMA CloseStatesFacts ==
  ASSUME NEW t \in Tree
  PROVE  LET u == [t EXCEPT !.bank = [b \in Bank |-> [@[b] EXCEPT !.state = "Closed"]]]
         IN u \in Tree /\ u.sa = t.sa /\ \A b \in Bank : u.bank[b].state = "Closed"
<1>. DEFINE f == [b \in Bank |-> [t.bank[b] EXCEPT !.state = "Closed"]]
            u == [t EXCEPT !.bank = [b \in Bank |-> [@[b] EXCEPT !.state = "Closed"]]]
<1>1. u = [t EXCEPT !.bank = f]
  OBVIOUS
<1>2. \A b \in Bank : [t.bank[b] EXCEPT !.state = "Closed"] \in Node({"Opened", "Closed"})
                       /\ [t.bank[b] EXCEPT !.state = "Closed"].state = "Closed"
  BY TreeFields DEF Nodes, Node
<1>3. f \in [Bank -> Node({"Opened", "Closed"})] /\ \A b \in Bank : f[b].state = "Closed"
  BY <1>2
<1>. HIDE DEF f, u
<1>4. u = [rank |-> t.rank, bank |-> f, sa |-> t.sa]
  BY <1>1, TreeFields
<1>5. u \in Tree
  BY <1>3, <1>4, TreeFields DEF Tree, SaNodes
<1>. QED
  BY <1>3, <1>4, <1>5 DEF u

LEMMA SALP1Opens ==
  ASSUME IInv, std = "SALP_1", std' = std, NEW c \in Bank, NEW e \in SubArray, NEW r \in Row,
         tree.bank[c].state = "Closed", table' = [table EXCEPT ![<<c, e>>] = r],
         tree' = [[tree EXCEPT !.bank[c].state = "Opened"] EXCEPT !.sa[c][e] = OpenedNode(@, r)]
  PROVE  IInv'
<1>0. std \notin Flat /\ std \in {"SALP_1", "REFAB", "DSARP"} /\ std \notin {"REFAB", "DSARP"} /\ std # "MASA"
  BY DEF Flat
<1>1. tree \in Tree /\ Typed /\ SubArraysAgree /\ OneOpen /\ BanksFollow /\ NoneSelected
  BY <1>0 DEF IInv, Typed
<1>. DEFINE u == [tree EXCEPT !.bank[c].state = "Opened"]
<1>2. /\ u \in Tree /\ u.sa = tree.sa
      /\ \A b \in Bank : u.bank[b].state = IF b = c THEN "Opened" ELSE tree.bank[b].state
  BY <1>1, BankStateFacts
<1>. HIDE DEF u
<1>3. \A s \in SubArray : ~IsOpen(c, s)
  BY <1>1 DEF BanksFollow
<1>4. table[<<c, e>>] = None
  BY <1>1, <1>3 DEF SubArraysAgree
<1>5. tree' = [u EXCEPT !.sa[c][e] = OpenedNode(@, r)]
  BY DEF u
<1>6. SubArrayOpens(c, e, r) /\ NoneSelected' /\ tree'.bank = u.bank
  BY <1>1, <1>2, <1>4, <1>5, OpensSubArray
<1>7. Typed' /\ SubArraysAgree'
  BY <1>0, <1>1, <1>6, SubArrayOpensAgree
<1>8. \A b \in Bank, s \in SubArray : IsOpen(b, s)' <=> (b = c /\ s = e) \/ IsOpen(b, s)
  BY <1>6 DEF SubArrayOpens
<1>9. OneOpen'
  BY <1>1, <1>3, <1>8 DEF OneOpen
<1>10. \A b \in Bank : tree'.bank[b].state = "Opened" <=> (b = c \/ tree.bank[b].state = "Opened")
  BY <1>2, <1>6
<1>11. BanksFollow'
  BY <1>1, <1>8, <1>10 DEF BanksFollow
<1>. QED
  BY <1>0, <1>6, <1>7, <1>9, <1>11 DEF IInv

LEMMA SALP1Closes ==
  ASSUME IInv, std = "SALP_1", std' = std, NEW c \in Bank, NEW e \in SubArray, IsOpen(c, e),
         table' = [g \in Group(std) |-> IF g \in {<<c, e>>} THEN None ELSE table[g]],
         tree' = CloseSubArrays([tree EXCEPT !.bank[c].state = "Closed"], {<<c, e>>})
  PROVE  IInv'
<1>0. std \notin Flat /\ std \in {"SALP_1", "REFAB", "DSARP"} /\ std \notin {"REFAB", "DSARP"} /\ std # "MASA"
  BY DEF Flat
<1>1. tree \in Tree /\ Typed /\ SubArraysAgree /\ OneOpen /\ BanksFollow /\ NoneSelected
  BY <1>0 DEF IInv, Typed
<1>. DEFINE u == [tree EXCEPT !.bank[c].state = "Closed"]
<1>2. /\ u \in Tree /\ u.sa = tree.sa
      /\ \A b \in Bank : u.bank[b].state = IF b = c THEN "Closed" ELSE tree.bank[b].state
  BY <1>1, BankStateFacts
<1>3. tree' = CloseSubArrays(u, {<<c, e>>})
  OBVIOUS
<1>. HIDE DEF u
<1>4. SubArraysClose({<<c, e>>}) /\ tree'.bank = u.bank
  BY <1>2, <1>3, ClosesSubArrays
<1>5. /\ Typed' /\ SubArraysAgree' /\ NoneSelected'
      /\ \A b \in Bank, s \in SubArray : IsOpen(b, s)' <=> IsOpen(b, s) /\ <<b, s>> \notin {<<c, e>>}
  BY <1>0, <1>1, <1>4, SubArraysCloseAgree
<1>6. \A b \in Bank, s \in SubArray : IsOpen(b, s)' <=> IsOpen(b, s) /\ b # c
  BY <1>1, <1>5 DEF OneOpen
<1>7. OneOpen'
  BY <1>1, <1>6 DEF OneOpen
<1>8. \A b \in Bank : tree'.bank[b].state = "Opened" <=> (b # c /\ tree.bank[b].state = "Opened")
  BY <1>2, <1>4
<1>9. BanksFollow'
  BY <1>1, <1>6, <1>8 DEF BanksFollow
<1>. QED
  BY <1>0, <1>5, <1>7, <1>9 DEF IInv

LEMMA SALP1ClosesAll ==
  ASSUME IInv, std = "SALP_1", std' = std,
         table' = [g \in Group(std) |-> IF g \in Bank \X SubArray THEN None ELSE table[g]],
         tree' = CloseSubArrays([tree EXCEPT !.bank = [b \in Bank |-> [@[b] EXCEPT !.state = "Closed"]]],
                                Bank \X SubArray)
  PROVE  IInv'
<1>0. std \notin Flat /\ std \in {"SALP_1", "REFAB", "DSARP"} /\ std \notin {"REFAB", "DSARP"} /\ std # "MASA"
  BY DEF Flat
<1>1. tree \in Tree /\ Typed /\ SubArraysAgree /\ NoneSelected
  BY <1>0 DEF IInv, Typed
<1>. DEFINE u == [tree EXCEPT !.bank = [b \in Bank |-> [@[b] EXCEPT !.state = "Closed"]]]
<1>2. u \in Tree /\ u.sa = tree.sa /\ \A b \in Bank : u.bank[b].state = "Closed"
  BY <1>1, CloseStatesFacts
<1>3. tree' = CloseSubArrays(u, Bank \X SubArray)
  OBVIOUS
<1>. HIDE DEF u
<1>4. SubArraysClose(Bank \X SubArray) /\ tree'.bank = u.bank
  BY <1>2, <1>3, ClosesSubArrays
<1>5. /\ Typed' /\ SubArraysAgree' /\ NoneSelected'
      /\ \A b \in Bank, s \in SubArray : IsOpen(b, s)' <=> IsOpen(b, s) /\ <<b, s>> \notin Bank \X SubArray
  BY <1>0, <1>1, <1>4, SubArraysCloseAgree
<1>6. \A b \in Bank, s \in SubArray : ~IsOpen(b, s)'
  BY <1>5
<1>7. OneOpen'
  BY <1>6 DEF OneOpen
<1>8. BanksFollow'
  BY <1>2, <1>4, <1>6 DEF BanksFollow
<1>. QED
  BY <1>0, <1>5, <1>7, <1>8 DEF IInv

\* The other subarray that is closed first is an open one, if there is one.
LEMMA OffendingFacts ==
  ASSUME NEW a \in Address, NEW c \in Bank, a.bank = c, NEW o \in SubArray, o # a.sa,
         tree.sa[c][o].state = "Opened"
  PROVE  /\ Offending(tree, a).bank = c /\ Offending(tree, a).sa \in SubArray
         /\ tree.sa[c][Offending(tree, a).sa].state = "Opened"
<1>. DEFINE others == {s \in SubArray \ {a.sa} : tree.sa[a.bank][s].state = "Opened"}
            first == CHOOSE s \in others : \A r \in others : s <= r
<1>1. others \subseteq SubArray /\ others # {}
  OBVIOUS
<1>2. first \in others
  BY <1>1, FirstSubArray
<1>3. Offending(tree, a) = [a EXCEPT !.row = None, !.sa = first]
  BY <1>1 DEF Offending
<1>4. first \in SubArray /\ tree.sa[c][first].state = "Opened"
  BY <1>2
<1>. HIDE DEF first
<1>5. Offending(tree, a).bank = a.bank /\ Offending(tree, a).sa = first
  BY <1>3 DEF Address
<1>. QED
  BY <1>4, <1>5

LEMMA SALP1Access ==
  ASSUME IInv, std = "SALP_1", NEW type \in Access, NEW a \in Addresses(type)
  PROVE  LET cmd == FirstCommand(type, tree, a)  sa == tree.sa[a.bank][a.sa]
         IN /\ cmd \in {"RD", "WR", "ACT", "PRE", "PRE_OTHER", "PDX", "SRX"}
            /\ cmd = "ACT" => tree.bank[a.bank].state = "Closed"
            /\ cmd = "PRE" => IsOpen(a.bank, a.sa)
            /\ cmd = "PRE_OTHER" => /\ Offending(tree, a).bank = a.bank /\ Offending(tree, a).sa \in SubArray
                                    /\ IsOpen(a.bank, Offending(tree, a).sa) /\ Offending(tree, a).sa # a.sa
            /\ cmd \in {"RD", "WR"} => sa.state # "Closed" /\ a.row \in sa.rows
            /\ tree.rank = "PowerUp" /\ sa.state # "Closed" /\ a.row \in sa.rows
                 => cmd \in {"RD", "WR", "PRE_OTHER"} /\ tree.bank[a.bank].state = "Opened"
<1>. DEFINE acc == Accessing(type)
            sa == tree.sa[a.bank][a.sa]
            cmd == FirstCommand(type, tree, a)
            sub == IF a.row \in sa.rows THEN acc ELSE IF sa.rows # {} THEN "PRE" ELSE "PRE_OTHER"
<1>1. std \in SALP /\ std \notin Flat /\ std \in {"SALP_1", "REFAB", "DSARP"} /\ std # "MASA"
  BY DEF SALP, Flat
<1>2. acc \in {"RD", "WR"}
  BY <1>1, SALPFirst
<1>3. cmd = LET atBank == SALP_prereq(std, "Bank", acc, tree, a)
                atSubArray == SALP_prereq(std, "SubArray", acc, tree, a)
            IN IF tree.rank # "PowerUp" THEN MemoryAwake(tree)
               ELSE IF atBank # "MAX" THEN atBank
               ELSE IF atSubArray = "MAX" THEN acc ELSE atSubArray
  BY <1>1, SALPFirst
<1>4. a.bank \in Bank /\ a.sa \in SubArray /\ a \in Address
  BY AccessAddress
<1>5. /\ sa \in Node({"Opened", "Closed", "Selected"})
      /\ sa.state = "Closed" <=> sa.rows = {}
  BY <1>1, <1>4, ClosedSubArray
<1>6. tree.bank[a.bank].state \in {"Opened", "Closed"}
  BY <1>4, TreeFields DEF IInv, Typed, Nodes, Node
<1>. HIDE DEF cmd, acc
<1>7. SALP_prereq(std, "Bank", acc, tree, a) = IF tree.bank[a.bank].state = "Closed" THEN "ACT" ELSE "MAX"
  BY <1>2 DEF SALP_prereq, SALP_1_prereq, ReadWrite
<1>8. SALP_prereq(std, "SubArray", acc, tree, a) = sub
  BY <1>2 DEF SALP_prereq, SALP_1_prereq, ReadWrite
<1>9. \/ tree.rank # "PowerUp" /\ cmd \in {"PDX", "SRX"}
      \/ tree.bank[a.bank].state = "Closed" /\ cmd = "ACT"
      \/ tree.bank[a.bank].state = "Opened" /\ cmd = sub
  BY <1>2, <1>3, <1>6, <1>7, <1>8, AwakeFacts
<1>10. BanksFollow /\ NoneSelected
  BY <1>1 DEF IInv
<1>11. tree.bank[a.bank].state = "Closed" => sa.state = "Closed"
  BY <1>4, <1>10 DEF BanksFollow, IsOpen
<1>12. ASSUME cmd = "PRE_OTHER"
       PROVE  /\ Offending(tree, a).bank = a.bank /\ Offending(tree, a).sa \in SubArray
              /\ IsOpen(a.bank, Offending(tree, a).sa) /\ Offending(tree, a).sa # a.sa
  <2>1. tree.bank[a.bank].state = "Opened" /\ sa.rows = {}
    BY <1>2, <1>9, <1>12
  <2>2. PICK o \in SubArray : IsOpen(a.bank, o)
    BY <1>4, <1>10, <2>1 DEF BanksFollow
  <2>3. o # a.sa
    BY <1>5, <2>1, <2>2 DEF IsOpen
  <2>4. tree.sa[a.bank][o].state = "Opened"
    <3>1. tree.sa[a.bank][o] \in Node({"Opened", "Closed", "Selected"})
      BY <1>1, <1>4, ClosedSubArray
    <3>. QED
      BY <1>4, <1>10, <2>2, <3>1 DEF IsOpen, NoneSelected, Node
  <2>5. /\ Offending(tree, a).bank = a.bank /\ Offending(tree, a).sa \in SubArray
        /\ tree.sa[a.bank][Offending(tree, a).sa].state = "Opened"
    BY <1>4, <2>3, <2>4, OffendingFacts
  <2>. QED
    BY <1>5, <2>1, <2>5 DEF IsOpen
<1>13. /\ cmd \in {"RD", "WR", "ACT", "PRE", "PRE_OTHER", "PDX", "SRX"}
       /\ cmd = "ACT" => tree.bank[a.bank].state = "Closed"
       /\ cmd = "PRE" => IsOpen(a.bank, a.sa)
       /\ cmd \in {"RD", "WR"} => sa.state # "Closed" /\ a.row \in sa.rows
       /\ tree.rank = "PowerUp" /\ sa.state # "Closed" /\ a.row \in sa.rows
            => cmd \in {"RD", "WR", "PRE_OTHER"} /\ tree.bank[a.bank].state = "Opened"
  BY <1>2, <1>5, <1>9, <1>11 DEF IsOpen
<1>. QED
  BY <1>12, <1>13 DEF cmd

LEMMA SALP1Step ==
  ASSUME IInv, std = "SALP_1", Next
  PROVE  IInv'
<1>0. std \notin Flat /\ std \in SALP
  BY DEF Flat, SALP
<1>1. ASSUME NEW cmd, NEW a, issue_cmd(cmd, a),
             \/ cmd \in {"RD", "WR", "REF", "PDE", "PDX", "SRE", "SRX", "PREA"}
             \/ /\ cmd = "ACT" /\ a.bank \in Bank /\ a.sa \in SubArray /\ a.row \in Row
                /\ tree.bank[a.bank].state = "Closed"
             \/ /\ cmd \in {"PRE", "PRE_OTHER", "RDA", "WRA"}
                /\ a.bank \in Bank /\ a.sa \in SubArray /\ IsOpen(a.bank, a.sa)
      PROVE  IInv'
  <2>1. std' = std
    BY <1>1 DEF issue_cmd
  <2>2. CASE cmd \in {"RD", "WR", "REF", "PDE", "PDX", "SRE", "SRX"}
    BY <1>1, <2>1, <2>2, SALP1Issue, KeepsIInv
  <2>3. CASE cmd \in {"PRE", "PRE_OTHER", "RDA", "WRA"}
    <3>. DEFINE c == a.bank  e == a.sa
    <3>1. c \in Bank /\ e \in SubArray /\ IsOpen(c, e)
      BY <1>1, <2>3
    <3>2. /\ table' = [g \in Group(std) |-> IF g \in {<<c, e>>} THEN None ELSE table[g]]
          /\ tree' = CloseSubArrays([tree EXCEPT !.bank[c].state = "Closed"], {<<c, e>>})
      BY <1>1, <2>3, SALP1Issue
    <3>. HIDE DEF c, e
    <3>. QED
      BY <2>1, <3>1, <3>2, SALP1Closes
  <2>4. CASE cmd = "PREA"
    BY <1>1, <2>1, <2>4, SALP1Issue, SALP1ClosesAll
  <2>5. CASE cmd = "ACT"
    <3>. DEFINE c == a.bank  e == a.sa  r == a.row
    <3>1. c \in Bank /\ e \in SubArray /\ r \in Row /\ tree.bank[c].state = "Closed"
      BY <1>1, <2>5
    <3>2. table[<<c, e>>] = None
      BY <1>0, <3>1 DEF IInv, BanksFollow, SubArraysAgree
    <3>3. /\ table' = [table EXCEPT ![<<c, e>>] = r]
          /\ tree' = [[tree EXCEPT !.bank[c].state = "Opened"] EXCEPT !.sa[c][e] = OpenedNode(@, r)]
      BY <1>1, <2>5, <3>1, <3>2, SALP1Issue
    <3>. HIDE DEF c, e, r
    <3>. QED
      BY <2>1, <3>1, <3>3, SALP1Opens
  <2>. QED
    BY <1>1, <2>2, <2>3, <2>4, <2>5
<1>3. ASSUME NEW type \in Request, NEW a \in Addresses(type), Serve(type, a)
      PROVE  IInv'
  <2>. DEFINE cmd == FirstCommand(type, tree, a)
  <2>1. issue_cmd(cmd, get_addr_vec(cmd, tree, a))
    BY <1>3 DEF Serve
  <2>2. CASE type \in Access
    <3>1. a.bank \in Bank /\ a.row \in Row /\ a.sa \in SubArray
      BY <2>2, AccessAddress
    <3>2. /\ cmd \in {"RD", "WR", "ACT", "PRE", "PRE_OTHER", "PDX", "SRX"}
          /\ cmd = "ACT" => tree.bank[a.bank].state = "Closed"
          /\ cmd = "PRE" => IsOpen(a.bank, a.sa)
          /\ cmd = "PRE_OTHER" => /\ Offending(tree, a).bank = a.bank /\ Offending(tree, a).sa \in SubArray
                                  /\ IsOpen(a.bank, Offending(tree, a).sa)
      BY <2>2, SALP1Access
    <3>3. get_addr_vec(cmd, tree, a) = IF cmd = "PRE_OTHER" THEN Offending(tree, a) ELSE a
      BY DEF get_addr_vec
    <3>. HIDE DEF cmd
    <3>4. CASE cmd = "PRE_OTHER"
      <4>1. issue_cmd(cmd, Offending(tree, a))
        BY <2>1, <3>3, <3>4
      <4>2. /\ Offending(tree, a).bank \in Bank /\ Offending(tree, a).sa \in SubArray
            /\ IsOpen(Offending(tree, a).bank, Offending(tree, a).sa)
        BY <3>1, <3>2, <3>4
      <4>. QED
        BY <1>1, <3>4, <4>1, <4>2
    <3>5. CASE cmd # "PRE_OTHER"
      <4>1. issue_cmd(cmd, a)
        BY <2>1, <3>3, <3>5
      <4>. QED
        BY <1>1, <3>1, <3>2, <3>5, <4>1
    <3>. QED
      BY <3>4, <3>5
  <2>3. CASE type \notin Access
    <3>1. cmd \in {"REF", "PREA", "PDE", "PDX", "SRE", "SRX"}
      BY <1>0, <2>3, SALPFirst
    <3>. HIDE DEF cmd
    <3>. QED
      BY <1>1, <2>1, <3>1
  <2>. QED
    BY <2>2, <2>3
<1>4. ASSUME NEW type \in Access, NEW a \in Addresses(type), AutoPrecharge(type, a)
      PROVE  IInv'
  <2>1. \E cmd \in {"RDA", "WRA"} : issue_cmd(cmd, a)
    BY <1>4 DEF AutoPrecharge
  <2>2. FirstCommand(type, tree, a) \in {"RD", "WR"}
    BY <1>4 DEF AutoPrecharge, ReadWrite
  <2>3. a.bank \in Bank /\ a.sa \in SubArray
    BY AccessAddress
  <2>4. IsOpen(a.bank, a.sa)
    BY <2>2, SALP1Access DEF IsOpen
  <2>. QED
    BY <1>1, <2>1, <2>3, <2>4
<1>5. ASSUME NEW g \in Group(std), PrechargeVictim(g) PROVE IInv'
  <2>1. PICK c \in Bank, e \in SubArray : g = <<c, e>>
    BY <1>0, GroupTypes DEF IInv, Typed
  <2>. DEFINE a == [bank |-> g[1], sa |-> g[2], row |-> None]
  <2>2. issue_cmd("PRE", a) /\ table[g] # None
    BY <1>5 DEF PrechargeVictim
  <2>3. a.bank = c /\ a.sa = e
    BY <2>1
  <2>4. IsOpen(c, e)
    BY <1>0, <2>1, <2>2 DEF IInv, SubArraysAgree
  <2>. HIDE DEF a
  <2>. QED
    BY <1>1, <2>2, <2>3, <2>4
<1>. QED
  BY <1>3, <1>4, <1>5 DEF Next

LEMMA MASAUpdate ==
  ASSUME std = "MASA", NEW cmd, NEW t, NEW a
  PROVE  LET rank == MASA_lambda("Rank", cmd, t, a)
         IN update_state(cmd, t, a) = IF cmd \in {"PREA", "REF", "PDE", "PDX", "SRE", "SRX"} THEN rank
                                      ELSE MASA_lambda("SubArray", cmd, rank, a)
<1>. DEFINE rank == MASA_lambda("Rank", cmd, t, a)
            bank == MASA_lambda("Bank", cmd, rank, a)
<1>1. lambda(std, "Rank", cmd, t, a) = rank
  BY DEF lambda
<1>. HIDE DEF rank
<1>2. lambda(std, "Bank", cmd, rank, a) = bank
  BY DEF lambda
<1>3. bank = rank
  BY DEF MASA_lambda
<1>. HIDE DEF bank
<1>4. lambda(std, "SubArray", cmd, rank, a) = MASA_lambda("SubArray", cmd, rank, a)
  BY DEF lambda
<1>5. std \notin Flat /\ std \in {"SALP_1", "SALP_2", "MASA"}
  BY DEF Flat
<1>. QED
  BY <1>1, <1>2, <1>3, <1>4, <1>5, SALPSpec DEF update_state, rank

LEMMA MASAIssue ==
  ASSUME IInv, std = "MASA", NEW cmd, NEW a, issue_cmd(cmd, a)
  PROVE  /\ cmd \in {"RD", "WR", "REF", "PDE", "PDX", "SRE", "SRX"} => Keeps
         /\ cmd = "SASEL" => table' = table /\ tree' = Select(tree, a)
         /\ cmd = "ACT" /\ a.bank \in Bank /\ a.sa \in SubArray /\ table[<<a.bank, a.sa>>] = None
              => /\ table' = [table EXCEPT ![<<a.bank, a.sa>>] = a.row]
                 /\ tree' = Select([tree EXCEPT !.sa[a.bank][a.sa] = OpenedNode(@, a.row)], a)
         /\ cmd \in {"PRE", "RDA", "WRA"} => SubArraysClose({<<a.bank, a.sa>>})
         /\ cmd = "PREA" => SubArraysClose(Bank \X SubArray)
<1>. DEFINE sub(t) == MASA_lambda("SubArray", cmd, t, a)
            rank == MASA_lambda("Rank", cmd, tree, a)
<1>1. tree' = IF cmd \in {"PREA", "REF", "PDE", "PDX", "SRE", "SRX"} THEN rank ELSE sub(rank)
  BY MASAUpdate DEF issue_cmd
<1>2. tree \in Tree /\ std \in SALP
  BY DEF IInv, Typed, SALP
<1>. HIDE DEF sub, rank
<1>4. cmd \notin {"PREA", "PDE", "PDX", "SRE", "SRX"} => rank = tree
  BY DEF rank, MASA_lambda, PowerCommand
<1>5. ASSUME cmd \in {"RD", "WR", "REF", "PDE", "PDX", "SRE", "SRX"} PROVE Keeps
  <2>1. table' = table
    BY <1>2, <1>5, SALPTable
  <2>2. rank \in Tree /\ rank.bank = tree.bank /\ rank.sa = tree.sa
    BY <1>2, <1>5, PowerFacts DEF rank, MASA_lambda
  <2>3. cmd \in {"RD", "WR"} => sub(rank) = rank
    BY DEF sub, MASA_lambda
  <2>. QED
    BY <1>1, <1>5, <2>1, <2>2, <2>3 DEF Keeps
<1>9. ASSUME cmd = "SASEL" PROVE table' = table /\ tree' = Select(tree, a)
  <2>1. table' = table
    BY <1>2, <1>9, SALPTable
  <2>2. tree' = Select(tree, a)
    BY <1>1, <1>4, <1>9 DEF sub, MASA_lambda
  <2>. QED
    BY <2>1, <2>2
<1>6. ASSUME cmd = "ACT", a.bank \in Bank, a.sa \in SubArray, table[<<a.bank, a.sa>>] = None
      PROVE  /\ table' = [table EXCEPT ![<<a.bank, a.sa>>] = a.row]
             /\ tree' = Select([tree EXCEPT !.sa[a.bank][a.sa] = OpenedNode(@, a.row)], a)
  <2>1. tree' = Select([tree EXCEPT !.sa[a.bank][a.sa] = OpenedNode(@, a.row)], a)
    BY <1>1, <1>4, <1>6 DEF sub, MASA_lambda
  <2>2. table' = [table EXCEPT ![<<a.bank, a.sa>>] = a.row]
    BY <1>2, <1>6, SALPTable
  <2>. QED
    BY <2>1, <2>2
<1>7. ASSUME cmd \in {"PRE", "RDA", "WRA"} PROVE SubArraysClose({<<a.bank, a.sa>>})
  <2>1. tree' = CloseSubArrays(tree, {<<a.bank, a.sa>>})
    BY <1>1, <1>4, <1>7 DEF sub, MASA_lambda
  <2>2. table' = [g \in Group(std) |-> IF g \in {<<a.bank, a.sa>>} THEN None ELSE table[g]]
    <3>1. cmd \in {"PRE", "PRE_OTHER", "RDA", "WRA"}
      BY <1>7
    <3>. QED
      BY ZenonT(30), <1>2, <3>1, SALPTable
  <2>. QED
    BY <1>2, <2>1, <2>2, ClosesSubArrays
<1>8. ASSUME cmd = "PREA" PROVE SubArraysClose(Bank \X SubArray)
  <2>1. tree' = CloseSubArrays(tree, Bank \X SubArray)
    BY <1>1, <1>8 DEF rank, MASA_lambda
  <2>2. table' = [g \in Group(std) |-> IF g \in Bank \X SubArray THEN None ELSE table[g]]
    BY <1>2, <1>8, SALPTable
  <2>. QED
    BY <1>2, <2>1, <2>2, ClosesSubArrays
<1>. QED
  BY <1>5, <1>6, <1>7, <1>8, <1>9

LEMMA MASAAccess ==
  ASSUME IInv, std = "MASA", NEW type \in Access, NEW a \in Addresses(type)
  PROVE  LET cmd == FirstCommand(type, tree, a)  sa == tree.sa[a.bank][a.sa]
         IN /\ cmd \in {"RD", "WR", "ACT", "PRE", "SASEL", "PDX", "SRX"}
            /\ cmd = "ACT" => table[<<a.bank, a.sa>>] = None
            /\ cmd = "SASEL" => sa.state = "Opened"
            /\ cmd \in {"RD", "WR"} => sa.state # "Closed" /\ a.row \in sa.rows
            /\ tree.rank = "PowerUp" /\ sa.state # "Closed" /\ a.row \in sa.rows => cmd \in {"RD", "WR", "SASEL"}
<1>. DEFINE acc == Accessing(type)
            sa == tree.sa[a.bank][a.sa]
            cmd == FirstCommand(type, tree, a)
            first == RowOpen(sa, a.row, acc)
<1>1. std \in SALP /\ std \notin Flat
  BY DEF SALP, Flat
<1>2. acc \in {"RD", "WR"}
  BY <1>1, SALPFirst
<1>3. cmd = LET atBank == SALP_prereq(std, "Bank", acc, tree, a)
                atSubArray == SALP_prereq(std, "SubArray", acc, tree, a)
            IN IF tree.rank # "PowerUp" THEN MemoryAwake(tree)
               ELSE IF atBank # "MAX" THEN atBank
               ELSE IF atSubArray = "MAX" THEN acc ELSE atSubArray
  BY <1>1, SALPFirst
<1>4. a.bank \in Bank /\ a.sa \in SubArray
  BY AccessAddress
<1>5. sa \in Node({"Opened", "Closed", "Selected"}) /\ (sa.state = "Closed" <=> table[<<a.bank, a.sa>>] = None)
  BY <1>1, <1>4, ClosedSubArray
<1>. HIDE DEF cmd, acc
<1>6. SALP_prereq(std, "Bank", acc, tree, a) = "MAX"
  BY <1>2 DEF SALP_prereq, MASA_prereq
<1>7. SALP_prereq(std, "SubArray", acc, tree, a) =
        IF first = acc /\ sa.state = "Opened" THEN "SASEL" ELSE first
  BY <1>2 DEF SALP_prereq, MASA_prereq, ReadWrite
<1>8. /\ first \in {"ACT", "PRE", acc}
      /\ first = "ACT" <=> sa.state = "Closed"
      /\ first = acc <=> sa.state # "Closed" /\ a.row \in sa.rows
  BY <1>2, <1>5, RowOpenFacts
<1>. HIDE DEF first
<1>9. \/ tree.rank # "PowerUp" /\ cmd \in {"PDX", "SRX"}
      \/ cmd = first
      \/ cmd = "SASEL" /\ first = acc /\ sa.state = "Opened"
  BY <1>2, <1>3, <1>6, <1>7, <1>8, AwakeFacts
<1>10. /\ cmd \in {"RD", "WR", "ACT", "PRE", "SASEL", "PDX", "SRX"}
       /\ cmd = "ACT" => table[<<a.bank, a.sa>>] = None
       /\ cmd = "SASEL" => sa.state = "Opened"
       /\ cmd \in {"RD", "WR"} => sa.state # "Closed" /\ a.row \in sa.rows
       /\ tree.rank = "PowerUp" /\ sa.state # "Closed" /\ a.row \in sa.rows => cmd \in {"RD", "WR", "SASEL"}
  BY <1>2, <1>5, <1>8, <1>9
<1>. QED
  BY <1>10 DEF cmd

\* Selecting keeps the subarrays open that are, and leaves one selected.
LEMMA SelectedFacts ==
  ASSUME NEW u, NEW t, NEW c \in Bank, NEW e \in SubArray, SelectedIn(u, t, c, e),
         SelectedOnce(t), t.sa[c][e].state # "Closed"
  PROVE  /\ \A b \in Bank, s \in SubArray :
              /\ u.sa[b][s].rows = t.sa[b][s].rows
              /\ u.sa[b][s].state # "Closed" <=> t.sa[b][s].state # "Closed"
         /\ SelectedOnce(u)
<1>1. ASSUME NEW b \in Bank, NEW s \in SubArray
      PROVE  /\ u.sa[b][s].rows = t.sa[b][s].rows
             /\ u.sa[b][s].state # "Closed" <=> t.sa[b][s].state # "Closed"
  BY DEF SelectedIn
<1>2. ASSUME NEW b \in Bank, NEW s \in SubArray, NEW r \in SubArray,
             u.sa[b][s].state = "Selected", u.sa[b][r].state = "Selected"
      PROVE  s = r
  <2>1. CASE b = c
    BY <1>2, <2>1 DEF SelectedIn
  <2>2. CASE b # c
    BY <1>2, <2>2 DEF SelectedIn, SelectedOnce
  <2>. QED
    BY <2>1, <2>2
<1>. QED
  BY <1>1, <1>2 DEF SelectedOnce

\* A subarray with an open row is selected.
LEMMA MASASelects ==
  ASSUME IInv, std = "MASA", std' = std, NEW c \in Bank, NEW e \in SubArray,
         tree.sa[c][e].state # "Closed", table' = table, SelectedIn(tree', tree, c, e)
  PROVE  IInv'
<1>0. std \notin Flat /\ std \notin {"SALP_1", "REFAB", "DSARP"}
  BY DEF Flat
<1>1. tree \in Tree /\ Typed /\ SubArraysAgree /\ SelectedOnce(tree)
  BY <1>0 DEF IInv, Typed
<1>2. /\ \A b \in Bank, s \in SubArray :
           /\ tree'.sa[b][s].rows = tree.sa[b][s].rows
           /\ tree'.sa[b][s].state # "Closed" <=> tree.sa[b][s].state # "Closed"
      /\ SelectedOnce(tree')
  BY <1>1, SelectedFacts
<1>3. Typed'
  BY <1>1 DEF Typed, SelectedIn
<1>4. SubArraysAgree'
  BY <1>1, <1>2 DEF SubArraysAgree, IsOpen
<1>. QED
  BY <1>0, <1>2, <1>3, <1>4 DEF IInv

\* In u the row r is open in the subarray e of bank c, and otherwise u is t.
OpenedIn(u, t, c, e, r) ==
  /\ u \in Tree /\ u.bank = t.bank
  /\ \A b \in Bank, s \in SubArray :
       /\ u.sa[b][s].rows = IF b = c /\ s = e THEN t.sa[b][s].rows \cup {r} ELSE t.sa[b][s].rows
       /\ u.sa[b][s].state = IF b = c /\ s = e THEN "Opened" ELSE t.sa[b][s].state

LEMMA OpenedInFacts ==
  ASSUME NEW t \in Tree, NEW c \in Bank, NEW e \in SubArray, NEW r \in Row
  PROVE  OpenedIn([t EXCEPT !.sa[c][e] = OpenedNode(@, r)], t, c, e, r)
<1>. DEFINE u == [t EXCEPT !.sa[c][e] = OpenedNode(@, r)]
            n == OpenedNode(t.sa[c][e], r)
<1>1. /\ u \in Tree /\ u.bank = t.bank
      /\ \A b \in Bank, s \in SubArray : u.sa[b][s] = IF b = c /\ s = e THEN n ELSE t.sa[b][s]
  BY OpenSubArrayFacts
<1>2. n.state = "Opened" /\ n.rows = t.sa[c][e].rows \cup {r}
  BY DEF OpenedNode
<1>. HIDE DEF u, n
<1>3. ASSUME NEW b \in Bank, NEW s \in SubArray
      PROVE  /\ u.sa[b][s].rows = IF b = c /\ s = e THEN t.sa[b][s].rows \cup {r} ELSE t.sa[b][s].rows
             /\ u.sa[b][s].state = IF b = c /\ s = e THEN "Opened" ELSE t.sa[b][s].state
  <2>1. CASE b = c /\ s = e
    BY <1>1, <1>2, <2>1
  <2>2. CASE ~(b = c /\ s = e)
    <3>1. u.sa[b][s] = t.sa[b][s]
      BY <1>1, <2>2
    <3>. QED
      BY <2>2, <3>1
  <2>. QED
    BY <2>1, <2>2
<1>4. OpenedIn(u, t, c, e, r)
  BY <1>1, <1>3 DEF OpenedIn
<1>. QED
  BY <1>4 DEF u

\* A row is opened and its subarray selected.
LEMMA MASAOpens ==
  ASSUME IInv, std = "MASA", std' = std, NEW c \in Bank, NEW e \in SubArray, NEW r \in Row,
         table[<<c, e>>] = None, table' = [table EXCEPT ![<<c, e>>] = r],
         NEW u, OpenedIn(u, tree, c, e, r), SelectedOnce(u) => SelectedIn(tree', u, c, e)
  PROVE  IInv'
<1>0. std \notin Flat /\ std \notin {"SALP_1", "REFAB", "DSARP"}
  BY DEF Flat
<1>1. tree \in Tree /\ Typed /\ SubArraysAgree /\ SelectedOnce(tree)
  BY <1>0 DEF IInv, Typed
<1>7. \A b \in Bank, s \in SubArray :
        /\ u.sa[b][s].rows = IF b = c /\ s = e THEN tree.sa[b][s].rows \cup {r} ELSE tree.sa[b][s].rows
        /\ u.sa[b][s].state = IF b = c /\ s = e THEN "Opened" ELSE tree.sa[b][s].state
  BY DEF OpenedIn
<1>8. SelectedOnce(u)
  <2>1. ASSUME NEW b \in Bank, NEW s \in SubArray, u.sa[b][s].state = "Selected"
        PROVE  tree.sa[b][s].state = "Selected"
    BY <1>7, <2>1
  <2>2. ASSUME NEW b \in Bank, NEW s \in SubArray, NEW q \in SubArray,
               u.sa[b][s].state = "Selected", u.sa[b][q].state = "Selected"
        PROVE  s = q
    <3>1. tree.sa[b][s].state = "Selected" /\ tree.sa[b][q].state = "Selected"
      BY <2>1, <2>2
    <3>. QED
      BY <1>1, <3>1 DEF SelectedOnce
  <2>. QED
    BY <2>2 DEF SelectedOnce
<1>9. SelectedIn(tree', u, c, e) /\ u.sa[c][e].state # "Closed"
  BY <1>7, <1>8
<1>10. /\ \A b \in Bank, s \in SubArray :
            /\ tree'.sa[b][s].rows = u.sa[b][s].rows
            /\ tree'.sa[b][s].state # "Closed" <=> u.sa[b][s].state # "Closed"
       /\ SelectedOnce(tree')
  BY <1>8, <1>9, SelectedFacts
<1>11. SubArrayOpens(c, e, r)
  <2>1. ASSUME NEW b \in Bank, NEW s \in SubArray
        PROVE  /\ tree'.sa[b][s].rows = IF b = c /\ s = e THEN tree.sa[b][s].rows \cup {r} ELSE tree.sa[b][s].rows
               /\ tree'.sa[b][s].state # "Closed" <=> (b = c /\ s = e) \/ tree.sa[b][s].state # "Closed"
    <3>1. /\ tree'.sa[b][s].rows = u.sa[b][s].rows
          /\ tree'.sa[b][s].state # "Closed" <=> u.sa[b][s].state # "Closed"
      BY <1>10
    <3>2. /\ u.sa[b][s].rows = IF b = c /\ s = e THEN tree.sa[b][s].rows \cup {r} ELSE tree.sa[b][s].rows
          /\ u.sa[b][s].state = IF b = c /\ s = e THEN "Opened" ELSE tree.sa[b][s].state
      BY <1>7
    <3>3. u.sa[b][s].state # "Closed" <=> (b = c /\ s = e) \/ tree.sa[b][s].state # "Closed"
      BY <3>2
    <3>. QED
      BY <3>1, <3>2, <3>3
  <2>. QED
    BY <1>9, <2>1 DEF SubArrayOpens, IsOpen, SelectedIn
<1>12. Typed' /\ SubArraysAgree'
  BY <1>0, <1>1, <1>11, SubArrayOpensAgree
<1>. QED
  BY <1>0, <1>10, <1>12 DEF IInv

LEMMA MASAStep ==
  ASSUME IInv, std = "MASA", Next
  PROVE  IInv'
<1>0. std \notin Flat /\ std \in SALP /\ std \notin {"SALP_1", "REFAB", "DSARP"}
  BY DEF Flat, SALP
<1>2. tree \in Tree
  BY DEF IInv, Typed
<1>1. ASSUME NEW cmd, NEW a, issue_cmd(cmd, a),
             \/ cmd \in {"RD", "WR", "REF", "PDE", "PDX", "SRE", "SRX", "PRE", "RDA", "WRA", "PREA"}
             \/ cmd = "ACT" /\ a \in Address /\ table[<<a.bank, a.sa>>] = None
             \/ cmd = "SASEL" /\ a \in Address /\ tree.sa[a.bank][a.sa].state = "Opened"
      PROVE  IInv'
  <2>1. std' = std
    BY <1>1 DEF issue_cmd
  <2>2. CASE cmd \in {"RD", "WR", "REF", "PDE", "PDX", "SRE", "SRX"}
    BY <1>1, <2>1, <2>2, MASAIssue, KeepsIInv
  <2>3. CASE cmd \in {"PRE", "RDA", "WRA", "PREA"}
    <3>1. PICK groups : SubArraysClose(groups)
      BY <1>1, <2>3, MASAIssue
    <3>2. Typed /\ SubArraysAgree /\ SelectedOnce(tree)
      BY <1>0 DEF IInv
    <3>3. Typed' /\ SubArraysAgree' /\ SelectedOnce(tree')
      BY <1>0, <2>1, <3>1, <3>2, SubArraysCloseAgree
    <3>. QED
      BY <1>0, <2>1, <3>3 DEF IInv
  <2>4. CASE cmd = "ACT"
    <3>1. /\ a \in Address /\ a.bank \in Bank /\ a.sa \in SubArray /\ a.row \in Row
          /\ table[<<a.bank, a.sa>>] = None
      BY <1>1, <2>4 DEF Address
    <3>2. /\ table' = [table EXCEPT ![<<a.bank, a.sa>>] = a.row]
          /\ tree' = Select([tree EXCEPT !.sa[a.bank][a.sa] = OpenedNode(@, a.row)], a)
      BY <1>1, <2>4, <3>1, MASAIssue
    <3>. DEFINE c == a.bank  e == a.sa  r == a.row
                u == [tree EXCEPT !.sa[c][e] = OpenedNode(@, r)]
    <3>3. c \in Bank /\ e \in SubArray /\ r \in Row
      BY <3>1
    <3>4. u \in Tree
      BY <1>2, <3>3, OpenSubArrayFacts
    <3>5. SelectedOnce(u) => SelectedIn(Select(u, a), u, c, e)
      <4>. HIDE DEF u
      <4>. QED
        BY <3>1, <3>4, SelectFacts
    <3>6. /\ table[<<c, e>>] = None /\ table' = [table EXCEPT ![<<c, e>>] = r]
          /\ tree' = Select(u, a)
      BY <3>1, <3>2
    <3>8. OpenedIn(u, tree, c, e, r)
      BY <1>2, <3>3, OpenedInFacts
    <3>7. SelectedOnce(u) => SelectedIn(tree', u, c, e)
      BY <3>5, <3>6
    <3>. HIDE DEF c, e, r, u
    <3>. QED
      BY <2>1, <3>3, <3>6, <3>7, <3>8, MASAOpens
  <2>5. CASE cmd = "SASEL"
    <3>1. a \in Address /\ tree.sa[a.bank][a.sa].state = "Opened"
      BY <1>1, <2>5
    <3>2. table' = table /\ tree' = Select(tree, a)
      BY <1>1, <2>5, MASAIssue
    <3>3. SelectedOnce(tree)
      BY DEF IInv
    <3>4. SelectedIn(tree', tree, a.bank, a.sa)
      BY <1>2, <3>1, <3>2, <3>3, SelectFacts
    <3>. DEFINE c == a.bank  e == a.sa
    <3>5. c \in Bank /\ e \in SubArray /\ tree.sa[c][e].state # "Closed"
      BY <3>1 DEF Address
    <3>6. SelectedIn(tree', tree, c, e)
      BY <3>4
    <3>. HIDE DEF c, e
    <3>. QED
      BY <2>1, <3>2, <3>5, <3>6, MASASelects
  <2>. QED
    BY <1>1, <2>2, <2>3, <2>4, <2>5
<1>3. ASSUME NEW type \in Request, NEW a \in Addresses(type), Serve(type, a)
      PROVE  IInv'
  <2>. DEFINE cmd == FirstCommand(type, tree, a)
  <2>1. issue_cmd(cmd, get_addr_vec(cmd, tree, a))
    BY <1>3 DEF Serve
  <2>2. CASE type \in Access
    <3>1. a \in Address
      BY <2>2, AccessAddress
    <3>2. /\ cmd \in {"RD", "WR", "ACT", "PRE", "SASEL", "PDX", "SRX"}
          /\ cmd = "ACT" => table[<<a.bank, a.sa>>] = None
          /\ cmd = "SASEL" => tree.sa[a.bank][a.sa].state = "Opened"
      BY <2>2, MASAAccess
    <3>3. get_addr_vec(cmd, tree, a) = a
      BY <3>2 DEF get_addr_vec
    <3>. HIDE DEF cmd
    <3>. QED
      BY <1>1, <2>1, <3>1, <3>2, <3>3
  <2>3. CASE type \notin Access
    <3>1. cmd \in {"REF", "PREA", "PDE", "PDX", "SRE", "SRX"}
      BY <1>0, <2>3, SALPFirst
    <3>. HIDE DEF cmd
    <3>. QED
      BY <1>1, <2>1, <3>1
  <2>. QED
    BY <2>2, <2>3
<1>4. ASSUME NEW type \in Access, NEW a \in Addresses(type), AutoPrecharge(type, a)
      PROVE  IInv'
  <2>1. \E cmd \in {"RDA", "WRA"} : issue_cmd(cmd, a)
    BY <1>4 DEF AutoPrecharge
  <2>. QED
    BY <1>1, <2>1
<1>5. ASSUME NEW g \in Group(std), PrechargeVictim(g) PROVE IInv'
  <2>1. \E a : issue_cmd("PRE", a)
    BY <1>5 DEF PrechargeVictim
  <2>. QED
    BY <1>1, <2>1
<1>. QED
  BY <1>3, <1>4, <1>5 DEF Next

\* The command an access needs first and the row hit are told by the same subarray.
LEMMA SALPHits ==
  ASSUME IInv, std \in SALP
  PROVE  HitsAgree
<1>1. ASSUME NEW type \in Access, NEW a \in Addresses(type), tree.rank = "PowerUp"
      PROVE  LET cmd == FirstCommand(type, tree, a)
             IN /\ cmd \in spec(std).accessing => SALP_rowhit(tree, a)
                /\ SALP_rowhit(tree, a) => cmd \notin spec(std).opening \cup (spec(std).closing \ {"PRE_OTHER"})
                /\ SALP_rowhit(tree, a) => SALP_rowopen(std, tree, a)
  <2>. DEFINE cmd == FirstCommand(type, tree, a)
              sa == tree.sa[a.bank][a.sa]
  <2>1. /\ cmd \in {"RD", "WR", "ACT", "PRE", "PRE_OTHER", "SASEL", "PDX", "SRX"}
        /\ cmd \in {"RD", "WR"} => sa.state # "Closed" /\ a.row \in sa.rows
        /\ sa.state # "Closed" /\ a.row \in sa.rows
             => /\ cmd \in {"RD", "WR", "PRE_OTHER", "SASEL"}
                /\ std = "SALP_1" => tree.bank[a.bank].state = "Opened"
    <3>1. CASE std = "SALP_1"
      BY <1>1, <3>1, SALP1Access
    <3>2. CASE std = "SALP_2"
      BY <1>1, <3>2, SALP2Access
    <3>3. CASE std = "MASA"
      BY <1>1, <3>3, MASAAccess
    <3>. QED
      BY <3>1, <3>2, <3>3 DEF SALP
  <2>2. SALP_rowhit(tree, a) <=> sa.state # "Closed" /\ a.row \in sa.rows
    BY DEF SALP_rowhit
  <2>3. SALP_rowhit(tree, a) => SALP_rowopen(std, tree, a)
    BY <2>1, <2>2 DEF SALP_rowopen
  <2>. HIDE DEF cmd, sa
  <2>4. cmd \in spec(std).accessing => SALP_rowhit(tree, a)
    BY <2>1, <2>2, SALPSpec DEF SALP
  <2>5. SALP_rowhit(tree, a) => cmd \notin spec(std).opening \cup (spec(std).closing \ {"PRE_OTHER"})
    BY <2>1, <2>2, SALPSpec DEF SALP
  <2>. QED
    BY <2>3, <2>4, <2>5 DEF cmd
<1>2. ASSUME NEW a
      PROVE  check_row_hit(tree, a) = SALP_rowhit(tree, a) /\ check_row_open(tree, a) = SALP_rowopen(std, tree, a)
  BY DEF SALP, check_row_hit, check_row_open
<1>. QED
  BY <1>1, <1>2 DEF HitsAgree
-----------------------------------------------------------------------------
(* DSARP and REFAB                                                         *)

Refreshing == {"REFAB", "DSARP"}

LEMMA DSARPUpdate ==
  ASSUME std \in Refreshing, NEW cmd, NEW t, NEW a
  PROVE  LET rank == DSARP_lambda("Rank", cmd, t, a)
             bank == DSARP_lambda("Bank", cmd, rank, a)
         IN update_state(cmd, t, a) = IF cmd \in {"PREA", "REF", "PDE", "PDX", "SRE", "SRX"} THEN rank
                                      ELSE IF cmd \in {"PRE", "REFPB"} THEN bank
                                      ELSE DSARP_lambda("SubArray", cmd, bank, a)
<1>. DEFINE rank == DSARP_lambda("Rank", cmd, t, a)
            bank == DSARP_lambda("Bank", cmd, rank, a)
<1>1. lambda(std, "Rank", cmd, t, a) = rank
  BY DEF lambda, Refreshing
<1>. HIDE DEF rank
<1>2. lambda(std, "Bank", cmd, rank, a) = bank
  BY DEF lambda, Refreshing
<1>. HIDE DEF bank
<1>4. lambda(std, "SubArray", cmd, bank, a) = DSARP_lambda("SubArray", cmd, bank, a)
  BY DEF lambda, Refreshing
<1>5. std \notin Flat /\ std \in {"REFAB", "DSARP"}
  BY DEF Flat, Refreshing
<1>. QED
  BY <1>1, <1>2, <1>4, <1>5, DSARPSpec DEF update_state, rank, bank

\* An access is decoded at the bank and at the subarray, a refresh of a bank there.
LEMMA DSARPFirst ==
  ASSUME std \in Refreshing, NEW t
  PROVE  /\ \A type \in Access : \A a \in Addresses(type) :
              /\ Accessing(type) \in {"RD", "WR"}
              /\ FirstCommand(type, t, a) =
                   LET atBank == RowOpen(t.bank[a.bank], a.sa, Accessing(type))
                   IN IF t.rank # "PowerUp" THEN MemoryAwake(t)
                      ELSE IF atBank # Accessing(type) THEN atBank
                      ELSE RowOpen(t.sa[a.bank][a.sa], a.row, Accessing(type))
         /\ \A type \in Request \ Access : \A a \in Addresses(type) :
              \/ FirstCommand(type, t, a) \in {"REF", "PREA", "PDE", "PDX", "SRE", "SRX"}
              \/ a.bank \in Bank /\ FirstCommand(type, t, a) = PerBankRefresh(t, a)
<1>0. std \notin Flat /\ std \in {"REFAB", "DSARP"}
  BY DEF Refreshing, Flat
<1>1. ASSUME NEW type \in Access, NEW a \in Addresses(type)
      PROVE  /\ Accessing(type) \in {"RD", "WR"}
             /\ FirstCommand(type, t, a) =
                   LET atBank == RowOpen(t.bank[a.bank], a.sa, Accessing(type))
                   IN IF t.rank # "PowerUp" THEN MemoryAwake(t)
                      ELSE IF atBank # Accessing(type) THEN atBank
                      ELSE RowOpen(t.sa[a.bank][a.sa], a.row, Accessing(type))
  <2>. DEFINE c == Accessing(type)
              atBank == RowOpen(t.bank[a.bank], a.sa, c)
              atSubArray == RowOpen(t.sa[a.bank][a.sa], a.row, c)
  <2>1. c \in {"RD", "WR"}
    BY <1>0, DSARPSpec DEF Accessing, Access
  <2>2. FirstCommand(type, t, a) = decode(c, t, a)
    BY DEF FirstCommand, Accessing
  <2>. HIDE DEF c
  <2>3. prereq(std, "Rank", c, t, a) = MemoryAwake(t)
    <3>1. prereq(std, "Rank", c, t, a) = DSARP_prereq("Rank", c, t, a)
      BY <1>0 DEF prereq
    <3>2. DSARP_prereq("Rank", c, t, a) = DDR3_prereq("Rank", c, t, a)
      BY DEF DSARP_prereq
    <3>. QED
      BY <2>1, <3>1, <3>2, DDR3First DEF ReadWrite
  <2>4. prereq(std, "Bank", c, t, a) = IF atBank = c THEN "MAX" ELSE atBank
    <3>1. prereq(std, "Bank", c, t, a) = DSARP_prereq("Bank", c, t, a)
      BY <1>0 DEF prereq
    <3>. QED
      BY <2>1, <3>1 DEF DSARP_prereq, ReadWrite
  <2>5. prereq(std, "SubArray", c, t, a) = atSubArray
    <3>1. prereq(std, "SubArray", c, t, a) = DSARP_prereq("SubArray", c, t, a)
      BY <1>0 DEF prereq
    <3>. QED
      BY <2>1, <3>1 DEF DSARP_prereq, ReadWrite
  <2>6. a.bank # None
    BY AccessAddress
  <2>7. atSubArray # "MAX" /\ atBank # "MAX"
    BY <2>1 DEF RowOpen
  <2>. HIDE DEF atBank, atSubArray
  <2>8. decode(c, t, a) = IF t.rank # "PowerUp" THEN MemoryAwake(t)
                             ELSE IF atBank # c THEN atBank ELSE atSubArray
    BY <1>0, <2>3, <2>4, <2>5, <2>6, <2>7, AwakeFacts DEF decode
  <2>. QED
    BY <2>1, <2>2, <2>8 DEF c, atBank, atSubArray
<1>2. ASSUME NEW type \in Request \ Access, NEW a \in Addresses(type)
      PROVE  \/ FirstCommand(type, t, a) \in {"REF", "PREA", "PDE", "PDX", "SRE", "SRX"}
             \/ a.bank \in Bank /\ FirstCommand(type, t, a) = PerBankRefresh(t, a)
  <2>. DEFINE c == Accessing(type)
  <2>1. c \in {"REF", "PDE", "SRE", "REFPB"} /\ (c = "REFPB" => type = "REFRESH")
    BY <1>0, DSARPSpec DEF Accessing, Access, Request
  <2>2. FirstCommand(type, t, a) = decode(c, t, a)
    BY DEF FirstCommand, Accessing
  <2>3. c = "REFPB" => a.bank \in Bank
    <3>1. SUFFICES ASSUME c = "REFPB" PROVE a.bank \in Bank
      OBVIOUS
    <3>2. Addresses(type) = {[x EXCEPT !.row = None] : x \in Address}
      BY <2>1, <3>1 DEF Addresses, Accessing, Access
    <3>. QED
      BY <3>2 DEF Address
  <2>. HIDE DEF c
  <2>4. prereq(std, "Rank", c, t, a) = DDR3_prereq("Rank", c, t, a)
    BY <1>0 DEF prereq, DSARP_prereq
  <2>5. CASE c # "REFPB"
    <3>1. DDR3_prereq("Rank", c, t, a) \in {"REF", "PREA", "PDE", "PDX", "SRE", "SRX"}
      BY <2>1, <2>5, DDR3First
    <3>. QED
      BY <2>2, <2>4, <3>1 DEF decode
  <2>6. CASE c = "REFPB"
    <3>1. prereq(std, "Rank", c, t, a) = "MAX"
      BY <2>4, <2>6, DDR3First
    <3>2. prereq(std, "Bank", c, t, a) = PerBankRefresh(t, a)
      BY <1>0, <2>6 DEF prereq, DSARP_prereq, ReadWrite
    <3>3. PerBankRefresh(t, a) # "MAX"
      BY DEF PerBankRefresh
    <3>4. a.bank \in Bank /\ a.bank # None
      BY <2>3, <2>6, StandardsAssumption DEF None
    <3>. QED
      BY <2>2, <3>1, <3>2, <3>3, <3>4 DEF decode
  <2>. QED
    BY <2>5, <2>6
<1>. QED
  BY <1>1, <1>2

\* What a command does to the table.
LEMMA DSARPTable ==
  ASSUME IInv, std \in Refreshing, NEW cmd, NEW a, issue_cmd(cmd, a)
  PROVE  /\ cmd \in {"RD", "WR", "REF", "REFPB", "PDE", "PDX", "SRE", "SRX"} => table' = table
         /\ cmd = "ACT" /\ a.bank \in Bank /\ a.sa \in SubArray /\ table[<<a.bank, a.sa>>] = None
              => table' = [table EXCEPT ![<<a.bank, a.sa>>] = a.row]
         /\ cmd \in {"RDA", "WRA"}
              => table' = [g \in Group(std) |-> IF g \in {<<a.bank, a.sa>>} THEN None ELSE table[g]]
         /\ cmd = "PRE"
              => table' = [g \in Group(std) |-> IF g \in {a.bank} \X SubArray THEN None ELSE table[g]]
         /\ cmd = "PREA"
              => table' = [g \in Group(std) |-> IF g \in Bank \X SubArray THEN None ELSE table[g]]
<1>0. std \in {"REFAB", "DSARP"} /\ std \notin Flat /\ std \in Standard \ Flat
  BY DEF Refreshing, Flat, Standard, WithSubArrays
<1>1. UpdateRowTable(cmd, a) /\ Typed
  BY DEF issue_cmd, IInv
<1>2. GroupOf(a) = <<a.bank, a.sa>> /\ Group(std) = Bank \X SubArray
  BY <1>0, GroupTypes DEF GroupOf
<1>3. ASSUME cmd \in {"RD", "WR", "REF", "REFPB", "PDE", "PDX", "SRE", "SRX"} PROVE table' = table
  BY <1>0, <1>1, <1>3, DSARPSpec, TableKept
<1>4. ASSUME cmd = "ACT", a.bank \in Bank, a.sa \in SubArray, table[<<a.bank, a.sa>>] = None
      PROVE  table' = [table EXCEPT ![<<a.bank, a.sa>>] = a.row]
  BY <1>0, <1>1, <1>2, <1>4, DSARPSpec, TableOpens
<1>5. cmd \notin spec(std).opening
        => table' = [g \in Group(std) |-> IF g \in Removed(cmd, a) THEN None ELSE table[g]]
  BY <1>1, TableCloses
<1>6. ASSUME cmd \in {"RDA", "WRA"}
      PROVE  table' = [g \in Group(std) |-> IF g \in {<<a.bank, a.sa>>} THEN None ELSE table[g]]
  <2>1. Removed(cmd, a) = {<<a.bank, a.sa>>}
    BY <1>0, <1>2, <1>6, DSARPSpec DEF Removed
  <2>2. cmd \notin spec(std).opening
    BY <1>0, <1>6, DSARPSpec
  <2>. QED
    BY <1>5, <2>1, <2>2
<1>7. ASSUME cmd = "PRE"
      PROVE  table' = [g \in Group(std) |-> IF g \in {a.bank} \X SubArray THEN None ELSE table[g]]
  <2>1. Removed(cmd, a) = {g \in Group(std) : g[1] = a.bank}
    BY <1>0, <1>7, DSARPSpec DEF Removed
  <2>2. cmd \notin spec(std).opening
    BY <1>0, <1>7, DSARPSpec
  <2>3. \A g \in Group(std) : g \in Removed(cmd, a) <=> g \in {a.bank} \X SubArray
    BY <1>2, <2>1
  <2>. QED
    BY <1>5, <2>2, <2>3
<1>8. ASSUME cmd = "PREA"
      PROVE  table' = [g \in Group(std) |-> IF g \in Bank \X SubArray THEN None ELSE table[g]]
  <2>1. Removed(cmd, a) = Bank \X SubArray
    BY <1>0, <1>2, <1>8, DSARPSpec DEF Removed
  <2>2. cmd \notin spec(std).opening
    BY <1>0, <1>8, DSARPSpec
  <2>. QED
    BY <1>5, <2>1, <2>2
<1>. QED
  BY <1>3, <1>4, <1>6, <1>7, <1>8

LEMMA DSARPIssue ==
  ASSUME IInv, std \in Refreshing, NEW cmd, NEW a, issue_cmd(cmd, a)
  PROVE  /\ cmd \in {"RD", "WR", "REF", "PDE", "PDX", "SRE", "SRX"} => Keeps
         /\ cmd = "ACT" /\ a.bank \in Bank /\ a.sa \in SubArray /\ table[<<a.bank, a.sa>>] = None
              => /\ table' = [table EXCEPT ![<<a.bank, a.sa>>] = a.row]
                 /\ tree' = [[tree EXCEPT !.bank[a.bank] = OpenedNode(@, a.sa)]
                              EXCEPT !.sa[a.bank][a.sa] = OpenedNode(@, a.row)]
         /\ cmd \in {"RDA", "WRA"}
              => /\ table' = [g \in Group(std) |-> IF g \in {<<a.bank, a.sa>>} THEN None ELSE table[g]]
                 /\ tree' = CloseSubArrays(CloseBanks(tree, {a.bank}), {<<a.bank, a.sa>>})
         /\ cmd = "PRE"
              => /\ table' = [g \in Group(std) |-> IF g \in {a.bank} \X SubArray THEN None ELSE table[g]]
                 /\ tree' = CloseSubArrays(CloseBanks(tree, {a.bank}), {a.bank} \X SubArray)
         /\ cmd = "PREA"
              => /\ table' = [g \in Group(std) |-> IF g \in Bank \X SubArray THEN None ELSE table[g]]
                 /\ tree' = CloseSubArrays(CloseBanks(tree, Bank), Bank \X SubArray)
         /\ cmd = "REFPB" => table' = table /\ tree' = [tree EXCEPT !.bank[a.bank].rows = {}]
<1>. DEFINE bank(t) == DSARP_lambda("Bank", cmd, t, a)
            sub(t) == DSARP_lambda("SubArray", cmd, t, a)
            rank == DSARP_lambda("Rank", cmd, tree, a)
<1>1. tree' = IF cmd \in {"PREA", "REF", "PDE", "PDX", "SRE", "SRX"} THEN rank
              ELSE IF cmd \in {"PRE", "REFPB"} THEN bank(rank) ELSE sub(bank(rank))
  BY DSARPUpdate DEF issue_cmd
<1>2. tree \in Tree
  BY DEF IInv, Typed
<1>. HIDE DEF sub, bank, rank
<1>3. cmd \notin {"PREA", "PDE", "PDX", "SRE", "SRX"} => rank = tree
  BY DEF rank, DSARP_lambda, PowerCommand
<1>4. ASSUME cmd \in {"RD", "WR", "REF", "PDE", "PDX", "SRE", "SRX"} PROVE Keeps
  <2>1. table' = table
    BY <1>4, DSARPTable
  <2>2. rank \in Tree /\ rank.bank = tree.bank /\ rank.sa = tree.sa
    BY <1>2, <1>4, PowerFacts DEF rank, DSARP_lambda
  <2>3. ASSUME cmd \in {"RD", "WR"} PROVE sub(bank(rank)) = rank
    BY <2>3 DEF bank, sub, DSARP_lambda
  <2>. QED
    BY <1>1, <1>4, <2>1, <2>2, <2>3 DEF Keeps
<1>5. ASSUME cmd = "ACT", a.bank \in Bank, a.sa \in SubArray, table[<<a.bank, a.sa>>] = None
      PROVE  /\ table' = [table EXCEPT ![<<a.bank, a.sa>>] = a.row]
             /\ tree' = [[tree EXCEPT !.bank[a.bank] = OpenedNode(@, a.sa)]
                          EXCEPT !.sa[a.bank][a.sa] = OpenedNode(@, a.row)]
  <2>. DEFINE u == [tree EXCEPT !.bank[a.bank] = OpenedNode(@, a.sa)]
  <2>1. bank(rank) = u
    BY <1>3, <1>5 DEF bank, DSARP_lambda
  <2>. HIDE DEF u
  <2>2. sub(u) = [u EXCEPT !.sa[a.bank][a.sa] = OpenedNode(@, a.row)]
    BY <1>5 DEF sub, DSARP_lambda
  <2>3. tree' = [u EXCEPT !.sa[a.bank][a.sa] = OpenedNode(@, a.row)]
    BY <1>1, <1>5, <2>1, <2>2
  <2>4. table' = [table EXCEPT ![<<a.bank, a.sa>>] = a.row]
    BY <1>5, DSARPTable
  <2>. QED
    BY <2>3, <2>4 DEF u
<1>6. ASSUME cmd \in {"RDA", "WRA"}
      PROVE  /\ table' = [g \in Group(std) |-> IF g \in {<<a.bank, a.sa>>} THEN None ELSE table[g]]
             /\ tree' = CloseSubArrays(CloseBanks(tree, {a.bank}), {<<a.bank, a.sa>>})
  <2>1. bank(tree) = CloseBanks(tree, {a.bank})
    BY <1>6 DEF bank, DSARP_lambda
  <2>2. \A t : sub(t) = CloseSubArrays(t, {<<a.bank, a.sa>>})
    BY <1>6 DEF sub, DSARP_lambda
  <2>3. tree' = sub(bank(tree))
    BY <1>1, <1>3, <1>6
  <2>4. table' = [g \in Group(std) |-> IF g \in {<<a.bank, a.sa>>} THEN None ELSE table[g]]
    BY <1>6, DSARPTable
  <2>. QED
    BY <2>1, <2>2, <2>3, <2>4
<1>7. ASSUME cmd = "PRE"
      PROVE  /\ table' = [g \in Group(std) |-> IF g \in {a.bank} \X SubArray THEN None ELSE table[g]]
             /\ tree' = CloseSubArrays(CloseBanks(tree, {a.bank}), {a.bank} \X SubArray)
  <2>1. tree' = CloseSubArrays(CloseBanks(tree, {a.bank}), {a.bank} \X SubArray)
    BY <1>1, <1>3, <1>7 DEF bank, DSARP_lambda
  <2>2. table' = [g \in Group(std) |-> IF g \in {a.bank} \X SubArray THEN None ELSE table[g]]
    BY ZenonT(30), <1>7, DSARPTable
  <2>. QED
    BY <2>1, <2>2
<1>8. ASSUME cmd = "PREA"
      PROVE  /\ table' = [g \in Group(std) |-> IF g \in Bank \X SubArray THEN None ELSE table[g]]
             /\ tree' = CloseSubArrays(CloseBanks(tree, Bank), Bank \X SubArray)
  <2>1. tree' = CloseSubArrays(CloseBanks(tree, Bank), Bank \X SubArray)
    BY <1>1, <1>8 DEF rank, DSARP_lambda
  <2>2. table' = [g \in Group(std) |-> IF g \in Bank \X SubArray THEN None ELSE table[g]]
    BY <1>8, DSARPTable
  <2>. QED
    BY <2>1, <2>2
<1>9. ASSUME cmd = "REFPB"
      PROVE  table' = table /\ tree' = [tree EXCEPT !.bank[a.bank].rows = {}]
  <2>1. tree' = [tree EXCEPT !.bank[a.bank].rows = {}]
    BY <1>1, <1>3, <1>9 DEF bank, DSARP_lambda
  <2>2. table' = table
    BY <1>9, DSARPTable
  <2>. QED
    BY <2>1, <2>2
<1>. QED
  BY <1>4, <1>5, <1>6, <1>7, <1>8, <1>9

\* What the invariant says under these two standards.
LEMMA DSARPInv ==
  ASSUME std \in Refreshing
  PROVE  IInv <=> /\ Typed /\ SubArraysAgree /\ OneOpen /\ BanksFollow /\ BanksName /\ NoneSelected
BY DEF IInv, Refreshing, Flat

\* A row is opened where the bank is closed.
LEMMA DSARPOpens ==
  ASSUME IInv, std \in Refreshing, std' = std, NEW c \in Bank, NEW e \in SubArray, NEW r \in Row,
         tree.bank[c].state = "Closed", table' = [table EXCEPT ![<<c, e>>] = r],
         tree' = [[tree EXCEPT !.bank[c] = OpenedNode(@, e)] EXCEPT !.sa[c][e] = OpenedNode(@, r)]
  PROVE  IInv'
<1>0. std \notin Flat
  BY DEF Flat, Refreshing
<1>1. tree \in Tree /\ Typed /\ SubArraysAgree /\ OneOpen /\ BanksFollow /\ BanksName /\ NoneSelected
  BY DSARPInv DEF Typed
<1>. DEFINE u == [tree EXCEPT !.bank[c] = OpenedNode(@, e)]
<1>2. /\ u \in Tree /\ u.sa = tree.sa
      /\ \A b \in Bank : u.bank[b] = IF b = c THEN OpenedNode(tree.bank[c], e) ELSE tree.bank[b]
  BY <1>1, OpenBankFacts
<1>. HIDE DEF u
<1>3. \A s \in SubArray : ~IsOpen(c, s)
  BY <1>1 DEF BanksFollow
<1>4. table[<<c, e>>] = None /\ tree.bank[c].rows = {}
  BY <1>1, <1>3 DEF SubArraysAgree, BanksName
<1>5. tree' = [u EXCEPT !.sa[c][e] = OpenedNode(@, r)]
  BY DEF u
<1>6. SubArrayOpens(c, e, r) /\ NoneSelected' /\ tree'.bank = u.bank
  BY <1>1, <1>2, <1>4, <1>5, OpensSubArray
<1>7. Typed' /\ SubArraysAgree'
  BY <1>0, <1>1, <1>6, SubArrayOpensAgree
<1>8. \A b \in Bank, s \in SubArray : IsOpen(b, s)' <=> (b = c /\ s = e) \/ IsOpen(b, s)
  BY <1>6 DEF SubArrayOpens
<1>9. OneOpen'
  BY <1>1, <1>3, <1>8 DEF OneOpen
<1>10. ASSUME NEW b \in Bank
       PROVE  /\ tree'.bank[b].state = IF b = c THEN "Opened" ELSE tree.bank[b].state
              /\ tree'.bank[b].rows = IF b = c THEN {e} ELSE tree.bank[b].rows
  <2>1. CASE b = c
    <3>1. tree'.bank[b] = OpenedNode(tree.bank[c], e)
      BY <1>2, <1>6, <2>1
    <3>. QED
      BY <1>4, <2>1, <3>1 DEF OpenedNode
  <2>2. CASE b # c
    <3>1. tree'.bank[b] = tree.bank[b]
      BY <1>2, <1>6, <2>2
    <3>. QED
      BY <2>2, <3>1
  <2>. QED
    BY <2>1, <2>2
<1>11. BanksFollow'
  BY <1>1, <1>8, <1>10 DEF BanksFollow
<1>12. ASSUME NEW b \in Bank
       PROVE  tree'.bank[b].rows = {s \in SubArray : IsOpen(b, s)'}
  <2>1. CASE b = c
    <3>1. \A s \in SubArray : IsOpen(b, s)' <=> s = e
      BY <1>3, <1>8, <2>1
    <3>2. tree'.bank[b].rows = {e}
      BY <1>10, <2>1
    <3>. QED
      BY <3>1, <3>2
  <2>2. CASE b # c
    <3>1. \A s \in SubArray : IsOpen(b, s)' <=> IsOpen(b, s)
      BY <1>8, <2>2
    <3>2. tree'.bank[b].rows = {s \in SubArray : IsOpen(b, s)}
      BY <1>1, <1>10, <2>2 DEF BanksName
    <3>. QED
      BY <3>1, <3>2
  <2>. QED
    BY <2>1, <2>2
<1>13. BanksName'
  BY <1>12 DEF BanksName
<1>. QED
  BY <1>0, <1>6, <1>7, <1>9, <1>11, <1>13 DEF IInv, Refreshing

\* Banks are closed, with the subarray of each that is open.
LEMMA DSARPCloses ==
  ASSUME IInv, std \in Refreshing, std' = std, NEW banks, NEW groups,
         \A b \in Bank, s \in SubArray : /\ b \in banks /\ IsOpen(b, s) => <<b, s>> \in groups
                                         /\ <<b, s>> \in groups => b \in banks,
         table' = [g \in Group(std) |-> IF g \in groups THEN None ELSE table[g]],
         tree' = CloseSubArrays(CloseBanks(tree, banks), groups)
  PROVE  IInv'
<1>0. std \notin Flat
  BY DEF Flat, Refreshing
<1>1. tree \in Tree /\ Typed /\ SubArraysAgree /\ OneOpen /\ BanksFollow /\ BanksName /\ NoneSelected
  BY DSARPInv DEF Typed
<1>. DEFINE u == CloseBanks(tree, banks)
<1>2. /\ u \in Tree /\ u.sa = tree.sa
      /\ \A b \in Bank : u.bank[b] = IF b \in banks THEN ClosedNode ELSE tree.bank[b]
  BY <1>1, CloseBanksFacts
<1>3. tree' = CloseSubArrays(u, groups)
  OBVIOUS
<1>. HIDE DEF u
<1>4. SubArraysClose(groups) /\ tree'.bank = u.bank
  BY <1>2, <1>3, ClosesSubArrays
<1>5. /\ Typed' /\ SubArraysAgree' /\ NoneSelected'
      /\ \A b \in Bank, s \in SubArray : IsOpen(b, s)' <=> IsOpen(b, s) /\ <<b, s>> \notin groups
  BY <1>0, <1>1, <1>4, SubArraysCloseAgree
<1>6. \A b \in Bank, s \in SubArray : IsOpen(b, s)' <=> IsOpen(b, s) /\ b \notin banks
  BY <1>5
<1>7. OneOpen'
  BY <1>1, <1>6 DEF OneOpen
<1>8. ASSUME NEW b \in Bank
      PROVE  /\ tree'.bank[b].state = IF b \in banks THEN "Closed" ELSE tree.bank[b].state
             /\ tree'.bank[b].rows = IF b \in banks THEN {} ELSE tree.bank[b].rows
  <2>1. CASE b \in banks
    BY <1>2, <1>4, <2>1, ClosedNodeType
  <2>2. CASE b \notin banks
    BY <1>2, <1>4, <2>2
  <2>. QED
    BY <2>1, <2>2
<1>9. BanksFollow'
  BY <1>1, <1>6, <1>8 DEF BanksFollow
<1>10. ASSUME NEW b \in Bank
       PROVE  tree'.bank[b].rows = {s \in SubArray : IsOpen(b, s)'}
  <2>1. CASE b \in banks
    <3>1. \A s \in SubArray : ~IsOpen(b, s)'
      BY <1>6, <2>1
    <3>2. tree'.bank[b].rows = {}
      BY <1>8, <2>1
    <3>. QED
      BY <3>1, <3>2
  <2>2. CASE b \notin banks
    <3>1. \A s \in SubArray : IsOpen(b, s)' <=> IsOpen(b, s)
      BY <1>6, <2>2
    <3>2. tree'.bank[b].rows = {s \in SubArray : IsOpen(b, s)}
      BY <1>1, <1>8, <2>2 DEF BanksName
    <3>. QED
      BY <3>1, <3>2
  <2>. QED
    BY <2>1, <2>2
<1>11. BanksName'
  BY <1>10 DEF BanksName
<1>. QED
  BY <1>0, <1>5, <1>7, <1>9, <1>11 DEF IInv, Refreshing

\* Clearing the rows of a bank without any changes nothing.
LEMMA ClearFacts ==
  ASSUME NEW t \in Tree, NEW c \in Bank, t.bank[c].rows = {}
  PROVE  [t EXCEPT !.bank[c].rows = {}] = t
<1>. DEFINE n == [t.bank[c] EXCEPT !.rows = {}]
            u == [t EXCEPT !.bank[c].rows = {}]
<1>1. n = t.bank[c]
  BY TreeFields DEF Nodes, Node
<1>2. u = [rank |-> t.rank, bank |-> [t.bank EXCEPT ![c] = n], sa |-> t.sa]
  BY TreeFields
<1>. HIDE DEF n, u
<1>3. [t.bank EXCEPT ![c] = n] = t.bank
  BY <1>1, TreeFields DEF Nodes
<1>4. u = t
  BY <1>2, <1>3, TreeFields
<1>. QED
  BY <1>4 DEF u

\* A bank that is refreshed had no row open.
LEMMA DSARPRefreshes ==
  ASSUME IInv, std \in Refreshing, std' = std, NEW c \in Bank, tree.bank[c].state = "Closed",
         table' = table, tree' = [tree EXCEPT !.bank[c].rows = {}]
  PROVE  IInv'
<1>1. tree \in Tree /\ BanksFollow /\ BanksName
  BY DSARPInv DEF Typed
<1>2. tree.bank[c].rows = {}
  BY <1>1 DEF BanksFollow, BanksName
<1>3. tree' = tree
  BY <1>1, <1>2, ClearFacts
<1>4. Keeps
  BY <1>1, <1>3 DEF Keeps
<1>. QED
  BY <1>4, KeepsIInv

LEMMA DSARPAccess ==
  ASSUME IInv, std \in Refreshing, NEW type \in Access, NEW a \in Addresses(type)
  PROVE  LET cmd == FirstCommand(type, tree, a)  sa == tree.sa[a.bank][a.sa]
         IN /\ cmd \in {"RD", "WR", "ACT", "PRE", "PDX", "SRX"}
            /\ cmd = "ACT" => tree.bank[a.bank].state = "Closed"
            /\ cmd \in {"RD", "WR"} => sa.state # "Closed" /\ a.row \in sa.rows
            /\ tree.rank = "PowerUp" /\ sa.state # "Closed" /\ a.row \in sa.rows => cmd \in {"RD", "WR"}
<1>. DEFINE acc == Accessing(type)
            sa == tree.sa[a.bank][a.sa]
            bank == tree.bank[a.bank]
            cmd == FirstCommand(type, tree, a)
            atBank == RowOpen(bank, a.sa, acc)
            atSubArray == RowOpen(sa, a.row, acc)
<1>0. std \notin Flat
  BY DEF Flat, Refreshing
<1>1. acc \in {"RD", "WR"}
  BY DSARPFirst
<1>2. cmd = IF tree.rank # "PowerUp" THEN MemoryAwake(tree)
            ELSE IF atBank # acc THEN atBank ELSE atSubArray
  BY DSARPFirst
<1>3. a.bank \in Bank /\ a.sa \in SubArray
  BY AccessAddress
<1>4. /\ sa \in Node({"Opened", "Closed", "Selected"})
      /\ sa.state = "Closed" <=> sa.rows = {}
  BY <1>0, <1>3, ClosedSubArray
<1>5. tree \in Tree /\ BanksFollow /\ BanksName
  BY DSARPInv DEF Typed
<1>6. bank \in Node({"Opened", "Closed"}) /\ bank.state \in {"Opened", "Closed"}
  BY <1>3, <1>5, TreeFields DEF Nodes, Node
<1>7. bank.state # "Closed" /\ a.sa \in bank.rows <=> sa.state # "Closed"
  <2>1. a.sa \in bank.rows <=> sa.state # "Closed"
    BY <1>3, <1>5 DEF BanksName, IsOpen
  <2>2. sa.state # "Closed" => bank.state = "Opened"
    BY <1>3, <1>5 DEF BanksFollow, IsOpen
  <2>. QED
    BY <2>1, <2>2
<1>. HIDE DEF cmd, acc
<1>8. /\ atBank \in {"ACT", "PRE", acc}
      /\ atBank = "ACT" <=> bank.state = "Closed"
      /\ atBank = acc <=> bank.state # "Closed" /\ a.sa \in bank.rows
  BY <1>1, <1>6, RowOpenFacts
<1>9. /\ atSubArray \in {"ACT", "PRE", acc}
      /\ atSubArray = "ACT" <=> sa.state = "Closed"
      /\ atSubArray = acc <=> sa.state # "Closed" /\ a.row \in sa.rows
  BY <1>1, <1>4, RowOpenFacts
<1>. HIDE DEF atBank, atSubArray, bank, sa
<1>10. \/ tree.rank # "PowerUp" /\ cmd \in {"PDX", "SRX"}
       \/ tree.rank = "PowerUp" /\ atBank # acc /\ cmd = atBank
       \/ tree.rank = "PowerUp" /\ atBank = acc /\ cmd = atSubArray
  BY <1>2, AwakeFacts
<1>11. /\ cmd \in {"RD", "WR", "ACT", "PRE", "PDX", "SRX"}
       /\ cmd = "ACT" => bank.state = "Closed"
       /\ cmd \in {"RD", "WR"} => sa.state # "Closed" /\ a.row \in sa.rows
       /\ tree.rank = "PowerUp" /\ sa.state # "Closed" /\ a.row \in sa.rows => cmd \in {"RD", "WR"}
  BY <1>1, <1>7, <1>8, <1>9, <1>10
<1>. QED
  BY <1>11 DEF cmd, bank, sa

LEMMA DSARPStep ==
  ASSUME IInv, std \in Refreshing, Next
  PROVE  IInv'
<1>0. std \notin Flat
  BY DEF Flat, Refreshing
<1>1. ASSUME NEW cmd, NEW a, issue_cmd(cmd, a),
             \/ cmd \in {"RD", "WR", "REF", "PDE", "PDX", "SRE", "SRX", "PREA"}
             \/ cmd = "PRE" /\ a.bank \in Bank
             \/ /\ cmd = "ACT" /\ a.bank \in Bank /\ a.sa \in SubArray /\ a.row \in Row
                /\ tree.bank[a.bank].state = "Closed"
             \/ cmd \in {"RDA", "WRA"} /\ a.bank \in Bank /\ a.sa \in SubArray /\ IsOpen(a.bank, a.sa)
             \/ cmd = "REFPB" /\ a.bank \in Bank /\ tree.bank[a.bank].state = "Closed"
      PROVE  IInv'
  <2>1. std' = std
    BY <1>1 DEF issue_cmd
  <2>2. CASE cmd \in {"RD", "WR", "REF", "PDE", "PDX", "SRE", "SRX"}
    BY <1>1, <2>1, <2>2, DSARPIssue, KeepsIInv
  <2>3. CASE cmd \in {"RDA", "WRA"}
    <3>. DEFINE c == a.bank  e == a.sa
    <3>1. c \in Bank /\ e \in SubArray /\ IsOpen(c, e)
      BY <1>1, <2>3
    <3>2. /\ table' = [g \in Group(std) |-> IF g \in {<<c, e>>} THEN None ELSE table[g]]
          /\ tree' = CloseSubArrays(CloseBanks(tree, {c}), {<<c, e>>})
      BY <1>1, <2>3, DSARPIssue
    <3>. HIDE DEF c, e
    <3>3. OneOpen
      BY DSARPInv
    <3>4. \E banks, groups :
            /\ \A b \in Bank, s \in SubArray : /\ b \in banks /\ IsOpen(b, s) => <<b, s>> \in groups
                                               /\ <<b, s>> \in groups => b \in banks
            /\ table' = [g \in Group(std) |-> IF g \in groups THEN None ELSE table[g]]
            /\ tree' = CloseSubArrays(CloseBanks(tree, banks), groups)
      <4>1. \A b \in Bank, s \in SubArray : /\ b \in {c} /\ IsOpen(b, s) => <<b, s>> \in {<<c, e>>}
                                            /\ <<b, s>> \in {<<c, e>>} => b \in {c}
        BY <3>1, <3>3 DEF OneOpen
      <4>. QED
        BY <3>2, <4>1
    <3>. QED
      BY <2>1, <3>4, DSARPCloses
  <2>4. CASE cmd = "PRE"
    <3>. DEFINE c == a.bank
    <3>1. /\ table' = [g \in Group(std) |-> IF g \in {c} \X SubArray THEN None ELSE table[g]]
          /\ tree' = CloseSubArrays(CloseBanks(tree, {c}), {c} \X SubArray)
      BY <1>1, <2>4, DSARPIssue
    <3>. HIDE DEF c
    <3>2. \A b \in Bank, s \in SubArray : <<b, s>> \in {c} \X SubArray <=> b \in {c}
      OBVIOUS
    <3>. QED
      BY <2>1, <3>1, <3>2, DSARPCloses
  <2>5. CASE cmd = "PREA"
    <3>1. /\ table' = [g \in Group(std) |-> IF g \in Bank \X SubArray THEN None ELSE table[g]]
          /\ tree' = CloseSubArrays(CloseBanks(tree, Bank), Bank \X SubArray)
      BY <1>1, <2>5, DSARPIssue
    <3>2. \A b \in Bank, s \in SubArray : <<b, s>> \in Bank \X SubArray <=> b \in Bank
      OBVIOUS
    <3>. QED
      BY <2>1, <3>1, <3>2, DSARPCloses
  <2>6. CASE cmd = "ACT"
    <3>. DEFINE c == a.bank  e == a.sa  r == a.row
    <3>1. c \in Bank /\ e \in SubArray /\ r \in Row /\ tree.bank[c].state = "Closed"
      BY <1>1, <2>6
    <3>2. table[<<c, e>>] = None
      BY <3>1, DSARPInv DEF BanksFollow, SubArraysAgree
    <3>3. /\ table' = [table EXCEPT ![<<c, e>>] = r]
          /\ tree' = [[tree EXCEPT !.bank[c] = OpenedNode(@, e)] EXCEPT !.sa[c][e] = OpenedNode(@, r)]
      BY <1>1, <2>6, <3>1, <3>2, DSARPIssue
    <3>. HIDE DEF c, e, r
    <3>. QED
      BY <2>1, <3>1, <3>3, DSARPOpens
  <2>7. CASE cmd = "REFPB"
    <3>. DEFINE c == a.bank
    <3>1. c \in Bank /\ tree.bank[c].state = "Closed"
      BY <1>1, <2>7
    <3>2. table' = table /\ tree' = [tree EXCEPT !.bank[c].rows = {}]
      BY <1>1, <2>7, DSARPIssue
    <3>. HIDE DEF c
    <3>. QED
      BY <2>1, <3>1, <3>2, DSARPRefreshes
  <2>. QED
    BY <1>1, <2>2, <2>3, <2>4, <2>5, <2>6, <2>7
<1>3. ASSUME NEW type \in Request, NEW a \in Addresses(type), Serve(type, a)
      PROVE  IInv'
  <2>. DEFINE cmd == FirstCommand(type, tree, a)
  <2>1. issue_cmd(cmd, get_addr_vec(cmd, tree, a))
    BY <1>3 DEF Serve
  <2>2. CASE type \in Access
    <3>1. a.bank \in Bank /\ a.row \in Row /\ a.sa \in SubArray
      BY <2>2, AccessAddress
    <3>2. /\ cmd \in {"RD", "WR", "ACT", "PRE", "PDX", "SRX"}
          /\ cmd = "ACT" => tree.bank[a.bank].state = "Closed"
      BY <2>2, DSARPAccess
    <3>3. issue_cmd(cmd, a)
      BY <2>1, <3>2 DEF get_addr_vec
    <3>. HIDE DEF cmd
    <3>. QED
      BY <1>1, <3>1, <3>2, <3>3
  <2>3. CASE type \notin Access
    <3>1. \/ cmd \in {"REF", "PREA", "PDE", "PDX", "SRE", "SRX"}
          \/ a.bank \in Bank /\ cmd = PerBankRefresh(tree, a)
      BY <2>3, DSARPFirst
    <3>2. \/ cmd \in {"REF", "PREA", "PDE", "PDX", "SRE", "SRX"}
          \/ a.bank \in Bank /\ cmd = "PRE"
          \/ a.bank \in Bank /\ cmd = "REFPB" /\ tree.bank[a.bank].state = "Closed"
      BY <3>1 DEF PerBankRefresh
    <3>3. issue_cmd(cmd, a)
      BY <2>1, <3>2 DEF get_addr_vec
    <3>. HIDE DEF cmd
    <3>. QED
      BY <1>1, <3>2, <3>3
  <2>. QED
    BY <2>2, <2>3
<1>4. ASSUME NEW type \in Access, NEW a \in Addresses(type), AutoPrecharge(type, a)
      PROVE  IInv'
  <2>1. \E cmd \in {"RDA", "WRA"} : issue_cmd(cmd, a)
    BY <1>4 DEF AutoPrecharge
  <2>2. FirstCommand(type, tree, a) \in {"RD", "WR"}
    BY <1>4 DEF AutoPrecharge, ReadWrite
  <2>3. a.bank \in Bank /\ a.sa \in SubArray
    BY AccessAddress
  <2>4. IsOpen(a.bank, a.sa)
    BY <2>2, DSARPAccess DEF IsOpen
  <2>. QED
    BY <1>1, <2>1, <2>3, <2>4
<1>5. ASSUME NEW g \in Group(std), PrechargeVictim(g) PROVE IInv'
  <2>1. PICK c \in Bank, e \in SubArray : g = <<c, e>>
    BY <1>0, GroupTypes, DSARPInv DEF Typed
  <2>. DEFINE a == [bank |-> g[1], sa |-> g[2], row |-> None]
  <2>2. issue_cmd("PRE", a)
    BY <1>5 DEF PrechargeVictim
  <2>3. a.bank = c
    BY <2>1
  <2>. HIDE DEF a
  <2>. QED
    BY <1>1, <2>2, <2>3
<1>. QED
  BY <1>3, <1>4, <1>5 DEF Next

LEMMA DSARPHits ==
  ASSUME IInv, std \in Refreshing
  PROVE  HitsAgree
<1>0. std \notin Flat /\ std \in {"REFAB", "DSARP"}
  BY DEF Flat, Refreshing
<1>1. ASSUME NEW type \in Access, NEW a \in Addresses(type), tree.rank = "PowerUp"
      PROVE  LET cmd == FirstCommand(type, tree, a)
             IN /\ cmd \in spec(std).accessing => DSARP_rowhit(tree, a)
                /\ DSARP_rowhit(tree, a) => cmd \notin spec(std).opening \cup (spec(std).closing \ {"PRE_OTHER"})
                /\ DSARP_rowhit(tree, a) => DSARP_rowopen(tree, a)
  <2>. DEFINE cmd == FirstCommand(type, tree, a)
              sa == tree.sa[a.bank][a.sa]
  <2>1. /\ cmd \in {"RD", "WR", "ACT", "PRE", "PDX", "SRX"}
        /\ cmd \in {"RD", "WR"} => sa.state # "Closed" /\ a.row \in sa.rows
        /\ sa.state # "Closed" /\ a.row \in sa.rows => cmd \in {"RD", "WR"}
    BY <1>1, DSARPAccess
  <2>2. sa.state = "Opened" <=> sa.state # "Closed"
    <3>1. a.bank \in Bank /\ a.sa \in SubArray
      BY AccessAddress
    <3>2. sa \in Node({"Opened", "Closed", "Selected"}) /\ sa.state # "Selected"
      BY ZenonT(30), <1>0, <3>1, ClosedSubArray, DSARPInv DEF NoneSelected
    <3>. QED
      BY <3>2 DEF Node
  <2>3. DSARP_rowhit(tree, a) <=> sa.state # "Closed" /\ a.row \in sa.rows
    BY <2>2 DEF DSARP_rowhit
  <2>4. DSARP_rowhit(tree, a) => DSARP_rowopen(tree, a)
    BY DEF DSARP_rowhit, DSARP_rowopen
  <2>. HIDE DEF cmd, sa
  <2>5. cmd \in spec(std).accessing => DSARP_rowhit(tree, a)
    BY <1>0, <2>1, <2>3, DSARPSpec
  <2>6. DSARP_rowhit(tree, a) => cmd \notin spec(std).opening \cup (spec(std).closing \ {"PRE_OTHER"})
    BY <1>0, <2>1, <2>3, DSARPSpec
  <2>. QED
    BY <2>4, <2>5, <2>6 DEF cmd
<1>2. ASSUME NEW a
      PROVE  check_row_hit(tree, a) = DSARP_rowhit(tree, a) /\ check_row_open(tree, a) = DSARP_rowopen(tree, a)
  BY <1>0 DEF check_row_hit, check_row_open
<1>. QED
  BY <1>1, <1>2 DEF HitsAgree
-----------------------------------------------------------------------------
(* All the standards                                                       *)

LEMMA Families ==
  Standard = Plain \cup {"TLDRAM"} \cup SALP \cup Refreshing
BY DEF Standard, Flat, WithSubArrays, Plain, SALP, Refreshing

\* All rows are closed at first.
LEMMA InitIInv == Init => IInv
<1>. SUFFICES ASSUME Init PROVE IInv
  OBVIOUS
<1>1. std \in Standard
  BY ChannelAssumption DEF Init
<1>. DEFINE banks == [b \in Bank |-> ClosedNode]
            subs == [b \in Bank |-> [s \in SubArray |-> ClosedNode]]
<1>2. banks \in [Bank -> Node({"Opened", "Closed"})]
  BY ClosedNodeType
<1>3. subs \in [Bank -> [SubArray -> Node({"Opened", "Closed", "Selected"})]]
  BY ClosedNodeType
<1>4. (\A b \in Bank : banks[b] = ClosedNode) /\ (\A b \in Bank, s \in SubArray : subs[b][s] = ClosedNode)
  OBVIOUS
<1>5. tree = [rank |-> "PowerUp", bank |-> banks, sa |-> subs]
  BY DEF Init
<1>. HIDE DEF banks, subs
<1>6. tree \in Tree /\ tree.bank = banks /\ tree.sa = subs
  BY <1>2, <1>3, <1>5 DEF Tree
<1>7. Typed
  BY <1>1, <1>6 DEF Init, Typed
<1>8. /\ \A b \in Bank : tree.bank[b].rows = {} /\ tree.bank[b].state = "Closed"
      /\ \A b \in Bank, s \in SubArray : /\ tree.sa[b][s] = ClosedNode /\ ~IsOpen(b, s)
                                         /\ tree.sa[b][s].rows = {} /\ tree.sa[b][s].state = "Closed"
  BY <1>4, <1>6, ClosedNodeType DEF IsOpen
<1>9. std \in Flat => BanksAgree
  <2>1. ASSUME std \in Flat, NEW b \in Bank PROVE table[<<b, 0>>] = None
    BY <2>1, GroupTypes DEF Init
  <2>. QED
    BY <1>8, <2>1 DEF BanksAgree, Entry
<1>10. std \notin Flat => SubArraysAgree
  <2>1. ASSUME std \notin Flat, NEW b \in Bank, NEW s \in SubArray PROVE table[<<b, s>>] = None
    BY <1>1, <2>1, GroupTypes DEF Init
  <2>. QED
    BY <1>8, <2>1 DEF SubArraysAgree, Entry
<1>11. OneOpen /\ BanksFollow /\ BanksName /\ NoneSelected /\ SelectedOnce(tree)
  BY <1>8 DEF OneOpen, BanksFollow, BanksName, NoneSelected, SelectedOnce
<1>. QED
  BY <1>7, <1>9, <1>10, <1>11 DEF IInv

LEMMA NextIInv ==
  ASSUME IInv, [Next]_vars
  PROVE  IInv'
<1>1. CASE Next
  BY <1>1, Families, PlainStep, TLDRAMStep, SALP1Step, SALP2Step, MASAStep, DSARPStep DEF IInv, Typed, SALP
<1>2. CASE UNCHANGED vars
  BY <1>2, KeepsIInv DEF vars, Keeps, IInv, Typed
<1>. QED
  BY <1>1, <1>2

LEMMA Invariance == Spec => []IInv
BY InitIInv, NextIInv, PTL DEF Spec

\* Whatever commands are issued, the open rows of a bank or subarray in the tree are
\* those of its entry in the row table (RowTable::update of src/Controller.h and
\* src/Scheduler.h, the lambdas of init_lambda), and what check_row_hit calls a hit
\* is one: the next command of the access opens and closes no row of its own.
THEOREM TableAlwaysAgrees == Spec => []TableAgreesWithTree
<1>1. ASSUME IInv PROVE HitsAgree
  BY <1>1, Families, PlainHits, TLDRAMHits, SALPHits, DSARPHits DEF IInv, Typed
<1>2. ASSUME IInv, NEW g \in Group(std)
      PROVE  RowsOf(g) = IF table[g] = None THEN {} ELSE {table[g]}
  <2>1. CASE std \in Flat
    <3>1. PICK b \in Bank : g = <<b, 0>>
      BY <1>2, <2>1, GroupTypes
    <3>2. tree.bank[b].rows = Entry(table[<<b, 0>>])
      BY <1>2, <2>1 DEF IInv, BanksAgree
    <3>. QED
      BY <2>1, <3>1, <3>2 DEF RowsOf, Entry
  <2>2. CASE std \notin Flat
    <3>1. PICK b \in Bank, s \in SubArray : g = <<b, s>>
      BY <1>2, <2>2, GroupTypes DEF IInv, Typed
    <3>2. tree.sa[b][s].rows = Entry(table[<<b, s>>])
      BY <1>2, <2>2 DEF IInv, SubArraysAgree
    <3>. QED
      BY <2>2, <3>1, <3>2 DEF RowsOf, Entry
  <2>. QED
    BY <2>1, <2>2
<1>3. IInv => TableAgreesWithTree
  BY <1>1, <1>2 DEF TableAgreesWithTree
<1>. QED
  BY <1>3, Invariance, PTL

\* A set without two different elements has one at most.
LEMMA AtMostOne ==
  ASSUME NEW S, \A x, y \in S : x = y
  PROVE  Cardinality(S) <= 1
<1>1. CASE S = {}
  <2>1. Cardinality(S) = 0
    BY <1>1, FS_EmptySet
  <2>. QED
    BY <2>1
<1>2. CASE S # {}
  <2>1. PICK x \in S : TRUE
    BY <1>2
  <2>2. S = {x}
    BY <2>1
  <2>3. Cardinality(S) = 1
    BY <2>2, FS_Singleton
  <2>. QED
    BY <2>3
<1>. QED
  BY <1>1, <1>2

\* Every standard keeps as many subarrays of a bank open as it is designed for: one in
\* SALP-1 and DSARP, which precharge the bank or the other subarray first (init_prereq
\* of src/SALP.cpp and src/DSARP.cpp), and in MASA one at most is selected; and the
\* states of the nodes tell which rows are open.
THEOREM SubArraysAlwaysAsDesigned == Spec => []SubArraysAsDesigned
<1>1. ASSUME IInv, NEW b \in Bank
      PROVE  LET open == {s \in SubArray : tree.sa[b][s].state # "Closed"}
                 selected == {s \in SubArray : tree.sa[b][s].state = "Selected"}
             IN /\ std \in Flat => (tree.bank[b].state = "Opened" <=> tree.bank[b].rows # {})
                /\ \A s \in SubArray : s \in open <=> tree.sa[b][s].rows # {}
                /\ std = "SALP_1" => Cardinality(open) <= 1 /\ (tree.bank[b].state = "Opened" <=> open # {})
                /\ std \in {"REFAB", "DSARP"} => tree.bank[b].rows = open /\ Cardinality(open) <= 1
                /\ Cardinality(selected) <= 1
  <2>. DEFINE open == {s \in SubArray : tree.sa[b][s].state # "Closed"}
              selected == {s \in SubArray : tree.sa[b][s].state = "Selected"}
  <2>1. std \in Flat => (tree.bank[b].state = "Opened" <=> tree.bank[b].rows # {})
    BY <1>1 DEF IInv, BanksAgree, Entry
  <2>2. ASSUME NEW s \in SubArray PROVE s \in open <=> tree.sa[b][s].rows # {}
    <3>1. CASE std \in Flat
      BY <1>1, <3>1, ClosedNodeType DEF IInv, BanksAgree
    <3>2. CASE std \notin Flat
      BY <1>1, <3>2, ClosedSubArray
    <3>. QED
      BY <3>1, <3>2
  <2>3. open = {s \in SubArray : IsOpen(b, s)}
    BY DEF IsOpen
  <2>4. ASSUME std \in {"SALP_1", "REFAB", "DSARP"}
        PROVE  Cardinality(open) <= 1 /\ (tree.bank[b].state = "Opened" <=> open # {})
    <3>1. OneOpen /\ BanksFollow
      BY <1>1, <2>4 DEF IInv
    <3>2. \A s, r \in open : s = r
      BY <2>3, <3>1 DEF OneOpen
    <3>3. tree.bank[b].state = "Opened" <=> open # {}
      BY <2>3, <3>1 DEF BanksFollow
    <3>. HIDE DEF open
    <3>. QED
      BY <3>2, <3>3, AtMostOne
  <2>5. std \in {"REFAB", "DSARP"} => tree.bank[b].rows = open
    BY <1>1, <2>3 DEF IInv, BanksName
  <2>6. Cardinality(selected) <= 1
    <3>1. \A s, r \in selected : s = r
      BY <1>1 DEF IInv, SelectedOnce, NoneSelected
    <3>. HIDE DEF selected
    <3>. QED
      BY <3>1, AtMostOne
  <2>. QED
    BY <2>1, <2>2, <2>4, <2>5, <2>6
<1>2. IInv => SubArraysAsDesigned
  BY <1>1 DEF SubArraysAsDesigned
<1>. QED
  BY <1>2, Invariance, PTL
-----------------------------------------------------------------------------
(* A migration is ready when its read is                                   *)

\* The commands of a migration, and what a read may have instead.
CommandOfRead(issued) ==
  CASE issued = "MIG" -> {"RD"}
    [] issued = "ACTM" -> {"ACT", "ACTF"}
    [] issued = "PREM" -> {"PRE", "PREF"}
    [] OTHER -> {issued}

\* What is closed under replacing a command of a migration by one of a read.
ClosedForReads(S) == \A c \in S : CommandOfRead(c) \subseteq S

\* A table in which every constraint on a command of a migration is also one on
\* the commands of a read.
Covers(rows) ==
  \A r \in rows : /\ r = [level |-> r.level, from |-> r.from, to |-> r.to, dist |-> r.dist,
                           val |-> r.val, sibling |-> r.sibling]
                  /\ r.val \in Int
                  /\ \A c \in CommandOfRead(r.to) : [r EXCEPT !.to = c] \in rows

LEMMA ConstraintsCover ==
  ASSUME NEW level, NEW from, NEW to, NEW dist, NEW val \in Int, NEW sibling, ClosedForReads(to)
  PROVE  Covers(Constraints(level, from, to, dist, val, sibling))
<1>. DEFINE rows == Constraints(level, from, to, dist, val, sibling)
<1>. SUFFICES ASSUME NEW r \in rows
              PROVE  /\ r = [level |-> r.level, from |-> r.from, to |-> r.to, dist |-> r.dist,
                             val |-> r.val, sibling |-> r.sibling]
                     /\ r.val \in Int
                     /\ \A c \in CommandOfRead(r.to) : [r EXCEPT !.to = c] \in rows
  BY DEF Covers
<1>1. PICK f \in from, t \in to :
        r = [level |-> level, from |-> f, to |-> t, dist |-> dist, val |-> val, sibling |-> sibling]
  BY DEF Constraints
<1>2. ASSUME NEW c \in CommandOfRead(r.to) PROVE [r EXCEPT !.to = c] \in rows
  <2>1. c \in to
    BY <1>1, <1>2 DEF ClosedForReads
  <2>2. [r EXCEPT !.to = c]
          = [level |-> level, from |-> f, to |-> c, dist |-> dist, val |-> val, sibling |-> sibling]
    BY <1>1
  <2>. QED
    BY <2>1, <2>2 DEF Constraints
<1>. QED
  BY <1>1, <1>2

LEMMA RowsCover ==
  ASSUME NEW level, NEW from, NEW to, NEW val \in Int, ClosedForReads(to)
  PROVE  Covers(Rows(level, from, to, val)) /\ Covers(Siblings(level, from, to, val))
BY ConstraintsCover DEF Rows, Siblings

LEMMA UnionCovers ==
  ASSUME NEW S, NEW T, Covers(S), Covers(T)
  PROVE  Covers(S \cup T)
BY DEF Covers

LEMMA UnionsCover ==
  ASSUME NEW Ss, \A S \in Ss : Covers(S)
  PROVE  Covers(UNION Ss)
<1>. SUFFICES ASSUME NEW S \in Ss, NEW r \in S
              PROVE  /\ r = [level |-> r.level, from |-> r.from, to |-> r.to, dist |-> r.dist,
                             val |-> r.val, sibling |-> r.sibling]
                     /\ r.val \in Int
                     /\ \A c \in CommandOfRead(r.to) : [r EXCEPT !.to = c] \in UNION Ss
  BY DEF Covers
<1>1. Covers(S)
  OBVIOUS
<1>. QED
  BY <1>1 DEF Covers

LEMMA Cover3 ==
  ASSUME NEW A, NEW B, NEW C, Covers(A), Covers(B), Covers(C)
  PROVE  Covers(A \cup B \cup C)
BY UnionCovers

LEMMA Cover4 ==
  ASSUME NEW A, NEW B, NEW C, NEW D, Covers(A), Covers(B), Covers(C), Covers(D)
  PROVE  Covers(A \cup B \cup C \cup D)
BY UnionCovers, Cover3

\* The commands that a constraint of TL-DRAM is about come with those of a read.
LEMMA TLDRAMClosed ==
  /\ ClosedForReads(Reads) /\ ClosedForReads({"WR"}) /\ ClosedForReads(Reads \cup {"WR"})
  /\ ClosedForReads(PreAlls) /\ ClosedForReads({"PDE"}) /\ ClosedForReads(PreAlls \cup {"PDE"})
  /\ ClosedForReads(Reads \cup Acts \cup Pres \cup {"WR", "REF", "PDE", "SRE"})
  /\ ClosedForReads(Acts) /\ ClosedForReads(Pres \cup PreAlls) /\ ClosedForReads(Acts \cup {"REF", "SRE"})
  /\ ClosedForReads({"REF", "SRE"}) /\ ClosedForReads(Acts \cup {"REF"})
  /\ ClosedForReads(Acts \cup {"REF", "PDE", "SRE"}) /\ ClosedForReads({"PDX"}) /\ ClosedForReads({"SRX"})
  /\ ClosedForReads(Pres) /\ ClosedForReads({"PRE", "PREF"})
<1>1. \A c \in {"RD", "WR", "ACT", "ACTF", "PRE", "PREF", "PREA", "PREAF", "PREAM", "REF", "PDE", "PDX", "SRE", "SRX"} :
        CommandOfRead(c) = {c}
  BY DEF CommandOfRead
<1>2. /\ CommandOfRead("MIG") = {"RD"} /\ CommandOfRead("ACTM") = {"ACT", "ACTF"}
      /\ CommandOfRead("PREM") = {"PRE", "PREF"}
  BY DEF CommandOfRead
<1>. QED
  BY <1>1, <1>2 DEF ClosedForReads, Reads, Acts, Pres, PreAlls

\* The times of TL-DRAM are numbers.
LEMMA TLDRAMTimes ==
  LET s == TLDRAM_speed
  IN /\ s.nBL \in Int /\ s.nCCD \in Int /\ s.nRTRS \in Int /\ s.nCL \in Int /\ s.nRCD \in Int /\ s.nRP \in Int
     /\ s.nCWL \in Int /\ s.nRAS \in Int /\ s.nRC \in Int /\ s.nRTP \in Int /\ s.nWTR \in Int /\ s.nWR \in Int
     /\ s.nRRD \in Int /\ s.nFAW \in Int /\ s.nRFC \in Int /\ s.nPD \in Int /\ s.nXP \in Int
     /\ s.nCKESR \in Int /\ s.nXS \in Int /\ s.nRCDF \in Int /\ s.nRPF \in Int /\ s.nRASF \in Int
     /\ s.nRCF \in Int /\ s.nRCDM \in Int /\ s.nRPM \in Int /\ s.nRASM \in Int /\ s.nRCM \in Int
BY DEF TLDRAM_speed, TLDRAM_table

\* The delays of the three kinds of rows.
LEMMA TLDRAMSegmentTimes ==
  ASSUME NEW g \in TLDRAM_segments(TLDRAM_speed)
  PROVE  g.rcd \in Int /\ g.rp \in Int /\ g.ras \in Int /\ g.rc \in Int
BY TLDRAMTimes DEF TLDRAM_segments

\* Constraints of the channel and the rank.
LEMMA TLDRAMRankCovers == Covers(TLDRAM_rank(TLDRAM_speed))
<1>. DEFINE s == TLDRAM_speed
            columns ==
              Rows("Channel", Reads, Reads, s.nBL) \cup Rows("Channel", {"WR"}, {"WR"}, s.nBL)
              \cup Rows("Rank", Reads, Reads, s.nCCD) \cup Rows("Rank", {"WR"}, {"WR"}, s.nCCD)
              \cup Rows("Rank", Reads, {"WR"}, s.nCL + s.nCCD + 2 - s.nCWL)
              \cup Rows("Rank", {"WR"}, Reads, s.nCWL + s.nBL + s.nWTR)
              \cup Siblings("Rank", Reads, Reads \cup {"WR"}, s.nBL + s.nRTRS)
              \cup Siblings("Rank", Reads, {"WR"}, s.nCL + s.nBL + s.nRTRS - s.nCWL)
              \cup Siblings("Rank", {"WR"}, Reads, s.nCWL + s.nBL + s.nRTRS - s.nCL)
            closing ==
              Rows("Rank", Reads, PreAlls, s.nRTP) \cup Rows("Rank", Reads, {"PDE"}, s.nCL + s.nBL + 1)
              \cup Rows("Rank", {"WR"}, PreAlls \cup {"PDE"}, Recovery(s))
              \cup Rows("Rank", {"PDX"}, Reads \cup Acts \cup Pres \cup {"WR", "REF", "PDE", "SRE"}, s.nXP)
              \cup Rows("Rank", Acts, Acts, s.nRRD) \cup Constraints("Rank", Acts, Acts, 4, s.nFAW, FALSE)
            segment(g) ==
              Rows("Rank", {g.act}, Pres \cup PreAlls, g.ras)
              \cup Rows("Rank", {g.pre}, Acts \cup {"REF", "SRE"}, g.rp)
              \cup Rows("Rank", {g.prea}, {"REF", "SRE"}, g.rp)
            segments == {segment(g) : g \in TLDRAM_segments(s)}
            refresh ==
              Rows("Rank", {"REF"}, Acts \cup {"REF"}, s.nRFC) \cup Rows("Rank", Acts \cup {"REF"}, {"PDE"}, 1)
              \cup Rows("Rank", {"SRX"}, Acts \cup {"REF", "PDE", "SRE"}, s.nXS)
              \cup Rows("Rank", {"PDE"}, {"PDX"}, s.nPD) \cup Rows("Rank", {"SRE"}, {"SRX"}, s.nCKESR)
<1>1. TLDRAM_rank(s) = columns \cup closing \cup (UNION segments) \cup refresh
  BY DEF TLDRAM_rank
<1>2. /\ s.nCL + s.nCCD + 2 - s.nCWL \in Int /\ s.nCWL + s.nBL + s.nWTR \in Int /\ s.nBL + s.nRTRS \in Int
      /\ s.nCL + s.nBL + s.nRTRS - s.nCWL \in Int /\ s.nCWL + s.nBL + s.nRTRS - s.nCL \in Int
      /\ s.nCL + s.nBL + 1 \in Int /\ Recovery(s) \in Int /\ 1 \in Int
  BY TLDRAMTimes DEF Recovery
<1>3. Covers(columns)
  <2>1. /\ Covers(Rows("Channel", Reads, Reads, s.nBL)) /\ Covers(Rows("Channel", {"WR"}, {"WR"}, s.nBL))
        /\ Covers(Rows("Rank", Reads, Reads, s.nCCD)) /\ Covers(Rows("Rank", {"WR"}, {"WR"}, s.nCCD))
    BY TLDRAMClosed, TLDRAMTimes, RowsCover
  <2>2. /\ Covers(Rows("Rank", Reads, {"WR"}, s.nCL + s.nCCD + 2 - s.nCWL))
        /\ Covers(Rows("Rank", {"WR"}, Reads, s.nCWL + s.nBL + s.nWTR))
        /\ Covers(Siblings("Rank", Reads, Reads \cup {"WR"}, s.nBL + s.nRTRS))
        /\ Covers(Siblings("Rank", Reads, {"WR"}, s.nCL + s.nBL + s.nRTRS - s.nCWL))
        /\ Covers(Siblings("Rank", {"WR"}, Reads, s.nCWL + s.nBL + s.nRTRS - s.nCL))
    BY <1>2, TLDRAMClosed, RowsCover
  <2>. QED
    BY <2>1, <2>2, UnionCovers
<1>4. Covers(closing)
  <2>1. /\ Covers(Rows("Rank", Reads, PreAlls, s.nRTP)) /\ Covers(Rows("Rank", Reads, {"PDE"}, s.nCL + s.nBL + 1))
        /\ Covers(Rows("Rank", {"WR"}, PreAlls \cup {"PDE"}, Recovery(s)))
    BY <1>2, TLDRAMClosed, TLDRAMTimes, RowsCover
  <2>2. /\ Covers(Rows("Rank", {"PDX"}, Reads \cup Acts \cup Pres \cup {"WR", "REF", "PDE", "SRE"}, s.nXP))
        /\ Covers(Rows("Rank", Acts, Acts, s.nRRD))
        /\ Covers(Constraints("Rank", Acts, Acts, 4, s.nFAW, FALSE))
    BY TLDRAMClosed, TLDRAMTimes, RowsCover, ConstraintsCover
  <2>. QED
    BY <2>1, <2>2, UnionCovers
<1>5. Covers(UNION segments)
  <2>1. ASSUME NEW g \in TLDRAM_segments(s) PROVE Covers(segment(g))
    <3>1. g.rp \in Int /\ g.ras \in Int
      BY TLDRAMSegmentTimes
    <3>2. /\ Covers(Rows("Rank", {g.act}, Pres \cup PreAlls, g.ras))
          /\ Covers(Rows("Rank", {g.pre}, Acts \cup {"REF", "SRE"}, g.rp))
          /\ Covers(Rows("Rank", {g.prea}, {"REF", "SRE"}, g.rp))
      BY <3>1, TLDRAMClosed, RowsCover
    <3>. QED
      BY <3>2, UnionCovers
  <2>. HIDE DEF segment
  <2>2. \A S \in segments : Covers(S)
    BY <2>1
  <2>. QED
    BY <2>2, UnionsCover
<1>6. Covers(refresh)
  <2>1. /\ Covers(Rows("Rank", {"REF"}, Acts \cup {"REF"}, s.nRFC))
        /\ Covers(Rows("Rank", Acts \cup {"REF"}, {"PDE"}, 1))
        /\ Covers(Rows("Rank", {"SRX"}, Acts \cup {"REF", "PDE", "SRE"}, s.nXS))
        /\ Covers(Rows("Rank", {"PDE"}, {"PDX"}, s.nPD)) /\ Covers(Rows("Rank", {"SRE"}, {"SRX"}, s.nCKESR))
    BY <1>2, TLDRAMClosed, TLDRAMTimes, RowsCover
  <2>. QED
    BY <2>1, UnionCovers
<1>. HIDE DEF columns, closing, segments, refresh
<1>7. Covers(columns \cup closing \cup (UNION segments) \cup refresh)
  BY <1>3, <1>4, <1>5, <1>6, Cover4
<1>. QED
  BY <1>1, <1>7

\* Constraints of the bank.
LEMMA TLDRAMBankCovers == Covers(TLDRAM_bank(TLDRAM_speed))
<1>. DEFINE s == TLDRAM_speed
            segment(g) ==
              Rows("Bank", {g.act}, Reads \cup {"WR"}, g.rcd) \cup Rows("Bank", {g.act}, Acts, g.rc)
              \cup Rows("Bank", {g.act}, Pres, g.ras) \cup Rows("Bank", {g.pre}, Acts, g.rp)
            segments == {segment(g) : g \in TLDRAM_segments(s)}
<1>1. /\ Covers(Rows("Bank", Reads, Pres, s.nRTP))
      /\ Covers(Rows("Bank", {"WR"}, {"PRE", "PREF"}, Recovery(s)))
  <2>1. s.nRTP \in Int /\ Recovery(s) \in Int
    BY TLDRAMTimes DEF Recovery
  <2>. QED
    BY <2>1, TLDRAMClosed, RowsCover
<1>2. Covers(UNION segments)
  <2>1. ASSUME NEW g \in TLDRAM_segments(s) PROVE Covers(segment(g))
    <3>1. g.rcd \in Int /\ g.rp \in Int /\ g.ras \in Int /\ g.rc \in Int
      BY TLDRAMSegmentTimes
    <3>2. /\ Covers(Rows("Bank", {g.act}, Reads \cup {"WR"}, g.rcd)) /\ Covers(Rows("Bank", {g.act}, Acts, g.rc))
          /\ Covers(Rows("Bank", {g.act}, Pres, g.ras)) /\ Covers(Rows("Bank", {g.pre}, Acts, g.rp))
      BY <3>1, TLDRAMClosed, RowsCover
    <3>. QED
      BY <3>2, UnionCovers
  <2>. HIDE DEF segment
  <2>2. \A S \in segments : Covers(S)
    BY <2>1
  <2>. QED
    BY <2>2, UnionsCover
<1>. QED
  BY <1>1, <1>2, UnionCovers DEF TLDRAM_bank

\* The commands that open and close a row for a migration, and for a read.
LEMMA TLDRAMMigrationBank ==
  ASSUME NEW cmd \in {"RD", "MIG"}, NEW t, NEW a
  PROVE  LET first == RowOpen(t.bank[a.bank], a.row, cmd)
             c == TLDRAM_prereq("Bank", cmd, t, a)
         IN /\ first \in {"ACT", "PRE", cmd}
            /\ cmd = "MIG" => c = IF first = "ACT" THEN "ACTM" ELSE IF first = "PRE" THEN "PREM" ELSE "MIG"
            /\ cmd = "RD" => /\ first = "ACT" => c \in {"ACT", "ACTF"}
                             /\ first = "PRE" => c \in {"PRE", "PREF"}
                             /\ first = "RD" => c = "RD"
<1>. DEFINE first == RowOpen(t.bank[a.bank], a.row, cmd)
            slow == [c \in {"ACT", "PRE", cmd} |-> c]
            fast == [slow EXCEPT !["ACT"] = "ACTF", !["PRE"] = "PREF"]
            migrated == [slow EXCEPT !["ACT"] = "ACTM", !["PRE"] = "PREM"]
<1>1. first \in {"ACT", "PRE", cmd}
  BY DEF RowOpen
<1>2. slow["ACT"] = "ACT" /\ slow["PRE"] = "PRE" /\ slow[cmd] = cmd
  OBVIOUS
<1>3. fast["ACT"] = "ACTF" /\ fast["PRE"] = "PREF" /\ fast[cmd] = cmd
  OBVIOUS
<1>4. migrated["ACT"] = "ACTM" /\ migrated["PRE"] = "PREM" /\ migrated[cmd] = cmd
  OBVIOUS
<1>5. /\ cmd = "MIG" => TLDRAM_prereq("Bank", cmd, t, a) = migrated[first]
      /\ cmd = "RD" => TLDRAM_prereq("Bank", cmd, t, a) \in {slow[first], fast[first]}
  <2>1. CASE cmd = "MIG"
    BY <2>1 DEF TLDRAM_prereq, ReadWrite
  <2>2. CASE cmd = "RD"
    BY <2>2 DEF TLDRAM_prereq, ReadWrite
  <2>. QED
    BY <2>1, <2>2
<1>. HIDE DEF first, slow, fast, migrated
<1>6. LET c == TLDRAM_prereq("Bank", cmd, t, a)
      IN /\ first \in {"ACT", "PRE", cmd}
         /\ cmd = "MIG" => c = IF first = "ACT" THEN "ACTM" ELSE IF first = "PRE" THEN "PREM" ELSE "MIG"
         /\ cmd = "RD" => /\ first = "ACT" => c \in {"ACT", "ACTF"}
                          /\ first = "PRE" => c \in {"PRE", "PREF"}
                          /\ first = "RD" => c = "RD"
  BY <1>1, <1>2, <1>3, <1>4, <1>5
<1>. QED
  BY <1>6 DEF first

\* A migration opens and closes rows as a read does, with commands of its own.
LEMMA MigrationFollowsRead ==
  ASSUME std = "TLDRAM", tree \in Tree, NEW a \in Addresses("READ")
  PROVE  decode("RD", tree, a) \in CommandOfRead(decode("MIG", tree, a))
<1>. DEFINE first(c) == RowOpen(tree.bank[a.bank], a.row, c)
<1>0. a.bank \in Bank /\ a.bank # None
  BY AccessAddress DEF Access
<1>. DEFINE AtBank(c) == TLDRAM_prereq("Bank", c, tree, a)
<1>1. ASSUME NEW c \in {"RD", "MIG"}, AtBank(c) # "MAX"
      PROVE decode(c, tree, a) = IF MemoryAwake(tree) # "MAX" THEN MemoryAwake(tree) ELSE AtBank(c)
  <2>1. prereq(std, "Rank", c, tree, a) = MemoryAwake(tree)
    <3>1. CASE c = "MIG"
      BY <3>1, TLDRAMPrereq, TLDRAMRank
    <3>2. CASE c = "RD"
      <4>1. TLDRAM_prereq("Rank", c, tree, a) = DDR3_prereq("Rank", c, tree, a)
        BY <3>2 DEF TLDRAM_prereq
      <4>. QED
        BY <3>2, <4>1, TLDRAMPrereq, DDR3First DEF ReadWrite
    <3>. QED
      BY <3>1, <3>2
  <2>2. prereq(std, "Bank", c, tree, a) = AtBank(c)
    BY TLDRAMPrereq
  <2>. HIDE DEF AtBank
  <2>. QED
    BY <1>0, <1>1, <2>1, <2>2 DEF decode
<1>2. AtBank("MIG") = IF first("MIG") = "ACT" THEN "ACTM" ELSE IF first("MIG") = "PRE" THEN "PREM" ELSE "MIG"
  BY TLDRAMMigrationBank
<1>3. /\ first("RD") = "ACT" => AtBank("RD") \in {"ACT", "ACTF"}
      /\ first("RD") = "PRE" => AtBank("RD") \in {"PRE", "PREF"}
      /\ first("RD") = "RD" => AtBank("RD") = "RD"
      /\ first("RD") \in {"ACT", "PRE", "RD"}
  BY TLDRAMMigrationBank
<1>4. /\ first("MIG") = "ACT" <=> first("RD") = "ACT"
      /\ first("MIG") = "PRE" <=> first("RD") = "PRE"
  BY DEF RowOpen
<1>5. MemoryAwake(tree) \in {"MAX", "PDX", "SRX"}
  BY AwakeFacts
<1>. HIDE DEF first, AtBank
<1>. QED
  BY <1>1, <1>2, <1>3, <1>4, <1>5 DEF CommandOfRead

\* Controller<TLDRAM>::tick looks whether the first command of a read is ready and
\* issues that of a migration: the assertion of issue_cmd that it is ready never fails,
\* because every constraint on a migration's commands is one on a read's.
THEOREM MigrationAlwaysReady == Spec => []MigrationIsReady
<1>1. Spec => [](std \in Standards)
  <2>1. Init => std \in Standards
    BY DEF Init
  <2>2. std \in Standards /\ [Next]_vars => (std \in Standards)'
    BY DEF Next, Serve, AutoPrecharge, PrechargeVictim, issue_cmd, vars
  <2>. QED
    BY <2>1, <2>2, PTL DEF Spec
<1>2. IInv /\ std \in Standards => MigrationIsReady
  <2>. SUFFICES ASSUME IInv, std \in Standards, std = "TLDRAM",
                       NEW a \in Addresses("READ"), NEW r \in Timings[std],
                       r.to = decode("MIG", tree, a)
                PROVE  \E q \in Timings[std] : q.to = decode("RD", tree, a) /\ q.val >= r.val
                         /\ [q EXCEPT !.to = decode("MIG", tree, a), !.val = r.val] = r
    BY DEF MigrationIsReady
  <2>. DEFINE q == [r EXCEPT !.to = decode("RD", tree, a)]
  <2>1. Timings[std] = TLDRAM_rank(TLDRAM_speed) \cup TLDRAM_bank(TLDRAM_speed)
    <3>1. timing("TLDRAM") = TLDRAM_rank(TLDRAM_speed) \cup TLDRAM_bank(TLDRAM_speed)
      BY DEF timing, speed
    <3>. QED
      BY <3>1 DEF Timings
  <2>2. Covers(Timings[std])
    BY <2>1, TLDRAMRankCovers, TLDRAMBankCovers, UnionCovers
  <2>3. decode("RD", tree, a) \in CommandOfRead(r.to)
    BY MigrationFollowsRead DEF IInv, Typed
  <2>4. q \in Timings[std] /\ r.val \in Int
    BY <2>2, <2>3 DEF Covers
  <2>5. r = [level |-> r.level, from |-> r.from, to |-> r.to, dist |-> r.dist,
             val |-> r.val, sibling |-> r.sibling]
    BY <2>2 DEF Covers
  <2>6. q.to = decode("RD", tree, a) /\ q.val = r.val /\ [q EXCEPT !.to = r.to, !.val = r.val] = r
    BY <2>5
  <2>. HIDE DEF q
  <2>7. q.val >= r.val
    BY <2>4, <2>6
  <2>. QED
    BY <2>4, <2>6, <2>7
<1>. QED
  BY <1>1, <1>2, Invariance, PTL
-----------------------------------------------------------------------------
(* Requests progress.  How many commands of a request are left is a number *)
(* that every command but the last lowers, in any state of the tree.       *)

\* the commands until an access to row id of an awake node, with its own
NodeLeft(node, id) ==
  IF node.state = "Closed" THEN 2 ELSE IF id \in node.rows THEN 1 ELSE 3

\* the other open subarrays, which SALP-2 closes one by one
Others(t, a) == {s \in SubArray \ {a.sa} : t.sa[a.bank][s].state = "Opened"}

RowLeft(t, a) ==
  LET bank == t.bank[a.bank]
      sa == t.sa[a.bank][a.sa]
  IN CASE std \in Flat -> NodeLeft(bank, a.row)
       [] std = "SALP_1" -> IF bank.state = "Closed" THEN 2 ELSE IF a.row \in sa.rows THEN 1 ELSE 3
       [] std = "SALP_2" -> NodeLeft(sa, a.row) + Cardinality(Others(t, a))
       [] std = "MASA" -> IF sa.state = "Opened" /\ a.row \in sa.rows THEN 2 ELSE NodeLeft(sa, a.row)
       [] std \in Refreshing -> IF bank.state # "Closed" /\ a.sa \in bank.rows THEN NodeLeft(sa, a.row)
                                ELSE NodeLeft(bank, a.sa)

\* the commands that are left for a request
CommandsLeft(type, t, a) ==
  IF type \in Access THEN (IF t.rank = "PowerUp" THEN 0 ELSE 1) + RowLeft(t, a)
  ELSE IF FirstCommand(type, t, a) = Accessing(type) THEN 1 ELSE 2

\* A command of a request is its last one, or there are fewer left after it.
Progresses(type, t, a) ==
  LET cmd == FirstCommand(type, t, a)
      u == After(cmd, t, a)
  IN /\ u \in Tree
     /\ cmd = Accessing(type) \/ CommandsLeft(type, u, a) < CommandsLeft(type, t, a)

LEMMA NodeLeftFacts ==
  ASSUME NEW n, NEW id, NEW acc \in {"RD", "WR", "MIG"}
  PROVE  /\ NodeLeft(n, id) \in 1 .. 3
         /\ RowOpen(n, id, acc) = IF NodeLeft(n, id) = 1 THEN acc ELSE IF NodeLeft(n, id) = 2 THEN "ACT" ELSE "PRE"
         /\ NodeLeft(OpenedNode(n, id), id) = 1 /\ NodeLeft(ClosedNode, id) = 2
BY DEF NodeLeft, RowOpen, OpenedNode, ClosedNode

LEMMA WakeFacts ==
  ASSUME NEW t \in Tree
  PROVE  LET u == Power(t, "PowerUp")
         IN u \in Tree /\ u.rank = "PowerUp" /\ u.bank = t.bank /\ u.sa = t.sa
BY DEF Power, Tree

\* An access to an awake rank, or one that wakes it.
LEMMA AccessProgresses ==
  ASSUME NEW type \in Access, NEW a \in Addresses(type), NEW t \in Tree, std \in Standard,
         RowLeft(t, a) \in Nat,
         t.rank # "PowerUp" => FirstCommand(type, t, a) = MemoryAwake(t),
         \A cmd \in {"PDX", "SRX"} : update_state(cmd, t, a) = Power(t, "PowerUp"),
         t.rank = "PowerUp" =>
           LET cmd == FirstCommand(type, t, a)
               u == After(cmd, t, a)
           IN /\ u \in Tree /\ u.rank = "PowerUp"
              /\ (cmd = Accessing(type) \/ (RowLeft(u, a) \in Nat /\ RowLeft(u, a) < RowLeft(t, a)))
  PROVE  Progresses(type, t, a)
<1>. DEFINE cmd == FirstCommand(type, t, a)
            u == After(cmd, t, a)
<1>1. CASE t.rank = "PowerUp"
  <2>1. /\ u \in Tree /\ u.rank = "PowerUp"
        /\ (cmd = Accessing(type) \/ (RowLeft(u, a) \in Nat /\ RowLeft(u, a) < RowLeft(t, a)))
    BY <1>1
  <2>. HIDE DEF u, cmd
  <2>2. cmd = Accessing(type) \/ CommandsLeft(type, u, a) < CommandsLeft(type, t, a)
    BY <1>1, <2>1 DEF CommandsLeft
  <2>. QED
    BY <2>1, <2>2 DEF Progresses, u, cmd
<1>2. CASE t.rank # "PowerUp"
  <2>1. cmd \in {"PDX", "SRX"}
    BY <1>2, AwakeFacts
  <2>2. u = Power(t, "PowerUp")
    BY <2>1 DEF After, get_addr_vec
  <2>3. u \in Tree /\ u.rank = "PowerUp" /\ u.bank = t.bank /\ u.sa = t.sa
    BY <2>2, WakeFacts
  <2>. HIDE DEF u, cmd
  <2>4. RowLeft(u, a) = RowLeft(t, a)
    BY <2>3 DEF RowLeft, Others
  <2>5. CommandsLeft(type, u, a) < CommandsLeft(type, t, a)
    BY <1>2, <2>3, <2>4 DEF CommandsLeft
  <2>. QED
    BY <2>3, <2>5 DEF Progresses, u, cmd
<1>. QED
  BY <1>1, <1>2

\* the commands of an access to an awake rank, those that close and those that open
AccessCommands ==
  CASE std = "TLDRAM" -> {"WR", "MIG", "ACT", "ACTF", "ACTM", "PRE", "PREF", "PREM"}
    [] std = "SALP_1" -> {"RD", "WR", "ACT", "PRE", "PRE_OTHER"}
    [] std = "MASA" -> {"RD", "WR", "ACT", "PRE", "SASEL"}
    [] OTHER -> {"RD", "WR", "ACT", "PRE"}
Closes == {"PRE", "PREF", "PREM", "PRE_OTHER"}
Opens == {"ACT", "ACTF", "ACTM", "SASEL"}

\* What the next command of an access leaves: one that opens the row leaves the
\* access itself, one that closes another row leaves both.
Moves(type, t, a) ==
  LET cmd == FirstCommand(type, t, a)
      u == After(cmd, t, a)
      left == RowLeft(t, a)
  IN /\ left \in 1 .. 3
     /\ t.rank # "PowerUp" => cmd = MemoryAwake(t)
     /\ \A c \in {"PDX", "SRX"} : update_state(c, t, a) = Power(t, "PowerUp")
     /\ t.rank = "PowerUp" =>
          /\ u \in Tree /\ u.rank = "PowerUp" /\ cmd \in AccessCommands
          /\ left = 1 => cmd = Accessing(type)
          /\ left = 2 => cmd \in Opens /\ RowLeft(u, a) = 1
          /\ left = 3 => cmd \in Closes /\ RowLeft(u, a) = 2

LEMMA MovesProgress ==
  ASSUME NEW type \in Access, NEW a \in Addresses(type), NEW t \in Tree, std \in Standard, Moves(type, t, a)
  PROVE  Progresses(type, t, a)
<1>. DEFINE cmd == FirstCommand(type, t, a)
            u == After(cmd, t, a)
<1>1. /\ RowLeft(t, a) \in 1 .. 3
      /\ t.rank # "PowerUp" => cmd = MemoryAwake(t)
      /\ \A c \in {"PDX", "SRX"} : update_state(c, t, a) = Power(t, "PowerUp")
  BY DEF Moves
<1>2. t.rank = "PowerUp" =>
        /\ u \in Tree /\ u.rank = "PowerUp"
        /\ RowLeft(t, a) = 1 => cmd = Accessing(type)
        /\ RowLeft(t, a) = 2 => RowLeft(u, a) = 1
        /\ RowLeft(t, a) = 3 => RowLeft(u, a) = 2
  BY DEF Moves
<1>. HIDE DEF cmd, u
<1>3. t.rank = "PowerUp" =>
        /\ u \in Tree /\ u.rank = "PowerUp"
        /\ (cmd = Accessing(type) \/ (RowLeft(u, a) \in Nat /\ RowLeft(u, a) < RowLeft(t, a)))
  BY <1>1, <1>2
<1>. QED
  BY <1>1, <1>3, AccessProgresses DEF cmd, u

OpensBank(u, t, a) == u = [t EXCEPT !.bank[a.bank] = OpenedNode(@, a.row)]
ClosesBank(u, t, a) == u = CloseBanks(t, {a.bank})

\* What opening and closing a bank leaves for its accesses.
LEMMA BankMoves ==
  ASSUME NEW t \in Tree, std \in Flat, NEW type \in Access, NEW a \in Addresses(type), NEW u
  PROVE  /\ RowLeft(t, a) = NodeLeft(t.bank[a.bank], a.row)
         /\ OpensBank(u, t, a) =>
              u \in Tree /\ u.rank = t.rank /\ RowLeft(u, a) = 1
         /\ ClosesBank(u, t, a) =>
              u \in Tree /\ u.rank = t.rank /\ RowLeft(u, a) = 2
<1>1. a.bank \in Bank /\ a.row \in Row \cup SubArray
  BY AccessAddress
<1>2. \A v : RowLeft(v, a) = NodeLeft(v.bank[a.bank], a.row)
  BY DEF RowLeft, Flat, Refreshing
<1>3. ASSUME OpensBank(u, t, a)
      PROVE  u \in Tree /\ u.rank = t.rank /\ RowLeft(u, a) = 1
  <2>1. u \in Tree /\ u.rank = t.rank /\ u.bank[a.bank] = OpenedNode(t.bank[a.bank], a.row)
    BY <1>1, <1>3, OpenBankFacts DEF OpensBank
  <2>. QED
    BY <1>2, <2>1, NodeLeftFacts
<1>4. ASSUME ClosesBank(u, t, a)
      PROVE  u \in Tree /\ u.rank = t.rank /\ RowLeft(u, a) = 2
  <2>1. u \in Tree /\ u.rank = t.rank /\ u.bank[a.bank] = ClosedNode
    <3>1. PICK banks : banks = {a.bank}
      OBVIOUS
    <3>2. u = CloseBanks(t, banks)
      BY <1>4, <3>1 DEF ClosesBank
    <3>3. u \in Tree /\ u.rank = t.rank /\ u.bank[a.bank] = IF a.bank \in banks THEN ClosedNode ELSE t.bank[a.bank]
      BY <1>1, <3>2, CloseBanksFacts
    <3>. QED
      BY <3>1, <3>3
  <2>. QED
    BY <1>2, <2>1, NodeLeftFacts
<1>. QED
  BY <1>2, <1>3, <1>4

LEMMA PlainMoves ==
  ASSUME std \in Plain, NEW type \in Access, NEW a \in Addresses(type), NEW t \in Tree
  PROVE  Moves(type, t, a)
<1>. DEFINE acc == Accessing(type)
            left == NodeLeft(t.bank[a.bank], a.row)
            cmd == FirstCommand(type, t, a)
            u == After(cmd, t, a)
<1>1. std \in Flat /\ std \in Standard
  BY DEF Plain, Standard
<1>2. acc \in {"RD", "WR"}
  BY PlainSpec DEF Accessing, Access
<1>3. cmd = IF t.rank = "PowerUp" THEN RowOpen(t.bank[a.bank], a.row, acc) ELSE MemoryAwake(t)
  BY PlainFirst
<1>. HIDE DEF acc, cmd
<1>4. /\ left \in 1 .. 3
      /\ RowOpen(t.bank[a.bank], a.row, acc) = IF left = 1 THEN acc ELSE IF left = 2 THEN "ACT" ELSE "PRE"
  BY <1>2, NodeLeftFacts
<1>5. RowLeft(t, a) = left
  BY <1>1, BankMoves
<1>. HIDE DEF left
<1>6. \A c \in {"PDX", "SRX"} : update_state(c, t, a) = Power(t, "PowerUp")
  BY PlainUpdate DEF DDR3_lambda, PowerCommand
<1>7. ASSUME NEW c \in {"RD", "WR", "ACT", "PRE"}
      PROVE  update_state(c, t, a) = DDR3_lambda("Bank", c, t, a)
  <2>1. DDR3_lambda("Rank", c, t, a) = t
    BY DEF DDR3_lambda, PowerCommand
  <2>. QED
    BY <2>1, PlainUpdate
<1>8. ASSUME t.rank = "PowerUp"
      PROVE  /\ u \in Tree /\ u.rank = "PowerUp"
             /\ RowLeft(t, a) = 1 => cmd = acc
             /\ RowLeft(t, a) = 2 => cmd \in Opens /\ RowLeft(u, a) = 1
             /\ RowLeft(t, a) = 3 => cmd \in Closes /\ RowLeft(u, a) = 2
  <2>1. u = DDR3_lambda("Bank", cmd, t, a)
    BY <1>2, <1>3, <1>4, <1>7, <1>8 DEF After, get_addr_vec
  <2>. HIDE DEF u
  <2>2. CASE left = 1
    <3>1. cmd = acc /\ u = t
      BY <1>2, <1>3, <1>4, <1>8, <2>1, <2>2 DEF DDR3_lambda
    <3>. QED
      BY <1>5, <1>8, <2>2, <3>1
  <2>3. CASE left = 2
    <3>1. OpensBank(u, t, a)
      BY <1>3, <1>4, <1>8, <2>1, <2>3 DEF DDR3_lambda, OpensBank
    <3>. QED
      BY <1>1, <1>3, <1>4, <1>5, <1>8, <2>3, <3>1, BankMoves DEF Closes, Opens
  <2>4. CASE left = 3
    <3>1. ClosesBank(u, t, a)
      BY <1>3, <1>4, <1>8, <2>1, <2>4 DEF DDR3_lambda, ClosesBank
    <3>. QED
      BY <1>1, <1>3, <1>4, <1>5, <1>8, <2>4, <3>1, BankMoves DEF Closes, Opens
  <2>. QED
    BY <1>4, <2>2, <2>3, <2>4
<1>9. t.rank = "PowerUp" => cmd \in AccessCommands
  BY <1>2, <1>3, <1>4 DEF Plain, Flat, AccessCommands
<1>. QED
  BY <1>1, <1>3, <1>4, <1>5, <1>6, <1>8, <1>9, Zenon DEF cmd, acc, u, Moves

LEMMA TLDRAMMoves ==
  ASSUME std = "TLDRAM", NEW type \in Access, NEW a \in Addresses(type), NEW t \in Tree
  PROVE  Moves(type, t, a)
<1>. DEFINE acc == Accessing(type)
            left == NodeLeft(t.bank[a.bank], a.row)
            first == RowOpen(t.bank[a.bank], a.row, acc)
            cmd == FirstCommand(type, t, a)
            u == After(cmd, t, a)
<1>1. std \in Flat /\ std \in Standard
  BY DEF Flat, Standard
<1>2. acc \in {"WR", "MIG"}
  BY TLDRAMSpec DEF Accessing, Access
<1>3. cmd = IF t.rank = "PowerUp" THEN TLDRAM_prereq("Bank", acc, t, a) ELSE MemoryAwake(t)
  BY TLDRAMFirst
<1>. HIDE DEF acc, cmd
<1>4. left \in 1 .. 3 /\ first = IF left = 1 THEN acc ELSE IF left = 2 THEN "ACT" ELSE "PRE"
  BY <1>2, NodeLeftFacts
<1>5. RowLeft(t, a) = left
  BY <1>1, BankMoves
<1>. HIDE DEF left
<1>6. ASSUME t.rank = "PowerUp"
      PROVE  /\ cmd \in {"ACT", "ACTF", "ACTM", "PRE", "PREF", "PREM", acc}
             /\ cmd \in {"ACT", "ACTF", "ACTM"} <=> left = 2
             /\ cmd = acc <=> left = 1
  <2>1. /\ cmd \in {"ACT", "ACTF", "ACTM", "PRE", "PREF", "PREM", acc}
        /\ cmd \in {"ACT", "ACTF", "ACTM"} <=> first = "ACT"
        /\ cmd = acc <=> first = acc
    BY <1>2, <1>3, <1>6, TLDRAMBank
  <2>. QED
    BY <1>2, <1>4, <2>1
<1>7. \A c \in {"PDX", "SRX"} : update_state(c, t, a) = Power(t, "PowerUp")
  BY TLDRAMUpdate DEF TLDRAM_lambda, PowerCommand
<1>8. ASSUME NEW c \in {"WR", "MIG", "ACT", "ACTF", "ACTM", "PRE", "PREF", "PREM"}
      PROVE  update_state(c, t, a) = TLDRAM_lambda("Bank", c, t, a)
  <2>1. TLDRAM_lambda("Rank", c, t, a) = t
    BY DEF TLDRAM_lambda, PowerCommand
  <2>. QED
    BY <2>1, TLDRAMUpdate
<1>9. ASSUME t.rank = "PowerUp"
      PROVE  /\ u \in Tree /\ u.rank = "PowerUp"
             /\ RowLeft(t, a) = 1 => cmd = acc
             /\ RowLeft(t, a) = 2 => cmd \in Opens /\ RowLeft(u, a) = 1
             /\ RowLeft(t, a) = 3 => cmd \in Closes /\ RowLeft(u, a) = 2
  <2>1. u = TLDRAM_lambda("Bank", cmd, t, a)
    BY <1>2, <1>6, <1>8, <1>9 DEF After, get_addr_vec
  <2>. HIDE DEF u
  <2>2. CASE left = 1
    <3>1. cmd = acc /\ u = t
      BY <1>2, <1>6, <1>9, <2>1, <2>2 DEF TLDRAM_lambda
    <3>. QED
      BY <1>5, <1>9, <2>2, <3>1
  <2>3. CASE left = 2
    <3>1. OpensBank(u, t, a)
      BY <1>6, <1>9, <2>1, <2>3 DEF TLDRAM_lambda, OpensBank
    <3>. QED
      BY <1>1, <1>5, <1>6, <1>9, <2>3, <3>1, BankMoves DEF Closes, Opens
  <2>4. CASE left = 3
    <3>1. ClosesBank(u, t, a)
      BY <1>6, <1>9, <2>1, <2>4 DEF TLDRAM_lambda, ClosesBank
    <3>. QED
      BY <1>1, <1>2, <1>5, <1>6, <1>9, <2>4, <3>1, BankMoves DEF Closes, Opens
  <2>. QED
    BY <1>4, <2>2, <2>3, <2>4
<1>10. t.rank = "PowerUp" => cmd \in AccessCommands
  BY <1>2, <1>6 DEF AccessCommands
<1>. QED
  BY <1>1, <1>3, <1>4, <1>5, <1>7, <1>9, <1>10, Zenon DEF cmd, acc, u, Moves

Opening(u, t, a) == u = [t EXCEPT !.sa[a.bank][a.sa] = OpenedNode(@, a.row)]
Closing(u, t, a) == u = CloseSubArrays(t, {<<a.bank, a.sa>>})

\* What opening and closing a subarray leaves of the others and of the bank.

LEMMA SubArrayMoves ==
  ASSUME NEW t \in Tree, NEW a, a.bank \in Bank, a.sa \in SubArray, NEW u
  PROVE  /\ Opening(u, t, a) /\ a.row \in Row =>
              /\ u \in Tree /\ u.rank = t.rank /\ u.bank = t.bank
              /\ \A s \in SubArray : u.sa[a.bank][s] = IF s = a.sa THEN OpenedNode(t.sa[a.bank][s], a.row)
                                                       ELSE t.sa[a.bank][s]
         /\ Closing(u, t, a) =>
              /\ u \in Tree /\ u.rank = t.rank /\ u.bank = t.bank
              /\ \A s \in SubArray : u.sa[a.bank][s] = IF s = a.sa THEN ClosedNode ELSE t.sa[a.bank][s]
<1>1. ASSUME Opening(u, t, a), a.row \in Row
      PROVE  /\ u \in Tree /\ u.rank = t.rank /\ u.bank = t.bank
             /\ \A s \in SubArray : u.sa[a.bank][s] = IF s = a.sa THEN OpenedNode(t.sa[a.bank][s], a.row)
                                                      ELSE t.sa[a.bank][s]
  BY <1>1, OpenSubArrayFacts DEF Opening
<1>2. ASSUME Closing(u, t, a)
      PROVE  /\ u \in Tree /\ u.rank = t.rank /\ u.bank = t.bank
             /\ \A s \in SubArray : u.sa[a.bank][s] = IF s = a.sa THEN ClosedNode ELSE t.sa[a.bank][s]
  <2>1. PICK groups : groups = {<<a.bank, a.sa>>}
    OBVIOUS
  <2>2. u = CloseSubArrays(t, groups)
    BY <1>2, <2>1 DEF Closing
  <2>3. /\ u \in Tree /\ u.rank = t.rank /\ u.bank = t.bank
        /\ \A s \in SubArray : u.sa[a.bank][s] = IF <<a.bank, s>> \in groups THEN ClosedNode ELSE t.sa[a.bank][s]
    BY <2>2, CloseSubArraysFacts
  <2>. QED
    BY <2>1, <2>3
<1>. QED
  BY <1>1, <1>2

\* The subarray that is closed instead of the one that is accessed.
LEMMA OffendingIsOther ==
  ASSUME NEW t, NEW a \in Address
  PROVE  /\ Offending(t, a).bank = a.bank /\ Offending(t, a).sa \in SubArray
         /\ Others(t, a) # {} => Offending(t, a).sa \in Others(t, a)
<1>. DEFINE first == CHOOSE s \in Others(t, a) : \A r \in Others(t, a) : s <= r
<1>1. Others(t, a) # {} => first \in Others(t, a)
  <2>1. Others(t, a) \subseteq SubArray
    BY DEF Others
  <2>2. Others(t, a) # {} => \E s \in Others(t, a) : \A r \in Others(t, a) : s <= r
    BY <2>1, FirstSubArray
  <2>. QED
    BY <2>2
<1>2. Offending(t, a) = [a EXCEPT !.row = None, !.sa = IF Others(t, a) = {} THEN 0 ELSE first]
  BY DEF Offending, Others
<1>. HIDE DEF first
<1>3. 0 \in SubArray /\ Others(t, a) \subseteq SubArray
  BY StandardsAssumption DEF Others
<1>. QED
  BY <1>1, <1>2, <1>3 DEF Address

TurnsBank(w, t, c, x) == w = [t EXCEPT !.bank[c].state = x]

LEMMA TurnsBankFacts ==
  ASSUME NEW t \in Tree, NEW c \in Bank, NEW x \in {"Opened", "Closed"}, NEW w, TurnsBank(w, t, c, x)
  PROVE  w \in Tree /\ w.rank = t.rank /\ w.sa = t.sa /\ w.bank[c].state = x
<1>1. /\ w \in Tree /\ w.rank = t.rank /\ w.sa = t.sa
      /\ \A b \in Bank : w.bank[b].state = IF b = c THEN x ELSE t.bank[b].state
  BY BankStateFacts DEF TurnsBank
<1>. QED
  BY <1>1

LEMMA SALP1Moves ==
  ASSUME std = "SALP_1", NEW type \in Access, NEW a \in Addresses(type), NEW t \in Tree
  PROVE  Moves(type, t, a)
<1>. DEFINE acc == Accessing(type)
            bank == t.bank[a.bank]
            sa == t.sa[a.bank][a.sa]
            cmd == FirstCommand(type, t, a)
            u == After(cmd, t, a)
<1>1. std \in SALP /\ std \in Standard /\ std \notin Flat /\ std \notin Refreshing
  BY DEF SALP, Standard, WithSubArrays, Flat, Refreshing
<1>2. /\ acc \in {"RD", "WR"}
      /\ cmd = LET atBank == SALP_prereq(std, "Bank", acc, t, a)
                   atSubArray == SALP_prereq(std, "SubArray", acc, t, a)
               IN IF t.rank # "PowerUp" THEN MemoryAwake(t)
                  ELSE IF atBank # "MAX" THEN atBank
                  ELSE IF atSubArray = "MAX" THEN acc ELSE atSubArray
  BY <1>1, SALPFirst
<1>3. a.bank \in Bank /\ a.sa \in SubArray /\ a.row \in Row /\ a \in Address
  BY AccessAddress
<1>. HIDE DEF acc, cmd
<1>4. SALP_prereq(std, "Bank", acc, t, a) = IF bank.state = "Closed" THEN "ACT" ELSE "MAX"
  BY <1>2 DEF SALP_prereq, SALP_1_prereq, ReadWrite
<1>5. SALP_prereq(std, "SubArray", acc, t, a) =
        IF a.row \in sa.rows THEN acc ELSE IF sa.rows # {} THEN "PRE" ELSE "PRE_OTHER"
  BY <1>2 DEF SALP_prereq, SALP_1_prereq, ReadWrite
<1>6. \A v : RowLeft(v, a) = IF v.bank[a.bank].state = "Closed" THEN 2
                             ELSE IF a.row \in v.sa[a.bank][a.sa].rows THEN 1 ELSE 3
  BY <1>1 DEF RowLeft
<1>7. t.rank = "PowerUp" =>
        /\ RowLeft(t, a) = 1 => cmd = acc
        /\ RowLeft(t, a) = 2 => cmd = "ACT"
        /\ RowLeft(t, a) = 3 => cmd \in {"PRE", "PRE_OTHER"}
  BY <1>2, <1>4, <1>5, <1>6
<1>8. \A c \in {"PDX", "SRX"} : update_state(c, t, a) = Power(t, "PowerUp")
  <2>1. \A c \in {"PDX", "SRX"} : SALP_1_lambda("Rank", c, t, a) = Power(t, "PowerUp")
    BY DEF SALP_1_lambda, PowerCommand
  <2>. QED
    BY <2>1, SALP1Update
<1>9. ASSUME NEW c \in {"RD", "WR", "ACT", "PRE", "PRE_OTHER"}, NEW x
      PROVE  update_state(c, t, x) = SALP_1_lambda("SubArray", c, SALP_1_lambda("Bank", c, t, x), x)
  <2>1. SALP_1_lambda("Rank", c, t, x) = t
    BY DEF SALP_1_lambda, PowerCommand
  <2>. QED
    BY <2>1, SALP1Update
<1>10. ASSUME t.rank = "PowerUp"
       PROVE  /\ u \in Tree /\ u.rank = "PowerUp"
              /\ RowLeft(t, a) = 1 => cmd = acc
              /\ RowLeft(t, a) = 2 => cmd \in Opens /\ RowLeft(u, a) = 1
              /\ RowLeft(t, a) = 3 => cmd \in Closes /\ RowLeft(u, a) = 2
  <2>. HIDE DEF u
  <2>1. CASE RowLeft(t, a) = 1
    <3>1. cmd = acc /\ acc \in {"RD", "WR"}
      BY <1>2, <1>7, <1>10, <2>1
    <3>2. u = t
      BY <1>9, <3>1 DEF u, After, get_addr_vec, SALP_1_lambda
    <3>. QED
      BY <1>10, <2>1, <3>1, <3>2
  <2>2. CASE RowLeft(t, a) = 2
    <3>. DEFINE w == [t EXCEPT !.bank[a.bank].state = "Opened"]
    <3>1. cmd = "ACT"
      BY <1>7, <1>10, <2>2
    <3>2. w \in Tree /\ w.rank = t.rank /\ w.sa = t.sa /\ w.bank[a.bank].state = "Opened"
      <4>1. TurnsBank(w, t, a.bank, "Opened")
        BY DEF TurnsBank
      <4>. HIDE DEF w
      <4>. QED
        BY <1>3, <4>1, TurnsBankFacts
    <3>3. SALP_1_lambda("Bank", "ACT", t, a) = w
      BY DEF SALP_1_lambda
    <3>. HIDE DEF w
    <3>4. Opening(u, w, a)
      BY <1>9, <3>1, <3>3 DEF u, After, get_addr_vec, SALP_1_lambda, Opening
    <3>5. u \in Tree /\ u.rank = w.rank /\ u.bank = w.bank /\ u.sa[a.bank][a.sa] = OpenedNode(w.sa[a.bank][a.sa], a.row)
      BY <1>3, <3>2, <3>4, SubArrayMoves
    <3>6. RowLeft(u, a) = 1
      BY <1>6, <3>2, <3>5 DEF OpenedNode
    <3>. QED
      BY <1>10, <2>2, <3>1, <3>2, <3>5, <3>6 DEF Closes, Opens
  <2>3. CASE RowLeft(t, a) = 3
    <3>. DEFINE w == [t EXCEPT !.bank[a.bank].state = "Closed"]
    <3>1. PICK x : x = get_addr_vec(cmd, t, a)
      OBVIOUS
    <3>2. cmd \in {"PRE", "PRE_OTHER"} /\ x.bank = a.bank
      BY <1>3, <1>7, <1>10, <2>3, <3>1, OffendingIsOther DEF get_addr_vec
    <3>3. w \in Tree /\ w.rank = t.rank /\ w.bank[a.bank].state = "Closed"
      <4>1. TurnsBank(w, t, a.bank, "Closed")
        BY DEF TurnsBank
      <4>. HIDE DEF w
      <4>. QED
        BY <1>3, <4>1, TurnsBankFacts
    <3>4. SALP_1_lambda("Bank", cmd, t, x) = CloseSubArrays(w, {<<x.bank, x.sa>>})
      BY <3>2 DEF SALP_1_lambda
    <3>. HIDE DEF w
    <3>5. u = CloseSubArrays(w, {<<x.bank, x.sa>>})
      BY <1>9, <3>1, <3>2, <3>4 DEF u, After, SALP_1_lambda
    <3>6. PICK groups : groups = {<<x.bank, x.sa>>}
      OBVIOUS
    <3>7. u \in Tree /\ u.rank = w.rank /\ u.bank = w.bank
      BY <3>3, <3>5, <3>6, CloseSubArraysFacts
    <3>8. RowLeft(u, a) = 2
      BY <1>6, <3>3, <3>7
    <3>. QED
      BY <1>10, <2>3, <3>2, <3>3, <3>7, <3>8 DEF Closes, Opens
  <2>. QED
    BY <1>6, <2>1, <2>2, <2>3
<1>11. t.rank # "PowerUp" => cmd = MemoryAwake(t)
  BY <1>2
<1>12. RowLeft(t, a) \in 1 .. 3
  BY <1>6
<1>13. t.rank = "PowerUp" => cmd \in AccessCommands
  BY <1>2, <1>4, <1>5 DEF AccessCommands
<1>. QED
  BY <1>1, <1>8, <1>10, <1>11, <1>12, <1>13, Zenon DEF cmd, acc, u, Moves

\* The other open subarrays can be counted.

LEMMA OthersFacts ==
  ASSUME NEW t, NEW a, a.sa \in SubArray
  PROVE  /\ Others(t, a) \subseteq SubArray \ {a.sa} /\ IsFiniteSet(Others(t, a))
         /\ Cardinality(Others(t, a)) \in Nat /\ Cardinality(SubArray) \in Nat
         /\ Cardinality(Others(t, a)) < Cardinality(SubArray)
<1>. DEFINE S == SubArray \ {a.sa}
<1>1. Others(t, a) \subseteq S
  BY DEF Others
<1>2. IsFiniteSet(SubArray)
  BY StandardsAssumption
<1>3. IsFiniteSet(S) /\ Cardinality(S) = Cardinality(SubArray) - 1
  BY <1>2, FS_RemoveElement
<1>. HIDE DEF S
<1>4. IsFiniteSet(Others(t, a)) /\ Cardinality(Others(t, a)) <= Cardinality(S)
  BY <1>1, <1>3, FS_Subset
<1>5. Cardinality(SubArray) \in Nat /\ Cardinality(Others(t, a)) \in Nat
  BY <1>2, <1>4, FS_CardinalityType
<1>. QED
  BY <1>1, <1>3, <1>4, <1>5 DEF S

LEMMA SALP2First ==
  ASSUME std = "SALP_2", NEW type \in Access, NEW a \in Addresses(type), NEW t
  PROVE  LET acc == Accessing(type)
             left == NodeLeft(t.sa[a.bank][a.sa], a.row)
             cmd == FirstCommand(type, t, a)
         IN /\ acc \in {"RD", "WR"} /\ left \in 1 .. 3
            /\ t.rank # "PowerUp" => cmd = MemoryAwake(t)
            /\ t.rank = "PowerUp" =>
                 cmd = IF left = 2 THEN "ACT" ELSE IF left = 3 THEN "PRE"
                       ELSE IF Others(t, a) = {} THEN acc ELSE "PRE_OTHER"
<1>. DEFINE acc == Accessing(type)
            sa == t.sa[a.bank][a.sa]
            left == NodeLeft(sa, a.row)
            cmd == FirstCommand(type, t, a)
<1>1. std \in SALP
  BY DEF SALP
<1>2. /\ acc \in {"RD", "WR"}
      /\ cmd = LET atBank == SALP_prereq(std, "Bank", acc, t, a)
                   atSubArray == SALP_prereq(std, "SubArray", acc, t, a)
               IN IF t.rank # "PowerUp" THEN MemoryAwake(t)
                  ELSE IF atBank # "MAX" THEN atBank
                  ELSE IF atSubArray = "MAX" THEN acc ELSE atSubArray
  BY <1>1, SALPFirst
<1>. HIDE DEF acc, cmd
<1>4. SALP_prereq(std, "Bank", acc, t, a) = "MAX"
  BY <1>2 DEF SALP_prereq, SALP_2_prereq, ReadWrite
<1>5. SALP_prereq(std, "SubArray", acc, t, a) =
        IF RowOpen(sa, a.row, acc) = acc /\ Others(t, a) # {} THEN "PRE_OTHER" ELSE RowOpen(sa, a.row, acc)
  <2>1. Others(t, a) # {} <=> \E s \in SubArray \ {a.sa} : t.sa[a.bank][s].state = "Opened"
    BY DEF Others
  <2>. QED
    BY <1>2, <2>1 DEF SALP_prereq, SALP_2_prereq, ReadWrite
<1>6. /\ left \in 1 .. 3
      /\ RowOpen(sa, a.row, acc) = IF left = 1 THEN acc ELSE IF left = 2 THEN "ACT" ELSE "PRE"
  BY <1>2, NodeLeftFacts
<1>8. t.rank = "PowerUp" =>
        cmd = IF left = 2 THEN "ACT" ELSE IF left = 3 THEN "PRE"
              ELSE IF Others(t, a) = {} THEN acc ELSE "PRE_OTHER"
  BY <1>2, <1>4, <1>5, <1>6
<1>9. t.rank # "PowerUp" => cmd = MemoryAwake(t)
  BY <1>2
<1>. QED
  BY <1>2, <1>6, <1>8, <1>9 DEF acc, cmd

LEMMA SALP2Progresses ==
  ASSUME std = "SALP_2", NEW type \in Access, NEW a \in Addresses(type), NEW t \in Tree
  PROVE  /\ Progresses(type, t, a) /\ RowLeft(t, a) \in 1 .. 2 + Cardinality(SubArray)
         /\ LET left(v) == NodeLeft(v.sa[a.bank][a.sa], a.row)
                u == After(FirstCommand(type, t, a), t, a)
            IN t.rank = "PowerUp" =>
                 /\ u.rank = "PowerUp"
                 /\ left(t) = 2 => left(u) = 1
                 /\ left(t) = 3 => left(u) = 2
<1>. DEFINE acc == Accessing(type)
            sa == t.sa[a.bank][a.sa]
            left == NodeLeft(sa, a.row)
            cmd == FirstCommand(type, t, a)
            u == After(cmd, t, a)
<1>1. std \in Standard /\ std \notin Flat /\ std \notin Refreshing
  BY DEF Standard, WithSubArrays, Flat, Refreshing
<1>2. /\ acc \in {"RD", "WR"} /\ left \in 1 .. 3
      /\ t.rank # "PowerUp" => cmd = MemoryAwake(t)
      /\ t.rank = "PowerUp" =>
           cmd = IF left = 2 THEN "ACT" ELSE IF left = 3 THEN "PRE"
                 ELSE IF Others(t, a) = {} THEN acc ELSE "PRE_OTHER"
  BY SALP2First
<1>3. a.bank \in Bank /\ a.sa \in SubArray /\ a.row \in Row /\ a \in Address
  BY AccessAddress
<1>. HIDE DEF acc, cmd
<1>7. \A v : RowLeft(v, a) = NodeLeft(v.sa[a.bank][a.sa], a.row) + Cardinality(Others(v, a))
  BY <1>1 DEF RowLeft
<1>9. \A c \in {"PDX", "SRX"} : update_state(c, t, a) = Power(t, "PowerUp")
  <2>1. \A c \in {"PDX", "SRX"} : SALP_2_lambda("Rank", c, t, a) = Power(t, "PowerUp")
    BY DEF SALP_2_lambda, PowerCommand
  <2>. QED
    BY <2>1, SALP2Update
<1>10. ASSUME NEW c \in {"RD", "WR", "ACT", "PRE", "PRE_OTHER"}, NEW x
       PROVE  update_state(c, t, x) = SALP_2_lambda("SubArray", c, t, x)
  <2>1. SALP_2_lambda("Rank", c, t, x) = t
    BY DEF SALP_2_lambda, PowerCommand
  <2>. QED
    BY <2>1, SALP2Update
<1>11. \A v : Cardinality(Others(v, a)) \in Nat /\ Cardinality(Others(v, a)) < Cardinality(SubArray)
               /\ Cardinality(SubArray) \in Nat
  BY <1>3, OthersFacts
<1>12. RowLeft(t, a) = left + Cardinality(Others(t, a))
  BY <1>7
<1>. HIDE DEF left
<1>13. ASSUME t.rank = "PowerUp"
       PROVE  /\ u \in Tree /\ u.rank = "PowerUp"
              /\ (cmd = acc \/ (RowLeft(u, a) \in Nat /\ RowLeft(u, a) < RowLeft(t, a)))
              /\ left = 2 => NodeLeft(u.sa[a.bank][a.sa], a.row) = 1
              /\ left = 3 => NodeLeft(u.sa[a.bank][a.sa], a.row) = 2
  <2>. HIDE DEF u
  <2>1. CASE left = 1 /\ Others(t, a) = {}
    <3>1. cmd = acc
      BY <1>2, <1>13, <2>1
    <3>2. u = t
      BY <1>2, <1>10, <3>1 DEF u, After, get_addr_vec, SALP_2_lambda
    <3>. QED
      BY <1>13, <2>1, <3>1, <3>2
  <2>2. CASE left = 1 /\ Others(t, a) # {}
    <3>1. cmd = "PRE_OTHER"
      BY <1>2, <1>13, <2>2
    <3>2. PICK x : x = Offending(t, a)
      OBVIOUS
    <3>3. x.bank = a.bank /\ x.sa \in Others(t, a)
      BY <1>3, <2>2, <3>2, OffendingIsOther
    <3>4. u = SALP_2_lambda("SubArray", "PRE_OTHER", t, x)
      BY <1>10, <3>1, <3>2 DEF u, After, get_addr_vec
    <3>5. Closing(u, t, x)
      BY <3>4 DEF SALP_2_lambda, Closing
    <3>6. x.sa \in SubArray /\ x.sa # a.sa
      BY <3>3 DEF Others
    <3>7. /\ u \in Tree /\ u.rank = t.rank
          /\ \A s \in SubArray : u.sa[x.bank][s] = IF s = x.sa THEN ClosedNode ELSE t.sa[x.bank][s]
      BY <1>3, <3>3, <3>5, <3>6, SubArrayMoves
    <3>8. u.sa[a.bank][a.sa] = t.sa[a.bank][a.sa]
      BY <1>3, <3>3, <3>6, <3>7
    <3>9. Others(u, a) = Others(t, a) \ {x.sa}
      BY <1>3, <3>3, <3>7, ClosedNodeType DEF Others
    <3>10. Cardinality(Others(u, a)) = Cardinality(Others(t, a)) - 1
      BY <1>3, <3>3, <3>9, OthersFacts, FS_RemoveElement
    <3>11. RowLeft(u, a) = left + Cardinality(Others(u, a))
      BY <1>7, <3>8 DEF left
    <3>. QED
      BY <1>2, <1>11, <1>12, <1>13, <2>2, <3>7, <3>10, <3>11
  <2>3. CASE left = 2
    <3>1. cmd = "ACT"
      BY <1>2, <1>13, <2>3
    <3>2. u = SALP_2_lambda("SubArray", "ACT", t, a)
      BY <1>10, <3>1 DEF u, After, get_addr_vec
    <3>3. Opening(u, t, a)
      BY <3>2 DEF SALP_2_lambda, Opening
    <3>4. /\ u \in Tree /\ u.rank = t.rank
          /\ \A s \in SubArray : u.sa[a.bank][s] = IF s = a.sa THEN OpenedNode(t.sa[a.bank][s], a.row)
                                                   ELSE t.sa[a.bank][s]
      BY <1>3, <3>3, SubArrayMoves
    <3>5. Others(u, a) = Others(t, a)
      BY <3>4 DEF Others
    <3>6. NodeLeft(u.sa[a.bank][a.sa], a.row) = 1
      BY <1>3, <3>4, NodeLeftFacts
    <3>. QED
      BY <1>7, <1>11, <1>12, <1>13, <2>3, <3>4, <3>5, <3>6
  <2>4. CASE left = 3
    <3>1. cmd = "PRE"
      BY <1>2, <1>13, <2>4
    <3>2. u = SALP_2_lambda("SubArray", "PRE", t, a)
      BY <1>10, <3>1 DEF u, After, get_addr_vec
    <3>3. Closing(u, t, a)
      BY <3>2 DEF SALP_2_lambda, Closing
    <3>4. /\ u \in Tree /\ u.rank = t.rank
          /\ \A s \in SubArray : u.sa[a.bank][s] = IF s = a.sa THEN ClosedNode ELSE t.sa[a.bank][s]
      BY <1>3, <3>3, SubArrayMoves
    <3>5. Others(u, a) = Others(t, a)
      BY <3>4 DEF Others
    <3>6. NodeLeft(u.sa[a.bank][a.sa], a.row) = 2
      BY <1>3, <3>4, NodeLeftFacts
    <3>. QED
      BY <1>7, <1>11, <1>12, <1>13, <2>4, <3>4, <3>5, <3>6
  <2>. QED
    BY <1>2, <2>1, <2>2, <2>3, <2>4
<1>14. t.rank # "PowerUp" => cmd = MemoryAwake(t)
  BY <1>2
<1>15. RowLeft(t, a) \in 1 .. 2 + Cardinality(SubArray)
  BY <1>2, <1>11, <1>12
<1>16. Progresses(type, t, a)
  BY <1>1, <1>9, <1>13, <1>14, <1>15, <1>11, AccessProgresses DEF cmd, acc
<1>. QED
  BY <1>13, <1>15, <1>16 DEF cmd, left

\* Whatever was selected, the subarray of the address is afterwards.
LEMMA SelectsOne ==
  ASSUME NEW t \in Tree, NEW a \in Address
  PROVE  LET u == Select(t, a)
         IN /\ u \in Tree /\ u.rank = t.rank
            /\ u.sa[a.bank][a.sa].state = "Selected"
            /\ u.sa[a.bank][a.sa].rows = t.sa[a.bank][a.sa].rows
<1>1. PICK c \in Bank, e \in SubArray : c = a.bank /\ e = a.sa
  BY DEF Address
<1>. DEFINE selected == {s \in SubArray \ {e} : t.sa[c][s].state = "Selected"}
            first == CHOOSE s \in selected : \A r \in selected : s <= r
            alone == IF selected = {} THEN t ELSE WithState(t, c, first, "Opened")
            u == WithState(alone, c, e, "Selected")
<1>2. Select(t, a) = u
  BY <1>1 DEF Select, WithState
<1>3. alone \in Tree /\ alone.rank = t.rank /\ alone.sa[c][e].rows = t.sa[c][e].rows
  <2>1. CASE selected = {}
    BY <2>1
  <2>2. CASE selected # {}
    <3>1. first \in SubArray
      BY <2>2, FirstSubArray
    <3>2. alone = WithState(t, c, first, "Opened")
      BY <2>2
    <3>. HIDE DEF alone, first, selected
    <3>3. /\ WithState(t, c, first, "Opened") \in Tree /\ WithState(t, c, first, "Opened").rank = t.rank
          /\ \A b \in Bank, s \in SubArray : WithState(t, c, first, "Opened").sa[b][s].rows = t.sa[b][s].rows
      BY <3>1, SubArrayStateFacts
    <3>. QED
      BY <3>2, <3>3
  <2>. QED
    BY <2>1, <2>2
<1>. HIDE DEF alone
<1>4. /\ u \in Tree /\ u.rank = alone.rank
      /\ \A b \in Bank, s \in SubArray :
           /\ u.sa[b][s].state = IF b = c /\ s = e THEN "Selected" ELSE alone.sa[b][s].state
           /\ u.sa[b][s].rows = alone.sa[b][s].rows
  BY <1>3, SubArrayStateFacts
<1>. HIDE DEF u
<1>. QED
  BY <1>1, <1>2, <1>3, <1>4

LEMMA MASAMoves ==
  ASSUME std = "MASA", NEW type \in Access, NEW a \in Addresses(type), NEW t \in Tree
  PROVE  /\ Moves(type, t, a)
         /\ FirstCommand(type, t, a) = "SASEL" => t.sa[a.bank][a.sa].state = "Opened"
         /\ t.rank = "PowerUp" /\ RowLeft(t, a) = 3 =>
              After(FirstCommand(type, t, a), t, a).sa[a.bank][a.sa].state = "Closed"
<1>. DEFINE acc == Accessing(type)
            sa == t.sa[a.bank][a.sa]
            cmd == FirstCommand(type, t, a)
            u == After(cmd, t, a)
<1>1. std \in SALP /\ std \in Standard /\ std \notin Flat /\ std \notin Refreshing
  BY DEF SALP, Standard, WithSubArrays, Flat, Refreshing
<1>2. /\ acc \in {"RD", "WR"}
      /\ cmd = LET atBank == SALP_prereq(std, "Bank", acc, t, a)
                   atSubArray == SALP_prereq(std, "SubArray", acc, t, a)
               IN IF t.rank # "PowerUp" THEN MemoryAwake(t)
                  ELSE IF atBank # "MAX" THEN atBank
                  ELSE IF atSubArray = "MAX" THEN acc ELSE atSubArray
  BY <1>1, SALPFirst
<1>3. a.bank \in Bank /\ a.sa \in SubArray /\ a.row \in Row /\ a \in Address
  BY AccessAddress
<1>. HIDE DEF acc, cmd
<1>4. SALP_prereq(std, "Bank", acc, t, a) = "MAX"
  BY <1>2 DEF SALP_prereq, MASA_prereq, ReadWrite
<1>5. SALP_prereq(std, "SubArray", acc, t, a) =
        IF RowOpen(sa, a.row, acc) = acc /\ sa.state = "Opened" THEN "SASEL" ELSE RowOpen(sa, a.row, acc)
  BY <1>2 DEF SALP_prereq, MASA_prereq, ReadWrite
<1>6. \A v : RowLeft(v, a) = LET n == v.sa[a.bank][a.sa]
                             IN IF n.state = "Opened" /\ a.row \in n.rows THEN 2 ELSE NodeLeft(n, a.row)
  BY <1>1 DEF RowLeft
<1>7. t.rank = "PowerUp" =>
        /\ RowLeft(t, a) = 1 => cmd = acc
        /\ RowLeft(t, a) = 2 => (cmd = "SASEL" /\ a.row \in sa.rows) \/ cmd = "ACT"
        /\ RowLeft(t, a) = 3 => cmd = "PRE"
  BY <1>2, <1>4, <1>5, <1>6 DEF NodeLeft, RowOpen
<1>8. \A c \in {"PDX", "SRX"} : update_state(c, t, a) = Power(t, "PowerUp")
  <2>1. \A c \in {"PDX", "SRX"} : MASA_lambda("Rank", c, t, a) = Power(t, "PowerUp")
    BY DEF MASA_lambda, PowerCommand
  <2>. QED
    BY <2>1, MASAUpdate
<1>9. ASSUME NEW c \in {"RD", "WR", "ACT", "PRE", "SASEL"}
      PROVE  update_state(c, t, a) = MASA_lambda("SubArray", c, t, a)
  <2>1. MASA_lambda("Rank", c, t, a) = t
    BY DEF MASA_lambda, PowerCommand
  <2>. QED
    BY <2>1, MASAUpdate
<1>10. ASSUME t.rank = "PowerUp"
       PROVE  /\ u \in Tree /\ u.rank = "PowerUp"
              /\ RowLeft(t, a) = 1 => cmd = acc
              /\ RowLeft(t, a) = 2 => cmd \in Opens /\ RowLeft(u, a) = 1
              /\ RowLeft(t, a) = 3 => cmd \in Closes /\ RowLeft(u, a) = 2
              /\ RowLeft(t, a) = 3 => u.sa[a.bank][a.sa].state = "Closed"
  <2>. HIDE DEF u
  <2>1. CASE RowLeft(t, a) = 1
    <3>1. cmd = acc
      BY <1>7, <1>10, <2>1
    <3>2. u = t
      BY <1>2, <1>9, <3>1 DEF u, After, get_addr_vec, MASA_lambda
    <3>. QED
      BY <1>10, <2>1, <3>1, <3>2
  <2>2. CASE RowLeft(t, a) = 2
    <3>1. (cmd = "SASEL" /\ a.row \in sa.rows) \/ cmd = "ACT"
      BY <1>7, <1>10, <2>2
    <3>2. PICK w \in Tree : u = Select(w, a) /\ w.rank = t.rank /\ a.row \in w.sa[a.bank][a.sa].rows
      <4>1. CASE cmd = "SASEL" /\ a.row \in sa.rows
        <5>1. u = Select(t, a)
          BY <1>9, <4>1 DEF u, After, get_addr_vec, MASA_lambda
        <5>. QED
          BY <4>1, <5>1
      <4>2. CASE cmd = "ACT"
        <5>1. PICK w : Opening(w, t, a)
          BY DEF Opening
        <5>2. w \in Tree /\ w.rank = t.rank /\ w.sa[a.bank][a.sa] = OpenedNode(sa, a.row)
          BY <1>3, <5>1, SubArrayMoves
        <5>3. update_state(cmd, t, a) = MASA_lambda("SubArray", "ACT", t, a)
          BY <1>9, <4>2
        <5>4. update_state(cmd, t, a) = Select(w, a)
          BY <5>1, <5>3 DEF MASA_lambda, Opening
        <5>5. u = Select(w, a)
          BY <4>2, <5>4 DEF u, After, get_addr_vec
        <5>. QED
          BY <5>2, <5>5 DEF OpenedNode
      <4>. QED
        BY <3>1, <4>1, <4>2
    <3>3. /\ u \in Tree /\ u.rank = w.rank /\ u.sa[a.bank][a.sa].state = "Selected"
          /\ u.sa[a.bank][a.sa].rows = w.sa[a.bank][a.sa].rows
      BY <1>3, <3>2, SelectsOne
    <3>4. RowLeft(u, a) = 1
      BY <1>6, <3>2, <3>3 DEF NodeLeft
    <3>. QED
      BY <1>10, <2>2, <3>1, <3>2, <3>3, <3>4 DEF Closes, Opens
  <2>3. CASE RowLeft(t, a) = 3
    <3>1. cmd = "PRE"
      BY <1>7, <1>10, <2>3
    <3>2. Closing(u, t, a)
      BY <1>9, <3>1 DEF u, After, get_addr_vec, MASA_lambda, Closing
    <3>3. u \in Tree /\ u.rank = t.rank /\ u.sa[a.bank][a.sa] = ClosedNode
      BY <1>3, <3>2, SubArrayMoves
    <3>4. RowLeft(u, a) = 2
      BY <1>6, <3>3 DEF NodeLeft, ClosedNode
    <3>. QED
      BY <1>10, <2>3, <3>1, <3>3, <3>4 DEF Closes, Opens, ClosedNode
  <2>. QED
    BY <1>6, <2>1, <2>2, <2>3 DEF NodeLeft
<1>11. t.rank # "PowerUp" => cmd = MemoryAwake(t)
  BY <1>2
<1>12. RowLeft(t, a) \in 1 .. 3
  BY <1>6 DEF NodeLeft
<1>13. t.rank = "PowerUp" => cmd \in AccessCommands
  BY <1>2, <1>4, <1>5 DEF RowOpen, AccessCommands
<1>14. cmd = "SASEL" => sa.state = "Opened"
  BY <1>2, <1>4, <1>5 DEF MemoryAwake, RowOpen
<1>15. Moves(type, t, a)
  BY <1>1, <1>8, <1>10, <1>11, <1>12, <1>13, Zenon DEF cmd, acc, u, Moves
<1>. QED
  BY <1>10, <1>14, <1>15 DEF cmd, u

\* What an activate and a precharge of DSARP do to bank c.
BankNames(w, t, c, e) == w = [t EXCEPT !.bank[c] = OpenedNode(@, e)]
ClosesWhole(u, t, c) == u = CloseSubArrays(CloseBanks(t, {c}), {c} \X SubArray)

LEMMA DSARPMoves ==
  ASSUME NEW t \in Tree, NEW a \in Address, NEW w, NEW u
  PROVE  /\ BankNames(w, t, a.bank, a.sa) /\ Opening(u, w, a) =>
              /\ u \in Tree /\ u.rank = t.rank /\ u.bank[a.bank] = OpenedNode(t.bank[a.bank], a.sa)
              /\ u.sa[a.bank][a.sa] = OpenedNode(t.sa[a.bank][a.sa], a.row)
         /\ ClosesWhole(u, t, a.bank) =>
              u \in Tree /\ u.rank = t.rank /\ u.bank[a.bank] = ClosedNode
<1>1. a.bank \in Bank /\ a.sa \in SubArray /\ a.row \in Row
  BY DEF Address
<1>2. ASSUME BankNames(w, t, a.bank, a.sa), Opening(u, w, a)
      PROVE  /\ u \in Tree /\ u.rank = t.rank /\ u.bank[a.bank] = OpenedNode(t.bank[a.bank], a.sa)
             /\ u.sa[a.bank][a.sa] = OpenedNode(t.sa[a.bank][a.sa], a.row)
  <2>1. w \in Tree /\ w.rank = t.rank /\ w.sa = t.sa /\ w.bank[a.bank] = OpenedNode(t.bank[a.bank], a.sa)
    <3>1. PICK c \in Bank : c = a.bank
      BY <1>1
    <3>2. PICK e \in SubArray : e = a.sa
      BY <1>1
    <3>3. w = [t EXCEPT !.bank[c] = OpenedNode(@, e)]
      BY <1>2, <3>1, <3>2 DEF BankNames
    <3>4. w \in Tree /\ w.rank = t.rank /\ w.sa = t.sa /\ w.bank[c] = OpenedNode(t.bank[c], e)
      BY <3>3, OpenBankFacts
    <3>. QED
      BY <3>1, <3>2, <3>4
  <2>2. u \in Tree /\ u.rank = w.rank /\ u.bank = w.bank /\ u.sa[a.bank][a.sa] = OpenedNode(w.sa[a.bank][a.sa], a.row)
    BY <1>1, <1>2, <2>1, SubArrayMoves
  <2>. QED
    BY <2>1, <2>2
<1>3. ASSUME ClosesWhole(u, t, a.bank)
      PROVE  u \in Tree /\ u.rank = t.rank /\ u.bank[a.bank] = ClosedNode
  <2>1. PICK banks, groups, half :
          banks = {a.bank} /\ groups = {a.bank} \X SubArray /\ half = CloseBanks(t, banks)
    OBVIOUS
  <2>2. half \in Tree /\ half.rank = t.rank /\ half.bank[a.bank] = ClosedNode
    <3>1. /\ half \in Tree /\ half.rank = t.rank
          /\ \A b \in Bank : half.bank[b] = IF b \in banks THEN ClosedNode ELSE t.bank[b]
      BY <2>1, CloseBanksFacts
    <3>. QED
      BY <1>1, <2>1, <3>1
  <2>3. u = CloseSubArrays(half, groups)
    BY <1>3, <2>1 DEF ClosesWhole
  <2>4. u \in Tree /\ u.rank = half.rank /\ u.bank = half.bank
    BY <2>2, <2>3, CloseSubArraysFacts
  <2>. QED
    BY <2>2, <2>4
<1>. QED
  BY <1>2, <1>3

LEMMA DSARPAccessMoves ==
  ASSUME std \in Refreshing, NEW type \in Access, NEW a \in Addresses(type), NEW t \in Tree
  PROVE  Moves(type, t, a)
<1>. DEFINE acc == Accessing(type)
            bank == t.bank[a.bank]
            sa == t.sa[a.bank][a.sa]
            atBank == RowOpen(bank, a.sa, acc)
            cmd == FirstCommand(type, t, a)
            u == After(cmd, t, a)
<1>1. std \in Standard /\ std \notin Flat /\ std \notin SALP
  BY DEF SALP, Standard, WithSubArrays, Flat, Refreshing
<1>2. /\ acc \in {"RD", "WR"}
      /\ cmd = IF t.rank # "PowerUp" THEN MemoryAwake(t)
               ELSE IF atBank # acc THEN atBank ELSE RowOpen(sa, a.row, acc)
  BY DSARPFirst
<1>3. a.bank \in Bank /\ a.sa \in SubArray /\ a.row \in Row /\ a \in Address
  BY AccessAddress
<1>. HIDE DEF acc, cmd
<1>6. \A v : RowLeft(v, a) =
        LET b == v.bank[a.bank]
        IN IF b.state # "Closed" /\ a.sa \in b.rows THEN NodeLeft(v.sa[a.bank][a.sa], a.row)
           ELSE NodeLeft(b, a.sa)
  BY <1>1 DEF RowLeft, SALP
<1>7. t.rank = "PowerUp" =>
        /\ RowLeft(t, a) = 1 => cmd = acc
        /\ RowLeft(t, a) = 2 => cmd = "ACT"
        /\ RowLeft(t, a) = 3 => cmd = "PRE"
  BY <1>2, <1>6 DEF NodeLeft, RowOpen
<1>8. \A c \in {"PDX", "SRX"} : update_state(c, t, a) = Power(t, "PowerUp")
  <2>1. \A c \in {"PDX", "SRX"} : DSARP_lambda("Rank", c, t, a) = Power(t, "PowerUp")
    BY DEF DSARP_lambda, PowerCommand
  <2>. QED
    BY <2>1, DSARPUpdate
<1>9. ASSUME NEW c \in {"RD", "WR", "ACT", "PRE"}
      PROVE  LET w == DSARP_lambda("Bank", c, t, a)
             IN update_state(c, t, a) = IF c = "PRE" THEN w ELSE DSARP_lambda("SubArray", c, w, a)
  <2>1. DSARP_lambda("Rank", c, t, a) = t
    BY DEF DSARP_lambda, PowerCommand
  <2>. QED
    BY <2>1, DSARPUpdate
<1>10. ASSUME t.rank = "PowerUp"
       PROVE  /\ u \in Tree /\ u.rank = "PowerUp"
              /\ RowLeft(t, a) = 1 => cmd = acc
              /\ RowLeft(t, a) = 2 => cmd \in Opens /\ RowLeft(u, a) = 1
              /\ RowLeft(t, a) = 3 => cmd \in Closes /\ RowLeft(u, a) = 2
  <2>. HIDE DEF u
  <2>1. CASE RowLeft(t, a) = 1
    <3>1. cmd = acc
      BY <1>7, <1>10, <2>1
    <3>2. u = t
      BY <1>2, <1>9, <3>1 DEF u, After, get_addr_vec, DSARP_lambda
    <3>. QED
      BY <1>10, <2>1, <3>1, <3>2
  <2>2. CASE RowLeft(t, a) = 2
    <3>1. cmd = "ACT"
      BY <1>7, <1>10, <2>2
    <3>2. PICK w : w = DSARP_lambda("Bank", "ACT", t, a)
      OBVIOUS
    <3>3. BankNames(w, t, a.bank, a.sa)
      BY <3>2 DEF DSARP_lambda, BankNames
    <3>4. u = DSARP_lambda("SubArray", "ACT", w, a)
      BY <1>9, <3>1, <3>2 DEF u, After, get_addr_vec
    <3>5. Opening(u, w, a)
      BY <3>4 DEF DSARP_lambda, Opening
    <3>6. /\ u \in Tree /\ u.rank = t.rank /\ u.bank[a.bank] = OpenedNode(bank, a.sa)
          /\ u.sa[a.bank][a.sa] = OpenedNode(sa, a.row)
      BY <1>3, <3>3, <3>5, DSARPMoves
    <3>7. RowLeft(u, a) = 1
      BY <1>6, <3>6 DEF NodeLeft, OpenedNode
    <3>. QED
      BY <1>10, <2>2, <3>1, <3>6, <3>7 DEF Closes, Opens
  <2>3. CASE RowLeft(t, a) = 3
    <3>1. cmd = "PRE"
      BY <1>7, <1>10, <2>3
    <3>2. ClosesWhole(u, t, a.bank)
      BY <1>9, <3>1 DEF u, After, get_addr_vec, DSARP_lambda, ClosesWhole
    <3>3. u \in Tree /\ u.rank = t.rank /\ u.bank[a.bank] = ClosedNode
      BY <1>3, <3>2, DSARPMoves
    <3>4. RowLeft(u, a) = 2
      BY <1>6, <3>3 DEF NodeLeft, ClosedNode
    <3>. QED
      BY <1>10, <2>3, <3>1, <3>3, <3>4 DEF Closes, Opens
  <2>. QED
    BY <1>6, <2>1, <2>2, <2>3 DEF NodeLeft
<1>11. t.rank # "PowerUp" => cmd = MemoryAwake(t)
  BY <1>2
<1>12. RowLeft(t, a) \in 1 .. 3
  BY <1>6 DEF NodeLeft
<1>13. t.rank = "PowerUp" => cmd \in AccessCommands
  BY <1>2 DEF Refreshing, RowOpen, AccessCommands
<1>. QED
  BY <1>1, <1>8, <1>10, <1>11, <1>12, <1>13, Zenon DEF cmd, acc, u, Moves

\* The nodes that a refresh needs closed.
AllClosed(t) == IF std \in {"SALP_2", "MASA"} THEN SubArraysClosed(t) ELSE BanksClosed(t)

LEMMA RankPrereqs ==
  ASSUME std \in Standard, NEW t, NEW a
  PROVE  /\ prereq(std, "Rank", "PDE", t, a) = ToPowerDown(t)
         /\ prereq(std, "Rank", "SRE", t, a) = ToSelfRefresh(t)
         /\ AllClosed(t) => prereq(std, "Rank", "REF", t, a) = "REF"
         /\ prereq(std, "Rank", "REF", t, a) \in {"REF", "PREA", "PREAF"}
         /\ prereq(std, "Rank", "REF", t, a) = "PREAF" => std = "TLDRAM"
<1>1. /\ DDR3_prereq("Rank", "PDE", t, a) = ToPowerDown(t)
      /\ DDR3_prereq("Rank", "SRE", t, a) = ToSelfRefresh(t)
      /\ DDR3_prereq("Rank", "REF", t, a) = IF BanksClosed(t) THEN "REF" ELSE "PREA"
  BY DEF DDR3_prereq, ReadWrite
<1>2. CASE std \in Plain
  <2>1. AllClosed(t) = BanksClosed(t) /\ std # "TLDRAM"
    BY <1>2 DEF AllClosed, Plain, Flat
  <2>. QED
    BY <1>1, <1>2, <2>1, PlainPrereq
<1>3. CASE std = "TLDRAM"
  <2>1. /\ TLDRAM_prereq("Rank", "PDE", t, a) = DDR3_prereq("Rank", "PDE", t, a)
        /\ TLDRAM_prereq("Rank", "SRE", t, a) = DDR3_prereq("Rank", "SRE", t, a)
        /\ TLDRAM_prereq("Rank", "REF", t, a) =
             IF BanksClosed(t) THEN "REF" ELSE IF Fast(a.bank) THEN "PREAF" ELSE "PREA"
    BY DEF TLDRAM_prereq
  <2>2. AllClosed(t) = BanksClosed(t)
    BY <1>3 DEF AllClosed
  <2>. QED
    BY <1>1, <1>3, <2>1, <2>2, TLDRAMPrereq
<1>4. CASE std \in SALP
  <2>1. \A c : prereq(std, "Rank", c, t, a) = SALP_prereq(std, "Rank", c, t, a)
    BY <1>4 DEF prereq, SALP
  <2>2. /\ SALP_prereq(std, "Rank", "PDE", t, a) = ToPowerDown(t)
        /\ SALP_prereq(std, "Rank", "SRE", t, a) = ToSelfRefresh(t)
    BY DEF SALP_prereq, ReadWrite
  <2>3. SALP_prereq(std, "Rank", "REF", t, a) = IF AllClosed(t) THEN "REF" ELSE "PREA"
    <3>1. CASE std = "SALP_1"
      BY <3>1 DEF SALP_prereq, SALP_1_prereq, ReadWrite, AllClosed
    <3>2. CASE std = "SALP_2"
      BY <3>2 DEF SALP_prereq, SALP_2_prereq, ReadWrite, AllClosed
    <3>3. CASE std = "MASA"
      BY <3>3 DEF SALP_prereq, MASA_prereq, ReadWrite, AllClosed
    <3>. QED
      BY <1>4, <3>1, <3>2, <3>3 DEF SALP
  <2>. QED
    BY <2>1, <2>2, <2>3
<1>5. CASE std \in Refreshing
  <2>1. \A c : prereq(std, "Rank", c, t, a) = DDR3_prereq("Rank", c, t, a)
    BY <1>5 DEF prereq, DSARP_prereq, Refreshing
  <2>2. AllClosed(t) = BanksClosed(t)
    BY <1>5 DEF AllClosed, Refreshing
  <2>. QED
    BY <1>1, <2>1, <2>2
<1>. QED
  BY <1>2, <1>3, <1>4, <1>5, Families

\* A command to the whole rank changes its power state or closes everything.
LEMMA RankUpdates ==
  ASSUME std \in Standard, NEW t \in Tree, NEW a
  PROVE  /\ \A c \in {"PDX", "SRX"} : update_state(c, t, a) = Power(t, "PowerUp")
         /\ \A c \in {"PDE", "SRE", "REF"} : update_state(c, t, a) \in Tree
         /\ \A c \in {"PREA", "PREAF"} :
              (c = "PREAF" => std = "TLDRAM") => update_state(c, t, a) \in Tree /\ AllClosed(update_state(c, t, a))
<1>. DEFINE own == {"PDX", "SRX", "PDE", "SRE", "REF"}
<1>1. ASSUME NEW x, \A c \in own : update_state(c, t, a) = PowerCommand(c, t, x)
      PROVE  /\ \A c \in {"PDX", "SRX"} : update_state(c, t, a) = Power(t, "PowerUp")
             /\ \A c \in {"PDE", "SRE", "REF"} : update_state(c, t, a) \in Tree
  <2>1. \A c \in {"PDX", "SRX"} : PowerCommand(c, t, x) = Power(t, "PowerUp")
    BY DEF PowerCommand
  <2>2. \A c : PowerCommand(c, t, x) \in Tree
    BY PowerFacts
  <2>. QED
    BY <1>1, <2>1, <2>2
<1>2. LET u == CloseBanks(t, Bank) IN u \in Tree /\ BanksClosed(u)
  <2>1. PICK banks : banks = Bank
    OBVIOUS
  <2>2. LET u == CloseBanks(t, banks)
        IN u \in Tree /\ \A b \in Bank : u.bank[b] = IF b \in banks THEN ClosedNode ELSE t.bank[b]
    BY CloseBanksFacts
  <2>. QED
    BY <2>1, <2>2, ClosedNodeType DEF BanksClosed
<1>3. ASSUME NEW v \in Tree
      PROVE  LET u == CloseSubArrays(v, Bank \X SubArray)
             IN u \in Tree /\ SubArraysClosed(u) /\ (BanksClosed(v) => BanksClosed(u))
  <2>1. PICK groups : groups = Bank \X SubArray
    OBVIOUS
  <2>2. LET u == CloseSubArrays(v, groups)
        IN /\ u \in Tree /\ u.bank = v.bank
           /\ \A b \in Bank, s \in SubArray : u.sa[b][s] = IF <<b, s>> \in groups THEN ClosedNode ELSE v.sa[b][s]
    BY CloseSubArraysFacts
  <2>. QED
    BY <2>1, <2>2, ClosedNodeType DEF BanksClosed, SubArraysClosed
<1>4. CASE std \in Plain
  <2>1. \A c \in own : update_state(c, t, a) = PowerCommand(c, t, BanksClosed(t))
    BY <1>4, PlainUpdate DEF DDR3_lambda
  <2>2. update_state("PREA", t, a) = CloseBanks(t, Bank)
    <3>1. DDR3_lambda("Rank", "PREA", t, a) = CloseBanks(t, Bank)
      BY DEF DDR3_lambda
    <3>. QED
      BY <1>4, <3>1, PlainUpdate
  <2>3. std # "TLDRAM" /\ std \notin {"SALP_2", "MASA"}
    BY <1>4 DEF Plain, Flat
  <2>. QED
    BY <1>1, <1>2, <2>1, <2>2, <2>3 DEF AllClosed
<1>5. CASE std = "TLDRAM"
  <2>1. \A c \in own : update_state(c, t, a) = PowerCommand(c, t, BanksClosed(t))
    BY <1>5, TLDRAMUpdate DEF TLDRAM_lambda
  <2>2. \A c \in {"PREA", "PREAF"} : update_state(c, t, a) = CloseBanks(t, Bank)
    BY <1>5, TLDRAMUpdate DEF TLDRAM_lambda
  <2>. QED
    BY <1>1, <1>2, <1>5, <2>1, <2>2 DEF AllClosed
<1>6. CASE std = "SALP_1"
  <2>1. \A c \in own : update_state(c, t, a) = PowerCommand(c, t, BanksClosed(t))
    <3>1. \A c \in own : SALP_1_lambda("Rank", c, t, a) = PowerCommand(c, t, BanksClosed(t))
      BY DEF SALP_1_lambda
    <3>. QED
      BY <1>6, <3>1, SALP1Update
  <2>. DEFINE v == [t EXCEPT !.bank = [b \in Bank |-> [@[b] EXCEPT !.state = "Closed"]]]
  <2>2. v \in Tree /\ BanksClosed(v)
    BY CloseStatesFacts DEF BanksClosed
  <2>3. SALP_1_lambda("Rank", "PREA", t, a) = CloseSubArrays(v, Bank \X SubArray)
    BY DEF SALP_1_lambda
  <2>. HIDE DEF v
  <2>4. update_state("PREA", t, a) = CloseSubArrays(v, Bank \X SubArray)
    BY <1>6, <2>3, SALP1Update
  <2>. QED
    BY <1>1, <1>3, <1>6, <2>1, <2>2, <2>4 DEF AllClosed
<1>7. CASE std = "SALP_2"
  <2>1. \A c \in own : update_state(c, t, a) = PowerCommand(c, t, SubArraysClosed(t))
    <3>1. \A c \in own : SALP_2_lambda("Rank", c, t, a) = PowerCommand(c, t, SubArraysClosed(t))
      BY DEF SALP_2_lambda
    <3>. QED
      BY <1>7, <3>1, SALP2Update
  <2>2. update_state("PREA", t, a) = CloseSubArrays(t, Bank \X SubArray)
    <3>1. SALP_2_lambda("Rank", "PREA", t, a) = CloseSubArrays(t, Bank \X SubArray)
      BY DEF SALP_2_lambda
    <3>. QED
      BY <1>7, <3>1, SALP2Update
  <2>. QED
    BY <1>1, <1>3, <1>7, <2>1, <2>2 DEF AllClosed
<1>8. CASE std = "MASA"
  <2>1. \A c \in own : update_state(c, t, a) = PowerCommand(c, t, SubArraysClosed(t))
    <3>1. \A c \in own : MASA_lambda("Rank", c, t, a) = PowerCommand(c, t, SubArraysClosed(t))
      BY DEF MASA_lambda
    <3>. QED
      BY <1>8, <3>1, MASAUpdate
  <2>2. update_state("PREA", t, a) = CloseSubArrays(t, Bank \X SubArray)
    <3>1. MASA_lambda("Rank", "PREA", t, a) = CloseSubArrays(t, Bank \X SubArray)
      BY DEF MASA_lambda
    <3>. QED
      BY <1>8, <3>1, MASAUpdate
  <2>. QED
    BY <1>1, <1>3, <1>8, <2>1, <2>2 DEF AllClosed
<1>9. CASE std \in Refreshing
  <2>1. \A c \in own : update_state(c, t, a) = PowerCommand(c, t, SubArraysClosed(t))
    <3>1. \A c \in own : DSARP_lambda("Rank", c, t, a) = PowerCommand(c, t, SubArraysClosed(t))
      BY DEF DSARP_lambda
    <3>. QED
      BY <1>9, <3>1, DSARPUpdate
  <2>2. update_state("PREA", t, a) = CloseSubArrays(CloseBanks(t, Bank), Bank \X SubArray)
    <3>1. DSARP_lambda("Rank", "PREA", t, a) = CloseSubArrays(CloseBanks(t, Bank), Bank \X SubArray)
      BY DEF DSARP_lambda
    <3>. QED
      BY <1>9, <3>1, DSARPUpdate
  <2>3. std # "TLDRAM" /\ std \notin {"SALP_2", "MASA"}
    BY <1>9 DEF Refreshing
  <2>4. update_state("PREA", t, a) \in Tree /\ AllClosed(update_state("PREA", t, a))
    BY <1>2, <1>3, <2>2, <2>3 DEF AllClosed
  <2>. QED
    BY <1>1, <2>1, <2>3, <2>4
<1>. QED
  BY <1>4, <1>5, <1>6, <1>7, <1>8, <1>9, Families DEF SALP

\* The commands before a request's own that is not an access.
Leads(cmd, own, t) ==
  \/ cmd = "SRX" /\ t.rank = "SelfRefresh"
  \/ cmd = "PDX" /\ own = "SRE"
  \/ cmd \in {"PREA", "PREAF"} /\ own = "REF" /\ (cmd = "PREAF" => std = "TLDRAM")
  \/ cmd = "PRE" /\ own = "REFPB"
LeadsTo(type, t, a) ==
  LET cmd == FirstCommand(type, t, a)
      own == Accessing(type)
  IN cmd = own \/ (FirstCommand(type, After(cmd, t, a), a) = own /\ Leads(cmd, own, t))

\* A request for the whole rank is issued, or the next command is its own.
LEMMA RankProgresses ==
  ASSUME std \in Standard, NEW type \in Request \ Access, NEW a \in Addresses(type), NEW t \in Tree,
         Accessing(type) \in {"REF", "PDE", "SRE"}
  PROVE  Progresses(type, t, a) /\ LeadsTo(type, t, a)
<1>. DEFINE own == Accessing(type)
            cmd == FirstCommand(type, t, a)
            u == After(cmd, t, a)
<1>1. a.bank = None
  BY DEF Addresses, Accessing, WholeRank
<1>2. \A v : FirstCommand(type, v, a) = IF prereq(std, "Rank", own, v, a) # "MAX" THEN prereq(std, "Rank", own, v, a) ELSE own
  BY <1>1 DEF FirstCommand, decode, Accessing
<1>3. \A c : c # "PRE_OTHER" => After(c, t, a) = update_state(c, t, a)
  BY DEF After, get_addr_vec
<1>. HIDE DEF own, cmd, u
<1>4. u \in Tree /\ (cmd = own \/ (FirstCommand(type, u, a) = own /\ Leads(cmd, own, t)))
  <2>1. CASE own = "PDE"
    <3>1. \A v : FirstCommand(type, v, a) = ToPowerDown(v)
      BY <1>2, <2>1, RankPrereqs DEF ToPowerDown
    <3>2. CASE t.rank = "SelfRefresh"
      <4>1. cmd = "SRX"
        BY <3>1, <3>2 DEF cmd, ToPowerDown
      <4>2. u = Power(t, "PowerUp")
        BY <1>3, <4>1, RankUpdates DEF u
      <4>3. u \in Tree /\ u.rank = "PowerUp"
        BY <4>2, WakeFacts
      <4>. QED
        BY <2>1, <3>1, <3>2, <4>1, <4>3 DEF ToPowerDown, Leads
    <3>3. CASE t.rank # "SelfRefresh"
      <4>1. cmd = "PDE"
        BY <3>1, <3>3 DEF cmd, ToPowerDown
      <4>. QED
        BY <1>3, <2>1, <4>1, RankUpdates DEF u
    <3>. QED
      BY <3>2, <3>3
  <2>2. CASE own = "SRE"
    <3>1. \A v : FirstCommand(type, v, a) = ToSelfRefresh(v)
      BY <1>2, <2>2, RankPrereqs DEF ToSelfRefresh
    <3>2. CASE t.rank \in {"ActPowerDown", "PrePowerDown"}
      <4>1. cmd = "PDX"
        BY <3>1, <3>2 DEF cmd, ToSelfRefresh
      <4>2. u = Power(t, "PowerUp")
        BY <1>3, <4>1, RankUpdates DEF u
      <4>3. u \in Tree /\ u.rank = "PowerUp"
        BY <4>2, WakeFacts
      <4>. QED
        BY <2>2, <3>1, <4>1, <4>3 DEF ToSelfRefresh, Leads
    <3>3. CASE t.rank \notin {"ActPowerDown", "PrePowerDown"}
      <4>1. cmd = "SRE"
        BY <3>1, <3>3 DEF cmd, ToSelfRefresh
      <4>. QED
        BY <1>3, <2>2, <4>1, RankUpdates DEF u
    <3>. QED
      BY <3>2, <3>3
  <2>3. CASE own = "REF"
    <3>1. \A v : /\ FirstCommand(type, v, a) \in {"REF", "PREA", "PREAF"}
                 /\ AllClosed(v) => FirstCommand(type, v, a) = "REF"
                 /\ FirstCommand(type, v, a) = "PREAF" => std = "TLDRAM"
      BY <1>2, <2>3, RankPrereqs
    <3>2. cmd \in {"REF", "PREA", "PREAF"} /\ (cmd = "PREAF" => std = "TLDRAM")
      BY <3>1 DEF cmd
    <3>3. u = update_state(cmd, t, a)
      BY <1>3, <3>2 DEF u
    <3>4. CASE cmd = "REF"
      BY <2>3, <3>3, <3>4, RankUpdates
    <3>5. CASE cmd # "REF"
      <4>1. u \in Tree /\ AllClosed(u)
        BY <3>2, <3>3, <3>5, RankUpdates
      <4>. QED
        BY <2>3, <3>1, <3>2, <3>5, <4>1 DEF Leads
    <3>. QED
      BY <3>4, <3>5
  <2>. QED
    BY <2>1, <2>2, <2>3 DEF own
<1>. QED
  BY <1>4 DEF Progresses, CommandsLeft, LeadsTo, own, cmd, u

ClearsRows(u, t, c) == u = [t EXCEPT !.bank[c].rows = {}]

\* A bank that is open is closed and then refreshed.
LEMMA BankProgresses ==
  ASSUME std = "DSARP", NEW type \in Request \ Access, NEW a \in Addresses(type), NEW t \in Tree,
         Accessing(type) = "REFPB"
  PROVE  Progresses(type, t, a) /\ LeadsTo(type, t, a) /\ a.bank \in Bank
<1>. DEFINE cmd == FirstCommand(type, t, a)
            u == After(cmd, t, a)
<1>1. type = "REFRESH"
  BY DSARPSpec DEF Accessing, Request, Access
<1>2. a.bank \in Bank
  <2>1. Addresses(type) = {[x EXCEPT !.row = None] : x \in Address}
    BY <1>1 DEF Addresses, Accessing, Access
  <2>. QED
    BY <2>1 DEF Address
<1>3. \A v : FirstCommand(type, v, a) = PerBankRefresh(v, a)
  <2>. SUFFICES ASSUME NEW v PROVE FirstCommand(type, v, a) = PerBankRefresh(v, a)
    OBVIOUS
  <2>1. prereq(std, "Rank", "REFPB", v, a) = "MAX"
    BY DDR3First DEF prereq, DSARP_prereq
  <2>2. prereq(std, "Bank", "REFPB", v, a) = PerBankRefresh(v, a)
    BY DEF prereq, DSARP_prereq, ReadWrite
  <2>3. PerBankRefresh(v, a) # "MAX" /\ a.bank # None
    BY <1>2, StandardsAssumption DEF PerBankRefresh, None
  <2>4. FirstCommand(type, v, a) = decode("REFPB", v, a)
    BY DEF FirstCommand, Accessing
  <2>. QED
    BY <2>1, <2>2, <2>3, <2>4 DEF decode
<1>4. \A c \in {"PRE", "REFPB"} : After(c, t, a) = DSARP_lambda("Bank", c, t, a)
  <2>1. \A c \in {"PRE", "REFPB"} : DSARP_lambda("Rank", c, t, a) = t
    BY DEF DSARP_lambda, PowerCommand
  <2>. QED
    BY <2>1, DSARPUpdate DEF After, get_addr_vec, Refreshing
<1>. HIDE DEF cmd, u
<1>5. u \in Tree /\ (cmd = "REFPB" \/ (FirstCommand(type, u, a) = "REFPB" /\ Leads(cmd, "REFPB", t)))
  <2>1. CASE t.bank[a.bank].state = "Closed"
    <3>1. cmd = "REFPB"
      BY <1>3, <2>1 DEF cmd, PerBankRefresh
    <3>2. ClearsRows(u, t, a.bank)
      BY <1>4, <3>1 DEF u, DSARP_lambda, ClearsRows
    <3>3. PICK c \in Bank : ClearsRows(u, t, c)
      BY <1>2, <3>2
    <3>4. u \in Tree
      <4>. DEFINE n == [t.bank[c] EXCEPT !.rows = {}]
      <4>1. n \in Node({"Opened", "Closed"})
        BY TreeFields DEF Nodes, Node
      <4>2. u = [rank |-> t.rank, bank |-> [t.bank EXCEPT ![c] = n], sa |-> t.sa]
        BY <3>3, TreeFields DEF ClearsRows
      <4>. HIDE DEF n
      <4>. QED
        BY <4>1, <4>2, TreeFields DEF Tree, Nodes, SaNodes
    <3>. QED
      BY <3>1, <3>4
  <2>2. CASE t.bank[a.bank].state # "Closed"
    <3>1. cmd = "PRE"
      BY <1>3, <2>2 DEF cmd, PerBankRefresh
    <3>2. u = CloseSubArrays(CloseBanks(t, {a.bank}), {a.bank} \X SubArray)
      BY <1>4, <3>1 DEF u, DSARP_lambda
    <3>3. u \in Tree /\ u.bank[a.bank] = ClosedNode
      <4>1. PICK banks, groups, v :
              banks = {a.bank} /\ groups = {a.bank} \X SubArray /\ v = CloseBanks(t, banks)
        OBVIOUS
      <4>2. v \in Tree /\ \A b \in Bank : v.bank[b] = IF b \in banks THEN ClosedNode ELSE t.bank[b]
        BY <4>1, CloseBanksFacts
      <4>3. u \in Tree /\ u.bank = v.bank
        BY <3>2, <4>1, <4>2, CloseSubArraysFacts
      <4>. QED
        BY <1>2, <4>1, <4>2, <4>3
    <3>. QED
      BY <1>3, <3>1, <3>3 DEF PerBankRefresh, ClosedNode, Leads
  <2>. QED
    BY <2>1, <2>2
<1>. QED
  BY <1>2, <1>5 DEF Progresses, CommandsLeft, LeadsTo, cmd, u

LEMMA MaxCommandsFacts == Cardinality(SubArray) \in Nat \ {0} /\ MaxCommands = 3 + Cardinality(SubArray)
<1>1. IsFiniteSet(SubArray) /\ SubArray # {}
  BY StandardsAssumption
<1>. QED
  BY <1>1, FS_CardinalityType, FS_EmptySet DEF MaxCommands

\* The own commands of the requests that are not accesses.
LEMMA OwnCommands ==
  ASSUME std \in Standard, NEW type \in Request \ Access
  PROVE  Accessing(type) \in {"REF", "PDE", "SRE"} \/ (Accessing(type) = "REFPB" /\ std = "DSARP")
<1>1. CASE std \in Plain
  BY <1>1, PlainSpec DEF Accessing, Request, Access
<1>2. CASE std = "TLDRAM"
  BY <1>2, TLDRAMSpec DEF Accessing, Request, Access
<1>3. CASE std \in SALP
  BY <1>3, SALPSpec DEF Accessing, Request, Access, SALP
<1>4. CASE std \in Refreshing
  BY <1>4, DSARPSpec DEF Accessing, Request, Access, Refreshing
<1>. QED
  BY <1>1, <1>2, <1>3, <1>4, Families

LEMMA EveryRequestProgresses ==
  ASSUME std \in Standard, NEW type \in Request, NEW a \in Addresses(type), NEW t \in Tree
  PROVE  Progresses(type, t, a) /\ CommandsLeft(type, t, a) \in 1 .. MaxCommands
<1>1. CASE type \in Access
  <2>1. std \in Plain \cup {"TLDRAM", "SALP_1", "SALP_2", "MASA"} \cup Refreshing
    BY Families DEF SALP
  <2>2. CASE std = "SALP_2"
    BY <1>1, <2>2, SALP2Progresses, MaxCommandsFacts DEF CommandsLeft
  <2>3. CASE std # "SALP_2"
    <3>1. Moves(type, t, a)
      BY <1>1, <2>1, <2>3, PlainMoves, TLDRAMMoves, SALP1Moves, MASAMoves, DSARPAccessMoves
    <3>2. Progresses(type, t, a) /\ RowLeft(t, a) \in 1 .. 3
      BY <1>1, <3>1, MovesProgress DEF Moves
    <3>. QED
      BY <1>1, <3>2, MaxCommandsFacts DEF CommandsLeft
  <2>. QED
    BY <2>2, <2>3
<1>2. CASE type \notin Access
  <2>1. CommandsLeft(type, t, a) \in 1 .. 2
    BY <1>2 DEF CommandsLeft
  <2>2. Accessing(type) \in {"REF", "PDE", "SRE"} \/ (Accessing(type) = "REFPB" /\ std = "DSARP")
    BY <1>2, OwnCommands
  <2>3. Progresses(type, t, a)
    BY <1>2, <2>2, RankProgresses, BankProgresses
  <2>. QED
    BY <2>1, <2>3, MaxCommandsFacts
<1>. QED
  BY <1>1, <1>2

Served == [t : Tree, done : BOOLEAN]

\* The next command of a request is its last one, or leaves fewer.
LEMMA NextCommandFacts ==
  ASSUME std \in Standard, NEW type \in Request, NEW a \in Addresses(type), NEW x \in Served
  PROVE  LET y == NextCommand(type, a, x)
         IN /\ y \in Served /\ (x.done => y.done)
            /\ CommandsLeft(type, x.t, a) \in 1 .. MaxCommands
            /\ y.done \/ CommandsLeft(type, y.t, a) < CommandsLeft(type, x.t, a)
<1>. DEFINE cmd == FirstCommand(type, x.t, a)
            y == NextCommand(type, a, x)
<1>1. x.t \in Tree
  BY DEF Served
<1>2. Progresses(type, x.t, a) /\ CommandsLeft(type, x.t, a) \in 1 .. MaxCommands
  BY <1>1, EveryRequestProgresses
<1>3. CASE x.done
  BY <1>2, <1>3 DEF NextCommand
<1>4. CASE ~x.done
  <2>. HIDE DEF cmd
  <2>1. y = [t |-> After(cmd, x.t, a), done |-> cmd = Accessing(type)]
    BY <1>4 DEF NextCommand, Accessing, cmd
  <2>2. /\ After(cmd, x.t, a) \in Tree
        /\ cmd = Accessing(type) \/ CommandsLeft(type, After(cmd, x.t, a), a) < CommandsLeft(type, x.t, a)
    BY <1>2 DEF Progresses, cmd
  <2>3. y \in Served
    BY <2>1, <2>2 DEF Served
  <2>. HIDE DEF y
  <2>4. y.t = After(cmd, x.t, a) /\ (y.done <=> cmd = Accessing(type))
    BY <2>1
  <2>. QED
    BY <1>2, <1>4, <2>2, <2>3, <2>4 DEF y
<1>. QED
  BY <1>3, <1>4

\* f serves a request, command by command, from first on.
Serves(f, type, a, first) ==
  f = [n \in 0 .. MaxCommands |-> IF n = 0 THEN first ELSE NextCommand(type, a, f[n - 1])]

LEMMA ServesExist ==
  ASSUME std \in Standard, NEW type \in Request, NEW a \in Addresses(type), NEW first \in Served
  PROVE  \E f \in [0 .. MaxCommands -> Served] : Serves(f, type, a, first)
<1>. DEFINE step == [n \in 0 .. MaxCommands - 1 |-> [x \in Served |-> NextCommand(type, a, x)]]
<1>1. step \in [0 .. MaxCommands - 1 -> [Served -> Served]]
  BY NextCommandFacts
<1>2. MaxCommands \in Nat
  BY MaxCommandsFacts
<1>3. PICK f \in [0 .. MaxCommands -> Served] : Iterates(f, MaxCommands, first, step)
  <2>. HIDE DEF step
  <2>. QED
    BY <1>1, <1>2, Recursion
<1>4. ASSUME NEW n \in 0 .. MaxCommands, n # 0
      PROVE  step[n - 1][f[n - 1]] = NextCommand(type, a, f[n - 1])
  <2>1. n - 1 \in 0 .. MaxCommands - 1 /\ f[n - 1] \in Served
    BY <1>2, <1>4
  <2>. QED
    BY <2>1
<1>. HIDE DEF step
<1>5. Serves(f, type, a, first)
  BY <1>3, <1>4 DEF Serves, Iterates
<1>. QED
  BY <1>5

\* After as many commands as it may have left, a request is done.
LEMMA Serviced ==
  ASSUME std \in Standard, NEW type \in Request, NEW a \in Addresses(type), NEW first \in Served,
         NEW f, Serves(f, type, a, first)
  PROVE  f[MaxCommands].done
<1>1. MaxCommands \in Nat /\ 0 \in 0 .. MaxCommands /\ MaxCommands \in 0 .. MaxCommands
  BY MaxCommandsFacts
<1>2. f[0] = first /\ \A n \in 0 .. MaxCommands - 1 : f[n + 1] = NextCommand(type, a, f[n])
  <2>1. \A n \in 0 .. MaxCommands : f[n] = IF n = 0 THEN first ELSE NextCommand(type, a, f[n - 1])
    BY DEF Serves
  <2>2. ASSUME NEW n \in 0 .. MaxCommands - 1 PROVE f[n + 1] = NextCommand(type, a, f[n])
    <3>1. n + 1 \in 0 .. MaxCommands /\ n + 1 # 0 /\ n + 1 - 1 = n
      BY <1>1
    <3>. QED
      BY <2>1, <3>1
  <2>. QED
    BY <1>1, <2>1, <2>2
<1>. DEFINE T == {n \in 0 .. MaxCommands :
                   f[n] \in Served /\ (f[n].done \/ CommandsLeft(type, f[n].t, a) <= MaxCommands - n)}
<1>3. 0 \in T
  <2>1. CommandsLeft(type, first.t, a) \in 1 .. MaxCommands
    BY NextCommandFacts
  <2>. QED
    BY <1>1, <1>2, <2>1
<1>4. ASSUME NEW n \in 0 .. MaxCommands - 1, n \in T PROVE n + 1 \in T
  <2>1. PICK x \in Served : x = f[n]
    BY <1>4
  <2>2. PICK y : y = NextCommand(type, a, x)
    OBVIOUS
  <2>3. /\ y \in Served /\ (x.done => y.done)
        /\ CommandsLeft(type, x.t, a) \in 1 .. MaxCommands
        /\ y.done \/ CommandsLeft(type, y.t, a) < CommandsLeft(type, x.t, a)
    BY <2>2, NextCommandFacts
  <2>4. CommandsLeft(type, y.t, a) \in 1 .. MaxCommands
    BY <2>3, NextCommandFacts
  <2>5. f[n + 1] = y
    BY <1>2, <2>1, <2>2
  <2>6. x.done \/ CommandsLeft(type, x.t, a) <= MaxCommands - n
    BY <1>4, <2>1
  <2>7. y.done \/ CommandsLeft(type, y.t, a) <= MaxCommands - (n + 1)
    BY <1>1, <2>3, <2>4, <2>6
  <2>. QED
    BY <1>1, <2>3, <2>5, <2>7
<1>5. 0 .. MaxCommands \subseteq T
  <2>. HIDE DEF T
  <2>. QED
    BY <1>1, <1>3, <1>4, Induction
<1>6. f[MaxCommands] \in Served /\ (f[MaxCommands].done \/ CommandsLeft(type, f[MaxCommands].t, a) <= 0)
  BY <1>1, <1>5
<1>7. CommandsLeft(type, f[MaxCommands].t, a) >= 1
  BY <1>1, <1>6, NextCommandFacts
<1>8. CommandsLeft(type, f[MaxCommands].t, a) \in Nat
  BY <1>1, <1>6, NextCommandFacts
<1>. QED
  BY <1>6, <1>7, <1>8

\* Whatever state the channel is in and whatever the standard, a request that is
\* served alone (get_first_cmd, decode, update_state) is done after three commands
\* and one for each subarray: no standard opens for a request what it then has to
\* close for it again, and each precharge of another subarray is one less to come.
THEOREM RequestsAlwaysProgress == Spec => []RequestsProgress
<1>1. ASSUME IInv PROVE RequestsProgress
  <2>1. std \in Standard /\ tree \in Tree
    BY <1>1 DEF IInv, Typed
  <2>2. PICK first : first = [t |-> tree, done |-> FALSE]
    OBVIOUS
  <2>3. first \in Served
    BY <2>1, <2>2 DEF Served
  <2>4. ASSUME NEW type \in Request, NEW a \in Addresses(type)
        PROVE  LET s == CHOOSE f : Serves(f, type, a, first) IN s[MaxCommands].done
    <3>1. Serves(CHOOSE f : Serves(f, type, a, first), type, a, first)
      <4>1. \E f : Serves(f, type, a, first)
        BY <2>1, <2>3, ServesExist
      <4>. QED
        BY <4>1, Zenon
    <3>. QED
      BY <2>1, <2>3, <3>1, Serviced
  <2>. QED
    BY <2>2, <2>4 DEF RequestsProgress, Serves
<1>. QED
  BY <1>1, Invariance, PTL

-----------------------------------------------------------------------------
(* The timing tables.  The data of accesses stays apart: the constraints   *)
(* on the bus and on reads and writes of one rank and of two, standard by  *)
(* standard.                                                               *)

\* a constraint on the last command, and that the tables have it
Constraint(level, from, to, val, sibling) ==
  [level |-> level, from |-> from, to |-> to, dist |-> 1, val |-> val, sibling |-> sibling]

LEMMA InRows ==
  ASSUME NEW level, NEW from, NEW to, NEW val, NEW c \in from, NEW d \in to
  PROVE  /\ Constraint(level, c, d, val, FALSE) \in Rows(level, from, to, val)
         /\ Constraint(level, c, d, val, TRUE) \in Siblings(level, from, to, val)
<1>1. ASSUME NEW sibling
      PROVE  Constraint(level, c, d, val, sibling) \in Constraints(level, from, to, 1, val, sibling)
  BY DEF Constraint, Constraints
<1>. QED
  BY <1>1 DEF Rows, Siblings

\* DataBusExclusive: the latency of an access, how late the strobe of a read is, and
\* constraint r of a table as long as the data of the two commands need.
Latency(c, s, dqsck) == IF c = "WR" THEN s.nCWL ELSE s.nCL + dqsck
Strobe(s) == IF "nDQSCK" \in DOMAIN s THEN s.nDQSCK ELSE 0
Spaced(r, s) ==
  r.val + Latency(r.to, s, Strobe(s)) >= Latency(r.from, s, Strobe(s)) + s.nBL

\* the accesses among commands have, among the constraints rows, one that is
KeepsApart(rows, commands, s) ==
  \A from, to \in commands : \E r \in rows : r.from = from /\ r.to = to /\ Spaced(r, s)

Shared(T) == {r \in T : r.level = "Channel"}
RankRows(T, sibling) == {r \in T : r.level = "Rank" /\ r.sibling = sibling}
Burst(s) == s.nBL \in Nat /\ s.nCL \in Nat /\ s.nCWL \in Nat /\ Strobe(s) \in Nat

\* Two reads or two writes are apart by the bus itself, a read and a write by the rank.
LEMMA ColumnsKeepApart ==
  ASSUME NEW T, NEW s, Burst(s), Bus(s) \subseteq T,
         NEW ccd, NEW rtw \in Int, NEW wtr \in Int, Columns("Rank", ccd, rtw, wtr) \subseteq T,
         rtw + s.nCWL >= s.nCL + Strobe(s) + s.nBL, wtr + s.nCL + Strobe(s) >= s.nCWL + s.nBL
  PROVE  KeepsApart(Shared(T) \cup RankRows(T, FALSE), {"RD", "WR"}, s)
<1>1. ASSUME NEW c \in {"RD", "WR"}
      PROVE  \E r \in Shared(T) \cup RankRows(T, FALSE) : r.from = c /\ r.to = c /\ Spaced(r, s)
  <2>1. Constraint("Channel", c, c, s.nBL, FALSE) \in Shared(T)
    BY InRows DEF Bus, Read, Write, Shared, Constraint
  <2>2. Spaced(Constraint("Channel", c, c, s.nBL, FALSE), s)
    BY DEF Burst, Latency, Spaced, Constraint
  <2>. QED
    BY <2>1, <2>2 DEF Constraint
<1>2. \E r \in Shared(T) \cup RankRows(T, FALSE) : r.from = "RD" /\ r.to = "WR" /\ Spaced(r, s)
  <2>1. Constraint("Rank", "RD", "WR", rtw, FALSE) \in RankRows(T, FALSE)
    BY InRows DEF Columns, Read, Write, RankRows, Constraint
  <2>2. Spaced(Constraint("Rank", "RD", "WR", rtw, FALSE), s)
    BY DEF Burst, Latency, Spaced, Constraint
  <2>. QED
    BY <2>1, <2>2 DEF Constraint
<1>3. \E r \in Shared(T) \cup RankRows(T, FALSE) : r.from = "WR" /\ r.to = "RD" /\ Spaced(r, s)
  <2>1. Constraint("Rank", "WR", "RD", wtr, FALSE) \in RankRows(T, FALSE)
    BY InRows DEF Columns, Read, Write, RankRows, Constraint
  <2>2. Spaced(Constraint("Rank", "WR", "RD", wtr, FALSE), s)
    BY DEF Burst, Latency, Spaced, Constraint
  <2>. QED
    BY <2>1, <2>2 DEF Constraint
<1>. QED
  BY <1>1, <1>2, <1>3 DEF KeepsApart

\* Between ranks too, two writes are apart by the bus.
LEMMA OtherRanksKeepApart ==
  ASSUME NEW T, NEW s, Burst(s), s.nRTRS \in Nat, Bus(s) \subseteq T,
         NEW extra \in Nat, OtherRanks(s, extra) \subseteq T, extra + s.nRTRS >= Strobe(s)
  PROVE  KeepsApart(Shared(T) \cup RankRows(T, TRUE), {"RD", "WR"}, s)
<1>1. ASSUME NEW c \in {"RD", "WR"}
      PROVE  \E r \in Shared(T) \cup RankRows(T, TRUE) : r.from = c /\ r.to = c /\ Spaced(r, s)
  <2>1. Constraint("Channel", c, c, s.nBL, FALSE) \in Shared(T)
    BY InRows DEF Bus, Read, Write, Shared, Constraint
  <2>2. Spaced(Constraint("Channel", c, c, s.nBL, FALSE), s)
    BY DEF Burst, Latency, Spaced, Constraint
  <2>. QED
    BY <2>1, <2>2 DEF Constraint
<1>2. \E r \in Shared(T) \cup RankRows(T, TRUE) : r.from = "RD" /\ r.to = "WR" /\ Spaced(r, s)
  <2>. DEFINE rtw == s.nCL + s.nBL + extra + s.nRTRS - s.nCWL
  <2>1. Constraint("Rank", "RD", "WR", rtw, TRUE) \in RankRows(T, TRUE)
    BY InRows DEF OtherRanks, Read, Write, RankRows, Constraint
  <2>2. Spaced(Constraint("Rank", "RD", "WR", rtw, TRUE), s)
    BY DEF Burst, Latency, Spaced, Constraint
  <2>. QED
    BY <2>1, <2>2 DEF Constraint
<1>3. \E r \in Shared(T) \cup RankRows(T, TRUE) : r.from = "WR" /\ r.to = "RD" /\ Spaced(r, s)
  <2>. DEFINE wtr == s.nCWL + s.nBL + s.nRTRS - s.nCL
  <2>1. Constraint("Rank", "WR", "RD", wtr, TRUE) \in RankRows(T, TRUE)
    BY InRows DEF OtherRanks, Read, Write, RankRows, Constraint
  <2>2. Spaced(Constraint("Rank", "WR", "RD", wtr, TRUE), s)
    BY DEF Burst, Latency, Spaced, Constraint
  <2>. QED
    BY <2>1, <2>2 DEF Constraint
<1>. QED
  BY <1>1, <1>2, <1>3 DEF KeepsApart

\* the standards whose chips are of one rank, or have nothing between ranks
OneRank == {"GDDR5", "WideIO", "HBM"}

\* Data stays apart by table T with speeds s: of one rank, of two ranks.
RankApart(T, s, commands) == KeepsApart(Shared(T) \cup RankRows(T, FALSE), commands, s)
RanksApart(T, s, commands) == KeepsApart(Shared(T) \cup RankRows(T, TRUE), commands, s)

\* Standard by standard, from its own speeds and its own init_timing.
LEMMA DDR3Apart ==
  ASSUME NEW T, DDR3_timing(DDR3_speed) \subseteq T
  PROVE  RankApart(T, DDR3_speed, {"RD", "WR"}) /\ RanksApart(T, DDR3_speed, {"RD", "WR"})
<1>. DEFINE s == DDR3_speed
            rtw == s.nCL + s.nCCD + 2 - s.nCWL
            wtr == s.nCWL + s.nBL + s.nWTR
            extra == 0
<1>1. /\ s.nBL = 4 /\ s.nCL = 11 /\ s.nCWL = 8 /\ s.nRTRS = 2 /\ s.nCCD = 4 /\ s.nWTR = 6
      /\ Strobe(s) = 0
  BY DEF DDR3_speed, DDR3_table, Strobe
<1>. HIDE DEF s
<1>2. /\ Burst(s) /\ rtw \in Int /\ wtr \in Int /\ extra \in Nat
      /\ rtw + s.nCWL >= s.nCL + Strobe(s) + s.nBL /\ wtr + s.nCL + Strobe(s) >= s.nCWL + s.nBL
      /\ s.nRTRS \in Nat /\ extra + s.nRTRS >= Strobe(s)
  BY <1>1 DEF Burst
<1>3. /\ Bus(s) \subseteq T /\ Columns("Rank", s.nCCD, rtw, wtr) \subseteq T
      /\ OtherRanks(s, extra) \subseteq T
  BY DEF s, DDR3_timing, DDR3_rank
<1>. HIDE DEF rtw, wtr, extra
<1>4. RankApart(T, s, {"RD", "WR"}) /\ RanksApart(T, s, {"RD", "WR"})
  BY <1>2, <1>3, ColumnsKeepApart, OtherRanksKeepApart DEF RankApart, RanksApart
<1>. QED
  BY <1>4 DEF s

LEMMA DDR4Apart ==
  ASSUME NEW T, DDR4_timing(DDR4_speed) \subseteq T
  PROVE  RankApart(T, DDR4_speed, {"RD", "WR"}) /\ RanksApart(T, DDR4_speed, {"RD", "WR"})
<1>. DEFINE s == DDR4_speed
            rtw == s.nCL + s.nBL + 2 - s.nCWL
            wtr == s.nCWL + s.nBL + s.nWTRS
            extra == 0
<1>1. /\ s.nBL = 4 /\ s.nCL = 16 /\ s.nCWL = 12 /\ s.nRTRS = 2 /\ s.nCCDS = 4 /\ s.nWTRS = 3
      /\ Strobe(s) = 0
  BY DEF DDR4_speed, DDR4_table, Strobe
<1>. HIDE DEF s
<1>2. /\ Burst(s) /\ rtw \in Int /\ wtr \in Int /\ extra \in Nat
      /\ rtw + s.nCWL >= s.nCL + Strobe(s) + s.nBL /\ wtr + s.nCL + Strobe(s) >= s.nCWL + s.nBL
      /\ s.nRTRS \in Nat /\ extra + s.nRTRS >= Strobe(s)
  BY <1>1 DEF Burst
<1>3. /\ Bus(s) \subseteq T /\ Columns("Rank", s.nCCDS, rtw, wtr) \subseteq T
      /\ OtherRanks(s, extra) \subseteq T
  BY DEF s, DDR4_timing
<1>. HIDE DEF rtw, wtr, extra
<1>4. RankApart(T, s, {"RD", "WR"}) /\ RanksApart(T, s, {"RD", "WR"})
  BY <1>2, <1>3, ColumnsKeepApart, OtherRanksKeepApart DEF RankApart, RanksApart
<1>. QED
  BY <1>4 DEF s

LEMMA LPDDR3Apart ==
  ASSUME NEW T, LPDDR3_timing(LPDDR3_speed) \subseteq T
  PROVE  RankApart(T, LPDDR3_speed, {"RD", "WR"}) /\ RanksApart(T, LPDDR3_speed, {"RD", "WR"})
<1>. DEFINE s == LPDDR3_speed
            rtw == s.nCL + s.nBL + s.nDQSCK + 1 - s.nCWL
            wtr == s.nCWL + s.nBL + s.nWTR + 1
            extra == s.nDQSCK + 1
<1>1. /\ s.nBL = 4 /\ s.nCL = 12 /\ s.nCWL = 6 /\ s.nRTRS = 2 /\ s.nCCD = 4 /\ s.nDQSCK = 2 /\ s.nWTR = 6
      /\ Strobe(s) = 2
  BY DEF LPDDR3_speed, LPDDR3_table, Strobe
<1>. HIDE DEF s
<1>2. /\ Burst(s) /\ rtw \in Int /\ wtr \in Int /\ extra \in Nat
      /\ rtw + s.nCWL >= s.nCL + Strobe(s) + s.nBL /\ wtr + s.nCL + Strobe(s) >= s.nCWL + s.nBL
      /\ s.nRTRS \in Nat /\ extra + s.nRTRS >= Strobe(s)
  BY <1>1 DEF Burst
<1>3. /\ Bus(s) \subseteq T /\ Columns("Rank", s.nCCD, rtw, wtr) \subseteq T
      /\ OtherRanks(s, extra) \subseteq T
  BY DEF s, LPDDR3_timing
<1>. HIDE DEF rtw, wtr, extra
<1>4. RankApart(T, s, {"RD", "WR"}) /\ RanksApart(T, s, {"RD", "WR"})
  BY <1>2, <1>3, ColumnsKeepApart, OtherRanksKeepApart DEF RankApart, RanksApart
<1>. QED
  BY <1>4 DEF s

LEMMA LPDDR4Apart ==
  ASSUME NEW T, LPDDR4_timing(LPDDR4_speed) \subseteq T
  PROVE  RankApart(T, LPDDR4_speed, {"RD", "WR"}) /\ RanksApart(T, LPDDR4_speed, {"RD", "WR"})
<1>. DEFINE s == LPDDR4_speed
            rtw == s.nCL + s.nBL + s.nDQSCK + 1 - s.nCWL
            wtr == s.nCWL + s.nBL + s.nWTR + 1
            extra == s.nDQSCK + 1
<1>1. /\ s.nBL = 8 /\ s.nCL = 25 /\ s.nCWL = 14 /\ s.nRTRS = 2 /\ s.nCCD = 8 /\ s.nDQSCK = 2 /\ s.nWTR = 12
      /\ Strobe(s) = 2
  BY DEF LPDDR4_speed, LPDDR4_table, Strobe
<1>. HIDE DEF s
<1>2. /\ Burst(s) /\ rtw \in Int /\ wtr \in Int /\ extra \in Nat
      /\ rtw + s.nCWL >= s.nCL + Strobe(s) + s.nBL /\ wtr + s.nCL + Strobe(s) >= s.nCWL + s.nBL
      /\ s.nRTRS \in Nat /\ extra + s.nRTRS >= Strobe(s)
  BY <1>1 DEF Burst
<1>3. /\ Bus(s) \subseteq T /\ Columns("Rank", s.nCCD, rtw, wtr) \subseteq T
      /\ OtherRanks(s, extra) \subseteq T
  BY DEF s, LPDDR4_timing
<1>. HIDE DEF rtw, wtr, extra
<1>4. RankApart(T, s, {"RD", "WR"}) /\ RanksApart(T, s, {"RD", "WR"})
  BY <1>2, <1>3, ColumnsKeepApart, OtherRanksKeepApart DEF RankApart, RanksApart
<1>. QED
  BY <1>4 DEF s

LEMMA GDDR5Apart ==
  ASSUME NEW T, GDDR5_timing(GDDR5_speed) \subseteq T
  PROVE  RankApart(T, GDDR5_speed, {"RD", "WR"})
<1>. DEFINE s == GDDR5_speed
            rtw == s.nCL + s.nCCDS + 2 - s.nCWL
            wtr == s.nCWL + s.nBL + s.nWTR
            extra == 0
<1>1. /\ s.nBL = 2 /\ s.nCL = 18 /\ s.nCWL = 5 /\ s.nCCDS = 2 /\ s.nWTR = 8
      /\ Strobe(s) = 0
  BY DEF GDDR5_speed, GDDR5_table, Strobe
<1>. HIDE DEF s
<1>2. /\ Burst(s) /\ rtw \in Int /\ wtr \in Int /\ extra \in Nat
      /\ rtw + s.nCWL >= s.nCL + Strobe(s) + s.nBL /\ wtr + s.nCL + Strobe(s) >= s.nCWL + s.nBL
  BY <1>1 DEF Burst
<1>3. /\ Bus(s) \subseteq T /\ Columns("Rank", s.nCCDS, rtw, wtr) \subseteq T
  BY DEF s, GDDR5_timing
<1>. HIDE DEF rtw, wtr, extra
<1>4. RankApart(T, s, {"RD", "WR"})
  BY <1>2, <1>3, ColumnsKeepApart DEF RankApart
<1>. QED
  BY <1>4 DEF s

LEMMA HBMApart ==
  ASSUME NEW T, HBM_timing(HBM_speed) \subseteq T
  PROVE  RankApart(T, HBM_speed, {"RD", "WR"})
<1>. DEFINE s == HBM_speed
            rtw == s.nCL + s.nCCDS + 2 - s.nCWL
            wtr == s.nCWL + s.nBL + s.nWTRS
            extra == 0
<1>1. /\ s.nBL = 2 /\ s.nCL = 7 /\ s.nCWL = 4 /\ s.nCCDS = 2 /\ s.nWTRS = 2
      /\ Strobe(s) = 0
  BY DEF HBM_speed, HBM_table, Strobe
<1>. HIDE DEF s
<1>2. /\ Burst(s) /\ rtw \in Int /\ wtr \in Int /\ extra \in Nat
      /\ rtw + s.nCWL >= s.nCL + Strobe(s) + s.nBL /\ wtr + s.nCL + Strobe(s) >= s.nCWL + s.nBL
  BY <1>1 DEF Burst
<1>3. /\ Bus(s) \subseteq T /\ Columns("Rank", s.nCCDS, rtw, wtr) \subseteq T
  BY DEF s, HBM_timing
<1>. HIDE DEF rtw, wtr, extra
<1>4. RankApart(T, s, {"RD", "WR"})
  BY <1>2, <1>3, ColumnsKeepApart DEF RankApart
<1>. QED
  BY <1>4 DEF s

LEMMA WideIOApart ==
  ASSUME NEW T, WideIO_timing(WideIO_speed) \subseteq T
  PROVE  RankApart(T, WideIO_speed, {"RD", "WR"})
<1>. DEFINE s == WideIO_speed
            rtw == s.nRTW
            wtr == s.nCWL + s.nBL + s.nWTR
            extra == 0
<1>1. /\ s.nBL = 4 /\ s.nCL = 3 /\ s.nCWL = 1 /\ s.nCCD = 4 /\ s.nRTW = 8 /\ s.nDQSCK = 1 /\ s.nWTR = 4
      /\ Strobe(s) = 1
  BY DEF WideIO_speed, WideIO_table, Strobe
<1>. HIDE DEF s
<1>2. /\ Burst(s) /\ rtw \in Int /\ wtr \in Int /\ extra \in Nat
      /\ rtw + s.nCWL >= s.nCL + Strobe(s) + s.nBL /\ wtr + s.nCL + Strobe(s) >= s.nCWL + s.nBL
  BY <1>1 DEF Burst
<1>3. /\ Bus(s) \subseteq T /\ Columns("Rank", s.nCCD, rtw, wtr) \subseteq T
  BY DEF s, WideIO_timing
<1>. HIDE DEF rtw, wtr, extra
<1>4. RankApart(T, s, {"RD", "WR"})
  BY <1>2, <1>3, ColumnsKeepApart DEF RankApart
<1>. QED
  BY <1>4 DEF s

LEMMA WideIO2Apart ==
  ASSUME NEW T, WideIO2_timing(WideIO2_table) \subseteq T
  PROVE  RankApart(T, WideIO2_table, {"RD", "WR"}) /\ RanksApart(T, WideIO2_table, {"RD", "WR"})
<1>. DEFINE s == WideIO2_table
            rtw == s.nCL + s.nDQSCK + s.nBL + 1 - s.nCWL
            wtr == s.nCWL + 1 + s.nBL + s.nWTR
            extra == s.nDQSCK + 1
<1>1. /\ s.nBL = 2 /\ s.nCL = 9 /\ s.nCWL = 7 /\ s.nRTRS = 2 /\ s.nCCD = 2 /\ s.nDQSCK = 1 /\ s.nWTR = 6
      /\ Strobe(s) = 1
  BY DEF WideIO2_table, Strobe
<1>. HIDE DEF s
<1>2. /\ Burst(s) /\ rtw \in Int /\ wtr \in Int /\ extra \in Nat
      /\ rtw + s.nCWL >= s.nCL + Strobe(s) + s.nBL /\ wtr + s.nCL + Strobe(s) >= s.nCWL + s.nBL
      /\ s.nRTRS \in Nat /\ extra + s.nRTRS >= Strobe(s)
  BY <1>1 DEF Burst
<1>3. /\ Bus(s) \subseteq T /\ Columns("Rank", s.nCCD, rtw, wtr) \subseteq T
      /\ OtherRanks(s, extra) \subseteq T
  BY DEF s, WideIO2_timing
<1>. HIDE DEF rtw, wtr, extra
<1>4. RankApart(T, s, {"RD", "WR"}) /\ RanksApart(T, s, {"RD", "WR"})
  BY <1>2, <1>3, ColumnsKeepApart, OtherRanksKeepApart DEF RankApart, RanksApart
<1>. QED
  BY <1>4 DEF s

LEMMA PCMApart ==
  ASSUME NEW T, PCM_timing(PCM_speed) \subseteq T
  PROVE  RankApart(T, PCM_speed, {"RD", "WR"}) /\ RanksApart(T, PCM_speed, {"RD", "WR"})
<1>. DEFINE s == PCM_speed
            rtw == s.nCL + s.nCCD + 2 - s.nCWL
            wtr == s.nCWL + s.nBL + s.nWTR
            extra == 0
<1>1. /\ s.nBL = 4 /\ s.nCL = 5 /\ s.nCWL = 5 /\ s.nRTRS = 2 /\ s.nCCD = 4 /\ s.nWTR = 3
      /\ Strobe(s) = 0
  BY DEF PCM_speed, PCM_table, Strobe
<1>. HIDE DEF s
<1>2. /\ Burst(s) /\ rtw \in Int /\ wtr \in Int /\ extra \in Nat
      /\ rtw + s.nCWL >= s.nCL + Strobe(s) + s.nBL /\ wtr + s.nCL + Strobe(s) >= s.nCWL + s.nBL
      /\ s.nRTRS \in Nat /\ extra + s.nRTRS >= Strobe(s)
  BY <1>1 DEF Burst
<1>3. /\ Bus(s) \subseteq T /\ Columns("Rank", s.nCCD, rtw, wtr) \subseteq T
      /\ OtherRanks(s, extra) \subseteq T
  BY DEF s, PCM_timing, DDR3_rank
<1>. HIDE DEF rtw, wtr, extra
<1>4. RankApart(T, s, {"RD", "WR"}) /\ RanksApart(T, s, {"RD", "WR"})
  BY <1>2, <1>3, ColumnsKeepApart, OtherRanksKeepApart DEF RankApart, RanksApart
<1>. QED
  BY <1>4 DEF s

LEMMA STTMRAMApart ==
  ASSUME NEW T, STTMRAM_timing(STTMRAM_speed) \subseteq T
  PROVE  RankApart(T, STTMRAM_speed, {"RD", "WR"}) /\ RanksApart(T, STTMRAM_speed, {"RD", "WR"})
<1>. DEFINE s == STTMRAM_speed
            rtw == s.nCL + s.nCCD + 2 - s.nCWL
            wtr == s.nCWL + s.nBL + s.nWTR
            extra == 0
<1>1. /\ s.nBL = 4 /\ s.nCL = 11 /\ s.nCWL = 8 /\ s.nRTRS = 2 /\ s.nCCD = 4 /\ s.nWTR = 6
      /\ Strobe(s) = 0
  BY DEF STTMRAM_speed, STTMRAM_table, Strobe
<1>. HIDE DEF s
<1>2. /\ Burst(s) /\ rtw \in Int /\ wtr \in Int /\ extra \in Nat
      /\ rtw + s.nCWL >= s.nCL + Strobe(s) + s.nBL /\ wtr + s.nCL + Strobe(s) >= s.nCWL + s.nBL
      /\ s.nRTRS \in Nat /\ extra + s.nRTRS >= Strobe(s)
  BY <1>1 DEF Burst
<1>3. /\ Bus(s) \subseteq T /\ Columns("Rank", s.nCCD, rtw, wtr) \subseteq T
      /\ OtherRanks(s, extra) \subseteq T
  BY DEF s, STTMRAM_timing, DDR3_timing, DDR3_rank
<1>. HIDE DEF rtw, wtr, extra
<1>4. RankApart(T, s, {"RD", "WR"}) /\ RanksApart(T, s, {"RD", "WR"})
  BY <1>2, <1>3, ColumnsKeepApart, OtherRanksKeepApart DEF RankApart, RanksApart
<1>. QED
  BY <1>4 DEF s

LEMMA ALDRAMApart ==
  ASSUME NEW T, ALDRAM_timing(ALDRAM_table) \subseteq T
  PROVE  RankApart(T, ALDRAM_table, {"RD", "WR"}) /\ RanksApart(T, ALDRAM_table, {"RD", "WR"})
<1>. DEFINE s == ALDRAM_table
            rtw == s.nCL + s.nCCD + 2 - s.nCWL
            wtr == s.nCWL + s.nBL + s.nWTR
            extra == 0
<1>1. /\ s.nBL = 4 /\ s.nCL = 11 /\ s.nCWL = 8 /\ s.nRTRS = 2 /\ s.nCCD = 4 /\ s.nWTR = 6
      /\ Strobe(s) = 0
  BY DEF ALDRAM_table, Strobe
<1>. HIDE DEF s
<1>2. /\ Burst(s) /\ rtw \in Int /\ wtr \in Int /\ extra \in Nat
      /\ rtw + s.nCWL >= s.nCL + Strobe(s) + s.nBL /\ wtr + s.nCL + Strobe(s) >= s.nCWL + s.nBL
      /\ s.nRTRS \in Nat /\ extra + s.nRTRS >= Strobe(s)
  BY <1>1 DEF Burst
<1>3. /\ Bus(s) \subseteq T /\ Columns("Rank", s.nCCD, rtw, wtr) \subseteq T
      /\ OtherRanks(s, extra) \subseteq T
  BY DEF s, ALDRAM_timing, DDR3_timing, DDR3_rank
<1>. HIDE DEF rtw, wtr, extra
<1>4. RankApart(T, s, {"RD", "WR"}) /\ RanksApart(T, s, {"RD", "WR"})
  BY <1>2, <1>3, ColumnsKeepApart, OtherRanksKeepApart DEF RankApart, RanksApart
<1>. QED
  BY <1>4 DEF s

LEMMA SALPApart ==
  ASSUME NEW T, SALP_timing(SALP_speed) \subseteq T
  PROVE  RankApart(T, SALP_speed, {"RD", "WR"}) /\ RanksApart(T, SALP_speed, {"RD", "WR"})
<1>. DEFINE s == SALP_speed
            rtw == s.nCL + s.nCCD + 2 - s.nCWL
            wtr == s.nCWL + s.nBL + s.nWTR
            extra == 0
<1>1. /\ s.nBL = 4 /\ s.nCL = 11 /\ s.nCWL = 8 /\ s.nRTRS = 2 /\ s.nCCD = 4 /\ s.nWTR = 6
      /\ Strobe(s) = 0
  BY DEF SALP_speed, SALP_table, Strobe
<1>. HIDE DEF s
<1>2. /\ Burst(s) /\ rtw \in Int /\ wtr \in Int /\ extra \in Nat
      /\ rtw + s.nCWL >= s.nCL + Strobe(s) + s.nBL /\ wtr + s.nCL + Strobe(s) >= s.nCWL + s.nBL
      /\ s.nRTRS \in Nat /\ extra + s.nRTRS >= Strobe(s)
  BY <1>1 DEF Burst
<1>3. /\ Bus(s) \subseteq T /\ Columns("Rank", s.nCCD, rtw, wtr) \subseteq T
      /\ OtherRanks(s, extra) \subseteq T
  BY DEF s, SALP_timing, DDR3_rank
<1>. HIDE DEF rtw, wtr, extra
<1>4. RankApart(T, s, {"RD", "WR"}) /\ RanksApart(T, s, {"RD", "WR"})
  BY <1>2, <1>3, ColumnsKeepApart, OtherRanksKeepApart DEF RankApart, RanksApart
<1>. QED
  BY <1>4 DEF s

LEMMA DSARPApart ==
  ASSUME NEW T, DSARP_timing(DSARP_speed) \subseteq T
  PROVE  RankApart(T, DSARP_speed, {"RD", "WR"}) /\ RanksApart(T, DSARP_speed, {"RD", "WR"})
<1>. DEFINE s == DSARP_speed
            rtw == s.nCL + s.nCCD + 2 - s.nCWL
            wtr == s.nCWL + s.nBL + s.nWTR
            extra == 0
<1>1. /\ s.nBL = 4 /\ s.nCL = 9 /\ s.nCWL = 7 /\ s.nRTRS = 2 /\ s.nCCD = 4 /\ s.nWTR = 5
      /\ Strobe(s) = 0
  BY DEF DSARP_speed, DSARP_table, Strobe
<1>. HIDE DEF s
<1>2. /\ Burst(s) /\ rtw \in Int /\ wtr \in Int /\ extra \in Nat
      /\ rtw + s.nCWL >= s.nCL + Strobe(s) + s.nBL /\ wtr + s.nCL + Strobe(s) >= s.nCWL + s.nBL
      /\ s.nRTRS \in Nat /\ extra + s.nRTRS >= Strobe(s)
  BY <1>1 DEF Burst
<1>3. /\ Bus(s) \subseteq T /\ Columns("Rank", s.nCCD, rtw, wtr) \subseteq T
      /\ OtherRanks(s, extra) \subseteq T
  BY DEF s, DSARP_timing
<1>. HIDE DEF rtw, wtr, extra
<1>4. RankApart(T, s, {"RD", "WR"}) /\ RanksApart(T, s, {"RD", "WR"})
  BY <1>2, <1>3, ColumnsKeepApart, OtherRanksKeepApart DEF RankApart, RanksApart
<1>. QED
  BY <1>4 DEF s

\* The tables, standard by standard.
LEMMA TimingTables ==
  /\ timing("DDR3") = DDR3_timing(DDR3_speed) /\ speed("DDR3") = DDR3_speed
  /\ timing("DDR4") = DDR4_timing(DDR4_speed) /\ speed("DDR4") = DDR4_speed
  /\ timing("LPDDR3") = LPDDR3_timing(LPDDR3_speed) /\ speed("LPDDR3") = LPDDR3_speed
  /\ timing("LPDDR4") = LPDDR4_timing(LPDDR4_speed) /\ speed("LPDDR4") = LPDDR4_speed
  /\ timing("GDDR5") = GDDR5_timing(GDDR5_speed) /\ speed("GDDR5") = GDDR5_speed
  /\ timing("HBM") = HBM_timing(HBM_speed) /\ speed("HBM") = HBM_speed
  /\ timing("WideIO") = WideIO_timing(WideIO_speed) /\ speed("WideIO") = WideIO_speed
  /\ timing("WideIO2") = WideIO2_timing(WideIO2_table) /\ speed("WideIO2") = WideIO2_table
  /\ timing("PCM") = PCM_timing(PCM_speed) /\ speed("PCM") = PCM_speed
  /\ timing("STTMRAM") = STTMRAM_timing(STTMRAM_speed) /\ speed("STTMRAM") = STTMRAM_speed
  /\ timing("ALDRAM") = ALDRAM_timing(ALDRAM_table) /\ speed("ALDRAM") = ALDRAM_table
  /\ timing("TLDRAM") = TLDRAM_rank(TLDRAM_speed) \cup TLDRAM_bank(TLDRAM_speed) /\ speed("TLDRAM") = TLDRAM_speed
  /\ timing("SALP_1") = SALP_timing(SALP_speed) \cup SALP_siblings("SALP_1", SALP_speed) /\ speed("SALP_1") = SALP_speed
  /\ timing("SALP_2") = SALP_timing(SALP_speed) \cup SALP_siblings("SALP_2", SALP_speed) /\ speed("SALP_2") = SALP_speed
  /\ timing("MASA") = SALP_timing(SALP_speed) \cup SALP_siblings("MASA", SALP_speed) /\ speed("MASA") = SALP_speed
  /\ timing("REFAB") = DSARP_timing(DSARP_speed) \cup DSARP_refresh("REFAB", DSARP_speed) /\ speed("REFAB") = DSARP_speed
  /\ timing("DSARP") = DSARP_timing(DSARP_speed) \cup DSARP_refresh("DSARP", DSARP_speed) /\ speed("DSARP") = DSARP_speed
BY DEF timing, speed

\* TLDRAM migrates too, and its migrations read.
LEMMA TLDRAMApart ==
  ASSUME NEW T, TLDRAM_rank(TLDRAM_speed) \subseteq T
  PROVE  RankApart(T, TLDRAM_speed, {"RD", "WR", "MIG"}) /\ RanksApart(T, TLDRAM_speed, {"RD", "WR", "MIG"})
<1>. DEFINE s == TLDRAM_speed
            rtw == s.nCL + s.nCCD + 2 - s.nCWL
            wtr == s.nCWL + s.nBL + s.nWTR
            otherRtw == s.nCL + s.nBL + s.nRTRS - s.nCWL
            otherWtr == s.nCWL + s.nBL + s.nRTRS - s.nCL
<1>1. /\ s.nBL = 4 /\ s.nCL = 11 /\ s.nCWL = 8 /\ s.nRTRS = 2 /\ s.nCCD = 4 /\ s.nWTR = 6
      /\ Strobe(s) = 0
  BY DEF TLDRAM_speed, TLDRAM_table, Strobe
<1>. HIDE DEF s
<1>2. /\ Burst(s) /\ rtw = 9 /\ wtr = 18 /\ otherRtw = 9 /\ otherWtr = 3
  BY <1>1 DEF Burst
<1>3. /\ Rows("Channel", Reads, Reads, s.nBL) \subseteq T /\ Rows("Channel", {"WR"}, {"WR"}, s.nBL) \subseteq T
      /\ Rows("Rank", Reads, {"WR"}, rtw) \subseteq T /\ Rows("Rank", {"WR"}, Reads, wtr) \subseteq T
      /\ Siblings("Rank", Reads, {"WR"}, otherRtw) \subseteq T /\ Siblings("Rank", {"WR"}, Reads, otherWtr) \subseteq T
  BY DEF s, TLDRAM_rank
<1>. HIDE DEF rtw, wtr, otherRtw, otherWtr
<1>4. ASSUME NEW sibling \in BOOLEAN, NEW c \in {"RD", "WR", "MIG"}, NEW d \in {"RD", "WR", "MIG"}, c = "WR" <=> d = "WR"
      PROVE  \E r \in Shared(T) \cup RankRows(T, sibling) : r.from = c /\ r.to = d /\ Spaced(r, s)
  <2>1. Constraint("Channel", c, d, s.nBL, FALSE) \in Shared(T)
    BY <1>3, <1>4, InRows DEF Reads, Shared, Constraint
  <2>2. Spaced(Constraint("Channel", c, d, s.nBL, FALSE), s)
    BY <1>2, <1>4 DEF Burst, Latency, Spaced, Constraint
  <2>. QED
    BY <2>1, <2>2 DEF Constraint
<1>5. ASSUME NEW sibling \in BOOLEAN, NEW c \in Reads
      PROVE  \E r \in RankRows(T, sibling) : r.from = c /\ r.to = "WR" /\ Spaced(r, s)
  <2>. DEFINE val == IF sibling THEN otherRtw ELSE rtw
  <2>1. Constraint("Rank", c, "WR", val, sibling) \in RankRows(T, sibling)
    BY <1>3, InRows DEF RankRows, Constraint
  <2>2. Spaced(Constraint("Rank", c, "WR", val, sibling), s)
    BY <1>1, <1>2 DEF Latency, Spaced, Constraint, Reads
  <2>. QED
    BY <2>1, <2>2 DEF Constraint
<1>6. ASSUME NEW sibling \in BOOLEAN, NEW c \in Reads
      PROVE  \E r \in RankRows(T, sibling) : r.from = "WR" /\ r.to = c /\ Spaced(r, s)
  <2>. DEFINE val == IF sibling THEN otherWtr ELSE wtr
  <2>1. Constraint("Rank", "WR", c, val, sibling) \in RankRows(T, sibling)
    BY <1>3, InRows DEF RankRows, Constraint
  <2>2. Spaced(Constraint("Rank", "WR", c, val, sibling), s)
    BY <1>1, <1>2 DEF Latency, Spaced, Constraint, Reads
  <2>. QED
    BY <2>1, <2>2 DEF Constraint
<1>7. ASSUME NEW sibling \in BOOLEAN
      PROVE  KeepsApart(Shared(T) \cup RankRows(T, sibling), {"RD", "WR", "MIG"}, s)
  BY <1>4, <1>5, <1>6 DEF KeepsApart, Reads
<1>. QED
  BY <1>7 DEF RankApart, RanksApart, s

\* The data of the accesses of every standard stays apart.
LEMMA EveryBusExclusive ==
  ASSUME NEW x \in Standard
  PROVE  LET accesses == spec(x).accessing \cap {"RD", "WR", "MIG"}
         IN /\ RankApart(timing(x), speed(x), accesses)
            /\ x \in OneRank \/ RanksApart(timing(x), speed(x), accesses)
<1>1. CASE x = "TLDRAM"
  <2>1. timing(x) = TLDRAM_rank(TLDRAM_speed) \cup TLDRAM_bank(TLDRAM_speed) /\ speed(x) = TLDRAM_speed
    BY <1>1, TimingTables
  <2>2. spec(x).accessing \cap {"RD", "WR", "MIG"} = {"RD", "WR", "MIG"} /\ x \notin OneRank
    BY <1>1, TLDRAMSpec DEF OneRank
  <2>. QED
    BY <2>1, <2>2, TLDRAMApart
<1>2. CASE x # "TLDRAM"
  <2>1. spec(x).accessing \cap {"RD", "WR", "MIG"} = {"RD", "WR"}
    <3>1. spec(x).accessing = {"RD", "WR", "RDA", "WRA"}
      BY <1>2, PlainSpec, SALPSpec, DSARPSpec DEF Standard, Plain, WithSubArrays
    <3>. QED
      BY <3>1
  <2>. SUFFICES /\ RankApart(timing(x), speed(x), {"RD", "WR"})
                /\ x \in OneRank \/ RanksApart(timing(x), speed(x), {"RD", "WR"})
    BY <2>1
  <2>2. CASE x = "DDR3"
    <3>1. timing(x) = DDR3_timing(DDR3_speed) /\ speed(x) = DDR3_speed
      BY <2>2, TimingTables DEF SALP, Refreshing
    <3>2. x \notin OneRank
      BY <2>2 DEF OneRank, SALP, Refreshing
    <3>. QED
      BY <3>1, <3>2, DDR3Apart
  <2>3. CASE x = "DDR4"
    <3>1. timing(x) = DDR4_timing(DDR4_speed) /\ speed(x) = DDR4_speed
      BY <2>3, TimingTables DEF SALP, Refreshing
    <3>2. x \notin OneRank
      BY <2>3 DEF OneRank, SALP, Refreshing
    <3>. QED
      BY <3>1, <3>2, DDR4Apart
  <2>4. CASE x = "LPDDR3"
    <3>1. timing(x) = LPDDR3_timing(LPDDR3_speed) /\ speed(x) = LPDDR3_speed
      BY <2>4, TimingTables DEF SALP, Refreshing
    <3>2. x \notin OneRank
      BY <2>4 DEF OneRank, SALP, Refreshing
    <3>. QED
      BY <3>1, <3>2, LPDDR3Apart
  <2>5. CASE x = "LPDDR4"
    <3>1. timing(x) = LPDDR4_timing(LPDDR4_speed) /\ speed(x) = LPDDR4_speed
      BY <2>5, TimingTables DEF SALP, Refreshing
    <3>2. x \notin OneRank
      BY <2>5 DEF OneRank, SALP, Refreshing
    <3>. QED
      BY <3>1, <3>2, LPDDR4Apart
  <2>6. CASE x = "GDDR5"
    <3>1. timing(x) = GDDR5_timing(GDDR5_speed) /\ speed(x) = GDDR5_speed
      BY <2>6, TimingTables DEF SALP, Refreshing
    <3>2. x \in OneRank
      BY <2>6 DEF OneRank, SALP, Refreshing
    <3>. QED
      BY <3>1, <3>2, GDDR5Apart
  <2>7. CASE x = "HBM"
    <3>1. timing(x) = HBM_timing(HBM_speed) /\ speed(x) = HBM_speed
      BY <2>7, TimingTables DEF SALP, Refreshing
    <3>2. x \in OneRank
      BY <2>7 DEF OneRank, SALP, Refreshing
    <3>. QED
      BY <3>1, <3>2, HBMApart
  <2>8. CASE x = "WideIO"
    <3>1. timing(x) = WideIO_timing(WideIO_speed) /\ speed(x) = WideIO_speed
      BY <2>8, TimingTables DEF SALP, Refreshing
    <3>2. x \in OneRank
      BY <2>8 DEF OneRank, SALP, Refreshing
    <3>. QED
      BY <3>1, <3>2, WideIOApart
  <2>9. CASE x = "WideIO2"
    <3>1. timing(x) = WideIO2_timing(WideIO2_table) /\ speed(x) = WideIO2_table
      BY <2>9, TimingTables DEF SALP, Refreshing
    <3>2. x \notin OneRank
      BY <2>9 DEF OneRank, SALP, Refreshing
    <3>. QED
      BY <3>1, <3>2, WideIO2Apart
  <2>10. CASE x = "PCM"
    <3>1. timing(x) = PCM_timing(PCM_speed) /\ speed(x) = PCM_speed
      BY <2>10, TimingTables DEF SALP, Refreshing
    <3>2. x \notin OneRank
      BY <2>10 DEF OneRank, SALP, Refreshing
    <3>. QED
      BY <3>1, <3>2, PCMApart
  <2>11. CASE x = "STTMRAM"
    <3>1. timing(x) = STTMRAM_timing(STTMRAM_speed) /\ speed(x) = STTMRAM_speed
      BY <2>11, TimingTables DEF SALP, Refreshing
    <3>2. x \notin OneRank
      BY <2>11 DEF OneRank, SALP, Refreshing
    <3>. QED
      BY <3>1, <3>2, STTMRAMApart
  <2>12. CASE x = "ALDRAM"
    <3>1. timing(x) = ALDRAM_timing(ALDRAM_table) /\ speed(x) = ALDRAM_table
      BY <2>12, TimingTables DEF SALP, Refreshing
    <3>2. x \notin OneRank
      BY <2>12 DEF OneRank, SALP, Refreshing
    <3>. QED
      BY <3>1, <3>2, ALDRAMApart
  <2>13. CASE x \in SALP
    <3>1. timing(x) = SALP_timing(SALP_speed) \cup SALP_siblings(x, SALP_speed) /\ speed(x) = SALP_speed
      BY <2>13, TimingTables DEF SALP, Refreshing
    <3>2. x \notin OneRank
      BY <2>13 DEF OneRank, SALP, Refreshing
    <3>. QED
      BY <3>1, <3>2, SALPApart
  <2>14. CASE x \in Refreshing
    <3>1. timing(x) = DSARP_timing(DSARP_speed) \cup DSARP_refresh(x, DSARP_speed) /\ speed(x) = DSARP_speed
      BY <2>14, TimingTables DEF SALP, Refreshing
    <3>2. x \notin OneRank
      BY <2>14 DEF OneRank, SALP, Refreshing
    <3>. QED
      BY <3>1, <3>2, DSARPApart
  <2>. QED
    BY <1>2, <2>2, <2>3, <2>4, <2>5, <2>6, <2>7, <2>8, <2>9, <2>10, <2>11, <2>12, <2>13, <2>14 DEF Standard, Flat, WithSubArrays, SALP, Refreshing
<1>. QED
  BY <1>1, <1>2

\* The standard of a run never changes.
LEMMA StandardOfRun == Spec => [](std \in Standards)
<1>1. Init => std \in Standards
  BY DEF Init
<1>2. std \in Standards /\ [Next]_vars => (std \in Standards)'
  BY DEF Next, Serve, AutoPrecharge, PrechargeVictim, issue_cmd, vars
<1>. QED
  BY <1>1, <1>2, PTL DEF Spec

\* init_timing of every standard: whichever two accesses follow one another, in one
\* rank or in two, a table has a constraint that keeps the data of the second off the
\* bus until that of the first has passed.
THEOREM BusAlwaysExclusive == Spec => []DataBusExclusive
<1>1. ASSUME std \in Standards PROVE DataBusExclusive
  <2>1. std \in Standard /\ Timings[std] = timing(std)
    BY <1>1, ChannelAssumption DEF Timings
  <2>2. LET accesses == spec(std).accessing \cap {"RD", "WR", "MIG"}
        IN /\ RankApart(timing(std), speed(std), accesses)
           /\ std \in OneRank \/ RanksApart(timing(std), speed(std), accesses)
    BY <2>1, EveryBusExclusive
  <2>. QED
    BY <2>1, <2>2 DEF DataBusExclusive, RankApart, RanksApart, KeepsApart, Shared, RankRows, Spaced, Latency, Strobe, OneRank
<1>. QED
  BY <1>1, StandardOfRun, PTL

-----------------------------------------------------------------------------
(* The next command is timed.  What a table has a constraint for: for each *)
(* family the commands that follow one another in a request.               *)

\* table T has a constraint on level from one command to the other
Has(T, level, from, to) == \E val : Constraint(level, from, to, val, FALSE) \in T
HasSibling(T, level, from, to) == \E val : Constraint(level, from, to, val, TRUE) \in T

\* the parts of every table but TLDRAM's: what wakes or refreshes, and what rows do
RankParts(T) ==
  /\ \E xp, pd, perBank : PowerTimes(xp, pd, perBank) \subseteq T
  /\ \E rpab, rppb, rfc : Refreshes(rpab, rppb, rfc) \subseteq T
RowParts(T, level) ==
  \E rcdr, rcdw, rtp, wr, rc, ras, rp : BankTimes(level, rcdr, rcdw, rtp, wr, rc, ras, rp) \subseteq T

\* What these parts have constraints for.
LEMMA RankPartsTimed ==
  ASSUME NEW T, RankParts(T)
  PROVE  /\ \A c \in {"RD", "WR", "ACT", "PRE", "SRE"} : Has(T, "Rank", "PDX", c)
         /\ Has(T, "Rank", "PREA", "REF")
<1>1. PICK xp, pd, perBank : PowerTimes(xp, pd, perBank) \subseteq T
  BY DEF RankParts
<1>2. PICK rpab, rppb, rfc : Refreshes(rpab, rppb, rfc) \subseteq T
  BY DEF RankParts
<1>3. Rows("Rank", {"PDX"}, Waking \cup perBank, xp) \subseteq T
  BY <1>1 DEF PowerTimes
<1>4. Rows("Rank", {"PREA"}, {"ACT", "REF", "SRE"}, rpab) \subseteq T
  BY <1>2 DEF Refreshes
<1>5. ASSUME NEW c \in {"RD", "WR", "ACT", "PRE", "SRE"} PROVE Has(T, "Rank", "PDX", c)
  <2>1. Constraint("Rank", "PDX", c, xp, FALSE) \in Rows("Rank", {"PDX"}, Waking \cup perBank, xp)
    BY InRows DEF Waking
  <2>. QED
    BY <1>3, <2>1 DEF Has
<1>6. Has(T, "Rank", "PREA", "REF")
  <2>1. Constraint("Rank", "PREA", "REF", rpab, FALSE) \in Rows("Rank", {"PREA"}, {"ACT", "REF", "SRE"}, rpab)
    BY InRows
  <2>. QED
    BY <1>4, <2>1 DEF Has
<1>. QED
  BY <1>5, <1>6

LEMMA RowPartsTimed ==
  ASSUME NEW T, NEW level, RowParts(T, level)
  PROVE  Has(T, level, "ACT", "RD") /\ Has(T, level, "ACT", "WR") /\ Has(T, level, "PRE", "ACT")
<1>1. PICK rcdr, rcdw, rtp, wr, rc, ras, rp : BankTimes(level, rcdr, rcdw, rtp, wr, rc, ras, rp) \subseteq T
  BY DEF RowParts
<1>2. /\ Rows(level, {"ACT"}, Read, rcdr) \subseteq T /\ Rows(level, {"ACT"}, Write, rcdw) \subseteq T
      /\ Rows(level, {"PRE"}, {"ACT"}, rp) \subseteq T
  BY <1>1 DEF BankTimes
<1>3. /\ Constraint(level, "ACT", "RD", rcdr, FALSE) \in Rows(level, {"ACT"}, Read, rcdr)
      /\ Constraint(level, "ACT", "WR", rcdw, FALSE) \in Rows(level, {"ACT"}, Write, rcdw)
      /\ Constraint(level, "PRE", "ACT", rp, FALSE) \in Rows(level, {"PRE"}, {"ACT"}, rp)
  BY InRows DEF Read, Write
<1>. QED
  BY <1>2, <1>3 DEF Has

\* Standard by standard, the parts that init_timing gives its table.
LEMMA DDR3Parts == RankParts(DDR3_timing(DDR3_speed)) /\ RowParts(DDR3_timing(DDR3_speed), "Bank")
<1>. DEFINE s == DDR3_speed
            T == DDR3_timing(DDR3_speed)
<1>1. /\ PowerTimes(s.nXP, s.nPD, {}) \subseteq T /\ Refreshes(s.nRP, s.nRP, s.nRFC) \subseteq T
      /\ BankTimes("Bank", s.nRCD, s.nRCD, s.nRTP, Recovery(s), s.nRC, s.nRAS, s.nRP) \subseteq T
  BY DEF DDR3_timing, DDR3_rank
<1>. HIDE DEF T
<1>2. RankParts(T)
  BY <1>1, Zenon DEF RankParts
<1>3. RowParts(T, "Bank")
  BY <1>1, Zenon DEF RowParts
<1>. QED
  BY <1>2, <1>3 DEF T

LEMMA DDR4Parts == RankParts(DDR4_timing(DDR4_speed)) /\ RowParts(DDR4_timing(DDR4_speed), "Bank")
<1>. DEFINE s == DDR4_speed
            T == DDR4_timing(DDR4_speed)
<1>1. /\ PowerTimes(s.nXP, s.nPD, {}) \subseteq T /\ Refreshes(s.nRP, s.nRP, s.nRFC) \subseteq T
      /\ BankTimes("Bank", s.nRCD, s.nRCD, s.nRTP, Recovery(s), s.nRC, s.nRAS, s.nRP) \subseteq T
  BY DEF DDR4_timing
<1>. HIDE DEF T
<1>2. RankParts(T)
  BY <1>1, Zenon DEF RankParts
<1>3. RowParts(T, "Bank")
  BY <1>1, Zenon DEF RowParts
<1>. QED
  BY <1>2, <1>3 DEF T

LEMMA LPDDR3Parts == RankParts(LPDDR3_timing(LPDDR3_speed)) /\ RowParts(LPDDR3_timing(LPDDR3_speed), "Bank")
<1>. DEFINE s == LPDDR3_speed
            T == LPDDR3_timing(LPDDR3_speed)
<1>1. /\ PowerTimes(s.nXP, s.nCKE, {"REFPB"}) \subseteq T /\ Refreshes(s.nRPab, s.nRPpb, s.nRFCab) \subseteq T
      /\ BankTimes("Bank", s.nRCD, s.nRCD, s.nRTP, Recovery(s), s.nRC, s.nRAS, s.nRPpb) \subseteq T
  BY DEF LPDDR3_timing
<1>. HIDE DEF T
<1>2. RankParts(T)
  BY <1>1, Zenon DEF RankParts
<1>3. RowParts(T, "Bank")
  BY <1>1, Zenon DEF RowParts
<1>. QED
  BY <1>2, <1>3 DEF T

LEMMA LPDDR4Parts == RankParts(LPDDR4_timing(LPDDR4_speed)) /\ RowParts(LPDDR4_timing(LPDDR4_speed), "Bank")
<1>. DEFINE s == LPDDR4_speed
            T == LPDDR4_timing(LPDDR4_speed)
<1>1. /\ PowerTimes(s.nXP, s.nCKE, {"REFPB"}) \subseteq T /\ Refreshes(s.nRPab, s.nRPpb, s.nRFCab) \subseteq T
      /\ BankTimes("Bank", s.nRCD, s.nRCD, s.nRTP, Recovery(s), s.nRC, s.nRAS, s.nRPpb) \subseteq T
  BY DEF LPDDR4_timing
<1>. HIDE DEF T
<1>2. RankParts(T)
  BY <1>1, Zenon DEF RankParts
<1>3. RowParts(T, "Bank")
  BY <1>1, Zenon DEF RowParts
<1>. QED
  BY <1>2, <1>3 DEF T

LEMMA GDDR5Parts == RankParts(GDDR5_timing(GDDR5_speed)) /\ RowParts(GDDR5_timing(GDDR5_speed), "Bank")
<1>. DEFINE s == GDDR5_speed
            T == GDDR5_timing(GDDR5_speed)
<1>1. /\ PowerTimes(s.nXPN, s.nPD, {}) \subseteq T /\ Refreshes(s.nRP, s.nRP, s.nRFC) \subseteq T
      /\ BankTimes("Bank", s.nRCDR, s.nRCDW, s.nRTP, Recovery(s), s.nRC, s.nRAS, s.nRP) \subseteq T
  BY DEF GDDR5_timing
<1>. HIDE DEF T
<1>2. RankParts(T)
  BY <1>1, Zenon DEF RankParts
<1>3. RowParts(T, "Bank")
  BY <1>1, Zenon DEF RowParts
<1>. QED
  BY <1>2, <1>3 DEF T

LEMMA HBMParts == RankParts(HBM_timing(HBM_speed)) /\ RowParts(HBM_timing(HBM_speed), "Bank")
<1>. DEFINE s == HBM_speed
            T == HBM_timing(HBM_speed)
<1>1. /\ PowerTimes(s.nXP, s.nPD, {}) \subseteq T /\ Refreshes(s.nRP, s.nRP, s.nRFC) \subseteq T
      /\ BankTimes("Bank", s.nRCDR, s.nRCDW, s.nRTP, Recovery(s), s.nRC, s.nRAS, s.nRP) \subseteq T
  BY DEF HBM_timing
<1>. HIDE DEF T
<1>2. RankParts(T)
  BY <1>1, Zenon DEF RankParts
<1>3. RowParts(T, "Bank")
  BY <1>1, Zenon DEF RowParts
<1>. QED
  BY <1>2, <1>3 DEF T

LEMMA WideIOParts == RankParts(WideIO_timing(WideIO_speed)) /\ RowParts(WideIO_timing(WideIO_speed), "Bank")
<1>. DEFINE s == WideIO_speed
            T == WideIO_timing(WideIO_speed)
<1>1. /\ PowerTimes(s.nXP, s.nCKE, {}) \subseteq T /\ Refreshes(s.nRP, s.nRP, s.nRFC) \subseteq T
      /\ BankTimes("Bank", s.nRCD, s.nRCD, s.nRTP, Recovery(s), s.nRC, s.nRAS, s.nRP) \subseteq T
  BY DEF WideIO_timing
<1>. HIDE DEF T
<1>2. RankParts(T)
  BY <1>1, Zenon DEF RankParts
<1>3. RowParts(T, "Bank")
  BY <1>1, Zenon DEF RowParts
<1>. QED
  BY <1>2, <1>3 DEF T

LEMMA WideIO2Parts == RankParts(WideIO2_timing(WideIO2_table)) /\ RowParts(WideIO2_timing(WideIO2_table), "Bank")
<1>. DEFINE s == WideIO2_table
            T == WideIO2_timing(WideIO2_table)
<1>1. /\ PowerTimes(s.nXP, s.nCKE, {"REFPB"}) \subseteq T /\ Refreshes(s.nRPab, s.nRPpb, s.nRFCab) \subseteq T
      /\ BankTimes("Bank", s.nRCD, s.nRCD, s.nRTP, Recovery(s) + 1, s.nRC, s.nRAS, s.nRPpb) \subseteq T
  BY DEF WideIO2_timing
<1>. HIDE DEF T
<1>2. RankParts(T)
  BY <1>1, Zenon DEF RankParts
<1>3. RowParts(T, "Bank")
  BY <1>1, Zenon DEF RowParts
<1>. QED
  BY <1>2, <1>3 DEF T

LEMMA PCMParts == RankParts(PCM_timing(PCM_speed)) /\ RowParts(PCM_timing(PCM_speed), "Bank")
<1>. DEFINE s == PCM_speed
            T == PCM_timing(PCM_speed)
<1>1. /\ PowerTimes(s.nXP, s.nPD, {}) \subseteq T /\ Refreshes(s.nRP, s.nRP, s.nRFC) \subseteq T
      /\ BankTimes("Bank", s.nRCD, s.nRCD, s.nRTP, Recovery(s), s.nRC, s.nRAS, s.nRP) \subseteq T
  BY DEF PCM_timing, DDR3_rank
<1>. HIDE DEF T
<1>2. RankParts(T)
  BY <1>1, Zenon DEF RankParts
<1>3. RowParts(T, "Bank")
  BY <1>1, Zenon DEF RowParts
<1>. QED
  BY <1>2, <1>3 DEF T

LEMMA STTMRAMParts == RankParts(STTMRAM_timing(STTMRAM_speed)) /\ RowParts(STTMRAM_timing(STTMRAM_speed), "Bank")
<1>. DEFINE s == STTMRAM_speed
            T == STTMRAM_timing(STTMRAM_speed)
<1>1. /\ PowerTimes(s.nXP, s.nPD, {}) \subseteq T /\ Refreshes(s.nRP, s.nRP, s.nRFC) \subseteq T
      /\ BankTimes("Bank", s.nRCD, s.nRCD, s.nRTP, Recovery(s), s.nRC, s.nRAS, s.nRP) \subseteq T
  BY DEF STTMRAM_timing, DDR3_timing, DDR3_rank
<1>. HIDE DEF T
<1>2. RankParts(T)
  BY <1>1, Zenon DEF RankParts
<1>3. RowParts(T, "Bank")
  BY <1>1, Zenon DEF RowParts
<1>. QED
  BY <1>2, <1>3 DEF T

LEMMA ALDRAMParts == RankParts(ALDRAM_timing(ALDRAM_table)) /\ RowParts(ALDRAM_timing(ALDRAM_table), "Bank")
<1>. DEFINE s == ALDRAM_table
            T == ALDRAM_timing(ALDRAM_table)
<1>1. /\ PowerTimes(s.nXP, s.nPD, {}) \subseteq T /\ Refreshes(s.nRP, s.nRP, s.nRFC) \subseteq T
      /\ BankTimes("Bank", s.nRCD, s.nRCD, s.nRTP, Recovery(s), s.nRC, s.nRAS, s.nRP) \subseteq T
  BY DEF ALDRAM_timing, DDR3_timing, DDR3_rank
<1>. HIDE DEF T
<1>2. RankParts(T)
  BY <1>1, Zenon DEF RankParts
<1>3. RowParts(T, "Bank")
  BY <1>1, Zenon DEF RowParts
<1>. QED
  BY <1>2, <1>3 DEF T

LEMMA SALPParts == RankParts(SALP_timing(SALP_speed)) /\ RowParts(SALP_timing(SALP_speed), "SubArray")
<1>. DEFINE s == SALP_speed
            T == SALP_timing(SALP_speed)
<1>1. /\ PowerTimes(s.nXP, s.nPD, {}) \subseteq T /\ Refreshes(s.nRP, s.nRP, s.nRFC) \subseteq T
      /\ BankTimes("SubArray", s.nRCD, s.nRCD, s.nRTP, Recovery(s), s.nRC, s.nRAS, s.nRP) \subseteq T
  BY DEF SALP_timing, DDR3_rank
<1>. HIDE DEF T
<1>2. RankParts(T)
  BY <1>1, Zenon DEF RankParts
<1>3. RowParts(T, "SubArray")
  BY <1>1, Zenon DEF RowParts
<1>. QED
  BY <1>2, <1>3 DEF T

LEMMA DSARPParts == RankParts(DSARP_timing(DSARP_speed)) /\ RowParts(DSARP_timing(DSARP_speed), "Bank")
<1>. DEFINE s == DSARP_speed
            T == DSARP_timing(DSARP_speed)
<1>1. /\ PowerTimes(s.nXP, s.nPD, {"REFPB"}) \subseteq T /\ Refreshes(s.nRPab, s.nRPpb, s.nRFCab) \subseteq T
      /\ BankTimes("Bank", s.nRCD, s.nRCD, s.nRTP, Recovery(s), s.nRC, s.nRAS, s.nRPpb) \subseteq T
  BY DEF DSARP_timing
<1>. HIDE DEF T
<1>2. RankParts(T)
  BY <1>1, Zenon DEF RankParts
<1>3. RowParts(T, "Bank")
  BY <1>1, Zenon DEF RowParts
<1>. QED
  BY <1>2, <1>3 DEF T

\* the level of the rows, and every table but TLDRAM's
RowLevel(x) == IF x \in SALP THEN "SubArray" ELSE "Bank"

LEMMA EveryTableHasParts ==
  ASSUME NEW x \in Standard \ {"TLDRAM"}
  PROVE  RankParts(timing(x)) /\ RowParts(timing(x), RowLevel(x))
<1>1. CASE x \in Plain
  <2>1. RowLevel(x) = "Bank"
    BY <1>1 DEF RowLevel, SALP, Plain, Flat
  <2>2. /\ RankParts(timing(x)) /\ RowParts(timing(x), "Bank")
    BY <1>1, TimingTables, DDR3Parts, DDR4Parts, LPDDR3Parts, LPDDR4Parts, GDDR5Parts, HBMParts, WideIOParts,
       WideIO2Parts, PCMParts, STTMRAMParts, ALDRAMParts, Zenon DEF Plain, Flat
  <2>. QED
    BY <2>1, <2>2
<1>2. ASSUME NEW U, NEW V, NEW level, RankParts(U), RowParts(U, level)
      PROVE  RankParts(U \cup V) /\ RowParts(U \cup V, level)
  <2>1. \A W : W \subseteq U => W \subseteq U \cup V
    OBVIOUS
  <2>2. RankParts(U \cup V)
    BY <1>2, <2>1, Zenon DEF RankParts
  <2>3. RowParts(U \cup V, level)
    BY <1>2, <2>1, Zenon DEF RowParts
  <2>. QED
    BY <2>2, <2>3
<1>3. CASE x \in SALP
  <2>1. RowLevel(x) = "SubArray"
    BY <1>3 DEF RowLevel
  <2>2. timing(x) = SALP_timing(SALP_speed) \cup SALP_siblings(x, SALP_speed)
    BY <1>3, TimingTables DEF SALP
  <2>3. RankParts(timing(x)) /\ RowParts(timing(x), "SubArray")
    BY <1>2, <2>2, SALPParts
  <2>. QED
    BY <2>1, <2>3
<1>4. CASE x \in Refreshing
  <2>1. RowLevel(x) = "Bank"
    BY <1>4 DEF RowLevel, SALP, Refreshing
  <2>2. timing(x) = DSARP_timing(DSARP_speed) \cup DSARP_refresh(x, DSARP_speed)
    BY <1>4, TimingTables DEF Refreshing
  <2>3. RankParts(timing(x)) /\ RowParts(timing(x), "Bank")
    BY <1>2, <2>2, DSARPParts
  <2>. QED
    BY <2>1, <2>3
<1>. QED
  BY <1>1, <1>3, <1>4 DEF Standard, Plain, WithSubArrays, SALP, Refreshing

\* Between one subarray of SALP-1 and another, a selection of MASA, a refresh of DSARP.
LEMMA SubArrayTablesTimed ==
  /\ HasSibling(timing("SALP_1"), "SubArray", "PRE_OTHER", "ACT")
  /\ \A c \in {"RD", "WR"} : Has(timing("MASA"), "SubArray", "SASEL", c)
  /\ Has(timing("DSARP"), "Bank", "PRE", "REFPB")
<1>1. Siblings("SubArray", {"PRE", "PRE_OTHER"}, {"ACT"}, SALP_speed.nPA) \subseteq timing("SALP_1")
  BY TimingTables DEF SALP_siblings
<1>2. Rows("SubArray", {"SASEL"}, Read \cup Write, SALP_speed.nSCD) \subseteq timing("MASA")
  BY TimingTables DEF SALP_siblings
<1>3. Rows("Bank", {"PRE"}, {"REFPB"}, DSARP_speed.nRPpb) \subseteq timing("DSARP")
  BY TimingTables DEF DSARP_timing
<1>4. Constraint("SubArray", "PRE_OTHER", "ACT", SALP_speed.nPA, TRUE) \in timing("SALP_1")
  BY <1>1, InRows
<1>5. ASSUME NEW c \in {"RD", "WR"}
      PROVE  Constraint("SubArray", "SASEL", c, SALP_speed.nSCD, FALSE) \in timing("MASA")
  <2>1. c \in Read \cup Write
    BY DEF Read, Write
  <2>. QED
    BY <1>2, <2>1, InRows
<1>6. Constraint("Bank", "PRE", "REFPB", DSARP_speed.nRPpb, FALSE) \in timing("DSARP")
  BY <1>3, InRows
<1>. QED
  BY <1>4, <1>5, <1>6 DEF Has, HasSibling

\* In TLDRAM slow, fast and migrated rows follow one another in any order.
LEMMA TLDRAMTimed ==
  LET T == timing("TLDRAM")
  IN /\ \A c \in {"WR", "MIG", "SRE"} \cup Acts \cup Pres : Has(T, "Rank", "PDX", c)
     /\ \A c \in {"PREA", "PREAF"} : Has(T, "Rank", c, "REF")
     /\ \A c \in Acts : Has(T, "Bank", c, "WR") /\ Has(T, "Bank", c, "MIG")
     /\ \A c \in Pres, d \in Acts : Has(T, "Bank", c, d)
<1>. DEFINE s == TLDRAM_speed
            T == timing("TLDRAM")
<1>1. T = TLDRAM_rank(s) \cup TLDRAM_bank(s)
  BY TimingTables
<1>2. PICK xp : Rows("Rank", {"PDX"}, Reads \cup Acts \cup Pres \cup {"WR", "REF", "PDE", "SRE"}, xp) \subseteq T
  <2>1. Rows("Rank", {"PDX"}, Reads \cup Acts \cup Pres \cup {"WR", "REF", "PDE", "SRE"}, s.nXP) \subseteq T
    BY <1>1 DEF TLDRAM_rank
  <2>. QED
    BY <2>1, Zenon
<1>3. ASSUME NEW g \in TLDRAM_segments(s)
      PROVE  /\ Rows("Rank", {g.prea}, {"REF", "SRE"}, g.rp) \subseteq T
             /\ Rows("Bank", {g.act}, Reads \cup {"WR"}, g.rcd) \subseteq T
             /\ Rows("Bank", {g.pre}, Acts, g.rp) \subseteq T
  <2>. DEFINE S == TLDRAM_segments(s)
              InRank(h) == Rows("Rank", {h.act}, Pres \cup PreAlls, h.ras)
                           \cup Rows("Rank", {h.pre}, Acts \cup {"REF", "SRE"}, h.rp)
                           \cup Rows("Rank", {h.prea}, {"REF", "SRE"}, h.rp)
              InBank(h) == Rows("Bank", {h.act}, Reads \cup {"WR"}, h.rcd) \cup Rows("Bank", {h.act}, Acts, h.rc)
                           \cup Rows("Bank", {h.act}, Pres, h.ras) \cup Rows("Bank", {h.pre}, Acts, h.rp)
  <2>1. /\ UNION {InRank(h) : h \in S} \subseteq TLDRAM_rank(s)
        /\ UNION {InBank(h) : h \in S} \subseteq TLDRAM_bank(s)
    BY DEF TLDRAM_rank, TLDRAM_bank
  <2>2. /\ Rows("Rank", {g.prea}, {"REF", "SRE"}, g.rp) \subseteq InRank(g)
        /\ Rows("Bank", {g.act}, Reads \cup {"WR"}, g.rcd) \subseteq InBank(g)
        /\ Rows("Bank", {g.pre}, Acts, g.rp) \subseteq InBank(g)
    OBVIOUS
  <2>3. g \in S
    OBVIOUS
  <2>. HIDE DEF T, s, S, InRank, InBank
  <2>4. InRank(g) \subseteq UNION {InRank(h) : h \in S} /\ InBank(g) \subseteq UNION {InBank(h) : h \in S}
    BY <2>3
  <2>. QED
    BY <1>1, <2>1, <2>2, <2>4
<1>4. /\ \A c \in Acts : \E g \in TLDRAM_segments(s) : g.act = c
      /\ \A c \in Pres : \E g \in TLDRAM_segments(s) : g.pre = c
      /\ \A c \in {"PREA", "PREAF"} : \E g \in TLDRAM_segments(s) : g.prea = c
  BY DEF TLDRAM_segments, Acts, Pres
<1>. HIDE DEF T, s
<1>5. ASSUME NEW c \in {"WR", "MIG", "SRE"} \cup Acts \cup Pres PROVE Has(T, "Rank", "PDX", c)
  <2>1. c \in Reads \cup Acts \cup Pres \cup {"WR", "REF", "PDE", "SRE"}
    BY DEF Reads
  <2>. DEFINE to == Reads \cup Acts \cup Pres \cup {"WR", "REF", "PDE", "SRE"}
  <2>. HIDE DEF to
  <2>2. Constraint("Rank", "PDX", c, xp, FALSE) \in Rows("Rank", {"PDX"}, to, xp)
    BY <2>1, InRows DEF to
  <2>. QED
    BY <1>2, <2>2 DEF Has, to
<1>6. ASSUME NEW c \in {"PREA", "PREAF"} PROVE Has(T, "Rank", c, "REF")
  <2>1. PICK g \in TLDRAM_segments(s) : g.prea = c
    BY <1>4
  <2>2. Constraint("Rank", c, "REF", g.rp, FALSE) \in Rows("Rank", {g.prea}, {"REF", "SRE"}, g.rp)
    BY <2>1, InRows
  <2>. QED
    BY <1>3, <2>2 DEF Has
<1>7. ASSUME NEW c \in Acts, NEW d \in {"WR", "MIG"} PROVE Has(T, "Bank", c, d)
  <2>1. PICK g \in TLDRAM_segments(s) : g.act = c
    BY <1>4
  <2>2. Constraint("Bank", c, d, g.rcd, FALSE) \in Rows("Bank", {g.act}, Reads \cup {"WR"}, g.rcd)
    BY <2>1, InRows DEF Reads
  <2>. QED
    BY <1>3, <2>2 DEF Has
<1>8. ASSUME NEW c \in Pres, NEW d \in Acts PROVE Has(T, "Bank", c, d)
  <2>1. PICK g \in TLDRAM_segments(s) : g.pre = c
    BY <1>4
  <2>2. Constraint("Bank", c, d, g.rp, FALSE) \in Rows("Bank", {g.pre}, Acts, g.rp)
    BY <2>1, InRows
  <2>. QED
    BY <1>3, <2>2 DEF Has
<1>. QED
  BY <1>5, <1>6, <1>7, <1>8 DEF T

\* What a table has is a delay between commands to the rank, to one bank or subarray
\* and to two subarrays of a bank.
LEMMA RankDelay ==
  ASSUME std \in Standards, NEW from, NEW to, NEW a, NEW b, Has(timing(std), "Rank", from, to)
  PROVE  Delays(from, a, to, b) # {}
<1>1. PICK val : Constraint("Rank", from, to, val, FALSE) \in timing(std)
  BY DEF Has
<1>2. Constraint("Rank", from, to, val, FALSE) \in Timings[std]
  BY <1>1 DEF Timings
<1>. DEFINE r == Constraint("Rank", from, to, val, FALSE)
<1>3. r.level = "Rank" /\ r.from = from /\ r.to = to /\ r.dist = 1 /\ r.sibling = FALSE
  BY DEF Constraint
<1>4. "Rank" \in Checked(to) /\ Path("Rank", a, b)
  BY DEF Checked, Path
<1>5. r \in Timings[std]
  BY <1>2
<1>. HIDE DEF r
<1>. QED
  BY <1>5, <1>3, <1>4 DEF Delays

LEMMA RowDelay ==
  ASSUME std \in Standards, NEW from, NEW to, NEW a, a.bank # None, to \notin spec(std).rank,
         Has(timing(std), RowLevel(std), from, to)
  PROVE  Delays(from, a, to, a) # {}
<1>1. PICK val : Constraint(RowLevel(std), from, to, val, FALSE) \in timing(std)
  BY DEF Has
<1>2. Constraint(RowLevel(std), from, to, val, FALSE) \in Timings[std]
  BY <1>1 DEF Timings
<1>. DEFINE r == Constraint(RowLevel(std), from, to, val, FALSE)
<1>3. /\ r \in Timings[std] /\ r.level = RowLevel(std)
      /\ r.from = from /\ r.to = to /\ r.dist = 1 /\ r.sibling = FALSE
  BY <1>2 DEF Constraint
<1>4. RowLevel(std) \in Checked(to)
  <2>1. CASE std \in SALP
    BY <2>1, SALPSpec DEF Checked, RowLevel, SALP
  <2>2. CASE std \notin SALP
    BY <2>2 DEF Checked, RowLevel
  <2>. QED
    BY <2>1, <2>2
<1>5. Path(RowLevel(std), a, a)
  <2>1. RowLevel(std) \in {"Bank", "SubArray"}
    BY DEF RowLevel
  <2>. QED
    BY <2>1 DEF Path
<1>. HIDE DEF r
<1>. QED
  BY <1>3, <1>4, <1>5 DEF Delays

LEMMA SiblingDelay ==
  ASSUME std \in Standards, std \in SALP, NEW from, NEW to, NEW a, NEW b,
         a.bank # None, a.bank = b.bank, a.sa # b.sa, to \notin spec(std).rank,
         HasSibling(timing(std), "SubArray", from, to)
  PROVE  Delays(from, a, to, b) # {}
<1>1. PICK val : Constraint("SubArray", from, to, val, TRUE) \in timing(std)
  BY DEF HasSibling
<1>2. Constraint("SubArray", from, to, val, TRUE) \in Timings[std]
  BY <1>1 DEF Timings
<1>3. spec(std).bank = {}
  BY SALPSpec DEF SALP
<1>. QED
  BY <1>2, <1>3 DEF Delays, Constraint, Checked, Beside

\* NextIsTimed, of a state of the tree and a request.
Timely(type, t, a) ==
  LET cmd == FirstCommand(type, t, a)
      to == get_addr_vec(cmd, t, a)
      u == update_state(cmd, t, to)
      next == FirstCommand(type, u, a)
  IN \/ cmd = Accessing(type)
     \/ std = "SALP_2" /\ "PRE_OTHER" \in {cmd, next}
     \/ cmd = "PDX" /\ next \in {"PRE_OTHER", "SASEL"}
     \/ Delays(cmd, to, next, get_addr_vec(next, u, a)) # {}

\* The next command once a sleeping rank is awake.
LEMMA Awake ==
  ASSUME std \in Standard, NEW type, NEW a, NEW t \in Tree, t.rank \notin {"PowerUp", "SelfRefresh"},
         FirstCommand(type, t, a) = MemoryAwake(t)
  PROVE  /\ FirstCommand(type, t, a) = "PDX"
         /\ After("PDX", t, a) = Power(t, "PowerUp") /\ get_addr_vec("PDX", t, a) = a
         /\ Power(t, "PowerUp") \in Tree /\ Power(t, "PowerUp").rank = "PowerUp"
<1>1. FirstCommand(type, t, a) = "PDX"
  BY DEF MemoryAwake
<1>2. After("PDX", t, a) = Power(t, "PowerUp")
  BY RankUpdates DEF After, get_addr_vec
<1>. QED
  BY <1>1, <1>2, WakeFacts DEF get_addr_vec

\* An access is timely when what wakes the rank, opens a row and closes one is.
LEMMA AccessTimely ==
  ASSUME std \in Standard, NEW type \in Access, NEW a, NEW t \in Tree, t.rank # "SelfRefresh",
         \A v \in Tree : Moves(type, v, a),
         Accessing(type) \in {"RD", "WR", "MIG"},
         \A c \in AccessCommands \ {"PRE_OTHER", "SASEL"} : Delays("PDX", a, c, a) # {},
         \A c \in AccessCommands \cap Opens : Delays(c, a, Accessing(type), a) # {},
         t.rank = "PowerUp" /\ RowLeft(t, a) = 3 =>
           LET cmd == FirstCommand(type, t, a)
               next == FirstCommand(type, After(cmd, t, a), a)
           IN next \in AccessCommands \cap Opens => Delays(cmd, get_addr_vec(cmd, t, a), next, a) # {}
  PROVE  Timely(type, t, a)
<1>. DEFINE acc == Accessing(type)
            cmd == FirstCommand(type, t, a)
            to == get_addr_vec(cmd, t, a)
            u == After(cmd, t, a)
            next == FirstCommand(type, u, a)
<1>1. SUFFICES \/ cmd = acc
               \/ cmd = "PDX" /\ next \in {"PRE_OTHER", "SASEL"}
               \/ Delays(cmd, to, next, get_addr_vec(next, u, a)) # {}
  BY DEF Timely, After
<1>2. \A c : c # "PRE_OTHER" => \A v : get_addr_vec(c, v, a) = a
  BY DEF get_addr_vec
<1>3. u \in Tree => Moves(type, u, a)
  OBVIOUS
<1>4. CASE t.rank # "PowerUp"
  <2>1. cmd = MemoryAwake(t)
    BY <1>4 DEF Moves
  <2>2. cmd = "PDX" /\ to = a /\ u \in Tree /\ u.rank = "PowerUp"
    BY <1>4, <2>1, Awake
  <2>3. next \in AccessCommands
    BY <1>3, <2>2 DEF Moves
  <2>. HIDE DEF cmd, to, u, next
  <2>. QED
    BY <1>2, <2>2, <2>3
<1>5. CASE t.rank = "PowerUp"
  <2>1. /\ RowLeft(t, a) \in 1 .. 3 /\ u \in Tree /\ u.rank = "PowerUp" /\ cmd \in AccessCommands
        /\ RowLeft(t, a) = 1 => cmd = acc
        /\ RowLeft(t, a) = 2 => cmd \in Opens /\ RowLeft(u, a) = 1
        /\ RowLeft(t, a) = 3 => cmd \in Closes /\ RowLeft(u, a) = 2
    BY <1>5, Zenon DEF Moves
  <2>2. /\ next \in AccessCommands
        /\ RowLeft(u, a) = 1 => next = acc
        /\ RowLeft(u, a) = 2 => next \in Opens
    BY <1>3, <2>1 DEF Moves
  <2>3. RowLeft(t, a) = 3 /\ next \in AccessCommands \cap Opens => Delays(cmd, to, next, a) # {}
    BY <1>5
  <2>. HIDE DEF cmd, to, u, next, acc
  <2>4. CASE RowLeft(t, a) = 1
    BY <2>1, <2>4
  <2>5. CASE RowLeft(t, a) = 2
    <3>1. cmd \in AccessCommands \cap Opens /\ next = acc
      BY <2>1, <2>2, <2>5
    <3>2. cmd # "PRE_OTHER" /\ acc # "PRE_OTHER"
      BY <3>1 DEF Opens, acc
    <3>3. to = a
      BY <1>2, <3>2 DEF to
    <3>. QED
      BY <1>2, <3>1, <3>2, <3>3 DEF acc
  <2>6. CASE RowLeft(t, a) = 3
    <3>1. next \in AccessCommands \cap Opens
      BY <2>1, <2>2, <2>6
    <3>2. next # "PRE_OTHER"
      BY <3>1 DEF Opens
    <3>. QED
      BY <1>2, <2>3, <2>6, <3>1, <3>2
  <2>. QED
    BY <2>1, <2>4, <2>5, <2>6
<1>. QED
  BY <1>4, <1>5

\* The standards with one command that opens a row and one that closes it.
LEMMA PlainTimely ==
  ASSUME std \in Standards, std \in Plain \cup Refreshing, NEW type \in Access, NEW a \in Addresses(type),
         NEW t \in Tree, t.rank # "SelfRefresh"
  PROVE  Timely(type, t, a)
<1>1. /\ std \in Standard \ {"TLDRAM"}
      /\ AccessCommands = {"RD", "WR", "ACT", "PRE"}
  BY DEF Plain, Refreshing, Flat, Standard, WithSubArrays, AccessCommands
<1>2. Accessing(type) \in {"RD", "WR"} /\ spec(std).rank = {"PREA", "REF", "PDE", "PDX", "SRE", "SRX"}
  BY PlainSpec, DSARPSpec DEF Accessing, Access, Refreshing
<1>3. \A v \in Tree : Moves(type, v, a)
  BY PlainMoves, DSARPAccessMoves
<1>4. RankParts(timing(std)) /\ RowParts(timing(std), RowLevel(std))
  BY <1>1, EveryTableHasParts
<1>5. \A c \in AccessCommands : Delays("PDX", a, c, a) # {}
  BY <1>1, <1>4, RankPartsTimed, RankDelay
<1>6. a.bank # None
  BY AccessAddress
<1>7. Delays("ACT", a, Accessing(type), a) # {} /\ Delays("PRE", a, "ACT", a) # {}
  BY <1>2, <1>4, <1>6, RowPartsTimed, RowDelay
<1>8. AccessCommands \cap Opens = {"ACT"} /\ AccessCommands \cap Closes = {"PRE"}
  BY <1>1 DEF Opens, Closes
<1>9. ASSUME t.rank = "PowerUp", RowLeft(t, a) = 3
      PROVE  FirstCommand(type, t, a) = "PRE"
  BY <1>3, <1>8, <1>9 DEF Moves
<1>. QED
  BY <1>1, <1>2, <1>3, <1>5, <1>7, <1>8, <1>9, AccessTimely DEF get_addr_vec

LEMMA TLDRAMTimely ==
  ASSUME std \in Standards, std = "TLDRAM", NEW type \in Access, NEW a \in Addresses(type),
         NEW t \in Tree, t.rank # "SelfRefresh"
  PROVE  Timely(type, t, a)
<1>1. /\ std \in Standard /\ RowLevel(std) = "Bank"
      /\ AccessCommands = {"WR", "MIG"} \cup Acts \cup Pres
  BY DEF Flat, Standard, RowLevel, SALP, AccessCommands, Acts, Pres
<1>2. /\ Accessing(type) \in {"WR", "MIG"}
      /\ spec(std).rank = {"PREA", "PREAF", "PREAM", "REF", "PDE", "PDX", "SRE", "SRX"}
  BY TLDRAMSpec DEF Accessing, Access
<1>3. \A v \in Tree : Moves(type, v, a)
  BY TLDRAMMoves
<1>4. \A c \in AccessCommands : Delays("PDX", a, c, a) # {}
  BY <1>1, TLDRAMTimed, RankDelay
<1>5. a.bank # None
  BY AccessAddress
<1>6. \A c \in Acts : Delays(c, a, Accessing(type), a) # {}
  BY <1>1, <1>2, <1>5, TLDRAMTimed, RowDelay
<1>7. \A c \in Pres, d \in Acts : Delays(c, a, d, a) # {}
  <2>1. \A d \in Acts : d \notin spec(std).rank
    BY <1>2 DEF Acts
  <2>. QED
    BY <1>1, <1>5, <2>1, TLDRAMTimed, RowDelay
<1>8. AccessCommands \cap Opens = Acts /\ AccessCommands \cap Closes = Pres
  BY <1>1 DEF Opens, Closes, Acts, Pres
<1>9. ASSUME t.rank = "PowerUp", RowLeft(t, a) = 3
      PROVE  FirstCommand(type, t, a) \in Pres
  BY <1>3, <1>8, <1>9 DEF Moves
<1>10. \A c \in Pres : get_addr_vec(c, t, a) = a
  BY DEF Pres, get_addr_vec
<1>. QED
  BY <1>1, <1>2, <1>3, <1>4, <1>6, <1>7, <1>8, <1>9, <1>10, AccessTimely

\* SALP-1 closes the subarray that is in the way, before it opens its own.
LEMMA SALP1Timely ==
  ASSUME IInv, std \in Standards, std = "SALP_1", NEW type \in Access, NEW a \in Addresses(type),
         tree.rank # "SelfRefresh"
  PROVE  Timely(type, tree, a)
<1>1. /\ std \in Standard \ {"TLDRAM"} /\ std \in SALP /\ tree \in Tree
      /\ AccessCommands = {"RD", "WR", "ACT", "PRE", "PRE_OTHER"}
  BY DEF IInv, Typed, SALP, AccessCommands
<1>2. Accessing(type) \in {"RD", "WR"} /\ spec(std).rank = {"PREA", "REF", "PDE", "PDX", "SRE", "SRX"}
  BY SALPSpec DEF Accessing, Access
<1>3. \A v \in Tree : Moves(type, v, a)
  BY SALP1Moves
<1>4. RankParts(timing(std)) /\ RowParts(timing(std), RowLevel(std))
  BY <1>1, EveryTableHasParts
<1>5. \A c \in AccessCommands \ {"PRE_OTHER", "SASEL"} : Delays("PDX", a, c, a) # {}
  BY <1>1, <1>4, RankPartsTimed, RankDelay
<1>6. a.bank # None
  BY AccessAddress
<1>7. Delays("ACT", a, Accessing(type), a) # {} /\ Delays("PRE", a, "ACT", a) # {}
  BY <1>2, <1>4, <1>6, RowPartsTimed, RowDelay
<1>8. AccessCommands \cap Opens = {"ACT"} /\ AccessCommands \cap Closes = {"PRE", "PRE_OTHER"}
  BY <1>1 DEF Opens, Closes
<1>9. ASSUME tree.rank = "PowerUp", RowLeft(tree, a) = 3
      PROVE  LET cmd == FirstCommand(type, tree, a) IN Delays(cmd, get_addr_vec(cmd, tree, a), "ACT", a) # {}
  <2>1. FirstCommand(type, tree, a) \in {"PRE", "PRE_OTHER"}
    BY <1>1, <1>3, <1>8, <1>9 DEF Moves
  <2>2. CASE FirstCommand(type, tree, a) = "PRE"
    BY <1>7, <2>2 DEF get_addr_vec
  <2>3. CASE FirstCommand(type, tree, a) = "PRE_OTHER"
    <3>1. PICK o : o = Offending(tree, a)
      OBVIOUS
    <3>2. o.bank = a.bank /\ o.sa # a.sa
      BY <2>3, <3>1, SALP1Access
    <3>3. Delays("PRE_OTHER", o, "ACT", a) # {}
      BY <1>1, <1>2, <1>6, <3>2, SubArrayTablesTimed, SiblingDelay
    <3>. QED
      BY <2>3, <3>1, <3>3 DEF get_addr_vec
  <2>. QED
    BY <2>1, <2>2, <2>3
<1>. QED
  BY <1>1, <1>2, <1>3, <1>5, <1>7, <1>8, <1>9, AccessTimely

\* After a precharge MASA activates: there is nothing to select.
LEMMA MASATimely ==
  ASSUME std \in Standards, std = "MASA", NEW type \in Access, NEW a \in Addresses(type),
         NEW t \in Tree, t.rank # "SelfRefresh"
  PROVE  Timely(type, t, a)
<1>. DEFINE cmd == FirstCommand(type, t, a)
            u == After(cmd, t, a)
            next == FirstCommand(type, u, a)
<1>1. /\ std \in Standard \ {"TLDRAM"} /\ std \in SALP /\ RowLevel(std) = "SubArray"
      /\ AccessCommands = {"RD", "WR", "ACT", "PRE", "SASEL"}
  BY DEF Standard, WithSubArrays, Flat, SALP, RowLevel, AccessCommands
<1>2. Accessing(type) \in {"RD", "WR"} /\ spec(std).rank = {"PREA", "REF", "PDE", "PDX", "SRE", "SRX"}
  BY SALPSpec DEF Accessing, Access
<1>3. \A v \in Tree : Moves(type, v, a)
  BY MASAMoves
<1>4. RankParts(timing(std)) /\ RowParts(timing(std), RowLevel(std))
  BY <1>1, EveryTableHasParts
<1>5. \A c \in AccessCommands \ {"PRE_OTHER", "SASEL"} : Delays("PDX", a, c, a) # {}
  BY <1>1, <1>4, RankPartsTimed, RankDelay
<1>6. a.bank # None
  BY AccessAddress
<1>7. Delays("ACT", a, Accessing(type), a) # {} /\ Delays("PRE", a, "ACT", a) # {}
  BY <1>2, <1>4, <1>6, RowPartsTimed, RowDelay
<1>8. Delays("SASEL", a, Accessing(type), a) # {}
  BY <1>1, <1>2, <1>6, SubArrayTablesTimed, RowDelay
<1>9. AccessCommands \cap Opens = {"ACT", "SASEL"} /\ AccessCommands \cap Closes = {"PRE"}
  BY <1>1 DEF Opens, Closes
<1>10. ASSUME t.rank = "PowerUp", RowLeft(t, a) = 3
       PROVE  cmd = "PRE" /\ next # "SASEL"
  <2>1. cmd = "PRE" /\ u \in Tree
    BY <1>3, <1>9, <1>10 DEF Moves
  <2>2. u.sa[a.bank][a.sa].state = "Closed"
    BY <1>10, MASAMoves
  <2>3. next # "SASEL"
    <3>. HIDE DEF u
    <3>. QED
      BY <2>1, <2>2, MASAMoves
  <2>. QED
    BY <2>1, <2>3
<1>11. get_addr_vec("PRE", t, a) = a
  BY DEF get_addr_vec
<1>. QED
  BY <1>1, <1>2, <1>3, <1>5, <1>7, <1>8, <1>9, <1>10, <1>11, AccessTimely

\* SALP-2: what is left are its own subarray's precharge and activate.
LEMMA SALP2Timely ==
  ASSUME std \in Standards, std = "SALP_2", NEW type \in Access, NEW a \in Addresses(type),
         NEW t \in Tree, t.rank # "SelfRefresh"
  PROVE  Timely(type, t, a)
<1>. DEFINE acc == Accessing(type)
            cmd == FirstCommand(type, t, a)
            u == After(cmd, t, a)
            next == FirstCommand(type, u, a)
            left(v) == NodeLeft(v.sa[a.bank][a.sa], a.row)
<1>1. std \in Standard \ {"TLDRAM"} /\ std \in SALP
  BY DEF Standard, WithSubArrays, Flat, SALP
<1>2. acc \in {"RD", "WR"} /\ spec(std).rank = {"PREA", "REF", "PDE", "PDX", "SRE", "SRX"}
  BY SALPSpec DEF Accessing, Access
<1>3. RankParts(timing(std)) /\ RowParts(timing(std), RowLevel(std))
  BY <1>1, EveryTableHasParts
<1>4. \A c \in {"RD", "WR", "ACT", "PRE"} : Delays("PDX", a, c, a) # {}
  BY <1>3, RankPartsTimed, RankDelay
<1>5. a.bank # None
  BY AccessAddress
<1>6. Delays("ACT", a, acc, a) # {} /\ Delays("PRE", a, "ACT", a) # {}
  BY <1>2, <1>3, <1>5, RowPartsTimed, RowDelay
<1>7. /\ t.rank # "PowerUp" => cmd = MemoryAwake(t)
      /\ left(t) \in 1 .. 3
      /\ t.rank = "PowerUp" => /\ left(t) = 2 => cmd = "ACT"
                               /\ left(t) = 3 => cmd = "PRE"
                               /\ left(t) = 1 => cmd \in {acc, "PRE_OTHER"}
  BY SALP2First
<1>8. u.rank = "PowerUp" => /\ left(u) = 2 => next = "ACT"
                            /\ left(u) = 1 => next \in {acc, "PRE_OTHER"}
                            /\ next \in {acc, "ACT", "PRE", "PRE_OTHER"}
  <2>. HIDE DEF u
  <2>. QED
    BY SALP2First
<1>9. t.rank = "PowerUp" => /\ u.rank = "PowerUp"
                            /\ left(t) = 2 => left(u) = 1
                            /\ left(t) = 3 => left(u) = 2
  BY SALP2Progresses
<1>10. \A c : c # "PRE_OTHER" => \A v : get_addr_vec(c, v, a) = a
  BY DEF get_addr_vec
<1>11. SUFFICES \/ cmd = acc \/ "PRE_OTHER" \in {cmd, next}
                \/ Delays(cmd, get_addr_vec(cmd, t, a), next, get_addr_vec(next, u, a)) # {}
  BY DEF Timely, After
<1>12. CASE t.rank # "PowerUp"
  <2>1. cmd = "PDX" /\ u.rank = "PowerUp"
    BY <1>1, <1>7, <1>12, Awake
  <2>. HIDE DEF cmd, u, next, acc
  <2>. QED
    BY <1>2, <1>4, <1>8, <1>10, <2>1
<1>13. CASE t.rank = "PowerUp"
  <2>. HIDE DEF cmd, u, next, acc, left
  <2>. QED
    BY <1>2, <1>6, <1>7, <1>8, <1>9, <1>10, <1>13
<1>. QED
  BY <1>12, <1>13

\* What is not an access waits for the rank, or for the bank that it refreshes.
LEMMA OthersTimely ==
  ASSUME std \in Standards, NEW type \in Request \ Access, NEW a \in Addresses(type),
         NEW t \in Tree, t.rank # "SelfRefresh"
  PROVE  Timely(type, t, a)
<1>. DEFINE own == Accessing(type)
            cmd == FirstCommand(type, t, a)
            u == After(cmd, t, a)
            next == FirstCommand(type, u, a)
<1>1. std \in Standard
  BY ChannelAssumption
<1>2. own \in {"REF", "PDE", "SRE"} \/ (own = "REFPB" /\ std = "DSARP")
  BY <1>1, OwnCommands
<1>3. LeadsTo(type, t, a) /\ (own = "REFPB" => a.bank \in Bank)
  BY <1>1, <1>2, RankProgresses, BankProgresses
<1>4. SUFFICES cmd = own \/ Delays(cmd, get_addr_vec(cmd, t, a), next, get_addr_vec(next, u, a)) # {}
  BY DEF Timely, After
<1>5. \A c : c # "PRE_OTHER" => \A v : get_addr_vec(c, v, a) = a
  BY DEF get_addr_vec
<1>6. cmd = own \/ (next = own /\ Leads(cmd, own, t))
  BY <1>3 DEF LeadsTo
<1>. HIDE DEF cmd, own, u, next
<1>7. Delays("PDX", a, "SRE", a) # {} /\ Delays("PREA", a, "REF", a) # {}
  <2>1. Has(timing(std), "Rank", "PDX", "SRE") /\ Has(timing(std), "Rank", "PREA", "REF")
    <3>1. CASE std = "TLDRAM"
      BY <3>1, TLDRAMTimed
    <3>2. CASE std # "TLDRAM"
      BY <1>1, <3>2, EveryTableHasParts, RankPartsTimed
    <3>. QED
      BY <3>1, <3>2
  <2>. QED
    BY <2>1, RankDelay
<1>8. std = "TLDRAM" => Delays("PREAF", a, "REF", a) # {}
  BY TLDRAMTimed, RankDelay
<1>9. own = "REFPB" => Delays("PRE", a, "REFPB", a) # {}
  <2>1. std = "DSARP" => RowLevel(std) = "Bank" /\ "REFPB" \notin spec(std).rank
    BY DSARPSpec DEF RowLevel, SALP
  <2>2. own = "REFPB" => a.bank # None
    BY <1>3, StandardsAssumption DEF own, None
  <2>. QED
    BY <1>2, <2>1, <2>2, SubArrayTablesTimed, RowDelay
<1>. QED
  BY <1>2, <1>5, <1>6, <1>7, <1>8, <1>9 DEF Leads

\* Whatever the standard and the state, between a command of a request and the next
\* (decode, the prerequisites of the standard) the controller has to wait for a time
\* that init_timing gives: no prerequisite was forgotten in a timing table.
THEOREM NextAlwaysTimed == Spec => []NextIsTimed
<1>1. ASSUME IInv, std \in Standards PROVE NextIsTimed
  <2>1. tree \in Tree /\ std \in Standard
    BY <1>1 DEF IInv, Typed
  <2>2. SUFFICES ASSUME tree.rank # "SelfRefresh", NEW type \in Request, NEW a \in Addresses(type)
                 PROVE  Timely(type, tree, a)
    BY DEF NextIsTimed, Timely, Accessing
  <2>3. CASE type \in Access
    <3>1. std \in Plain \cup {"TLDRAM", "SALP_1", "SALP_2", "MASA"} \cup Refreshing
      BY <2>1, Families DEF SALP
    <3>. QED
      BY <1>1, <2>1, <2>2, <2>3, <3>1, PlainTimely, TLDRAMTimely, SALP1Timely, SALP2Timely, MASATimely
  <2>4. CASE type \notin Access
    BY <1>1, <2>1, <2>2, <2>4, OthersTimely
  <2>. QED
    BY <2>3, <2>4
<1>. QED
  BY <1>1, Invariance, StandardOfRun, PTL
=============================================================================

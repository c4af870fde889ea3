---------------------------- MODULE DramChannel ----------------------------
(***************************************************************************)
(* A DRAM channel as the controller of labs/lab3 sees it (src/DRAM.h, with *)
(* the state machine of src/DDR3.cpp): which row is open in each bank, and *)
(* when each node of the tree channel - rank - bank accepts each command.  *)
(* There is one rank, which is never powered down: nothing asks for it.    *)
(*                                                                         *)
(* next holds the cycles until a command is accepted, where the code keeps *)
(* the cycle itself.  timing lists the constraints of distance one.        *)
(***************************************************************************)
EXTENDS Integers

CONSTANTS
  Bank, Row, Closed,
  timing             \* [level, from, to, val]: what init_timing pushes

Level == {"Channel", "Rank", "Bank"}
Command == {"ACT", "PRE", "PREA", "RD", "WR", "REF"}

ASSUME ChannelAssumption ==
  /\ Closed \notin Row /\ Bank \cap Level = {}
  /\ timing \subseteq [level : Level, from : Command, to : Command, val : Nat]

Node == {"Channel", "Rank"} \cup Bank

VARIABLES open, next

is_opening(cmd) == cmd = "ACT"
is_accessing(cmd) == cmd \in {"RD", "WR"}
is_closing(cmd) == cmd \in {"PRE", "PREA"}
is_refreshing(cmd) == cmd = "REF"
OfRank(cmd) == cmd \in {"PREA", "REF"}

\* the nodes a command for bank b passes on its way down the tree
Path(cmd, b) == {"Channel", "Rank"} \cup (IF OfRank(cmd) THEN {} ELSE {b})

\* the banks a command changes
Target(cmd, b) == IF OfRank(cmd) THEN Bank ELSE {b}

LevelOf(n) == IF n \in Bank THEN "Bank" ELSE n

\* cycles left once this cycle has begun
Left(n, cmd) == IF next[n][cmd] = 0 THEN 0 ELSE next[n][cmd] - 1

\* DRAM::check
check(cmd, b) == \A n \in Path(cmd, b) : Left(n, cmd) = 0

\* DRAM::decode: the command an access of row r in bank b, or a refresh, needs now
DecodeAccess(cmd, b, r) == IF open[b] = Closed THEN "ACT" ELSE IF open[b] = r THEN cmd ELSE "PRE"
DecodeRefresh == IF \E b \in Bank : open[b] # Closed THEN "PREA" ELSE "REF"

\* DRAM::check_row_hit
check_row_hit(b, r) == open[b] = r

\* DRAM::update_state
update_state(cmd, b, r) ==
  open' = [c \in Bank |->
    IF c \notin Target(cmd, b) THEN open[c]
    ELSE IF is_opening(cmd) THEN r ELSE IF is_closing(cmd) THEN Closed ELSE open[c]]

\* DRAM::update_timing
Delay(n, from, to) ==
  {t.val : t \in {u \in timing : u.level = LevelOf(n) /\ u.from = from /\ u.to = to}}

update_timing(cmd, b) ==
  next' = [n \in Node |-> [c \in Command |->
    IF n \notin Path(cmd, b) THEN Left(n, c)
    ELSE CHOOSE d \in Delay(n, cmd, c) \cup {Left(n, c)} :
           \A e \in Delay(n, cmd, c) \cup {Left(n, c)} : e <= d]]

\* a cycle without a command
Elapse == next' = [n \in Node |-> [c \in Command |-> Left(n, c)]] /\ UNCHANGED open

ChannelInit ==
  /\ open = [b \in Bank |-> Closed]
  /\ next = [n \in Node |-> [c \in Command |-> 0]]
=============================================================================

---------------------------- MODULE Instructions ----------------------------
(***************************************************************************)
(* What the pipeline of labs/lab1 and labs/lab2 has to know of an          *)
(* instruction.  How an instruction is encoded and what it computes are    *)
(* parameters, so that Isa and Pipe can be compared whatever they are;     *)
(* Mips defines them as the simulators do.                                 *)
(***************************************************************************)
EXTENDS Integers

CONSTANTS
  Word, Reg,       \* values and registers
  Zero,
  Start,           \* address of the first instruction
  PlusFour(_),     \* address of the next instruction
  Src1(_), Src2(_), Dst(_),   \* the registers of an instruction, or -1
  IsLoad(_), IsStore(_),
  Address(_, _),        \* of a load or store, given its first operand
  Aligned(_),           \* address of the word an address is in
  Loaded(_, _, _),      \* value of a load: instruction, address, word in memory
  Stored(_, _, _, _),   \* word after a store: instruction, address, value, word before
  Result(_, _, _, _, _, _), \* value of any other: instruction, pc, operands, HI, LO
  NewHI(_, _, _, _), NewLO(_, _, _, _),  \* instruction, operands, old value
  Latency(_),           \* cycles until HI and LO are ready, 0: does not set them
  UsesHiLo(_),          \* reads or writes HI or LO and waits for the multiplier
  Taken(_, _, _),       \* is the branch taken?  instruction, operands
  Target(_, _, _),      \* where to: instruction, pc, first operand
  Exits(_, _)           \* is it the exit system call?  instruction, operand

\* The zero register reads as zero whatever is written to it, and so does the
\* operand of an instruction that has none.
IsWritable(r) == r \in Reg \ {0}
Operand(regs, r) == IF IsWritable(r) THEN regs[r] ELSE Zero
Written(regs, r, v) == IF IsWritable(r) THEN [regs EXCEPT ![r] = v] ELSE regs

\* mem_read_32, mem_write_32: outside of the memory regions a read returns zero
\* and a write has no effect
Read(mem, a) == IF Aligned(a) \in DOMAIN mem THEN mem[Aligned(a)] ELSE Zero

AfterStore(mem, i, a, v) ==
  IF Aligned(a) \in DOMAIN mem
    THEN [mem EXCEPT ![Aligned(a)] = Stored(i, a, v, @)]
    ELSE mem

\* The state of a program after instruction i, which its pc points to.
Executed(i, s) ==
  LET v1 == Operand(s.regs, Src1(i))
      v2 == Operand(s.regs, Src2(i))
      a == Address(i, v1)
  IN [pc |-> IF Taken(i, v1, v2) THEN Target(i, s.pc, v1) ELSE PlusFour(s.pc),
      regs |-> Written(s.regs, Dst(i), IF IsLoad(i) THEN Loaded(i, a, Read(s.mem, a))
                                       ELSE Result(i, s.pc, v1, v2, s.hi, s.lo)),
      hi |-> NewHI(i, v1, v2, s.hi),
      lo |-> NewLO(i, v1, v2, s.lo),
      mem |-> IF IsStore(i) THEN AfterStore(s.mem, i, a, v2) ELSE s.mem]
=============================================================================

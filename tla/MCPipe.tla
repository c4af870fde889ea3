------------------------------- MODULE MCPipe -------------------------------
(* Pipe with the instructions of Mips, words of eight bits and small programs. *)
EXTENDS Pipe, Mips, Sequences

\* an instruction with register fields rd, rs, rt, and one with rt, rs and imm16
Ins(op, rd, rs, rt) ==
  [op |-> op, rd |-> rd, rs |-> rs, rt |-> rt, shamt |-> 0, imm |-> 0, targ |-> 0]
Shift(op, rd, rt, shamt) == [Ins(op, rd, 0, rt) EXCEPT !.shamt = shamt]
Imm(op, rt, rs, imm) == [Ins(op, 0, rs, rt) EXCEPT !.imm = imm % 16]
Jump(op, index) == [Ins(op, 0, 0, 0) EXCEPT !.targ = index - 1]   \* to the index-th instruction

Nop == Shift("SLL", 0, 0, 0)
Syscall == Ins("SYSCALL", 0, 0, 0)
SetExit == Imm("ORI", 2, 0, 10)   \* v0 = 10
MCReg == {0, 1, 2, 3, 31}
MCStart == 128

\* the program with the given instructions, the first at Start; the fetch stage
\* gets no further than a few words behind the exit system call
AtStart(instrs) ==
  [a \in {MCStart + 4 * n : n \in 0 .. Len(instrs) + 3} |->
     LET n == (a - MCStart) \div 4 + 1 IN IF n \in DOMAIN instrs THEN instrs[n] ELSE Nop]

\* arithmetic, each instruction on the result of the one or two before it
Arithmetics == <<
  Imm("ADDIU", 1, 0, 13), Ins("ADDU", 3, 1, 1), Ins("SUB", 1, 3, 1), Imm("ANDI", 3, 1, 12),
  Ins("OR", 1, 3, 1), Imm("XORI", 3, 1, 5), Ins("XOR", 1, 3, 1), Ins("NOR", 3, 1, 3),
  Ins("AND", 1, 3, 1), Ins("SLT", 1, 3, 0), Ins("SLTU", 1, 3, 1), Imm("SLTI", 3, 3, 15),
  Imm("SLTIU", 3, 3, 1), Ins("ADD", 3, 3, 1), Imm("LUI", 1, 0, 9), Shift("SRA", 3, 1, 2),
  Shift("SRL", 1, 3, 1), Shift("SLL", 1, 1, 1), Ins("SLLV", 3, 2, 1), Ins("SRLV", 1, 2, 3),
  Ins("SRAV", 1, 2, 1), Ins("ADDU", 0, 1, 1), Ins("ADDU", 1, 0, 1), Imm("ADDI", 2, 0, 5),
  Ins("ADDU", 2, 2, 2), Syscall>>

\* multiplications and divisions, HI and LO read early and late and overwritten
HiLos == <<
  Imm("LUI", 1, 0, 8), Imm("ADDIU", 3, 0, 13), Ins("MULT", 0, 1, 3), Ins("MFHI", 2, 0, 0),
  Ins("MFLO", 31, 0, 0), Ins("DIV", 0, 1, 3), Ins("MULTU", 0, 1, 3), Nop, Ins("MFHI", 1, 0, 0),
  Ins("DIVU", 0, 1, 3), Ins("MTHI", 0, 3, 0), Ins("MFHI", 2, 0, 0), Ins("MFLO", 1, 0, 0),
  Ins("DIV", 0, 1, 0), Ins("MTLO", 0, 1, 0), Ins("MFLO", 3, 0, 0), SetExit, Syscall, Nop,
  Ins("MULT", 0, 2, 2)>>

\* loads and stores of every size, used at once
Transfers == <<
  Imm("LUI", 1, 0, 11), Imm("ORI", 1, 1, 6), Imm("SW", 1, 0, 0), Imm("LW", 3, 0, 0),
  Imm("SB", 3, 0, 1), Imm("LB", 2, 0, 1), Imm("SH", 2, 0, 6), Imm("LH", 3, 0, 6),
  Imm("LHU", 1, 0, 0), Imm("LBU", 31, 0, 5), Imm("SB", 31, 0, 3),
  Imm("SB", 31, 0, 0), Imm("LH", 1, 0, 2), Imm("SW", 1, 0, 12), Imm("LW", 3, 0, 12),
  SetExit, Syscall, Imm("SW", 1, 0, 4)>>

\* branches taken and not taken, a loop, calls and returns
Branches == <<
  Imm("ADDIU", 1, 0, 2), Imm("ADDIU", 1, 1, 15), Imm("BNE", 0, 1, 14), Imm("BGEZAL", 0, 1, 1),
  Imm("ADDIU", 3, 3, 7), Imm("BLTZ", 0, 1, 3), Imm("BLEZ", 0, 1, 1), Imm("ADDIU", 3, 3, 7),
  Imm("BGTZ", 0, 1, 3), Jump("JAL", 15), Imm("BEQ", 1, 1, 1), Imm("ADDIU", 3, 3, 7),
  Imm("BLTZAL", 0, 0, 1), Jump("J", 17), Imm("ADDIU", 3, 3, 7), Ins("JR", 0, 31, 0),
  SetExit, Imm("BGEZ", 0, 3, 0), Jump("JAL", 21), Syscall, Ins("JALR", 1, 31, 0)>>

\* Any three of these instructions, then the exit system call and two more.
Few == {Imm("ADDIU", 1, 1, 1), Imm("LW", 1, 0, 0), Imm("SW", 1, 0, 0),
        Ins("MULT", 0, 1, 1), Ins("MFLO", 1, 0, 0), Imm("BNE", 0, 1, 1)}
Short == {<<SetExit>> \o instrs \o <<SetExit, Syscall, Imm("ADDIU", 1, 1, 1), Imm("SW", 2, 0, 4)>> :
            instrs \in [1 .. 3 -> Few]}

MCPrograms == {AtStart(instrs) : instrs \in {Arithmetics, HiLos, Transfers, Branches} \cup Short}

\* an exit system call is not a taken branch
ASSUME ExitsAreNoBranches ==
  \A i \in UNION {{p[a] : a \in DOMAIN p} : p \in MCPrograms}, v \in MipsWord :
    MipsExits(i, v) => \A w \in MipsWord : ~MipsTaken(i, v, w)

MCMemories == {[a \in {0, 4} |-> IF a = 0 THEN 1 ELSE 200]}
MCCacheStalls == {0, 2}
MCTiming == <<2, 4>>
=============================================================================

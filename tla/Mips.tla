-------------------------------- MODULE Mips --------------------------------
(***************************************************************************)
(* The instructions of the simulators of labs/lab1 and labs/lab2: which    *)
(* registers they use (pipe_stage_decode), what they compute and where     *)
(* they branch (pipe_stage_execute), and what loads and stores do to the   *)
(* word in memory (pipe_stage_mem).                                        *)
(*                                                                         *)
(* A word has four bytes of ByteBits bits, 8 in the code.  Values are the  *)
(* unsigned ones, as in the code, and wrap.  A decoded instruction is a    *)
(* record of its name and fields; op is the opcode together with subop.    *)
(***************************************************************************)
EXTENDS Integers, Bitwise

CONSTANTS ByteBits,
          Timing   \* cycles of a multiplication and of a division, 4 and 32 in the code

NO_REG == -1
HalfBits == 2 * ByteBits
WordBits == 4 * ByteBits
Wrap(n) == n % 2^WordBits
Signed(v) == IF v >= 2^(WordBits - 1) THEN v - 2^WordBits ELSE v
MipsWord == 0 .. 2^WordBits - 1
-----------------------------------------------------------------------------
(* pipe_stage_decode *)
Shifts == {"SLL", "SRL", "SRA"}
VariableShifts == {"SLLV", "SRLV", "SRAV"}
JumpRegister == {"JR", "JALR"}
Multiplications == {"MULT", "MULTU"}
Divisions == {"DIV", "DIVU"}
Moves == {"MFHI", "MTHI", "MFLO", "MTLO"}
Arithmetic == {"ADD", "ADDU", "SUB", "SUBU", "AND", "OR", "XOR", "NOR", "SLT", "SLTU"}
Special == Shifts \cup VariableShifts \cup JumpRegister \cup {"SYSCALL"} \cup Multiplications
           \cup Divisions \cup Moves \cup Arithmetic
BranchSpecial == {"BLTZ", "BGEZ", "BLTZAL", "BGEZAL"}
Linking == {"BLTZAL", "BGEZAL", "JAL"}
Conditional == {"BEQ", "BNE", "BLEZ", "BGTZ"}
Immediates == {"ADDI", "ADDIU", "SLTI", "SLTIU", "ANDI", "ORI", "XORI", "LUI"}
Loads == {"LB", "LH", "LW", "LBU", "LHU"}
Stores == {"SB", "SH", "SW"}
Jumps == {"J", "JAL"}

\* The system call reads v0 and v1.  The second register of a special branch is
\* its subop and not used.
MipsSrc1(i) == IF i.op = "SYSCALL" THEN 2 ELSE IF i.op \in Jumps THEN NO_REG ELSE i.rs
MipsSrc2(i) == IF i.op = "SYSCALL" THEN 3
               ELSE IF i.op \in Jumps \cup BranchSpecial \cup Immediates \cup Loads THEN NO_REG ELSE i.rt

\* every special instruction writes rd, branches and jumps that link write r31
MipsDst(i) == CASE i.op \in Special -> i.rd
                [] i.op \in Linking -> 31
                [] i.op \in Immediates \cup Loads -> i.rt
                [] OTHER -> NO_REG

\* imm16 with the sign extended, as a word
SeImm(i) == IF i.imm >= 2^(HalfBits - 1) THEN Wrap(i.imm - 2^HalfBits) ELSE i.imm

Link(pc) == Wrap(pc + 4)
BranchDest(i, pc) == Wrap(pc + 4 + SeImm(i) * 4)
Region == 2^(WordBits - ByteBits \div 2)
JumpDest(i, pc) == (pc - (pc % Region)) + ((i.targ * 4) % Region)
-----------------------------------------------------------------------------
(* pipe_stage_execute *)
\* A shift by more than the width is undefined in C: the shift instruction of
\* the build's processor takes the amount modulo the width.
ShiftLeft(v, n) == Wrap(v * 2^(n % WordBits))
ShiftRight(v, n) == v \div 2^(n % WordBits)
ShiftArithmetic(v, n) == Wrap(Signed(v) \div 2^(n % WordBits))

Bit(b) == IF b THEN 1 ELSE 0
AllOnes == 2^WordBits - 1

\* reg_dst_value of the instructions that write rd
SpecialResult(i, pc, v1, v2, hi, lo) ==
  CASE i.op = "SLL" -> ShiftLeft(v2, i.shamt)
    [] i.op = "SLLV" -> ShiftLeft(v2, v1)
    [] i.op = "SRL" -> ShiftRight(v2, i.shamt)
    [] i.op = "SRLV" -> ShiftRight(v2, v1)
    [] i.op = "SRA" -> ShiftArithmetic(v2, i.shamt)
    [] i.op = "SRAV" -> ShiftArithmetic(v2, v1)
    [] i.op \in JumpRegister -> Link(pc)
    [] i.op = "MFHI" -> hi
    [] i.op = "MFLO" -> lo
    [] i.op \in {"ADD", "ADDU"} -> Wrap(v1 + v2)
    [] i.op \in {"SUB", "SUBU"} -> Wrap(v1 - v2)
    [] i.op = "AND" -> v1 & v2
    [] i.op = "OR" -> v1 | v2
    [] i.op = "NOR" -> AllOnes - (v1 | v2)
    [] i.op = "XOR" -> v1 ^^ v2
    [] i.op = "SLT" -> Bit(Signed(v1) < Signed(v2))
    [] i.op = "SLTU" -> Bit(v1 < v2)
    [] OTHER -> 0

\* ... and of those with an immediate operand
ImmediateResult(i, v1) ==
  CASE i.op \in {"ADDI", "ADDIU"} -> Wrap(v1 + SeImm(i))
    [] i.op = "SLTI" -> Bit(Signed(v1) < Signed(SeImm(i)))
    [] i.op = "SLTIU" -> Bit(v1 < SeImm(i))
    [] i.op = "ANDI" -> v1 & i.imm
    [] i.op = "ORI" -> v1 | i.imm
    [] i.op = "XORI" -> v1 ^^ i.imm
    [] OTHER -> Wrap(i.imm * 2^HalfBits)

MipsResult(i, pc, v1, v2, hi, lo) ==
  CASE i.op \in Special -> SpecialResult(i, pc, v1, v2, hi, lo)
    [] i.op \in Linking -> Link(pc)
    [] i.op \in Immediates -> ImmediateResult(i, v1)
    [] OTHER -> 0

Product(i, v1, v2) ==
  IF i.op = "MULT" THEN (Signed(v1) * Signed(v2)) % 2^(2 * WordBits) ELSE v1 * v2

Magnitude(n) == IF n < 0 THEN -n ELSE n

\* C rounds towards zero.  The least value divided by -1 stops the simulator
\* with an exception of the host: no program does that.
Quotient(a, b) ==
  LET q == Magnitude(a) \div Magnitude(b) IN IF (a < 0) = (b < 0) THEN q ELSE -q

DivLO(i, v1, v2) ==
  IF v2 = 0 THEN 0
  ELSE IF i.op = "DIV" THEN Wrap(Quotient(Signed(v1), Signed(v2))) ELSE v1 \div v2

DivHI(i, v1, v2) ==
  IF v2 = 0 THEN 0
  ELSE IF i.op = "DIV" THEN Wrap(Signed(v1) - Quotient(Signed(v1), Signed(v2)) * Signed(v2))
  ELSE v1 % v2

MipsHI(i, v1, v2, hi) ==
  CASE i.op \in Multiplications -> Product(i, v1, v2) \div 2^WordBits
    [] i.op \in Divisions -> DivHI(i, v1, v2)
    [] i.op = "MTHI" -> v1
    [] OTHER -> hi

MipsLO(i, v1, v2, lo) ==
  CASE i.op \in Multiplications -> Product(i, v1, v2) % 2^WordBits
    [] i.op \in Divisions -> DivLO(i, v1, v2)
    [] i.op = "MTLO" -> v1
    [] OTHER -> lo

MipsLatency(i) == CASE i.op \in Multiplications -> Timing[1]
                    [] i.op \in Divisions -> Timing[2]
                    [] OTHER -> 0
MipsUsesHiLo(i) == i.op \in Moves

MipsTaken(i, v1, v2) ==
  CASE i.op \in JumpRegister \cup Jumps -> TRUE
    [] i.op \in {"BLTZ", "BLTZAL"} -> Signed(v1) < 0
    [] i.op \in {"BGEZ", "BGEZAL"} -> Signed(v1) >= 0
    [] i.op = "BEQ" -> v1 = v2
    [] i.op = "BNE" -> v1 # v2
    [] i.op = "BLEZ" -> Signed(v1) <= 0
    [] i.op = "BGTZ" -> Signed(v1) > 0
    [] OTHER -> FALSE

MipsTarget(i, pc, v1) ==
  CASE i.op \in JumpRegister -> v1
    [] i.op \in Jumps -> JumpDest(i, pc)
    [] OTHER -> BranchDest(i, pc)

MipsAddress(i, v1) == Wrap(v1 + SeImm(i))
-----------------------------------------------------------------------------
(* pipe_stage_mem *)
MipsAligned(a) == a - (a % 4)

\* field n of v, fields of the given width
Field(v, n, bits) == (v \div 2^(n * bits)) % 2^bits
SignExtended(v, bits) == IF v >= 2^(bits - 1) THEN Wrap(v - 2^bits) ELSE v
Replaced(v, n, bits, new) == v + ((new % 2^bits) - Field(v, n, bits)) * 2^(n * bits)

Half(a) == (a % 4) \div 2
Byte(a) == a % 4

MipsLoaded(i, a, word) ==
  CASE i.op = "LW" -> word
    [] i.op = "LH" -> SignExtended(Field(word, Half(a), HalfBits), HalfBits)
    [] i.op = "LHU" -> Field(word, Half(a), HalfBits)
    [] i.op = "LB" -> SignExtended(Field(word, Byte(a), ByteBits), ByteBits)
    [] i.op = "LBU" -> Field(word, Byte(a), ByteBits)

MipsStored(i, a, value, word) ==
  CASE i.op = "SW" -> value
    [] i.op = "SH" -> Replaced(word, Half(a), HalfBits, value)
    [] i.op = "SB" -> Replaced(word, Byte(a), ByteBits, value)

MipsIsLoad(i) == i.op \in Loads
MipsIsStore(i) == i.op \in Stores

(* pipe_stage_wb *)
MipsExits(i, v1) == i.op = "SYSCALL" /\ v1 = 10
=============================================================================

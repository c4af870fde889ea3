-------------------------------- MODULE Pipe --------------------------------
(***************************************************************************)
(* The five-stage pipeline of labs/lab1 and labs/lab2.  pipe_cycle runs    *)
(* the stages from the last to the first, so that a stage finds its output *)
(* slot empty unless the next stage stalls, and handles a scheduled branch *)
(* recovery at the end:                                                    *)
(*   wb, mem, execute, decode, fetch, recover                              *)
(* The caches are those of MemHierarchy (lab2) or CacheWays (lab1): here   *)
(* an access may hit or miss.  After a miss lab1 stalls the stage for 48   *)
(* cycles before it tries again, lab2 tries again in the next cycle        *)
(* (CacheStalls is {48} or {0}).  A program does not write its             *)
(* instructions.                                                           *)
(***************************************************************************)
EXTENDS Instructions

CONSTANTS Programs, Memories, CacheStalls

ASSUME StallAssumption == CacheStalls \subseteq Nat

VARIABLES
  stage,            \* what pipe_cycle does next
  program,          \* the text region of the memory
  MEM,              \* the data regions
  wb_op, mem_op, execute_op, decode_op,  \* slots in front of the stages
  REGS, HI, LO, PC,
  branch_recover, branch_dest,   \* a scheduled recovery
  multiplier_stall,              \* cycles until HI and LO are ready
  data_cache_stall, inst_cache_stall,    \* lab1: cycles until a stage tries again
  RUN_BIT,
  final   \* history variable: the state of the program when its exit system
          \* call has been executed

slots == <<wb_op, mem_op, execute_op, decode_op>>
branch == <<branch_recover, branch_dest>>
stalls == <<multiplier_stall, data_cache_stall, inst_cache_stall>>
vars == <<stage, program, MEM, slots, REGS, HI, LO, PC, branch, stalls, RUN_BIT, final>>

\* an empty slot (a NULL pointer)
Empty == <<>>

Op(pc, i, v1, value, addr, mem_value) ==
  [pc |-> pc, instruction |-> i, reg_src1_value |-> v1, reg_dst_value |-> value,
   mem_addr |-> addr, mem_value |-> mem_value]

Fetched(pc) == Op(pc, program[pc], Zero, Zero, Zero, Zero)

IsMem(op) == IsLoad(op.instruction) \/ IsStore(op.instruction)

\* the value of an op that leaves the mem stage
MemResult(op) ==
  IF IsLoad(op.instruction)
    THEN Loaded(op.instruction, op.mem_addr, Read(MEM, op.mem_addr))
    ELSE op.reg_dst_value



MemAfter(op) ==
  IF IsStore(op.instruction)
    THEN AfterStore(MEM, op.instruction, op.mem_addr, op.mem_value)
    ELSE MEM
-----------------------------------------------------------------------------
(* The state of the program as its instructions have left it that have     *)
(* passed the execute stage: those in the mem and wb slots will complete.  *)

RegsAfterWb ==
  IF wb_op = Empty THEN REGS
  ELSE Written(REGS, Dst(wb_op.instruction), wb_op.reg_dst_value)

Committed ==
  [pc |-> IF branch_recover THEN branch_dest
          ELSE IF execute_op # Empty THEN execute_op.pc
          ELSE IF decode_op # Empty THEN decode_op.pc ELSE PC,
   regs |-> IF mem_op = Empty THEN RegsAfterWb
            ELSE Written(RegsAfterWb, Dst(mem_op.instruction), MemResult(mem_op)),
   hi |-> HI,
   lo |-> LO,
   mem |-> IF mem_op = Empty THEN MEM ELSE MemAfter(mem_op)]

Exited == final # Empty
-----------------------------------------------------------------------------
Init ==
  /\ stage = "wb"
  /\ program \in Programs
  /\ MEM \in Memories
  /\ wb_op = Empty /\ mem_op = Empty /\ execute_op = Empty /\ decode_op = Empty
  /\ REGS = [r \in Reg |-> Zero]
  /\ HI = Zero /\ LO = Zero
  /\ PC = Start
  /\ branch_recover = FALSE /\ branch_dest = Zero
  /\ multiplier_stall = 0 /\ data_cache_stall = 0 /\ inst_cache_stall = 0
  /\ RUN_BIT = TRUE
  /\ final = Empty

(* pipe_stage_wb *)
WbIdle ==
  /\ stage = "wb" /\ stage' = "mem"
  /\ RUN_BIT
  /\ wb_op = Empty
  /\ UNCHANGED <<program, MEM, slots, REGS, HI, LO, PC, branch, stalls, RUN_BIT, final>>

\* mutant: the simulation goes on for a cycle
RetireStopped ==
  /\ stage = "wb" /\ stage' = "mem"
  /\ wb_op # Empty
  /\ REGS' = RegsAfterWb
  /\ wb_op' = Empty
  /\ IF Exits(wb_op.instruction, wb_op.reg_src1_value)
       THEN PC' = PlusFour(wb_op.pc) /\ RUN_BIT' = FALSE
       ELSE UNCHANGED <<PC, RUN_BIT>>
  /\ UNCHANGED <<program, MEM, mem_op, execute_op, decode_op, HI, LO, branch, stalls, final>>

Retire ==
  /\ stage = "wb" /\ stage' = "mem"
  /\ RUN_BIT
  /\ wb_op # Empty
  /\ REGS' = RegsAfterWb
  /\ wb_op' = Empty
  /\ IF Exits(wb_op.instruction, wb_op.reg_src1_value)
       THEN PC' = PlusFour(wb_op.pc) /\ RUN_BIT' = FALSE
       ELSE UNCHANGED <<PC, RUN_BIT>>
  /\ UNCHANGED <<program, MEM, mem_op, execute_op, decode_op, HI, LO, branch, stalls, final>>

(* pipe_stage_mem *)
\* lab1: the data is still being fetched
MemStalls ==
  /\ stage = "mem" /\ stage' = "execute"
  /\ data_cache_stall > 0
  /\ data_cache_stall' = data_cache_stall - 1
  /\ UNCHANGED <<program, MEM, slots, REGS, HI, LO, PC, branch, multiplier_stall,
                 inst_cache_stall, RUN_BIT, final>>

MemIdle ==
  /\ stage = "mem" /\ stage' = "execute"
  /\ data_cache_stall = 0
  /\ mem_op = Empty
  /\ UNCHANGED <<program, MEM, slots, REGS, HI, LO, PC, branch, stalls, RUN_BIT, final>>

MemMiss ==
  /\ stage = "mem" /\ stage' = "execute"
  /\ data_cache_stall = 0
  /\ mem_op # Empty
  /\ IsMem(mem_op)
  /\ data_cache_stall' \in CacheStalls
  /\ UNCHANGED <<program, MEM, slots, REGS, HI, LO, PC, branch, multiplier_stall,
                 inst_cache_stall, RUN_BIT, final>>

\* a hit, or an op that does not access the memory
MemPasses ==
  /\ stage = "mem" /\ stage' = "execute"
  /\ data_cache_stall = 0
  /\ mem_op # Empty
  /\ MEM' = MemAfter(mem_op)
  /\ wb_op' = Op(mem_op.pc, mem_op.instruction, mem_op.reg_src1_value, MemResult(mem_op),
                 mem_op.mem_addr, mem_op.mem_value)
  /\ mem_op' = Empty
  /\ UNCHANGED <<program, execute_op, decode_op, REGS, HI, LO, PC, branch, stalls,
                 RUN_BIT, final>>

(* pipe_stage_execute *)
\* the multiplier goes on whatever the stage does
MultiplierTick == IF multiplier_stall > 0 THEN multiplier_stall - 1 ELSE 0

\* mutant: the result in the wb slot is not bypassed
BypassedNone(r) == Operand(REGS, r)

\* The bypass from the mem slot never applies: the stage runs only if that slot
\* is empty.  Operands that an earlier, stalled attempt has read are read again.
Bypassed(r) ==
  IF IsWritable(r) /\ wb_op # Empty /\ Dst(wb_op.instruction) = r
    THEN wb_op.reg_dst_value
    ELSE Operand(REGS, r)

ExecuteIdle ==
  /\ stage = "execute" /\ stage' = "decode"
  /\ mem_op # Empty \/ execute_op = Empty
  /\ multiplier_stall' = MultiplierTick
  /\ UNCHANGED <<program, MEM, slots, REGS, HI, LO, PC, branch, data_cache_stall,
                 inst_cache_stall, RUN_BIT, final>>

ExecuteWaits ==
  /\ stage = "execute" /\ stage' = "decode"
  /\ mem_op = Empty /\ execute_op # Empty
  /\ UsesHiLo(execute_op.instruction) /\ MultiplierTick > 0
  /\ multiplier_stall' = MultiplierTick
  /\ UNCHANGED <<program, MEM, slots, REGS, HI, LO, PC, branch, data_cache_stall,
                 inst_cache_stall, RUN_BIT, final>>

Execute ==
  /\ stage = "execute" /\ stage' = "decode"
  /\ mem_op = Empty /\ execute_op # Empty
  /\ ~(UsesHiLo(execute_op.instruction) /\ MultiplierTick > 0)
  /\ LET i == execute_op.instruction
         v1 == Bypassed(Src1(i))
         v2 == Bypassed(Src2(i))
     IN /\ HI' = NewHI(i, v1, v2, HI)
        /\ LO' = NewLO(i, v1, v2, LO)
        /\ multiplier_stall' = IF Latency(i) > 0 THEN Latency(i) ELSE MultiplierTick
        /\ mem_op' = Op(execute_op.pc, i, v1, Result(i, execute_op.pc, v1, v2, HI, LO),
                        Address(i, v1), v2)
        /\ execute_op' = Empty
        /\ IF Taken(i, v1, v2)
             THEN branch_recover' = TRUE /\ branch_dest' = Target(i, execute_op.pc, v1)
             ELSE UNCHANGED branch
        /\ UNCHANGED <<program, MEM, wb_op, decode_op, REGS, PC, data_cache_stall,
                       inst_cache_stall, RUN_BIT>>
        /\ final' = IF ~Exited /\ Exits(i, v1) THEN Committed' ELSE final

(* pipe_stage_decode *)
DecodeIdle ==
  /\ stage = "decode" /\ stage' = "fetch"
  /\ execute_op # Empty \/ decode_op = Empty
  /\ UNCHANGED <<program, MEM, slots, REGS, HI, LO, PC, branch, stalls, RUN_BIT, final>>

Decode ==
  /\ stage = "decode" /\ stage' = "fetch"
  /\ execute_op = Empty /\ decode_op # Empty
  /\ execute_op' = decode_op
  /\ decode_op' = Empty
  /\ UNCHANGED <<program, MEM, wb_op, mem_op, REGS, HI, LO, PC, branch, stalls, RUN_BIT, final>>

(* pipe_stage_fetch *)
\* lab1: the instruction is still being fetched
FetchStalls ==
  /\ stage = "fetch" /\ stage' = "recover"
  /\ inst_cache_stall > 0
  /\ inst_cache_stall' = inst_cache_stall - 1
  /\ UNCHANGED <<program, MEM, slots, REGS, HI, LO, PC, branch, multiplier_stall,
                 data_cache_stall, RUN_BIT, final>>

FetchBlocked ==
  /\ stage = "fetch" /\ stage' = "recover"
  /\ inst_cache_stall = 0
  /\ decode_op # Empty
  /\ UNCHANGED <<program, MEM, slots, REGS, HI, LO, PC, branch, stalls, RUN_BIT, final>>

FetchMiss ==
  /\ stage = "fetch" /\ stage' = "recover"
  /\ inst_cache_stall = 0
  /\ decode_op = Empty
  /\ inst_cache_stall' \in CacheStalls
  /\ UNCHANGED <<program, MEM, slots, REGS, HI, LO, PC, branch, multiplier_stall,
                 data_cache_stall, RUN_BIT, final>>

FetchHit ==
  /\ stage = "fetch" /\ stage' = "recover"
  /\ inst_cache_stall = 0
  /\ decode_op = Empty
  /\ decode_op' = Fetched(PC)
  /\ PC' = IF RUN_BIT THEN PlusFour(PC) ELSE PC
  /\ UNCHANGED <<program, MEM, wb_op, mem_op, execute_op, REGS, HI, LO, branch, stalls,
                 RUN_BIT, final>>

(* the end of pipe_cycle *)
NoRecovery ==
  /\ stage = "recover" /\ stage' = "wb"
  /\ ~branch_recover
  /\ UNCHANGED <<program, MEM, slots, REGS, HI, LO, PC, branch, stalls, RUN_BIT, final>>

\* every recovery flushes the decode and the execute slot
Recover ==
  /\ stage = "recover" /\ stage' = "wb"
  /\ branch_recover
  /\ PC' = branch_dest
  /\ decode_op' = Empty /\ execute_op' = Empty
  /\ branch_recover' = FALSE /\ branch_dest' = Zero
  /\ UNCHANGED <<program, MEM, wb_op, mem_op, REGS, HI, LO, stalls, RUN_BIT, final>>

Next ==
  \/ WbIdle \/ Retire
  \/ MemStalls \/ MemIdle \/ MemMiss \/ MemPasses
  \/ ExecuteIdle \/ ExecuteWaits \/ Execute
  \/ DecodeIdle \/ Decode
  \/ FetchStalls \/ FetchBlocked \/ FetchMiss \/ FetchHit
  \/ NoRecovery \/ Recover

\* The shell's loop runs cycle after cycle while RUN_BIT is set, and a stage
\* that keeps asking a cache gets its block in the end (DataArrives and
\* FetchResumes of MemHierarchy).
Fairness == WF_vars(Next) /\ SF_vars(MemPasses) /\ SF_vars(FetchHit)

SafeSpec == Init /\ [][Next]_vars
Spec == SafeSpec /\ Fairness
-----------------------------------------------------------------------------
\* The pipeline executes the program as if one instruction ran after the
\* other: bypasses, stalls, wrong-path fetches and flushes are not visible, no
\* instruction is lost or executed twice, and the program goes on.
Arch == IF Exited THEN final ELSE Committed
Sequential == INSTANCE Isa WITH pc <- Arch.pc, regs <- Arch.regs, hi <- Arch.hi, lo <- Arch.lo,
                                mem <- Arch.mem, halted <- Exited
ImplementsIsa == Sequential!Spec

\* The state of the program after one more instruction.
After(s) == Executed(program[s.pc], s)

\* The states that the next instructions behind the exit system call lead to.
Beyond == {final, After(final), After(After(final))}

\* The state the shell prints when the simulation has stopped (rdump, mdump):
\* R0 to R31 are those the program left at its exit system call.  HI, LO and
\* the PC need not be: up to two instructions behind it have been executed, and
\* the PC is the one the system call or the last of them leads to.  At most the
\* first of the two has changed the memory.
StateAtExit ==
  ~RUN_BIT =>
    /\ Exited
    /\ REGS = final.regs
    /\ MEM \in {final.mem, After(final).mem}
    /\ \E s \in Beyond : HI = s.hi /\ LO = s.lo /\ PC \in {final.pc, s.pc}
=============================================================================

----------------------------- MODULE PipeProofs -----------------------------
(***************************************************************************)
(* The pipeline executes its program one instruction after the other,      *)
(* whatever the instructions are, for any program and any behaviour of the *)
(* caches, and leaves its registers when it exits, although instructions   *)
(* behind the exit have been executed.                                     *)
(*                                                                         *)
(* The argument is Burch and Dill's: the state of the program is what one  *)
(* gets when the ops behind the execute stage complete (Committed).  Only  *)
(* Execute changes it, as the instruction at its pc does.  SlotsInOrder    *)
(* says that the slots in front of the execute stage hold the instructions *)
(* that come next, unless a recovery is scheduled that will flush them.    *)
(***************************************************************************)
EXTENDS Pipe, TLAPS

\* The slots hold the instructions that come next.
SlotsInOrder ==
  /\ execute_op # Empty => execute_op.instruction = program[execute_op.pc]
  /\ decode_op # Empty => decode_op.instruction = program[decode_op.pc]
  /\ RUN_BIT /\ ~branch_recover =>
       /\ execute_op # Empty /\ decode_op # Empty => decode_op.pc = PlusFour(execute_op.pc)
       /\ execute_op # Empty /\ decode_op = Empty => PC = PlusFour(execute_op.pc)
       /\ decode_op # Empty => PC = PlusFour(decode_op.pc)

\* A recovery is handled in the cycle it is scheduled in, and the write-back
\* stage makes room for the mem stage.
StagesInOrder ==
  /\ branch_recover \in BOOLEAN
  /\ branch_recover => stage \in {"decode", "fetch", "recover"}
  /\ stage = "mem" => wb_op = Empty
  /\ DOMAIN REGS = Reg

ExitsIn(op) == op # Empty /\ Exits(op.instruction, op.reg_src1_value)

\* The exit system call is no taken branch: a branch has another opcode or subop.
\* (MCPipe evaluates this for Mips.)
ExitsFallThrough == \A i, v, w : Exits(i, v) => ~Taken(i, v, w)

\* The exit system call is on its way to the write-back stage, and the older
\* instructions and it alone determine the registers it will find.  The next
\* instruction may be executed while it is in the wb slot, but does not get
\* through the mem stage.
ExitUnderWay ==
  IF ExitsIn(wb_op)
    THEN /\ stage # "mem"
         /\ RegsAfterWb = final.regs /\ MEM = final.mem
         /\ ExitsFallThrough => PlusFour(wb_op.pc) = final.pc
         /\ IF mem_op = Empty THEN Committed = final
                              ELSE Committed = After(final) /\ stage # "execute"
    ELSE /\ ExitsIn(mem_op)
         /\ Committed = final
         /\ ExitsFallThrough => PlusFour(mem_op.pc) = final.pc

\* The program is in state s but for the PC.
IsAt(s) ==
  /\ Committed.regs = s.regs /\ HI = s.hi /\ LO = s.lo /\ Committed.mem = s.mem
  /\ execute_op # Empty => execute_op.pc = s.pc

\* The other stages of the cycle the system call retires in: up to the execute
\* stage at most one instruction behind it has been executed, then at most two.
ExitPassed ==
  /\ REGS = final.regs
  /\ MEM \in {final.mem, After(final).mem}
  /\ IF stage \in {"mem", "execute"}
       THEN /\ \E s \in {final, After(final)} : IsAt(s)
            /\ ExitsFallThrough => PC = final.pc
       ELSE \E s \in Beyond : /\ HI = s.hi /\ LO = s.lo
                              /\ branch_recover => branch_dest = s.pc
                              /\ ExitsFallThrough => PC \in {final.pc, s.pc}

ExitInOrder ==
  /\ ExitsIn(mem_op) \/ ExitsIn(wb_op) => Exited
  /\ RUN_BIT \in BOOLEAN
  /\ ~Exited => RUN_BIT
  /\ Exited /\ RUN_BIT => ExitUnderWay
  /\ ~RUN_BIT => ExitPassed

Inv == SlotsInOrder /\ StagesInOrder /\ ExitInOrder

\* An op is not an empty slot, and neither is a state.
LEMMA OpIsNotEmpty ==
  ASSUME NEW pc, NEW i, NEW v, NEW r, NEW a, NEW m
  PROVE  Op(pc, i, v, r, a, m) # Empty
<1> DEFINE op == Op(pc, i, v, r, a, m)
<1>1. "pc" \in DOMAIN op
  BY DEF Op
<1>2. "pc" \notin DOMAIN Empty
  BY DEF Empty
<1> QED BY <1>1, <1>2

LEMMA CommittedIsNotEmpty == Committed # Empty /\ Committed' # Empty
<1>1. "pc" \in DOMAIN Committed
  BY DEF Committed
<1>2. "pc" \in DOMAIN Committed'
  BY DEF Committed
<1>3. "pc" \notin DOMAIN Empty /\ Empty' = Empty
  BY DEF Empty
<1> QED BY <1>1, <1>2, <1>3

LEMMA AfterUnchanged ==
  ASSUME program' = program, final' = final
  PROVE  After(final)' = After(final) /\ Beyond' = Beyond
<1> DEFINE next == After(final)
<1>1. next' = next
  BY DEF After
<1> HIDE DEF next
<1>2. After(next)' = After(next)
  BY <1>1 DEF After
<1> QED BY <1>1, <1>2 DEF next, Beyond
-----------------------------------------------------------------------------
LEMMA InitInv == Init => Inv
BY DEF Init, Inv, SlotsInOrder, StagesInOrder, ExitInOrder, ExitsIn, Exited

\* Steps that leave the slots, the memory and the registers alone.
Still == UNCHANGED <<program, MEM, slots, REGS, HI, LO, PC, branch, RUN_BIT, final>>

\* The next stage, if nothing else happens in this one.
Moves ==
  \/ stage' = stage
  \/ stage = "wb" /\ stage' = "mem" /\ RUN_BIT /\ wb_op = Empty
  \/ stage = "mem" /\ stage' = "execute"
  \/ stage = "execute" /\ stage' = "decode"
  \/ stage = "decode" /\ stage' = "fetch"
  \/ stage = "fetch" /\ stage' = "recover"
  \/ stage = "recover" /\ stage' = "wb" /\ ~branch_recover

LEMMA StillKeepsInv ==
  ASSUME Inv, Still, Moves
  PROVE  Inv' /\ Committed' = Committed
<1>1. Committed' = Committed /\ RegsAfterWb' = RegsAfterWb
  BY DEF Still, slots, branch, Committed, RegsAfterWb, MemResult, MemAfter
<1>2. SlotsInOrder'
  BY DEF Inv, SlotsInOrder, Still, slots, branch, Empty
<1>3. StagesInOrder'
  BY DEF Inv, StagesInOrder, Still, Moves, slots, branch, Empty
<1>4. /\ UNCHANGED <<MEM, wb_op, mem_op, execute_op, REGS, HI, LO, PC, branch_recover,
                     branch_dest, RUN_BIT, final>>
      /\ Exited' = Exited /\ ExitsIn(mem_op)' = ExitsIn(mem_op)
      /\ ExitsIn(wb_op)' = ExitsIn(wb_op)
  BY DEF Still, slots, branch, Exited, ExitsIn, Empty
<1>5. After(final)' = After(final) /\ Beyond' = Beyond
  BY AfterUnchanged DEF Still
<1>6. ASSUME Exited, RUN_BIT
      PROVE  ExitUnderWay'
  <2>1. ExitUnderWay
    BY <1>6 DEF Inv, ExitInOrder
  <2>2. ExitsIn(wb_op) => wb_op # Empty /\ stage' # "mem" /\ (stage' = "execute" => stage = stage')
    BY <2>1 DEF ExitUnderWay, ExitsIn, Moves
  <2> QED BY <1>1, <1>4, <1>5, <2>1, <2>2 DEF ExitUnderWay, ExitsFallThrough, Empty
<1>7. ASSUME ~RUN_BIT
      PROVE  ExitPassed'
  <2>1. ExitPassed
    BY <1>7 DEF Inv, ExitInOrder
  <2>2. \A s : IsAt(s) => IsAt(s)'
    BY <1>1, <1>4 DEF IsAt, Empty
  <2>3. CASE stage' \in {"mem", "execute"}
    <3>1. stage \in {"mem", "execute"}
      BY <2>3, <1>7 DEF Moves
    <3> QED BY <1>4, <1>5, <2>1, <2>2, <2>3, <3>1 DEF ExitPassed
  <2>4. CASE stage' \notin {"mem", "execute"}
    <3>1. CASE stage \in {"mem", "execute"}
      <4>1. ~branch_recover
        BY <3>1 DEF Inv, StagesInOrder
      <4> QED BY <1>4, <1>5, <2>1, <2>4, <3>1, <4>1 DEF ExitPassed, IsAt, Beyond
    <3>2. CASE stage \notin {"mem", "execute"}
      BY <1>4, <1>5, <2>1, <2>4, <3>2 DEF ExitPassed
    <3> QED BY <3>1, <3>2
  <2> QED BY <2>3, <2>4
<1>8. ExitInOrder'
  BY <1>4, <1>6, <1>7 DEF Inv, ExitInOrder
<1> QED BY <1>1, <1>2, <1>3, <1>8 DEF Inv

\* The register of a retired op is written as the program sees it already.
LEMMA RetireKeepsInv ==
  ASSUME Inv, Retire
  PROVE  Inv' /\ (~Exited => Committed' = Committed) /\ UNCHANGED <<program, final>>
<1>1. RegsAfterWb' = RegsAfterWb
  BY DEF Retire, RegsAfterWb, Empty
<1>2. /\ wb_op # Empty /\ wb_op' = Empty /\ REGS' = RegsAfterWb /\ RUN_BIT /\ ~branch_recover
      /\ stage = "wb" /\ stage' = "mem"
      /\ UNCHANGED <<program, MEM, mem_op, execute_op, decode_op, HI, LO, branch_recover,
                     branch_dest, final>>
  BY DEF Retire, branch, Inv, StagesInOrder
<1>3. /\ Committed.regs' = Committed.regs /\ Committed.mem' = Committed.mem
      /\ execute_op # Empty => Committed.pc = execute_op.pc
  BY <1>1, <1>2 DEF Committed, MemResult, MemAfter, Empty
<1>4. SlotsInOrder'
  BY DEF Retire, Inv, SlotsInOrder, ExitInOrder, ExitsIn, branch, Exited, Empty
<1>5. StagesInOrder'
  BY DEF Retire, Inv, StagesInOrder, RegsAfterWb, Written, branch, Empty
<1>6. ASSUME ~ExitsIn(wb_op)
      PROVE  Committed' = Committed /\ RUN_BIT' = RUN_BIT
  <2>1. UNCHANGED <<PC, RUN_BIT>>
    BY <1>6 DEF Retire, ExitsIn
  <2> QED BY <1>1, <1>2, <2>1 DEF Committed, MemResult, MemAfter, Empty
<1>7. ExitInOrder'
  <2>1. ~ExitsIn(wb_op)' /\ ExitsIn(mem_op)' = ExitsIn(mem_op) /\ Exited' = Exited
    BY <1>2 DEF ExitsIn, Exited, Empty
  <2>2. After(final)' = After(final)
    BY <1>2, AfterUnchanged
  <2>3. CASE ExitsIn(wb_op)
    <3>1. RUN_BIT' = FALSE /\ PC' = PlusFour(wb_op.pc) /\ Exited
      BY <2>3 DEF Retire, ExitsIn, Inv, ExitInOrder
    <3>2. ExitUnderWay
      BY <3>1, <1>2 DEF Inv, ExitInOrder
    <3>3. /\ RegsAfterWb = final.regs /\ MEM = final.mem
          /\ Committed \in {final, After(final)}
          /\ ExitsFallThrough => PlusFour(wb_op.pc) = final.pc
      BY <2>3, <3>2 DEF ExitUnderWay
    <3>4. \E s \in {final, After(final)} : IsAt(s)'
      <4>1. PICK s \in {final, After(final)} : Committed = s
        BY <3>3
      <4>2. s.regs = Committed.regs /\ s.hi = HI /\ s.lo = LO /\ s.mem = Committed.mem
        BY <4>1 DEF Committed
      <4>3. execute_op # Empty => execute_op.pc = s.pc
        BY <4>1, <1>3
      <4> QED BY <4>2, <4>3, <1>2, <1>3 DEF IsAt, Empty
    <3>5. ExitPassed'
      BY <1>2, <2>2, <3>1, <3>3, <3>4 DEF ExitPassed, ExitsFallThrough
    <3> QED BY <2>1, <3>1, <3>5 DEF ExitInOrder
  <2>4. CASE ~ExitsIn(wb_op)
    <3>1. Committed' = Committed /\ RUN_BIT' = RUN_BIT
      BY <2>4, <1>6
    <3> QED BY <1>2, <2>1, <2>4, <3>1
            DEF Inv, ExitInOrder, ExitUnderWay, ExitsFallThrough
  <2> QED BY <2>3, <2>4
<1>8. ~Exited => ~ExitsIn(wb_op)
  BY DEF Inv, ExitInOrder
<1>9. ~Exited => Committed' = Committed
  BY <1>6, <1>8
<1> QED BY <1>2, <1>4, <1>5, <1>7, <1>9 DEF Inv

LEMMA MemPassesKeepsInv ==
  ASSUME Inv, MemPasses
  PROVE  Inv' /\ Committed' = Committed /\ UNCHANGED <<program, final>>
<1>1. /\ wb_op = Empty /\ mem_op # Empty /\ mem_op' = Empty /\ wb_op' # Empty
      /\ MEM' = MemAfter(mem_op) /\ wb_op'.instruction = mem_op.instruction
      /\ wb_op'.reg_dst_value = MemResult(mem_op)
      /\ wb_op'.reg_src1_value = mem_op.reg_src1_value
      /\ UNCHANGED <<program, execute_op, decode_op, REGS, HI, LO, PC, branch_recover,
                     branch_dest, RUN_BIT, final>>
  <2>1. wb_op' # Empty
    BY OpIsNotEmpty DEF MemPasses
  <2> QED BY <2>1 DEF MemPasses, Op, Inv, StagesInOrder, branch
<1>2. RegsAfterWb' = Committed.regs
  BY <1>1 DEF RegsAfterWb, Committed, Empty
<1>3. Committed' = Committed
  BY <1>1, <1>2 DEF Committed, Empty
<1>4. SlotsInOrder'
  BY <1>1 DEF Inv, SlotsInOrder, Exited, Empty
<1>5. StagesInOrder'
  BY <1>1 DEF MemPasses, Inv, StagesInOrder
<1>6. /\ ExitsIn(wb_op)' = ExitsIn(mem_op) /\ ~ExitsIn(mem_op)' /\ ~ExitsIn(wb_op)
      /\ Exited' = Exited /\ stage = "mem" /\ stage' = "execute"
  BY <1>1 DEF ExitsIn, Exited, Empty, MemPasses
<1>7. After(final)' = After(final)
  BY <1>1, AfterUnchanged
<1>8. MEM' = Committed.mem
  BY <1>1 DEF Committed
<1>9. ASSUME Exited, RUN_BIT
      PROVE  ExitUnderWay'
  <2>1. /\ ExitsIn(mem_op) /\ Committed = final
        /\ ExitsFallThrough => PlusFour(mem_op.pc) = final.pc
    BY <1>6, <1>9 DEF Inv, ExitInOrder, ExitUnderWay
  <2>2. wb_op'.pc = mem_op.pc
    BY DEF MemPasses, Op
  <2> QED BY <1>1, <1>2, <1>3, <1>6, <1>8, <2>1, <2>2 DEF ExitUnderWay, ExitsFallThrough
<1>10. ASSUME ~RUN_BIT
       PROVE  ExitPassed'
  <2>1. ExitPassed
    BY <1>10 DEF Inv, ExitInOrder
  <2>2. PICK s \in {final, After(final)} : IsAt(s)
    BY <2>1, <1>6 DEF ExitPassed
  <2>3. IsAt(s)' /\ MEM' = s.mem
    BY <1>1, <1>3, <1>8, <2>2 DEF IsAt, Empty
  <2> QED BY <1>1, <1>6, <1>7, <2>1, <2>2, <2>3 DEF ExitPassed, ExitsFallThrough
<1>11. ExitInOrder'
  BY <1>1, <1>6, <1>9, <1>10 DEF Inv, ExitInOrder
<1> QED BY <1>1, <1>3, <1>4, <1>5, <1>11 DEF Inv

\* The first two stages bear on the exit system call only by what they leave in
\* the execute slot.
LEMMA FrontKeepsExit ==
  ASSUME Inv, RUN_BIT => Committed' = Committed,
         \/ stage = "decode" /\ stage' = "fetch"
         \/ stage = "fetch" /\ stage' = "recover",
         UNCHANGED <<program, MEM, wb_op, mem_op, REGS, HI, LO, branch_recover, branch_dest,
                     RUN_BIT, final>>,
         RUN_BIT \/ PC' = PC
  PROVE  ExitInOrder'
<1>1. /\ ExitsIn(wb_op)' = ExitsIn(wb_op) /\ ExitsIn(mem_op)' = ExitsIn(mem_op)
      /\ Exited' = Exited /\ RegsAfterWb' = RegsAfterWb
  BY DEF ExitsIn, Exited, RegsAfterWb, Empty
<1>2. After(final)' = After(final) /\ Beyond' = Beyond
  BY AfterUnchanged
<1>3. Exited /\ RUN_BIT => ExitUnderWay'
  BY <1>1, <1>2 DEF Inv, ExitInOrder, ExitUnderWay, ExitsFallThrough, Empty
<1>4. ASSUME ~RUN_BIT
      PROVE  ExitPassed'
  <2>1. ExitPassed
    BY <1>4 DEF Inv, ExitInOrder
  <2> QED BY <1>2, <1>4, <2>1 DEF ExitPassed, ExitsFallThrough
<1> QED BY <1>1, <1>3, <1>4 DEF Inv, ExitInOrder

LEMMA DecodeKeepsInv ==
  ASSUME Inv, Decode
  PROVE  Inv' /\ Committed' = Committed /\ UNCHANGED <<program, final>>
<1>1. /\ execute_op = Empty /\ decode_op # Empty /\ execute_op' = decode_op /\ decode_op' = Empty
      /\ stage = "decode" /\ stage' = "fetch"
      /\ UNCHANGED <<program, MEM, wb_op, mem_op, REGS, HI, LO, PC, branch_recover,
                     branch_dest, RUN_BIT, final>>
  BY DEF Decode, branch
<1>2. RegsAfterWb' = RegsAfterWb /\ Committed' = Committed
  BY <1>1 DEF RegsAfterWb, Committed, MemResult, MemAfter, Empty
<1>3. SlotsInOrder'
  BY <1>1 DEF Inv, SlotsInOrder, Empty
<1>4. StagesInOrder'
  BY <1>1 DEF Decode, Inv, StagesInOrder
<1>5. ExitInOrder'
  BY <1>1, <1>2, FrontKeepsExit
<1> QED BY <1>1, <1>2, <1>3, <1>4, <1>5 DEF Inv

LEMMA FetchHitKeepsInv ==
  ASSUME Inv, FetchHit
  PROVE  Inv' /\ (~Exited => Committed' = Committed) /\ UNCHANGED <<program, final>>
<1>1. /\ decode_op = Empty /\ decode_op' # Empty
      /\ decode_op'.pc = PC /\ decode_op'.instruction = program[PC]
      /\ PC' = IF RUN_BIT THEN PlusFour(PC) ELSE PC
      /\ UNCHANGED <<program, MEM, wb_op, mem_op, execute_op, REGS, HI, LO, branch_recover,
                     branch_dest, RUN_BIT, final>>
  <2>1. decode_op' # Empty
    BY OpIsNotEmpty DEF FetchHit, Fetched
  <2> QED BY <2>1 DEF FetchHit, Fetched, Op, branch
<1>2. RegsAfterWb' = RegsAfterWb /\ Committed.regs' = Committed.regs
  BY <1>1 DEF RegsAfterWb, Committed, MemResult, Empty
<1>3. ASSUME RUN_BIT
      PROVE  Committed' = Committed
  BY <1>1, <1>2, <1>3 DEF Committed, MemResult, MemAfter, Empty
<1>4. SlotsInOrder'
  BY <1>1 DEF Inv, SlotsInOrder, ExitInOrder, Empty
<1>5. StagesInOrder'
  BY <1>1 DEF FetchHit, Inv, StagesInOrder
<1>6. ExitInOrder'
  BY <1>1, <1>2, <1>3, FrontKeepsExit DEF FetchHit
<1> QED BY <1>1, <1>3, <1>4, <1>5, <1>6 DEF Inv, ExitInOrder

\* A recovery flushes exactly the ops that a taken branch makes wrong.
LEMMA RecoverKeepsInv ==
  ASSUME Inv, Recover
  PROVE  Inv' /\ Committed' = Committed /\ UNCHANGED <<program, final>>
<1>1. /\ branch_recover /\ branch_recover' = FALSE /\ PC' = branch_dest
      /\ execute_op' = Empty /\ decode_op' = Empty
      /\ UNCHANGED <<program, MEM, wb_op, mem_op, REGS, HI, LO, RUN_BIT, final>>
  BY DEF Recover
<1>2. RegsAfterWb' = RegsAfterWb /\ Committed' = Committed
  BY <1>1 DEF RegsAfterWb, Committed, MemResult, MemAfter, Empty
<1>3. SlotsInOrder'
  BY <1>1 DEF SlotsInOrder, Empty
<1>4. StagesInOrder'
  BY <1>1 DEF Recover, StagesInOrder, Inv
<1>5. ExitInOrder'
  <2>1. /\ ExitsIn(wb_op)' = ExitsIn(wb_op) /\ ExitsIn(mem_op)' = ExitsIn(mem_op)
        /\ Exited' = Exited /\ stage = "recover" /\ stage' = "wb"
    BY <1>1 DEF ExitsIn, Exited, Empty, Recover
  <2>2. After(final)' = After(final) /\ Beyond' = Beyond
    BY <1>1, AfterUnchanged
  <2>3. Exited /\ RUN_BIT => ExitUnderWay'
    BY <1>1, <1>2, <2>1, <2>2
       DEF Inv, ExitInOrder, ExitUnderWay, ExitsFallThrough, Empty
  <2>4. ASSUME ~RUN_BIT
        PROVE  ExitPassed'
    <3>1. ExitPassed
      BY <2>4 DEF Inv, ExitInOrder
    <3> QED BY <1>1, <2>1, <2>2, <3>1 DEF ExitPassed, ExitsFallThrough
  <2> QED BY <1>1, <2>1, <2>3, <2>4 DEF Inv, ExitInOrder
<1> QED BY <1>1, <1>2, <1>3, <1>4, <1>5 DEF Inv

\* The operands an instruction finds are those the program left.
LEMMA BypassedIsOperand ==
  ASSUME Inv, NEW r
  PROVE  Bypassed(r) = Operand(RegsAfterWb, r)
BY DEF Inv, StagesInOrder, Bypassed, Operand, RegsAfterWb, Written, IsWritable

\* The execute stage does what the next instruction of the program does: in the
\* last cycle too, where the PC does not follow.
LEMMA ExecuteCommits ==
  ASSUME Inv, Execute, NEW s, s.pc = execute_op.pc,
         s.regs = RegsAfterWb, s.hi = HI, s.lo = LO, s.mem = MEM
  PROVE  LET i == program[s.pc]
             v1 == Operand(s.regs, Src1(i))
             v2 == Operand(s.regs, Src2(i))
             next == After(s)
         IN /\ Committed.regs' = next.regs /\ Committed.mem' = next.mem
            /\ HI' = next.hi /\ LO' = next.lo
            /\ branch_recover' => branch_dest' = next.pc
            /\ branch_recover' \in BOOLEAN
            /\ ~Taken(i, v1, v2) => ~branch_recover' /\ next.pc = PlusFour(s.pc)
            /\ ~branch_recover' => next.pc = PlusFour(s.pc)
            /\ ExitsIn(mem_op)' <=> Exits(i, v1)
            /\ final' = IF ~Exited /\ Exits(i, v1) THEN Committed' ELSE final
<1> DEFINE i == program[s.pc]
           v1 == Operand(s.regs, Src1(i))
           v2 == Operand(s.regs, Src2(i))
           a == Address(i, v1)
           next == After(s)
<1>1. /\ mem_op = Empty /\ execute_op # Empty
      /\ ~branch_recover /\ i = execute_op.instruction
      /\ UNCHANGED <<MEM, wb_op, REGS>>
  BY DEF Execute, Inv, SlotsInOrder, StagesInOrder
<1>2. v1 = Bypassed(Src1(i)) /\ v2 = Bypassed(Src2(i))
  BY BypassedIsOperand
<1>3. /\ HI' = NewHI(i, v1, v2, HI) /\ LO' = NewLO(i, v1, v2, LO)
      /\ mem_op' = Op(s.pc, i, v1, Result(i, s.pc, v1, v2, HI, LO), a, v2)
      /\ IF Taken(i, v1, v2)
           THEN branch_recover' = TRUE /\ branch_dest' = Target(i, s.pc, v1)
           ELSE UNCHANGED branch
      /\ final' = IF ~Exited /\ Exits(i, v1) THEN Committed' ELSE final
  BY <1>1, <1>2 DEF Execute
<1>4. /\ mem_op' # Empty
      /\ mem_op'.instruction = i /\ mem_op'.reg_src1_value = v1
      /\ mem_op'.reg_dst_value = Result(i, s.pc, v1, v2, HI, LO)
      /\ mem_op'.mem_addr = a /\ mem_op'.mem_value = v2
  BY <1>3, OpIsNotEmpty DEF Op
<1>5. RegsAfterWb' = RegsAfterWb
  BY <1>1 DEF RegsAfterWb, Empty
<1>6. MemResult(mem_op)' = IF IsLoad(i) THEN Loaded(i, a, Read(MEM, a))
                           ELSE Result(i, s.pc, v1, v2, HI, LO)
  BY <1>1, <1>4 DEF MemResult
<1>7. Committed.regs' = Written(s.regs, Dst(i), MemResult(mem_op)')
  BY <1>4, <1>5 DEF Committed, Empty
<1>8. Committed.mem' = IF IsStore(i) THEN AfterStore(MEM, i, a, v2) ELSE MEM
  BY <1>1, <1>4 DEF Committed, MemAfter, Empty
<1>9. /\ next.regs = Written(s.regs, Dst(i), IF IsLoad(i) THEN Loaded(i, a, Read(s.mem, a))
                                             ELSE Result(i, s.pc, v1, v2, s.hi, s.lo))
      /\ next.mem = IF IsStore(i) THEN AfterStore(s.mem, i, a, v2) ELSE s.mem
      /\ next.hi = NewHI(i, v1, v2, s.hi) /\ next.lo = NewLO(i, v1, v2, s.lo)
      /\ next.pc = IF Taken(i, v1, v2) THEN Target(i, s.pc, v1) ELSE PlusFour(s.pc)
  BY DEF After, Executed
<1> HIDE DEF i, v1, v2, a, next
<1>10. Committed.regs' = next.regs /\ Committed.mem' = next.mem
  BY <1>6, <1>7, <1>8, <1>9
<1>11. HI' = next.hi /\ LO' = next.lo
  BY <1>3, <1>9
<1>12. /\ branch_recover' => branch_dest' = next.pc
       /\ branch_recover' \in BOOLEAN
       /\ ~Taken(i, v1, v2) => ~branch_recover' /\ next.pc = PlusFour(s.pc)
       /\ ~branch_recover' => next.pc = PlusFour(s.pc)
  <2>1. CASE Taken(i, v1, v2)
    BY <2>1, <1>3, <1>9
  <2>2. CASE ~Taken(i, v1, v2)
    <3>1. branch_recover' = branch_recover /\ branch_recover \in BOOLEAN
      BY <2>2, <1>3 DEF branch, Inv, StagesInOrder
    <3> QED BY <2>2, <3>1, <1>1, <1>9
  <2> QED BY <2>1, <2>2
<1>13. ExitsIn(mem_op)' <=> Exits(i, v1)
  BY <1>4 DEF ExitsIn, Empty
<1> QED BY <1>3, <1>10, <1>11, <1>12, <1>13 DEF i, v1, v2, next

LEMMA ExecuteExecutes ==
  ASSUME Inv, Execute, RUN_BIT
  PROVE  LET i == program[Committed.pc]
             v1 == Operand(Committed.regs, Src1(i))
         IN /\ Committed' = After(Committed)
            /\ ~Exited => (Exited' <=> Exits(i, v1))
            /\ ExitsIn(mem_op)' <=> Exits(i, v1)
            /\ final' = IF ~Exited /\ Exits(i, v1) THEN Committed' ELSE final
            /\ ExitsFallThrough /\ Exits(i, v1) => Committed.pc' = PlusFour(mem_op'.pc)
<1> DEFINE s == Committed
           i == program[s.pc]
           v1 == Operand(s.regs, Src1(i))
           v2 == Operand(s.regs, Src2(i))
<1>1. /\ mem_op = Empty /\ execute_op # Empty /\ execute_op' = Empty
      /\ ~branch_recover
      /\ UNCHANGED <<decode_op, PC>>
      /\ mem_op'.pc = execute_op.pc
  BY DEF Execute, Inv, StagesInOrder, Op
<1>2. s.pc = execute_op.pc /\ s.regs = RegsAfterWb /\ s.hi = HI /\ s.lo = LO /\ s.mem = MEM
  BY <1>1 DEF Committed
<1>3. /\ Committed.regs' = After(s).regs /\ Committed.mem' = After(s).mem
      /\ HI' = After(s).hi /\ LO' = After(s).lo
      /\ branch_recover' => branch_dest' = After(s).pc
      /\ branch_recover' \in BOOLEAN
      /\ ~Taken(i, v1, v2) => ~branch_recover' /\ After(s).pc = PlusFour(s.pc)
      /\ ~branch_recover' => After(s).pc = PlusFour(s.pc)
      /\ ExitsIn(mem_op)' <=> Exits(i, v1)
      /\ final' = IF ~Exited /\ Exits(i, v1) THEN Committed' ELSE final
  BY <1>2, ExecuteCommits
<1>4. ~branch_recover' => Committed.pc' = PlusFour(s.pc)
  BY <1>1, <1>2 DEF Committed, Inv, SlotsInOrder, Empty
<1>5. Committed.pc' = After(s).pc
  BY <1>3, <1>4 DEF Committed
<1>6. Committed' = [pc |-> Committed.pc', regs |-> Committed.regs', hi |-> HI', lo |-> LO',
                    mem |-> Committed.mem']
  BY DEF Committed
<1>7. After(s) = [pc |-> After(s).pc, regs |-> After(s).regs, hi |-> After(s).hi,
                  lo |-> After(s).lo, mem |-> After(s).mem]
  BY DEF After, Executed
<1>8. Committed' = After(s)
  BY <1>3, <1>5, <1>6, <1>7
<1>9. ~Exited => (Exited' <=> Exits(i, v1))
  BY <1>3, CommittedIsNotEmpty DEF Exited, Empty
<1>10. ExitsFallThrough /\ Exits(i, v1) => Committed.pc' = PlusFour(mem_op'.pc)
  BY <1>1, <1>2, <1>3, <1>4 DEF ExitsFallThrough
<1> QED BY <1>3, <1>8, <1>9, <1>10

LEMMA ExecuteKeepsInv ==
  ASSUME Inv, Execute
  PROVE  Inv' /\ program' = program /\ (Exited => final' = final)
<1>1. /\ mem_op = Empty /\ execute_op # Empty /\ execute_op' = Empty
      /\ ~branch_recover /\ mem_op' # Empty
      /\ UNCHANGED <<program, MEM, wb_op, decode_op, REGS, PC, RUN_BIT>>
      /\ stage = "execute" /\ stage' = "decode"
  BY OpIsNotEmpty DEF Execute, Inv, StagesInOrder
<1>2. RegsAfterWb' = RegsAfterWb
  BY <1>1 DEF RegsAfterWb, Empty
<1>3. branch_recover' \in BOOLEAN /\ (branch_recover' = FALSE => ~branch_recover)
  BY <1>1 DEF Execute, Inv, StagesInOrder, branch
<1>4. Exited => final' = final /\ Exited'
  BY DEF Execute, Exited, Empty
<1>5. SlotsInOrder'
  BY <1>1 DEF Inv, SlotsInOrder, Empty
<1>6. StagesInOrder'
  BY <1>1, <1>3 DEF Inv, StagesInOrder
<1>7. ExitsIn(wb_op)' = ExitsIn(wb_op) /\ ~ExitsIn(mem_op)
  BY <1>1 DEF ExitsIn, Empty
<1>8. ASSUME ~Exited
      PROVE  ExitInOrder'
  <2>1. RUN_BIT /\ ~ExitsIn(wb_op)
    BY <1>8 DEF Inv, ExitInOrder
  <2>2. /\ ExitsIn(mem_op)' <=> Exited'
        /\ Exited' => final' = Committed'
        /\ Exited' /\ ExitsFallThrough => Committed.pc' = PlusFour(mem_op'.pc)
    BY <1>8, <2>1, ExecuteExecutes
  <2> QED BY <1>1, <1>7, <2>1, <2>2 DEF ExitInOrder, ExitUnderWay, ExitsFallThrough
<1>9. ASSUME Exited, RUN_BIT
      PROVE  ExitInOrder'
  <2>1. ExitUnderWay
    BY <1>9 DEF Inv, ExitInOrder
  <2>2. Committed' = After(final)
    BY <1>1, <1>7, <1>9, <2>1, ExecuteExecutes DEF ExitUnderWay
  <2>3. After(final)' = After(final)
    BY <1>1, <1>4, <1>9, AfterUnchanged
  <2> QED BY <1>1, <1>2, <1>4, <1>7, <1>9, <2>1, <2>2, <2>3
          DEF Inv, ExitInOrder, ExitUnderWay, ExitsFallThrough
<1>10. ASSUME ~RUN_BIT
       PROVE  ExitInOrder'
  <2>1. ExitPassed /\ Exited
    BY <1>10 DEF Inv, ExitInOrder
  <2>2. PICK s \in {final, After(final)} : IsAt(s)
    BY <1>1, <2>1 DEF ExitPassed
  <2>3. s.regs = RegsAfterWb /\ s.hi = HI /\ s.lo = LO /\ s.mem = MEM /\ s.pc = execute_op.pc
    BY <1>1, <2>2 DEF IsAt, Committed
  <2>4. HI' = After(s).hi /\ LO' = After(s).lo /\ (branch_recover' => branch_dest' = After(s).pc)
    BY <2>3, ExecuteCommits
  <2>5. After(final)' = After(final) /\ Beyond' = Beyond /\ After(s) \in Beyond
    BY <1>1, <1>4, <2>1, <2>2, AfterUnchanged DEF Beyond
  <2>6. ExitPassed'
    BY <1>1, <1>4, <2>1, <2>4, <2>5 DEF ExitPassed, ExitsFallThrough
  <2> QED BY <1>1, <1>4, <1>10, <2>1, <2>6 DEF Inv, ExitInOrder
<1>11. ExitInOrder'
  BY <1>8, <1>9, <1>10 DEF Inv, ExitInOrder
<1> QED BY <1>1, <1>4, <1>5, <1>6, <1>11 DEF Inv

\* What every other step leaves.
LEMMA OtherKeepsInv ==
  ASSUME Inv, [Next]_vars, ~Execute
  PROVE  /\ Inv' /\ UNCHANGED <<program, final>>
         /\ ~Exited => Committed' = Committed
<1>1. CASE WbIdle
  BY <1>1, StillKeepsInv DEF WbIdle, Still, Moves
<1>2. CASE Retire
  BY <1>2, RetireKeepsInv
<1>3. CASE MemStalls \/ MemIdle \/ MemMiss
  BY <1>3, StillKeepsInv DEF MemStalls, MemIdle, MemMiss, Still, Moves
<1>4. CASE MemPasses
  BY <1>4, MemPassesKeepsInv
<1>5. CASE ExecuteIdle \/ ExecuteWaits
  BY <1>5, StillKeepsInv DEF ExecuteIdle, ExecuteWaits, Still, Moves
<1>6. CASE DecodeIdle
  BY <1>6, StillKeepsInv DEF DecodeIdle, Still, Moves
<1>7. CASE Decode
  BY <1>7, DecodeKeepsInv
<1>8. CASE FetchStalls \/ FetchBlocked \/ FetchMiss
  BY <1>8, StillKeepsInv DEF FetchStalls, FetchBlocked, FetchMiss, Still, Moves
<1>9. CASE FetchHit
  BY <1>9, FetchHitKeepsInv
<1>10. CASE NoRecovery
  BY <1>10, StillKeepsInv DEF NoRecovery, Still, Moves
<1>11. CASE Recover
  BY <1>11, RecoverKeepsInv
<1>12. CASE UNCHANGED vars
  BY <1>12, StillKeepsInv DEF vars, Still, Moves
<1> QED BY <1>1, <1>2, <1>3, <1>4, <1>5, <1>6, <1>7, <1>8, <1>9, <1>10, <1>11, <1>12 DEF Next

LEMMA NextKeepsInv == Inv /\ [Next]_vars => Inv'
BY ExecuteKeepsInv, OtherKeepsInv

LEMMA InvAlways == SafeSpec => []Inv
BY InitInv, NextKeepsInv, PTL DEF SafeSpec

\* When the simulation stops (pipe_stage_wb), R0 to R31 are those the program
\* had at its exit system call, whatever follows in the text, and HI, LO, the
\* memory and the PC are off by no more than StateAtExit says: of the
\* instructions executed behind the system call none is written back.
THEOREM StateKept == SafeSpec => [](ExitsFallThrough => StateAtExit)
<1>1. Inv => (ExitsFallThrough => StateAtExit)
  <2> SUFFICES ASSUME Inv, ExitsFallThrough, ~RUN_BIT
               PROVE  StateAtExit
    BY DEF StateAtExit
  <2>1. Exited /\ ExitPassed
    BY DEF Inv, ExitInOrder
  <2>2. \E s \in Beyond : HI = s.hi /\ LO = s.lo /\ PC \in {final.pc, s.pc}
    BY <2>1 DEF ExitPassed, IsAt, Beyond
  <2> QED BY <2>1, <2>2 DEF ExitPassed, StateAtExit
<1> QED BY <1>1, InvAlways, PTL

\* Every step of the pipeline (pipe_cycle) is a step of the sequential machine
\* or leaves the state of the program alone.
THEOREM PipelineIsSequential == SafeSpec => Sequential!SafeSpec
<1>1. Init => Sequential!Init
  <2> SUFFICES ASSUME Init
               PROVE  Sequential!Init
    OBVIOUS
  <2>1. ~Exited
    BY DEF Init, Exited
  <2>2. Arch = [pc |-> Start, regs |-> REGS, hi |-> Zero, lo |-> Zero, mem |-> MEM]
    BY <2>1 DEF Init, Arch, Committed, RegsAfterWb
  <2> QED BY <2>1, <2>2 DEF Init, Sequential!Init
<1>2. Inv /\ [Next]_vars => [Sequential!Step]_Sequential!vars
  <2> SUFFICES ASSUME Inv, [Next]_vars
               PROVE  Sequential!Step \/ UNCHANGED Sequential!vars
    OBVIOUS
  <2>1. CASE Exited
    <3>1. program' = program /\ final' = final
      BY <2>1, ExecuteKeepsInv, OtherKeepsInv
    <3>2. Exited' = Exited /\ Arch' = Arch
      BY <2>1, <3>1 DEF Exited, Arch, Empty
    <3> QED BY <3>1, <3>2 DEF Sequential!vars
  <2>2. CASE ~Exited /\ Execute
    <3> DEFINE i == program[Arch.pc]
               v1 == Operand(Arch.regs, Src1(i))
    <3>1. RUN_BIT
      BY <2>2 DEF Inv, ExitInOrder
    <3>2. Arch = Committed /\ Arch' = Committed' /\ program' = program
      BY <2>2, <3>1, ExecuteExecutes, ExecuteKeepsInv DEF Arch, Exited, Empty
    <3>3. Arch' = Executed(i, Arch)
      BY <2>2, <3>1, <3>2, ExecuteExecutes DEF After
    <3>4. IF Exits(i, v1) THEN Exited' = TRUE ELSE Exited' = Exited
      BY <2>2, <3>1, <3>2, ExecuteExecutes DEF Exited
    <3>5. Arch = [pc |-> Arch.pc, regs |-> Arch.regs, hi |-> Arch.hi, lo |-> Arch.lo,
                  mem |-> Arch.mem]
      BY <3>2 DEF Committed
    <3>6. /\ Executed(i, Arch) = Sequential!Executed(i, Arch)
          /\ v1 = Sequential!Operand(Arch.regs, Src1(i))
      BY DEF Executed, Sequential!Executed, Sequential!Operand, Operand, Sequential!Written,
             Written, Sequential!IsWritable, IsWritable, Sequential!Read, Read,
             Sequential!AfterStore, AfterStore
    <3>7. Arch' = Sequential!Executed(i, Sequential!State)
      BY <3>3, <3>5, <3>6 DEF Sequential!State
    <3> QED BY <2>2, <3>2, <3>4, <3>6, <3>7 DEF Sequential!Step
  <2>3. CASE ~Exited /\ ~Execute
    <3>1. program' = program /\ final' = final /\ Committed' = Committed
      BY <2>3, OtherKeepsInv
    <3>2. Exited' = Exited /\ Arch' = Arch
      BY <2>3, <3>1 DEF Exited, Arch, Empty
    <3> QED BY <3>1, <3>2 DEF Sequential!vars
  <2> QED BY <2>1, <2>2, <2>3
<1> QED BY <1>1, <1>2, InvAlways, PTL DEF SafeSpec, Sequential!SafeSpec
=============================================================================

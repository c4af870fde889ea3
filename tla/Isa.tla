-------------------------------- MODULE Isa --------------------------------
(***************************************************************************)
(* What the pipelines of labs/lab1 and labs/lab2 promise to a program: its *)
(* instructions are executed one after the other, each completely, up to   *)
(* and including the system call that ends it.                             *)
(***************************************************************************)
EXTENDS Instructions

CONSTANTS Programs,   \* functions from addresses to instructions
          Memories    \* functions from aligned addresses to words

VARIABLES program, pc, regs, hi, lo, mem, halted

vars == <<program, pc, regs, hi, lo, mem, halted>>

Init ==
  /\ program \in Programs
  /\ mem \in Memories
  /\ pc = Start
  /\ regs = [r \in Reg |-> Zero]
  /\ hi = Zero /\ lo = Zero
  /\ halted = FALSE

State == [pc |-> pc, regs |-> regs, hi |-> hi, lo |-> lo, mem |-> mem]

\* The instruction at pc.
Step ==
  /\ ~halted
  /\ \E next \in {Executed(program[pc], State)} :
       /\ pc' = next.pc
       /\ regs' = next.regs
       /\ hi' = next.hi /\ lo' = next.lo
       /\ mem' = next.mem
  /\ IF Exits(program[pc], Operand(regs, Src1(program[pc])))
       THEN halted' = TRUE
       ELSE UNCHANGED halted
  /\ UNCHANGED program

SafeSpec == Init /\ [][Step]_vars

\* A program does not stop in between.
Spec == SafeSpec /\ WF_vars(Step)
=============================================================================

-------------------------------- MODULE ISA ---------------------------------
(***************************************************************************)
(* What the simulated machine promises a program: the effect of executing  *)
(* its instructions one at a time, in program order.  No stations, no      *)
(* reorder buffer, no queue: each step fetches one instruction, reads its  *)
(* registers, and writes its one result.                                   *)
(*                                                                         *)
(* pc is an index into the program (a byte address divided by 4).  x0      *)
(* reads as zero because nothing writes it.                                *)
(***************************************************************************)
EXTENDS Instructions, Sequences

CONSTANTS
  WORD,                   \* integer values are 0 .. WORD-1
  alu(_, _, _),           \* the value of a register operation
  Programs, InitRegs, InitMemory

VARIABLES program, pc, regs, memory

isaVars == <<program, pc, regs, memory>>

InsideProgram == pc \in 0 .. Len(program)-1
Current == program[pc + 1]
Src1 == regs[Current.src1]
Immediate == <<"int", Current.imm % WORD>>
Src2 == IF Current.src2 = NoReg THEN Immediate ELSE regs[Current.src2]

ISAInit ==
  /\ program \in Programs
  /\ regs \in InitRegs
  /\ memory \in InitMemory
  /\ pc = 0

Write(r, v) ==
  regs' = IF r \in {NoReg, <<"int", 0>>} THEN regs ELSE [regs EXCEPT ![r] = v]

Location == <<memory_kind(Current.op), (Src1[2] + Current.imm) % WORD>>

ExecuteRegister ==
  /\ InsideProgram
  /\ Current.op \notin {"BNE", "JALR", "LUI", "AUIPC", "EBREAK", "UNKNOWN"}
  /\ ~is_memory_op(Current.op)
  /\ Write(Current.dest, alu(Current.op, Src1, Src2))
  /\ pc' = pc + 1
  /\ UNCHANGED <<program, memory>>

ExecuteUpper ==
  /\ InsideProgram /\ Current.op \in {"LUI", "AUIPC"}
  /\ Write(Current.dest,
           IF Current.op = "LUI" THEN Immediate
           ELSE <<"int", (4 * pc + Current.imm) % WORD>>)
  /\ pc' = pc + 1
  /\ UNCHANGED <<program, memory>>

ExecuteLoad ==
  /\ InsideProgram /\ is_load_op(Current.op)
  /\ Write(Current.dest, IF Location \in DOMAIN memory THEN memory[Location]
                         ELSE <<Location[1], 0>>)
  /\ pc' = pc + 1
  /\ UNCHANGED <<program, memory>>

ExecuteStore ==
  /\ InsideProgram /\ is_store_op(Current.op)
  /\ memory' = [a \in DOMAIN memory \cup {Location} |->
                  IF a = Location THEN Src2 ELSE memory[a]]
  /\ pc' = pc + 1
  /\ UNCHANGED <<program, regs>>

ExecuteBranch ==
  /\ InsideProgram /\ Current.op = "BNE"
  /\ pc' = IF Src1 # Src2 THEN pc + Current.imm \div 4 ELSE pc + 1
  /\ UNCHANGED <<program, regs, memory>>

ExecuteJump ==
  /\ InsideProgram /\ Current.op = "JALR"
  /\ Write(Current.dest, <<"int", (4 * pc + 4) % WORD>>)
  /\ pc' = ((Src1[2] + Current.imm) % WORD) \div 4
  /\ UNCHANGED <<program, memory>>

Step == \/ ExecuteRegister \/ ExecuteUpper \/ ExecuteLoad \/ ExecuteStore
        \/ ExecuteBranch \/ ExecuteJump

(* A machine that can execute an instruction eventually does. *)
ISASpec == ISAInit /\ [][Step]_isaVars /\ WF_isaVars(Step)
=============================================================================

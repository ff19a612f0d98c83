---------------------------- MODULE Instructions ----------------------------
(***************************************************************************)
(* The instruction vocabulary of the simulator: the operations of          *)
(* instruction.h, the classification functions of tomasulo_sim.cpp that    *)
(* route an operation to its stations and functional units, and the        *)
(* latency table.                                                          *)
(*                                                                         *)
(* An instruction is a record                                              *)
(*     [op, src1, src2, dest, imm]                                         *)
(* src1 stands for the C++ fields rs1/fs1, src2 for rs2/fs2 and dest for   *)
(* rd/fd: the decoder fills at most one field of each pair, and all of the *)
(* simulator reads the pair as "the integer one if present, else the       *)
(* floating-point one".  A register is a pair <<kind, number>>.            *)
(***************************************************************************)
EXTENDS Integers

(* The kinds of the two alternatives of OperandValue and of DestReg. *)
Kind == {"int", "fp"}

(* DestReg's std::monostate, and a register field left at -1. *)
NoReg == <<"none", 0>>

alu_ops ==
  {"ADD", "SUB", "AND", "OR", "XOR", "SLT", "SLTU",
   "ADDI", "ANDI", "ORI", "XORI", "SLTI", "SLTIU",
   "SLL", "SRL", "SRA", "LUI", "AUIPC", "JALR", "BNE"}
muldiv_ops ==
  {"MUL", "MULH", "MULHSU", "MULHU", "DIV", "DIVU", "REM", "REMU"}

is_alu_op(op)    == op \in alu_ops
is_muldiv_op(op) == op \in muldiv_ops
is_load_op(op)   == op \in {"LD", "LW", "FLD"}
is_store_op(op)  == op \in {"SD", "SW", "FSD"}
is_fp_add_op(op) == op \in {"FADD_D", "FSUB_D", "FEQ_D", "FLT_D", "FLE_D"}
is_fp_mul_op(op) == op \in {"FMUL_D", "FCVT_D_W", "FCVT_W_D"}
is_fp_div_op(op) == op = "FDIV_D"

is_memory_op(op) == is_load_op(op) \/ is_store_op(op)

(* EBREAK and UNKNOWN belong to no class: no station accepts them. *)
OpType ==
  alu_ops \cup muldiv_ops \cup
  {"LD", "LW", "FLD", "SD", "SW", "FSD",
   "FADD_D", "FSUB_D", "FEQ_D", "FLT_D", "FLE_D",
   "FMUL_D", "FCVT_D_W", "FCVT_W_D", "FDIV_D", "EBREAK", "UNKNOWN"}

(* The seven arrays of reservation stations.  Each feeds the array of      *)
(* functional units of the same name.                                      *)
RSType == {"INTALU", "MULDIV", "LOAD", "STORE", "FPADD", "FPMUL", "FPDIV"}

(* The array an operation is issued to; "NONE" when target_rs stays null. *)
station_type(op) ==
  CASE is_load_op(op)   -> "LOAD"
    [] is_store_op(op)  -> "STORE"
    [] is_alu_op(op)    -> "INTALU"
    [] is_muldiv_op(op) -> "MULDIV"
    [] is_fp_add_op(op) -> "FPADD"
    [] is_fp_mul_op(op) -> "FPMUL"
    [] is_fp_div_op(op) -> "FPDIV"
    [] OTHER            -> "NONE"

get_latency(op) ==
  CASE is_alu_op(op)    -> 1
    [] is_muldiv_op(op) -> 3
    [] is_load_op(op)   -> 2
    [] is_store_op(op)  -> 1
    [] is_fp_add_op(op) -> 2
    [] is_fp_mul_op(op) -> 4
    [] is_fp_div_op(op) -> 8
    [] OTHER            -> 1

(* The kind of memory an access goes to: LW/LD/SW/SD use memory_int,       *)
(* FLD/FSD use memory_fp, two maps that share no storage.                  *)
memory_kind(op) == IF op \in {"FLD", "FSD"} THEN "fp" ELSE "int"

(* The operands execute_alu_op ... execute_fp_mul_op (and the address      *)
(* computation of loads and stores) unwrap with to_int or to_fp before     *)
(* they compute; the result kind they deliver is not checked here.         *)
operand_kind_1(op) ==
  IF is_fp_add_op(op) \/ op \in {"FMUL_D", "FDIV_D", "FCVT_W_D"}
  THEN "fp" ELSE "int"
operand_kind_2(op) ==
  CASE is_alu_op(op) \/ is_muldiv_op(op)                -> "int"
    [] is_fp_add_op(op) \/ op \in {"FMUL_D", "FDIV_D"}  -> "fp"
    [] OTHER                                            -> "unread"

(* What the decoder keeps to and the core counts on: a store has no        *)
(* destination, and the first operand of an operation is of the kind that  *)
(* its executor unwraps.                                                   *)
WellFormedInstruction(i) ==
  /\ is_store_op(i.op) => i.dest = NoReg
  /\ i.op # "UNKNOWN" /\ i.src1 # NoReg => i.src1[1] = operand_kind_1(i.op)
=============================================================================

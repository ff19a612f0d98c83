------------------------------- MODULE Decoder ------------------------------
(***************************************************************************)
(* decoder.cpp: decode_instruction, from a 32-bit word to an instruction.  *)
(*                                                                         *)
(* A word is the record of the six fields that get_opcode ... get_funct7   *)
(* cut it into: they partition its bits, so nothing of the word is lost,   *)
(* and every immediate is a sum of fields.                                 *)
(***************************************************************************)
EXTENDS Instructions

Word == [opcode : 0 .. 127, rd : 0 .. 31, funct3 : 0 .. 7, rs1 : 0 .. 31,
         rs2 : 0 .. 31, funct7 : 0 .. 127]

IntReg(n) == <<"int", n>>
FpReg(n)  == <<"fp", n>>

OP_LOAD   == 3
OP_FLOAD  == 7
OP_IMM    == 19
OP_AUIPC  == 23
OP_STORE  == 35
OP_FSTORE == 39
OP_OP     == 51
OP_LUI    == 55
OP_FP     == 83
OP_BRANCH == 99
OP_JALR   == 103
OP_MISC_MEM == 115
-----------------------------------------------------------------------------
(* Two's complement of a number whose sign bit weighs sign. *)
SignExtend(n, sign) == IF n >= sign THEN n - 2 * sign ELSE n

decode_imm_i(w) == SignExtend(32 * w.funct7 + w.rs2, 2048)
SlipImmSUnsigned(w) == 32 * w.funct7 + w.rd
decode_imm_s(w) == SignExtend(32 * w.funct7 + w.rd, 2048)

(* imm[12|10:5] is in funct7, imm[4:1|11] in rd. *)
decode_imm_b(w) ==
  SignExtend(4096 * (w.funct7 \div 64) + 2048 * (w.rd % 2)
               + 32 * (w.funct7 % 64) + 2 * (w.rd \div 2), 4096)

(* inst_word & 0xFFFFF000, as an int32_t. *)
decode_imm_u(w) ==
  4096 * (8192 * SignExtend(w.funct7, 64) + 256 * w.rs2 + 8 * w.rs1 + w.funct3)
-----------------------------------------------------------------------------
(* The operation within each opcode. *)
SlipLoadOpAnyWidth(f3) == IF f3 = 3 THEN "LD" ELSE "LW"
load_op(f3)  == CASE f3 = 3 -> "LD" [] f3 = 2 -> "LW" [] OTHER -> "UNKNOWN"
store_op(f3) == CASE f3 = 3 -> "SD" [] f3 = 2 -> "SW" [] OTHER -> "UNKNOWN"

register_op(f3, f7) ==
  CASE f7 = 0 -> <<"ADD", "SLL", "SLT", "SLTU", "XOR", "SRL", "OR", "AND">>[f3 + 1]
    [] f7 = 32 /\ f3 = 0 -> "SUB"
    [] f7 = 32 /\ f3 = 5 -> "SRA"
    [] f7 = 1 /\ f3 = 0  -> "MUL"
    [] f7 = 1 /\ f3 = 4  -> "DIV"
    [] f7 = 1 /\ f3 = 6  -> "REM"
    [] OTHER             -> "UNKNOWN"

immediate_op(f3) ==
  CASE f3 = 0 -> "ADDI" [] f3 = 7 -> "ANDI" [] f3 = 6 -> "ORI" [] f3 = 4 -> "XORI"
    [] f3 = 2 -> "SLTI" [] f3 = 3 -> "SLTIU" [] OTHER -> "UNKNOWN"

(* funct3 is the rounding mode: only 3 and 7 are taken for arithmetic. *)
fp_op(rm, f7) ==
  CASE rm \in {3, 7} /\ f7 \in {1, 2}    -> "FADD_D"
    [] rm \in {3, 7} /\ f7 = 5           -> "FSUB_D"
    [] rm \in {3, 7} /\ f7 = 9           -> "FMUL_D"
    [] rm \in {3, 7} /\ f7 = 13          -> "FDIV_D"
    [] rm = 0 /\ f7 \in {96, 104, 105}   -> "FCVT_D_W"
    [] rm = 1 /\ f7 \in {96, 97}         -> "FCVT_W_D"
    [] OTHER                             -> "UNKNOWN"

(* The conversions move one register field to the other file. *)
fp_dest(op, w) == IF op = "FCVT_W_D" THEN IntReg(w.rd) ELSE FpReg(w.rd)
fp_src1(op, w) == IF op = "FCVT_D_W" THEN IntReg(w.rs1) ELSE FpReg(w.rs1)

(* The test of funct3, rs1 and rd is part of the mask 0x000FFFFF; the mask *)
(* leaves funct7 and bits 24:20 free.                                      *)
is_ebreak(w) ==
  w.opcode = OP_MISC_MEM /\ w.rd = 0 /\ w.funct3 = 0 /\ w.rs1 = 0

Fields(op, dest, src1, src2, imm) ==
  [op |-> op, dest |-> dest, src1 |-> src1, src2 |-> src2, imm |-> imm]

(* An UNKNOWN instruction keeps the fields its opcode filled in. *)
decode_instruction(w) ==
  LET rd == IntReg(w.rd)
      rs1 == IntReg(w.rs1)
      rs2 == IntReg(w.rs2)
      fp == fp_op(w.funct3, w.funct7)
      fp_only(op) == IF w.funct3 = 3 THEN op ELSE "UNKNOWN"
  IN CASE w.opcode = OP_LOAD ->
            Fields(load_op(w.funct3), rd, rs1, NoReg, decode_imm_i(w))
       [] w.opcode = OP_STORE ->
            Fields(store_op(w.funct3), NoReg, rs1, rs2, decode_imm_s(w))
       [] w.opcode = OP_OP ->
            Fields(register_op(w.funct3, w.funct7), rd, rs1, rs2, 0)
       [] w.opcode = OP_FP ->
            Fields(fp, fp_dest(fp, w), fp_src1(fp, w), FpReg(w.rs2), 0)
       [] w.opcode = OP_FLOAD ->
            Fields(fp_only("FLD"), FpReg(w.rd), rs1, NoReg, decode_imm_i(w))
       [] w.opcode = OP_FSTORE ->
            Fields(fp_only("FSD"), NoReg, rs1, FpReg(w.rs2), decode_imm_s(w))
       [] w.opcode = OP_IMM ->
            Fields(immediate_op(w.funct3), rd, rs1, NoReg, decode_imm_i(w))
       [] w.opcode = OP_LUI   -> Fields("LUI", rd, NoReg, NoReg, decode_imm_u(w))
       [] w.opcode = OP_AUIPC -> Fields("AUIPC", rd, NoReg, NoReg, decode_imm_u(w))
       [] w.opcode = OP_JALR  -> Fields("JALR", rd, rs1, NoReg, decode_imm_i(w))
       [] w.opcode = OP_BRANCH ->
            Fields(IF w.funct3 = 1 THEN "BNE" ELSE "UNKNOWN",
                   NoReg, rs1, rs2, decode_imm_b(w))
       [] is_ebreak(w) -> Fields("EBREAK", NoReg, NoReg, NoReg, 0)
       [] OTHER        -> Fields("UNKNOWN", NoReg, NoReg, NoReg, 0)
=============================================================================

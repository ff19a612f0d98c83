------------------------------ MODULE Encoding ------------------------------
(***************************************************************************)
(* The instruction encodings of the RISC-V manual, as a reference for      *)
(* decode_instruction: the word an assembler emits for an instruction of   *)
(* the simulator's vocabulary.  Written from the formats of the manual     *)
(* (R, I, S, B, U), not from decoder.cpp.                                  *)
(***************************************************************************)
EXTENDS Decoder

Assembled(opcode, rd, funct3, rs1, rs2, funct7) ==
  [opcode |-> opcode, rd |-> rd, funct3 |-> funct3, rs1 |-> rs1, rs2 |-> rs2,
   funct7 |-> funct7]

(* An immediate is laid out as its low bits, two's complement. *)
R_type(opcode, f3, f7, i) ==
  Assembled(opcode, i.dest[2], f3, i.src1[2], i.src2[2], f7)
I_type(opcode, f3, i) ==
  LET n == i.imm % 4096
  IN Assembled(opcode, i.dest[2], f3, i.src1[2], n % 32, n \div 32)
S_type(opcode, f3, i) ==
  LET n == i.imm % 4096
  IN Assembled(opcode, n % 32, f3, i.src1[2], i.src2[2], n \div 32)
B_type(opcode, f3, i) ==
  LET n == i.imm % 8192
  IN Assembled(opcode, (2 * ((n % 32) \div 2)) + ((n \div 2048) % 2), f3,
               i.src1[2], i.src2[2], (64 * (n \div 4096)) + ((n \div 32) % 64))
(* The upper twenty bits: funct3, rs1, rs2 and funct7 hold them. *)
U_type(opcode, i) ==
  LET n == i.imm \div 4096
  IN Assembled(opcode, i.dest[2], n % 8, (n \div 8) % 32, (n \div 256) % 32,
               (n \div 8192) % 128)

register_code ==
  [op \in {"ADD", "SLL", "SLT", "SLTU", "XOR", "SRL", "OR", "AND", "SUB", "SRA",
           "MUL", "DIV", "REM"} |->
     CASE op = "ADD" -> <<0, 0>>  [] op = "SLL" -> <<1, 0>>  [] op = "SLT" -> <<2, 0>>
       [] op = "SLTU" -> <<3, 0>> [] op = "XOR" -> <<4, 0>>  [] op = "SRL" -> <<5, 0>>
       [] op = "OR" -> <<6, 0>>   [] op = "AND" -> <<7, 0>>  [] op = "SUB" -> <<0, 32>>
       [] op = "SRA" -> <<5, 32>> [] op = "MUL" -> <<0, 1>>  [] op = "DIV" -> <<4, 1>>
       [] op = "REM" -> <<6, 1>>]
immediate_code ==
  [op \in {"ADDI", "SLTI", "SLTIU", "XORI", "ORI", "ANDI"} |->
     CASE op = "ADDI" -> 0 [] op = "SLTI" -> 2 [] op = "SLTIU" -> 3
       [] op = "XORI" -> 4 [] op = "ORI" -> 6 [] op = "ANDI" -> 7]
(* Rounding mode 7 is dynamic; a conversion from an int32_t is exact, mode *)
(* 0, and a conversion to one truncates, mode 1.                           *)
fp_code ==
  [op \in {"FADD_D", "FSUB_D", "FMUL_D", "FDIV_D", "FCVT_D_W", "FCVT_W_D"} |->
     CASE op = "FADD_D" -> <<7, 1>> [] op = "FSUB_D" -> <<7, 5>>
       [] op = "FMUL_D" -> <<7, 9>> [] op = "FDIV_D" -> <<7, 13>>
       [] op = "FCVT_D_W" -> <<0, 105>> [] op = "FCVT_W_D" -> <<1, 97>>]

Encode(i) ==
  CASE i.op \in DOMAIN register_code ->
         R_type(OP_OP, register_code[i.op][1], register_code[i.op][2], i)
    [] i.op \in DOMAIN fp_code -> R_type(OP_FP, fp_code[i.op][1], fp_code[i.op][2], i)
    [] i.op \in DOMAIN immediate_code -> I_type(OP_IMM, immediate_code[i.op], i)
    [] i.op = "LD"    -> I_type(OP_LOAD, 3, i)
    [] i.op = "LW"    -> I_type(OP_LOAD, 2, i)
    [] i.op = "FLD"   -> I_type(OP_FLOAD, 3, i)
    [] i.op = "JALR"  -> I_type(OP_JALR, 0, i)
    [] i.op = "SD"    -> S_type(OP_STORE, 3, i)
    [] i.op = "SW"    -> S_type(OP_STORE, 2, i)
    [] i.op = "FSD"   -> S_type(OP_FSTORE, 3, i)
    [] i.op = "BNE"   -> B_type(OP_BRANCH, 1, i)
    [] i.op = "LUI"   -> U_type(OP_LUI, i)
    [] i.op = "AUIPC" -> U_type(OP_AUIPC, i)
    [] i.op = "EBREAK" -> Assembled(OP_MISC_MEM, 0, 0, 0, 1, 0)
-----------------------------------------------------------------------------
(* The instructions that have an encoding, by format. *)
IntRegister == {"int"} \X (0 .. 31)
FpRegister  == {"fp"} \X (0 .. 31)
Imm12 == -2048 .. 2047
ImmBranch == {n \in Int : n >= -4096 /\ n < 4096 /\ n % 2 = 0}
(* The int32_t whose low twelve bits are zero: 2^31 is 64 * 8192 * 4096. *)
ImmUpper == {n \in Int : n % 4096 = 0 /\ (n \div 4096) \div 8192 \in -64 .. 63}

Format(ops, dest, src1, src2, imm) ==
  [op : ops, dest : dest, src1 : src1, src2 : src2, imm : imm]

EncodableR == Format(DOMAIN register_code, IntRegister, IntRegister, IntRegister, {0})
EncodableI ==
  Format(DOMAIN immediate_code \cup {"LD", "LW", "JALR"},
        IntRegister, IntRegister, {NoReg}, Imm12)
    \cup Format({"FLD"}, FpRegister, IntRegister, {NoReg}, Imm12)
EncodableS ==
  Format({"SD", "SW"}, {NoReg}, IntRegister, IntRegister, Imm12)
    \cup Format({"FSD"}, {NoReg}, IntRegister, FpRegister, Imm12)
EncodableB == Format({"BNE"}, {NoReg}, IntRegister, IntRegister, ImmBranch)
EncodableU == Format({"LUI", "AUIPC"}, IntRegister, {NoReg}, {NoReg}, ImmUpper)
(* The rs2 field of a conversion selects W: 0. *)
EncodableF ==
  Format({"FADD_D", "FSUB_D", "FMUL_D", "FDIV_D"}, FpRegister, FpRegister, FpRegister, {0})
    \cup Format({"FCVT_D_W"}, FpRegister, IntRegister, {FpReg(0)}, {0})
    \cup Format({"FCVT_W_D"}, IntRegister, FpRegister, {FpReg(0)}, {0})
Break == [op |-> "EBREAK", dest |-> NoReg, src1 |-> NoReg, src2 |-> NoReg, imm |-> 0]

Encodable == EncodableR \cup EncodableI \cup EncodableS \cup EncodableB
               \cup EncodableU \cup EncodableF \cup {Break}
=============================================================================

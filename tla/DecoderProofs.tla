---------------------------- MODULE DecoderProofs ----------------------------
(***************************************************************************)
(* That decode_instruction inverts the encodings of the RISC-V manual, for *)
(* every register and every immediate, that whatever the word is, what it  *)
(* returns is well formed, which the renaming of the core counts on, and   *)
(* that it takes no other word for an instruction; and from these, what    *)
(* loading a binary and listing it promise, for every binary.              *)
(***************************************************************************)
EXTENDS FrontEndProperties, SequenceTheorems, TLAPS

(* A number that fits in bits below 2 * sign survives two's complement. *)
LEMMA SignExtendInverts ==
  /\ \A n \in Imm12 : SignExtend(n % 4096, 2048) = n
  /\ \A n \in -4096 .. 4095 : SignExtend(n % 8192, 4096) = n
  /\ \A n \in -64 .. 63 : SignExtend(n % 128, 64) = n
BY DEF SignExtend, Imm12

(* A number cut into the bits above and below a place is put together      *)
(* again.                                                                  *)
LEMMA Cut ==
  ASSUME NEW n \in Int
  PROVE  /\ 32 * (n \div 32) + (n % 32) = n
         /\ 4096 * (n \div 4096) + 2048 * ((n \div 2048) % 2)
              + 32 * ((n \div 32) % 64) + (n % 32) = n
         /\ 8192 * (n \div 8192) + 256 * ((n \div 256) % 32)
              + 8 * ((n \div 8) % 32) + (n % 8) = n
OBVIOUS

(* The low bits of an immediate. *)
LEMMA LowBits12 == \A n \in Imm12 : n % 4096 \in Int
BY DEF Imm12

LEMMA ImmI ==
  ASSUME NEW opcode, NEW f3, NEW s, s.imm \in Imm12
  PROVE  decode_imm_i(I_type(opcode, f3, s)) = s.imm
<1>1. decode_imm_i(I_type(opcode, f3, s)) =
        SignExtend(32 * ((s.imm % 4096) \div 32) + ((s.imm % 4096) % 32), 2048)
  BY DEF decode_imm_i, I_type, Assembled
<1>2. s.imm % 4096 \in Int
  BY LowBits12
<1> QED BY <1>1, <1>2, Cut, SignExtendInverts

LEMMA ImmS ==
  ASSUME NEW opcode, NEW f3, NEW s, s.imm \in Imm12
  PROVE  decode_imm_s(S_type(opcode, f3, s)) = s.imm
<1>1. decode_imm_s(S_type(opcode, f3, s)) =
        SignExtend(32 * ((s.imm % 4096) \div 32) + ((s.imm % 4096) % 32), 2048)
  BY DEF decode_imm_s, S_type, Assembled
<1>2. s.imm % 4096 \in Int
  BY LowBits12
<1> QED BY <1>1, <1>2, Cut, SignExtendInverts

(* The thirteen bits of a branch offset, of which the lowest is 0, come    *)
(* back from the four places in rd and funct7 they are scattered to.       *)
LEMMA ImmB ==
  ASSUME NEW opcode, NEW f3, NEW s, s.imm \in ImmBranch
  PROVE  decode_imm_b(B_type(opcode, f3, s)) = s.imm
<1>1. PICK m \in Int : m = s.imm /\ m >= -4096 /\ m < 4096 /\ m % 2 = 0
  BY DEF ImmBranch
<1>2. PICK n \in Int : n = m % 8192
  OBVIOUS
<1>3. PICK k \in Int : m = 2 * k
  BY <1>1
<1>4. n >= 0 /\ n < 8192 /\ n % 2 = 0
  BY <1>2, <1>3
<1>5. PICK rd \in Int : rd = (2 * ((n % 32) \div 2)) + ((n \div 2048) % 2)
  OBVIOUS
<1>6. PICK f7 \in Int : f7 = (64 * (n \div 4096)) + ((n \div 32) % 64)
  OBVIOUS
<1>7. /\ B_type(opcode, f3, s).rd = rd
      /\ B_type(opcode, f3, s).funct7 = f7
  BY <1>1, <1>2, <1>5, <1>6 DEF B_type, Assembled
<1>8. rd % 2 = (n \div 2048) % 2 /\ 2 * (rd \div 2) = n % 32
  <2>1. rd % 2 = (n \div 2048) % 2
    BY <1>4, <1>5
  <2>2. rd \div 2 = (n % 32) \div 2
    BY <1>4, <1>5
  <2>3. PICK j \in Int : n = 2 * j
    BY <1>4
  <2>4. 2 * ((n % 32) \div 2) = n % 32
    BY <2>3
  <2> QED BY <2>1, <2>2, <2>4
<1>9. f7 % 64 = (n \div 32) % 64 /\ f7 \div 64 = n \div 4096
  <2>1. f7 % 64 = (n \div 32) % 64
    BY <1>4, <1>6
  <2>2. f7 \div 64 = n \div 4096
    BY <1>4, <1>6
  <2> QED BY <2>1, <2>2
<1>10. 4096 * (f7 \div 64) + 2048 * (rd % 2) + 32 * (f7 % 64) + 2 * (rd \div 2) = n
  <2>1. 4096 * (n \div 4096) + 2048 * ((n \div 2048) % 2)
          + 32 * ((n \div 32) % 64) + (n % 32) = n
    BY Cut
  <2> QED BY <1>8, <1>9, <2>1
<1>11. SignExtend(n, 4096) = m
  BY <1>1, <1>2 DEF SignExtend
<1> QED BY <1>1, <1>7, <1>10, <1>11 DEF decode_imm_b

LEMMA ImmU ==
  ASSUME NEW opcode, NEW s, s.imm \in ImmUpper
  PROVE  decode_imm_u(U_type(opcode, s)) = s.imm
<1>1. PICK m \in Int : m = s.imm /\ m % 4096 = 0 /\ (m \div 4096) \div 8192 \in -64 .. 63
  BY DEF ImmUpper
<1>2. PICK n \in Int : n = m \div 4096 /\ 4096 * n = m /\ n \div 8192 \in -64 .. 63
  BY <1>1
<1>3. PICK w : w = U_type(opcode, s)
  OBVIOUS
<1>4. /\ w.funct3 = n % 8 /\ w.rs1 = (n \div 8) % 32
      /\ w.rs2 = (n \div 256) % 32 /\ w.funct7 = (n \div 8192) % 128
  BY <1>1, <1>2, <1>3 DEF U_type, Assembled
<1>5. PICK h \in -64 .. 63 : h = n \div 8192
  BY <1>2
<1>6. SignExtend(h % 128, 64) = h
  BY DEF SignExtend
<1>7. decode_imm_u(w) = 4096 * n
  BY <1>4, <1>5, <1>6, Cut DEF decode_imm_u
<1> QED BY <1>1, <1>2, <1>3, <1>7
-----------------------------------------------------------------------------
(* decode_instruction by opcode: the eleven are different. *)
LEMMA ByOpcode ==
  ASSUME NEW w
  PROVE  /\ w.opcode = OP_LOAD => decode_instruction(w) =
              Fields(load_op(w.funct3), IntReg(w.rd), IntReg(w.rs1), NoReg, decode_imm_i(w))
         /\ w.opcode = OP_STORE => decode_instruction(w) =
              Fields(store_op(w.funct3), NoReg, IntReg(w.rs1), IntReg(w.rs2), decode_imm_s(w))
         /\ w.opcode = OP_OP => decode_instruction(w) =
              Fields(register_op(w.funct3, w.funct7), IntReg(w.rd), IntReg(w.rs1),
                     IntReg(w.rs2), 0)
         /\ w.opcode = OP_FP => decode_instruction(w) =
              Fields(fp_op(w.funct3, w.funct7), fp_dest(fp_op(w.funct3, w.funct7), w),
                     fp_src1(fp_op(w.funct3, w.funct7), w), FpReg(w.rs2), 0)
         /\ w.opcode = OP_FLOAD => decode_instruction(w) =
              Fields(IF w.funct3 = 3 THEN "FLD" ELSE "UNKNOWN", FpReg(w.rd),
                     IntReg(w.rs1), NoReg, decode_imm_i(w))
         /\ w.opcode = OP_FSTORE => decode_instruction(w) =
              Fields(IF w.funct3 = 3 THEN "FSD" ELSE "UNKNOWN", NoReg, IntReg(w.rs1),
                     FpReg(w.rs2), decode_imm_s(w))
         /\ w.opcode = OP_IMM => decode_instruction(w) =
              Fields(immediate_op(w.funct3), IntReg(w.rd), IntReg(w.rs1), NoReg,
                     decode_imm_i(w))
         /\ w.opcode = OP_LUI => decode_instruction(w) =
              Fields("LUI", IntReg(w.rd), NoReg, NoReg, decode_imm_u(w))
         /\ w.opcode = OP_AUIPC => decode_instruction(w) =
              Fields("AUIPC", IntReg(w.rd), NoReg, NoReg, decode_imm_u(w))
         /\ w.opcode = OP_JALR => decode_instruction(w) =
              Fields("JALR", IntReg(w.rd), IntReg(w.rs1), NoReg, decode_imm_i(w))
         /\ w.opcode = OP_BRANCH => decode_instruction(w) =
              Fields(IF w.funct3 = 1 THEN "BNE" ELSE "UNKNOWN", NoReg, IntReg(w.rs1),
                     IntReg(w.rs2), decode_imm_b(w))
BY DEF decode_instruction, is_ebreak, OP_LOAD, OP_STORE, OP_OP, OP_FP, OP_FLOAD,
       OP_FSTORE, OP_IMM, OP_LUI, OP_AUIPC, OP_JALR, OP_BRANCH, OP_MISC_MEM

(* The function codes select the operation they were chosen for. *)
LEMMA FunctionCodes ==
  /\ \A op \in DOMAIN register_code :
       register_op(register_code[op][1], register_code[op][2]) = op
  /\ \A op \in DOMAIN fp_code : fp_op(fp_code[op][1], fp_code[op][2]) = op
  /\ \A op \in DOMAIN immediate_code : immediate_op(immediate_code[op]) = op
<1>1. ASSUME NEW op \in DOMAIN register_code
      PROVE  register_op(register_code[op][1], register_code[op][2]) = op
  <2>1. /\ register_code["ADD"] = <<0, 0>> /\ register_code["SLL"] = <<1, 0>>
        /\ register_code["SLT"] = <<2, 0>> /\ register_code["SLTU"] = <<3, 0>>
        /\ register_code["XOR"] = <<4, 0>> /\ register_code["SRL"] = <<5, 0>>
        /\ register_code["OR"] = <<6, 0>> /\ register_code["AND"] = <<7, 0>>
        /\ register_code["SUB"] = <<0, 32>>
        /\ register_code["SRA"] = <<5, 32>> /\ register_code["MUL"] = <<0, 1>>
        /\ register_code["DIV"] = <<4, 1>> /\ register_code["REM"] = <<6, 1>>
    BY DEF register_code
  <2>2. /\ register_op(0, 0) = "ADD" /\ register_op(1, 0) = "SLL"
        /\ register_op(2, 0) = "SLT" /\ register_op(3, 0) = "SLTU"
        /\ register_op(4, 0) = "XOR" /\ register_op(5, 0) = "SRL"
        /\ register_op(6, 0) = "OR" /\ register_op(7, 0) = "AND"
        /\ register_op(0, 32) = "SUB" /\ register_op(5, 32) = "SRA"
        /\ register_op(0, 1) = "MUL" /\ register_op(4, 1) = "DIV"
        /\ register_op(6, 1) = "REM"
    BY DEF register_op
  <2> QED BY <2>1, <2>2 DEF register_code
<1>2. ASSUME NEW op \in DOMAIN fp_code
      PROVE  fp_op(fp_code[op][1], fp_code[op][2]) = op
  <2>1. /\ fp_code["FADD_D"] = <<7, 1>> /\ fp_code["FSUB_D"] = <<7, 5>>
        /\ fp_code["FMUL_D"] = <<7, 9>> /\ fp_code["FDIV_D"] = <<7, 13>>
        /\ fp_code["FCVT_D_W"] = <<0, 105>> /\ fp_code["FCVT_W_D"] = <<1, 97>>
    BY DEF fp_code
  <2>2. /\ fp_op(7, 1) = "FADD_D" /\ fp_op(7, 5) = "FSUB_D"
        /\ fp_op(7, 9) = "FMUL_D" /\ fp_op(7, 13) = "FDIV_D"
        /\ fp_op(0, 105) = "FCVT_D_W" /\ fp_op(1, 97) = "FCVT_W_D"
    BY DEF fp_op
  <2> QED BY <2>1, <2>2 DEF fp_code
<1>3. ASSUME NEW op \in DOMAIN immediate_code
      PROVE  immediate_op(immediate_code[op]) = op
  BY DEF immediate_op, immediate_code
<1> QED BY <1>1, <1>2, <1>3
-----------------------------------------------------------------------------
(* The word of every instruction, by operation. *)
LEMMA WordsOf ==
  ASSUME NEW s
  PROVE  /\ s.op \in DOMAIN register_code =>
              Encode(s) = R_type(OP_OP, register_code[s.op][1], register_code[s.op][2], s)
         /\ s.op \in DOMAIN fp_code =>
              Encode(s) = R_type(OP_FP, fp_code[s.op][1], fp_code[s.op][2], s)
         /\ s.op \in DOMAIN immediate_code =>
              Encode(s) = I_type(OP_IMM, immediate_code[s.op], s)
         /\ s.op = "LD"    => Encode(s) = I_type(OP_LOAD, 3, s)
         /\ s.op = "LW"    => Encode(s) = I_type(OP_LOAD, 2, s)
         /\ s.op = "FLD"   => Encode(s) = I_type(OP_FLOAD, 3, s)
         /\ s.op = "JALR"  => Encode(s) = I_type(OP_JALR, 0, s)
         /\ s.op = "SD"    => Encode(s) = S_type(OP_STORE, 3, s)
         /\ s.op = "SW"    => Encode(s) = S_type(OP_STORE, 2, s)
         /\ s.op = "FSD"   => Encode(s) = S_type(OP_FSTORE, 3, s)
         /\ s.op = "BNE"   => Encode(s) = B_type(OP_BRANCH, 1, s)
         /\ s.op = "LUI"   => Encode(s) = U_type(OP_LUI, s)
         /\ s.op = "AUIPC" => Encode(s) = U_type(OP_AUIPC, s)
<1>1. /\ DOMAIN register_code = {"ADD", "SLL", "SLT", "SLTU", "XOR", "SRL", "OR",
                                 "AND", "SUB", "SRA", "MUL", "DIV", "REM"}
      /\ DOMAIN fp_code = {"FADD_D", "FSUB_D", "FMUL_D", "FDIV_D", "FCVT_D_W",
                           "FCVT_W_D"}
      /\ DOMAIN immediate_code = {"ADDI", "SLTI", "SLTIU", "XORI", "ORI", "ANDI"}
  BY DEF register_code, fp_code, immediate_code
<1> QED BY <1>1 DEF Encode
-----------------------------------------------------------------------------
(* Every form comes back: first what the register form of a word gives.    *)
LEMMA RegisterFields ==
  ASSUME NEW opcode, NEW f3, NEW f7, NEW s
  PROVE  LET w == R_type(opcode, f3, f7, s) IN
           /\ w.opcode = opcode /\ w.rd = s.dest[2] /\ w.funct3 = f3
           /\ w.rs1 = s.src1[2] /\ w.rs2 = s.src2[2] /\ w.funct7 = f7
BY DEF R_type, Assembled

LEMMA RegisterForms ==
  ASSUME NEW s \in EncodableR PROVE decode_instruction(Encode(s)) = s
<1>1. /\ s.op \in DOMAIN register_code
      /\ s = Fields(s.op, IntReg(s.dest[2]), IntReg(s.src1[2]), IntReg(s.src2[2]), 0)
  BY DEF EncodableR, Format, IntRegister, IntReg, Fields
<1>2. PICK f3, f7 : f3 = register_code[s.op][1] /\ f7 = register_code[s.op][2]
  OBVIOUS
<1>3. Encode(s) = R_type(OP_OP, f3, f7, s) /\ register_op(f3, f7) = s.op
  BY <1>1, <1>2, WordsOf, FunctionCodes
<1> QED BY <1>1, <1>3, RegisterFields, ByOpcode

LEMMA FpForms ==
  ASSUME NEW s \in EncodableF PROVE decode_instruction(Encode(s)) = s
<1>1. s.op \in DOMAIN fp_code
  BY DEF EncodableF, Format, fp_code
<1>2. PICK f3, f7 : f3 = fp_code[s.op][1] /\ f7 = fp_code[s.op][2]
  OBVIOUS
<1>3. Encode(s) = R_type(OP_FP, f3, f7, s) /\ fp_op(f3, f7) = s.op
  BY <1>1, <1>2, WordsOf, FunctionCodes
<1>4. PICK w : w = Encode(s)
  OBVIOUS
<1>5. decode_instruction(w) =
        Fields(s.op, fp_dest(s.op, w), fp_src1(s.op, w), FpReg(s.src2[2]), 0)
  BY <1>3, <1>4, RegisterFields, ByOpcode
<1>6. w.rd = s.dest[2] /\ w.rs1 = s.src1[2]
  BY <1>3, <1>4, RegisterFields
<1>7. s = Fields(s.op, fp_dest(s.op, w), fp_src1(s.op, w), FpReg(s.src2[2]), 0)
  BY <1>6 DEF EncodableF, Format, FpRegister, IntRegister, FpReg, IntReg, Fields,
     fp_dest, fp_src1
<1> QED BY <1>4, <1>5, <1>7

LEMMA ImmediateForms ==
  ASSUME NEW s \in EncodableI PROVE decode_instruction(Encode(s)) = s
<1>1. /\ s.op = "FLD" =>
           s = Fields(s.op, FpReg(s.dest[2]), IntReg(s.src1[2]), NoReg, s.imm)
      /\ s.op # "FLD" =>
           s = Fields(s.op, IntReg(s.dest[2]), IntReg(s.src1[2]), NoReg, s.imm)
      /\ s.imm \in Imm12
      /\ s.op \in DOMAIN immediate_code \cup {"LD", "LW", "JALR", "FLD"}
  BY DEF EncodableI, Format, IntRegister, IntReg, FpRegister, FpReg, Fields,
     immediate_code
<1>2. ASSUME NEW opcode, NEW f3
      PROVE  LET w == I_type(opcode, f3, s) IN
               /\ w.opcode = opcode /\ w.rd = s.dest[2] /\ w.funct3 = f3
               /\ w.rs1 = s.src1[2] /\ decode_imm_i(w) = s.imm
  BY <1>1, ImmI DEF I_type, Assembled
<1>3. CASE s.op \in DOMAIN immediate_code
  <2>1. s.op # "FLD"
    BY <1>3 DEF immediate_code
  <2>2. PICK f3 : f3 = immediate_code[s.op]
    OBVIOUS
  <2>3. Encode(s) = I_type(OP_IMM, f3, s) /\ immediate_op(f3) = s.op
    BY <1>3, <2>2, WordsOf, FunctionCodes
  <2> QED BY <1>1, <1>2, <2>1, <2>3, ByOpcode
<1>4. load_op(3) = "LD" /\ load_op(2) = "LW"
  BY DEF load_op
<1>5. CASE s.op = "LD"
  BY <1>1, <1>2, <1>4, <1>5, WordsOf, ByOpcode
<1>6. CASE s.op = "LW"
  BY <1>1, <1>2, <1>4, <1>6, WordsOf, ByOpcode
<1>7. CASE s.op = "JALR"
  BY <1>1, <1>2, <1>7, WordsOf, ByOpcode
<1>8. CASE s.op = "FLD"
  BY <1>1, <1>2, <1>8, WordsOf, ByOpcode
<1> QED BY <1>1, <1>3, <1>5, <1>6, <1>7, <1>8

LEMMA StoreForms ==
  ASSUME NEW s \in EncodableS PROVE decode_instruction(Encode(s)) = s
<1>1. /\ s.op = "FSD" =>
           s = Fields(s.op, NoReg, IntReg(s.src1[2]), FpReg(s.src2[2]), s.imm)
      /\ s.op # "FSD" =>
           s = Fields(s.op, NoReg, IntReg(s.src1[2]), IntReg(s.src2[2]), s.imm)
      /\ s.imm \in Imm12 /\ s.op \in {"SD", "SW", "FSD"}
  BY DEF EncodableS, Format, IntRegister, IntReg, FpRegister, FpReg, Fields
<1>2. ASSUME NEW opcode, NEW f3
      PROVE  LET w == S_type(opcode, f3, s) IN
               /\ w.opcode = opcode /\ w.rs1 = s.src1[2] /\ w.funct3 = f3
               /\ w.rs2 = s.src2[2] /\ decode_imm_s(w) = s.imm
  BY <1>1, ImmS DEF S_type, Assembled
<1>3. store_op(3) = "SD" /\ store_op(2) = "SW"
  BY DEF store_op
<1>4. CASE s.op = "SD"
  BY <1>1, <1>2, <1>3, <1>4, WordsOf, ByOpcode
<1>5. CASE s.op = "SW"
  BY <1>1, <1>2, <1>3, <1>5, WordsOf, ByOpcode
<1>6. CASE s.op = "FSD"
  BY <1>1, <1>2, <1>6, WordsOf, ByOpcode
<1> QED BY <1>1, <1>4, <1>5, <1>6

LEMMA BranchForms ==
  ASSUME NEW s \in EncodableB PROVE decode_instruction(Encode(s)) = s
<1>1. /\ s = Fields("BNE", NoReg, IntReg(s.src1[2]), IntReg(s.src2[2]), s.imm)
      /\ s.op = "BNE" /\ s.imm \in ImmBranch
  BY DEF EncodableB, Format, IntRegister, IntReg, Fields
<1>2. PICK w : w = B_type(OP_BRANCH, 1, s)
  OBVIOUS
<1>3. /\ w.opcode = OP_BRANCH /\ w.funct3 = 1 /\ w.rs1 = s.src1[2]
      /\ w.rs2 = s.src2[2]
  BY <1>2 DEF B_type, Assembled
<1>4. decode_imm_b(w) = s.imm /\ Encode(s) = w
  BY <1>1, <1>2, ImmB, WordsOf
<1> QED BY <1>1, <1>3, <1>4, ByOpcode

LEMMA UpperForms ==
  ASSUME NEW s \in EncodableU PROVE decode_instruction(Encode(s)) = s
<1>1. /\ s = Fields(s.op, IntReg(s.dest[2]), NoReg, NoReg, s.imm)
      /\ s.op \in {"LUI", "AUIPC"} /\ s.imm \in ImmUpper
  BY DEF EncodableU, Format, IntRegister, IntReg, Fields
<1>2. ASSUME NEW opcode
      PROVE  LET w == U_type(opcode, s) IN
               w.opcode = opcode /\ w.rd = s.dest[2] /\ decode_imm_u(w) = s.imm
  BY <1>1, ImmU DEF U_type, Assembled
<1>3. CASE s.op = "LUI"
  BY <1>1, <1>2, <1>3, WordsOf, ByOpcode
<1>4. CASE s.op = "AUIPC"
  BY <1>1, <1>2, <1>4, WordsOf, ByOpcode
<1> QED BY <1>1, <1>3, <1>4

LEMMA BreakForm == decode_instruction(Encode(Break)) = Break
<1>1. PICK w : w = Assembled(OP_MISC_MEM, 0, 0, 0, 1, 0)
  OBVIOUS
<1>2. Encode(Break) = w
  BY <1>1 DEF Encode, Break, register_code, fp_code, immediate_code
<1>3. w.opcode = OP_MISC_MEM /\ w.rd = 0 /\ w.funct3 = 0 /\ w.rs1 = 0
  BY <1>1 DEF Assembled
<1>4. decode_instruction(w) = Break
  BY <1>3 DEF decode_instruction, is_ebreak, Fields, Break, OP_LOAD, OP_STORE, OP_OP,
     OP_FP, OP_FLOAD, OP_FSTORE, OP_IMM, OP_LUI, OP_AUIPC, OP_JALR, OP_BRANCH,
     OP_MISC_MEM
<1> QED BY <1>2, <1>4

(* decode_instruction returns the instruction that was assembled, for      *)
(* every operation of the simulator, every register and every immediate:   *)
(* no field is misplaced and no sign lost.                                 *)
THEOREM DecodeInvertsEncode == \A s \in Encodable : decode_instruction(Encode(s)) = s
BY RegisterForms, FpForms, ImmediateForms, StoreForms, BranchForms, UpperForms,
   BreakForm DEF Encodable
-----------------------------------------------------------------------------
(* The operations each opcode can become. *)
LEMMA OperationsOf ==
  ASSUME NEW w \in Word
  PROVE  /\ load_op(w.funct3) \in {"LD", "LW", "UNKNOWN"}
         /\ store_op(w.funct3) \in {"SD", "SW", "UNKNOWN"}
         /\ register_op(w.funct3, w.funct7) \in
              {"ADD", "SLL", "SLT", "SLTU", "XOR", "SRL", "OR", "AND", "SUB", "SRA",
               "MUL", "DIV", "REM", "UNKNOWN"}
         /\ immediate_op(w.funct3) \in
              {"ADDI", "ANDI", "ORI", "XORI", "SLTI", "SLTIU", "UNKNOWN"}
         /\ fp_op(w.funct3, w.funct7) \in
              {"FADD_D", "FSUB_D", "FMUL_D", "FDIV_D", "FCVT_D_W", "FCVT_W_D", "UNKNOWN"}
<1>1. w.funct3 \in {0, 1, 2, 3, 4, 5, 6, 7}
  BY DEF Word
<1>2. register_op(w.funct3, w.funct7) \in
        {"ADD", "SLL", "SLT", "SLTU", "XOR", "SRL", "OR", "AND", "SUB", "SRA",
         "MUL", "DIV", "REM", "UNKNOWN"}
  BY <1>1 DEF register_op
<1> QED BY <1>2 DEF load_op, store_op, immediate_op, fp_op

(* The operations that unwrap an integer first; and those of OP_FP. *)
LEMMA FirstOperands ==
  ASSUME NEW op
  PROVE  /\ op \notin {"FADD_D", "FSUB_D", "FEQ_D", "FLT_D", "FLE_D", "FMUL_D",
                       "FDIV_D", "FCVT_W_D"} => operand_kind_1(op) = "int"
         /\ op \in {"FADD_D", "FSUB_D", "FMUL_D", "FDIV_D", "FCVT_W_D"} =>
              operand_kind_1(op) = "fp"
BY DEF operand_kind_1, is_fp_add_op

LEMMA FieldsWellFormed ==
  ASSUME NEW op, NEW dest, NEW src1, NEW src2, NEW imm,
         is_store_op(op) => dest = NoReg,
         op # "UNKNOWN" /\ src1 # NoReg => src1[1] = operand_kind_1(op)
  PROVE  WellFormedInstruction(Fields(op, dest, src1, src2, imm))
BY DEF WellFormedInstruction, Fields

(* Whatever a binary holds, the core is never given a store that would     *)
(* rename a register, nor an operation that waits for an operand of the    *)
(* kind it does not unwrap.                                                *)
THEOREM DecodedWellFormed ==
  \A w \in Word : WellFormedInstruction(decode_instruction(w))
<1> SUFFICES ASSUME NEW w \in Word
             PROVE  WellFormedInstruction(decode_instruction(w))
  OBVIOUS
<1>1. CASE w.opcode = OP_LOAD
  <2>1. PICK o \in {"LD", "LW", "UNKNOWN"} : o = load_op(w.funct3)
    BY OperationsOf
  <2>2. ~is_store_op(o) /\ IntReg(w.rs1)[1] = operand_kind_1(o)
    BY <2>1, FirstOperands DEF is_store_op, IntReg
  <2> QED BY <1>1, <2>1, <2>2, ByOpcode, FieldsWellFormed
<1>2. CASE w.opcode = OP_FLOAD
  <2>1. PICK o \in {"FLD", "UNKNOWN"} : o = IF w.funct3 = 3 THEN "FLD" ELSE "UNKNOWN"
    OBVIOUS
  <2>2. ~is_store_op(o) /\ IntReg(w.rs1)[1] = operand_kind_1(o)
    BY <2>1, FirstOperands DEF is_store_op, IntReg
  <2> QED BY <1>2, <2>1, <2>2, ByOpcode, FieldsWellFormed
<1>3. CASE w.opcode = OP_STORE
  <2>1. PICK o \in {"SD", "SW", "UNKNOWN"} : o = store_op(w.funct3)
    BY OperationsOf
  <2>2. IntReg(w.rs1)[1] = operand_kind_1(o)
    BY <2>1, FirstOperands DEF IntReg
  <2> QED BY <1>3, <2>1, <2>2, ByOpcode, FieldsWellFormed
<1>4. CASE w.opcode = OP_FSTORE
  <2>1. PICK o \in {"FSD", "UNKNOWN"} : o = IF w.funct3 = 3 THEN "FSD" ELSE "UNKNOWN"
    OBVIOUS
  <2>2. IntReg(w.rs1)[1] = operand_kind_1(o)
    BY <2>1, FirstOperands DEF IntReg
  <2> QED BY <1>4, <2>1, <2>2, ByOpcode, FieldsWellFormed
<1>5. CASE w.opcode = OP_OP
  <2>1. PICK o \in {"ADD", "SLL", "SLT", "SLTU", "XOR", "SRL", "OR", "AND", "SUB",
                    "SRA", "MUL", "DIV", "REM", "UNKNOWN"} :
          o = register_op(w.funct3, w.funct7)
    BY OperationsOf
  <2>2. ~is_store_op(o) /\ IntReg(w.rs1)[1] = operand_kind_1(o)
    BY <2>1, FirstOperands DEF is_store_op, IntReg
  <2> QED BY <1>5, <2>1, <2>2, ByOpcode, FieldsWellFormed
<1>6. CASE w.opcode = OP_IMM
  <2>1. PICK o \in {"ADDI", "ANDI", "ORI", "XORI", "SLTI", "SLTIU", "UNKNOWN"} :
          o = immediate_op(w.funct3)
    BY OperationsOf
  <2>2. ~is_store_op(o) /\ IntReg(w.rs1)[1] = operand_kind_1(o)
    BY <2>1, FirstOperands DEF is_store_op, IntReg
  <2> QED BY <1>6, <2>1, <2>2, ByOpcode, FieldsWellFormed
<1>7. CASE w.opcode = OP_FP
  <2>1. PICK o \in {"FADD_D", "FSUB_D", "FMUL_D", "FDIV_D", "FCVT_D_W", "FCVT_W_D",
                    "UNKNOWN"} : o = fp_op(w.funct3, w.funct7)
    BY OperationsOf
  <2>2. ~is_store_op(o) /\ (o # "UNKNOWN" => fp_src1(o, w)[1] = operand_kind_1(o))
    BY <2>1, FirstOperands DEF is_store_op, fp_src1, IntReg, FpReg
  <2> QED BY <1>7, <2>1, <2>2, ByOpcode, FieldsWellFormed
<1>8. CASE w.opcode = OP_JALR
  <2>1. ~is_store_op("JALR") /\ IntReg(w.rs1)[1] = operand_kind_1("JALR")
    BY FirstOperands DEF is_store_op, IntReg
  <2> QED BY <1>8, <2>1, ByOpcode, FieldsWellFormed
<1>9. CASE w.opcode = OP_BRANCH
  <2>1. PICK o \in {"BNE", "UNKNOWN"} : o = IF w.funct3 = 1 THEN "BNE" ELSE "UNKNOWN"
    OBVIOUS
  <2>2. IntReg(w.rs1)[1] = operand_kind_1(o)
    BY <2>1, FirstOperands DEF IntReg
  <2> QED BY <1>9, <2>1, <2>2, ByOpcode, FieldsWellFormed
<1>10. CASE w.opcode \in {OP_LUI, OP_AUIPC}
  <2>1. ~is_store_op("LUI") /\ ~is_store_op("AUIPC")
    BY DEF is_store_op
  <2> QED BY <1>10, <2>1, ByOpcode, FieldsWellFormed
<1>11. CASE w.opcode \notin {OP_LOAD, OP_FLOAD, OP_STORE, OP_FSTORE, OP_OP, OP_IMM,
                            OP_FP, OP_JALR, OP_BRANCH, OP_LUI, OP_AUIPC}
  <2>1. PICK o \in {"EBREAK", "UNKNOWN"} :
          decode_instruction(w) = Fields(o, NoReg, NoReg, NoReg, 0)
    BY <1>11 DEF decode_instruction
  <2> QED BY <2>1, FieldsWellFormed
<1> QED BY <1>1, <1>2, <1>3, <1>4, <1>5, <1>6, <1>7, <1>8, <1>9, <1>10, <1>11
-----------------------------------------------------------------------------
(* Words and the bytes of a file *)

(* The function codes of the manual fit their fields. *)
LEMMA CodesFit ==
  /\ \A op \in DOMAIN register_code :
       register_code[op][1] \in 0 .. 7 /\ register_code[op][2] \in 0 .. 127
  /\ \A op \in DOMAIN fp_code :
       fp_code[op][1] \in 0 .. 7 /\ fp_code[op][2] \in 0 .. 127
  /\ \A op \in DOMAIN immediate_code : immediate_code[op] \in 0 .. 7
<1>1. ASSUME NEW op \in DOMAIN register_code
      PROVE  register_code[op][1] \in 0 .. 7 /\ register_code[op][2] \in 0 .. 127
  <2>1. register_code[op] \in (0 .. 7) \X (0 .. 127)
    BY DEF register_code
  <2> QED BY <2>1
<1>2. ASSUME NEW op \in DOMAIN fp_code
      PROVE  fp_code[op][1] \in 0 .. 7 /\ fp_code[op][2] \in 0 .. 127
  BY DEF fp_code
<1>3. ASSUME NEW op \in DOMAIN immediate_code PROVE immediate_code[op] \in 0 .. 7
  BY DEF immediate_code
<1> QED BY <1>1, <1>2, <1>3

(* The places a number is scattered to are as wide as its pieces. *)
LEMMA PiecesFit ==
  /\ \A n \in Imm12 : /\ (n % 4096) % 32 \in 0 .. 31
                      /\ (n % 4096) \div 32 \in 0 .. 127
                      /\ ((n % 4096) \div 32) % 128 \in 0 .. 127
  /\ \A n \in 0 .. 8191 :
       /\ (2 * ((n % 32) \div 2)) + ((n \div 2048) % 2) \in 0 .. 31
       /\ (64 * (n \div 4096)) + ((n \div 32) % 64) \in 0 .. 127
  /\ \A n \in Int : n % 8 \in 0 .. 7 /\ (n \div 8) % 32 \in 0 .. 31
       /\ (n \div 256) % 32 \in 0 .. 31 /\ (n \div 8192) % 128 \in 0 .. 127
<1>1. \A n \in Imm12 : /\ (n % 4096) % 32 \in 0 .. 31
                      /\ (n % 4096) \div 32 \in 0 .. 127
                      /\ ((n % 4096) \div 32) % 128 \in 0 .. 127
  BY DEF Imm12
<1>2. ASSUME NEW n \in 0 .. 8191
      PROVE  /\ (2 * ((n % 32) \div 2)) + ((n \div 2048) % 2) \in 0 .. 31
             /\ (64 * (n \div 4096)) + ((n \div 32) % 64) \in 0 .. 127
  <2>1. PICK a \in 0 .. 15 : a = (n % 32) \div 2
    OBVIOUS
  <2>2. PICK b \in 0 .. 1 : b = (n \div 2048) % 2
    OBVIOUS
  <2>3. PICK c \in 0 .. 1 : c = n \div 4096
    OBVIOUS
  <2>4. PICK d \in 0 .. 63 : d = (n \div 32) % 64
    OBVIOUS
  <2>5. (2 * a) + b \in 0 .. 31 /\ (64 * c) + d \in 0 .. 127
    OBVIOUS
  <2> QED BY <2>1, <2>2, <2>3, <2>4, <2>5
<1>3. \A n \in Int : n % 8 \in 0 .. 7 /\ (n \div 8) % 32 \in 0 .. 31
        /\ (n \div 256) % 32 \in 0 .. 31 /\ (n \div 8192) % 128 \in 0 .. 127
  OBVIOUS
<1> QED BY <1>1, <1>2, <1>3

LEMMA Opcodes ==
  /\ OP_LOAD \in 0 .. 127 /\ OP_STORE \in 0 .. 127 /\ OP_OP \in 0 .. 127
  /\ OP_FP \in 0 .. 127 /\ OP_FLOAD \in 0 .. 127 /\ OP_FSTORE \in 0 .. 127
  /\ OP_IMM \in 0 .. 127 /\ OP_LUI \in 0 .. 127 /\ OP_AUIPC \in 0 .. 127
  /\ OP_JALR \in 0 .. 127 /\ OP_BRANCH \in 0 .. 127 /\ OP_MISC_MEM \in 0 .. 127
BY DEF OP_LOAD, OP_STORE, OP_OP, OP_FP, OP_FLOAD, OP_FSTORE, OP_IMM, OP_LUI,
       OP_AUIPC, OP_JALR, OP_BRANCH, OP_MISC_MEM

(* The encoding of an instruction is a word. *)
LEMMA EncodingsAreWords == \A s \in Encodable : Encode(s) \in Word
<1> USE Opcodes
<1>1. ASSUME NEW s \in EncodableR PROVE Encode(s) \in Word
  <2>1. /\ s.op \in DOMAIN register_code /\ s.dest[2] \in 0 .. 31
        /\ s.src1[2] \in 0 .. 31 /\ s.src2[2] \in 0 .. 31
    BY DEF EncodableR, Format, IntRegister
  <2>2. PICK f3 \in 0 .. 7, f7 \in 0 .. 127 :
          f3 = register_code[s.op][1] /\ f7 = register_code[s.op][2]
    BY <2>1, CodesFit
  <2>3. Encode(s) = Assembled(OP_OP, s.dest[2], f3, s.src1[2], s.src2[2], f7)
    BY <2>1, <2>2, WordsOf DEF R_type
  <2> QED BY <2>1, <2>3 DEF Assembled, Word
<1>2. ASSUME NEW s \in EncodableF PROVE Encode(s) \in Word
  <2>1. /\ s.op \in DOMAIN fp_code /\ s.dest[2] \in 0 .. 31
        /\ s.src1[2] \in 0 .. 31 /\ s.src2[2] \in 0 .. 31
    BY DEF EncodableF, Format, IntRegister, FpRegister, FpReg, fp_code
  <2>2. PICK f3 \in 0 .. 7, f7 \in 0 .. 127 :
          f3 = fp_code[s.op][1] /\ f7 = fp_code[s.op][2]
    BY <2>1, CodesFit
  <2>3. Encode(s) = Assembled(OP_FP, s.dest[2], f3, s.src1[2], s.src2[2], f7)
    BY <2>1, <2>2, WordsOf DEF R_type
  <2> QED BY <2>1, <2>3 DEF Assembled, Word
<1>3. ASSUME NEW s \in EncodableI PROVE Encode(s) \in Word
  <2>1. /\ s.op \in DOMAIN immediate_code \cup {"LD", "LW", "JALR", "FLD"}
        /\ s.dest[2] \in 0 .. 31 /\ s.src1[2] \in 0 .. 31 /\ s.imm \in Imm12
    BY DEF EncodableI, Format, IntRegister, FpRegister
  <2>2. ASSUME NEW opcode \in 0 .. 127, NEW f3 \in 0 .. 7
        PROVE  I_type(opcode, f3, s) \in Word
    <3>1. PICK n : n = s.imm % 4096 /\ n % 32 \in 0 .. 31 /\ n \div 32 \in 0 .. 127
      BY <2>1, PiecesFit
    <3>2. I_type(opcode, f3, s) =
            Assembled(opcode, s.dest[2], f3, s.src1[2], n % 32, n \div 32)
      BY <3>1 DEF I_type
    <3> QED BY <2>1, <3>1, <3>2 DEF Assembled, Word
  <2> QED BY <2>1, <2>2, CodesFit, WordsOf
<1>4. ASSUME NEW s \in EncodableS PROVE Encode(s) \in Word
  <2>1. /\ s.op \in {"SD", "SW", "FSD"} /\ s.src2[2] \in 0 .. 31
        /\ s.src1[2] \in 0 .. 31 /\ s.imm \in Imm12
    BY DEF EncodableS, Format, IntRegister, FpRegister
  <2>2. ASSUME NEW opcode \in 0 .. 127, NEW f3 \in 0 .. 7
        PROVE  S_type(opcode, f3, s) \in Word
    <3>1. PICK n : n = s.imm % 4096 /\ n % 32 \in 0 .. 31 /\ n \div 32 \in 0 .. 127
      BY <2>1, PiecesFit
    <3>2. S_type(opcode, f3, s) =
            Assembled(opcode, n % 32, f3, s.src1[2], s.src2[2], n \div 32)
      BY <3>1 DEF S_type
    <3> QED BY <2>1, <3>1, <3>2 DEF Assembled, Word
  <2> QED BY <2>1, <2>2, WordsOf
<1>5. ASSUME NEW s \in EncodableB PROVE Encode(s) \in Word
  <2>1. /\ s.op = "BNE" /\ s.src2[2] \in 0 .. 31 /\ s.src1[2] \in 0 .. 31
        /\ s.imm \in Int
    BY DEF EncodableB, Format, IntRegister, ImmBranch
  <2>2. PICK m \in Int : m = s.imm
    BY <2>1
  <2>3. PICK n \in Int : n = m % 8192
    OBVIOUS
  <2>4. n \in 0 .. 8191
    BY <2>3
  <2>5. PICK rd : rd = (2 * ((n % 32) \div 2)) + ((n \div 2048) % 2)
    OBVIOUS
  <2>6. PICK f7 : f7 = (64 * (n \div 4096)) + ((n \div 32) % 64)
    OBVIOUS
  <2>7. rd \in 0 .. 31
    BY <2>4, <2>5, PiecesFit
  <2>8. f7 \in 0 .. 127
    BY <2>4, <2>6, PiecesFit
  <2>9. Encode(s) = Assembled(OP_BRANCH, rd, 1, s.src1[2], s.src2[2], f7)
    BY <2>1, <2>2, <2>3, <2>5, <2>6, WordsOf DEF B_type
  <2> QED BY <2>1, <2>7, <2>8, <2>9 DEF Assembled, Word
<1>6. ASSUME NEW s \in EncodableU PROVE Encode(s) \in Word
  <2>1. /\ s.op \in {"LUI", "AUIPC"} /\ s.dest[2] \in 0 .. 31 /\ s.imm \in Int
    BY DEF EncodableU, Format, IntRegister, ImmUpper
  <2>2. PICK n \in Int : n = s.imm \div 4096
    BY <2>1
  <2>3. ASSUME NEW opcode \in 0 .. 127 PROVE U_type(opcode, s) \in Word
    <3>1. U_type(opcode, s) = Assembled(opcode, s.dest[2], n % 8, (n \div 8) % 32,
                                        (n \div 256) % 32, (n \div 8192) % 128)
      BY <2>2 DEF U_type
    <3> QED BY <2>1, <3>1, PiecesFit DEF Assembled, Word
  <2> QED BY <2>1, <2>3, WordsOf
<1>7. Encode(Break) \in Word
  <2>1. Encode(Break) = Assembled(OP_MISC_MEM, 0, 0, 0, 1, 0)
    BY DEF Encode, Break, register_code, fp_code, immediate_code
  <2> QED BY <2>1 DEF Assembled, Word
<1> QED BY <1>1, <1>2, <1>3, <1>4, <1>5, <1>6, <1>7 DEF Encodable

(* Four bytes of a file make a word. *)
LEMMA LoadedWords ==
  ASSUME file \in Files, NEW k \in 0 .. num_inst - 1
  PROVE  LoadedWord(k) \in Word
<1>1. file \in Seq(0 .. 255) /\ k \in Nat /\ 4 * k + 4 <= Len(file)
  BY FileAssumption DEF num_inst
<1>2. \A n \in 0 .. 3 : Byte(k, n) \in 0 .. 255
  <2>1. \A m \in 1 .. Len(file) : file[m] \in 0 .. 255
    BY <1>1, ElementOfSeq
  <2>2. \A n \in 0 .. 3 : 4 * k + n + 1 \in 1 .. Len(file)
    BY <1>1
  <2> QED BY <2>1, <2>2 DEF Byte
<1>3. \A b \in 0 .. 255 : /\ b % 128 \in 0 .. 127 /\ b \div 128 \in 0 .. 1
                          /\ b % 16 \in 0 .. 15 /\ (b \div 16) % 8 \in 0 .. 7
                          /\ b % 2 \in 0 .. 1 /\ b \div 16 \in 0 .. 15
                          /\ b \div 2 \in 0 .. 127
  OBVIOUS
<1> QED BY <1>2, <1>3 DEF LoadedWord, Word

(* The four bytes that an assembler emits for a word are loaded as it. *)
LEMMA BytesLoadBack ==
  ASSUME file \in Files, NEW k \in 1 .. num_inst, NEW w \in Word,
         FileBytes(k) = Bytes(w)
  PROVE  LoadedWord(k - 1) = w
<1>1. /\ file \in Seq(0 .. 255) /\ k \in Int /\ k >= 1 /\ 4 * k <= Len(file)
      /\ Len(file) \in Nat
  BY FileAssumption DEF num_inst
<1>2. \A n \in 1 .. 4 : FileBytes(k)[n] = file[4 * k - 4 + n]
  BY <1>1 DEF FileBytes
<1>3. /\ Byte(k - 1, 0) = w.opcode + 128 * (w.rd % 2)
      /\ Byte(k - 1, 1) = (w.rd \div 2) + 16 * w.funct3 + 128 * (w.rs1 % 2)
      /\ Byte(k - 1, 2) = (w.rs1 \div 2) + 16 * (w.rs2 % 16)
      /\ Byte(k - 1, 3) = (w.rs2 \div 16) + 2 * w.funct7
  <2>1. \A n \in 0 .. 3 : Byte(k - 1, n) = FileBytes(k)[n + 1]
    BY <1>1, <1>2 DEF Byte
  <2> QED BY <2>1 DEF Bytes
<1>4. /\ w.opcode \in 0 .. 127 /\ w.rd \in 0 .. 31 /\ w.funct3 \in 0 .. 7
      /\ w.rs1 \in 0 .. 31 /\ w.rs2 \in 0 .. 31 /\ w.funct7 \in 0 .. 127
      /\ w = [opcode |-> w.opcode, rd |-> w.rd, funct3 |-> w.funct3, rs1 |-> w.rs1,
              rs2 |-> w.rs2, funct7 |-> w.funct7]
  BY DEF Word
<1>5. ASSUME NEW o \in 0 .. 127, NEW d \in 0 .. 31
      PROVE  (o + 128 * (d % 2)) % 128 = o /\ (o + 128 * (d % 2)) \div 128 = d % 2
  OBVIOUS
<1>6. ASSUME NEW d \in 0 .. 31, NEW f \in 0 .. 7, NEW r \in 0 .. 31
      PROVE  LET b == (d \div 2) + 16 * f + 128 * (r % 2)
             IN b % 16 = d \div 2 /\ (b \div 16) % 8 = f /\ b \div 128 = r % 2
  OBVIOUS
<1>7. ASSUME NEW r \in 0 .. 31, NEW t \in 0 .. 31
      PROVE  LET b == (r \div 2) + 16 * (t % 16)
             IN b % 16 = r \div 2 /\ b \div 16 = t % 16
  OBVIOUS
<1>8. ASSUME NEW t \in 0 .. 31, NEW f \in 0 .. 127
      PROVE  LET b == (t \div 16) + 2 * f IN b % 2 = t \div 16 /\ b \div 2 = f
  OBVIOUS
<1>9. \A n \in 0 .. 31 : /\ (2 * (n \div 2)) + (n % 2) = n
                         /\ (16 * (n \div 16)) + (n % 16) = n
  OBVIOUS
<1> QED BY <1>3, <1>4, <1>5, <1>6, <1>7, <1>8, <1>9 DEF LoadedWord

(* Cutting four bytes into fields and laying the fields out loses nothing. *)
LEMMA LoadedBytes ==
  ASSUME file \in Files, NEW k \in 1 .. num_inst
  PROVE  Bytes(LoadedWord(k - 1)) = FileBytes(k)
<1>1. /\ file \in Seq(0 .. 255) /\ k \in Int /\ k >= 1 /\ 4 * k <= Len(file)
      /\ Len(file) \in Nat
  BY FileAssumption DEF num_inst
<1>2. /\ FileBytes(k) = [n \in 1 .. 4 |-> file[4 * k - 4 + n]]
      /\ \A n \in 0 .. 3 : Byte(k - 1, n) = file[4 * k - 4 + n + 1]
  BY <1>1 DEF FileBytes, Byte
<1>3. /\ \A n \in 1 .. 4 : FileBytes(k)[n] \in 0 .. 255
      /\ \A n \in 0 .. 3 : Byte(k - 1, n) = FileBytes(k)[n + 1]
  <2>1. \A m \in 1 .. Len(file) : file[m] \in 0 .. 255
    BY <1>1, ElementOfSeq
  <2>2. \A n \in 1 .. 4 : 4 * k - 4 + n \in 1 .. Len(file)
    BY <1>1
  <2>3. \A n \in 1 .. 4 : FileBytes(k)[n] = file[4 * k - 4 + n]
    BY <1>2
  <2>4. \A n \in 0 .. 3 : n + 1 \in 1 .. 4 /\ 4 * k - 4 + (n + 1) = 4 * k - 4 + n + 1
    BY <1>1
  <2> QED BY <1>2, <2>1, <2>2, <2>3, <2>4
<1>4. PICK a \in 0 .. 255, b \in 0 .. 255, c \in 0 .. 255, d \in 0 .. 255 :
        /\ a = FileBytes(k)[1] /\ b = FileBytes(k)[2]
        /\ c = FileBytes(k)[3] /\ d = FileBytes(k)[4]
  <2>1. /\ FileBytes(k)[1] \in 0 .. 255 /\ FileBytes(k)[2] \in 0 .. 255
        /\ FileBytes(k)[3] \in 0 .. 255 /\ FileBytes(k)[4] \in 0 .. 255
    BY <1>3
  <2> QED BY <2>1
<1>5. FileBytes(k) = <<a, b, c, d>>
  <2>1. FileBytes(k) = <<FileBytes(k)[1], FileBytes(k)[2], FileBytes(k)[3], FileBytes(k)[4]>>
    BY <1>2
  <2> QED BY <1>4, <2>1
<1>6. LoadedWord(k - 1) =
        [opcode |-> a % 128, rd |-> 2 * (b % 16) + a \div 128,
         funct3 |-> (b \div 16) % 8, rs1 |-> 2 * (c % 16) + b \div 128,
         rs2 |-> 16 * (d % 2) + c \div 16, funct7 |-> d \div 2]
  <2>1. /\ Byte(k - 1, 0) = a /\ Byte(k - 1, 1) = b
        /\ Byte(k - 1, 2) = c /\ Byte(k - 1, 3) = d
    BY <1>3, <1>4
  <2> QED BY <2>1 DEF LoadedWord
<1>7. \A m \in 0 .. 255, n \in 0 .. 255 :
        /\ (2 * (n % 16) + m \div 128) % 2 = m \div 128
        /\ (2 * (n % 16) + m \div 128) \div 2 = n % 16
        /\ (16 * (n % 2) + m \div 16) % 16 = m \div 16
        /\ (16 * (n % 2) + m \div 16) \div 16 = n % 2
  OBVIOUS
<1>8. \A n \in 0 .. 255 :
        /\ (n % 128) + 128 * (n \div 128) = n
        /\ (n % 16) + 16 * ((n \div 16) % 8) + 128 * (n \div 128) = n
        /\ (n % 16) + 16 * (n \div 16) = n /\ (n % 2) + 2 * (n \div 2) = n
  OBVIOUS
<1>9. PICK w : w = LoadedWord(k - 1)
  OBVIOUS
<1>10. /\ w.opcode + 128 * (w.rd % 2) = a
       /\ (w.rd \div 2) + 16 * w.funct3 + 128 * (w.rs1 % 2) = b
  <2>1. /\ w.opcode = a % 128 /\ w.rd % 2 = a \div 128 /\ w.rd \div 2 = b % 16
        /\ w.funct3 = (b \div 16) % 8 /\ w.rs1 % 2 = b \div 128
    BY <1>6, <1>7, <1>9
  <2>2. /\ (a % 128) + 128 * (a \div 128) = a
        /\ (b % 16) + 16 * ((b \div 16) % 8) + 128 * (b \div 128) = b
    BY <1>8
  <2> QED BY <2>1, <2>2
<1>11. /\ (w.rs1 \div 2) + 16 * (w.rs2 % 16) = c
       /\ (w.rs2 \div 16) + 2 * w.funct7 = d
  BY <1>6, <1>7, <1>8, <1>9
<1> QED BY <1>5, <1>9, <1>10, <1>11 DEF Bytes
-----------------------------------------------------------------------------
(* The other direction: a word that is decoded is the encoding of what it  *)
(* is decoded to.                                                          *)

(* Two's complement keeps the bits of a number, wherever they go. *)
LEMMA PiecesI ==
  ASSUME NEW w, w.funct7 \in 0 .. 127, w.rs2 \in 0 .. 31
  PROVE  \E m \in Int :
           /\ m = decode_imm_i(w) /\ m \in Imm12
           /\ (m % 4096) % 32 = w.rs2 /\ (m % 4096) \div 32 = w.funct7
<1>1. PICK f7 \in 0 .. 127, r \in 0 .. 31 : f7 = w.funct7 /\ r = w.rs2
  OBVIOUS
<1>2. PICK n \in 0 .. 4095 : n = 32 * f7 + r /\ n % 32 = r /\ n \div 32 = f7
  OBVIOUS
<1>3. PICK m \in Int : m = IF n >= 2048 THEN n - 4096 ELSE n
  OBVIOUS
<1>4. m % 4096 = n /\ m >= -2048 /\ m <= 2047
  BY <1>3
<1>5. m \in Imm12
  BY <1>4 DEF Imm12
<1>6. decode_imm_i(w) = m
  BY <1>1, <1>2, <1>3 DEF SignExtend, decode_imm_i
<1> QED BY <1>1, <1>2, <1>4, <1>5, <1>6

LEMMA PiecesB ==
  ASSUME NEW w, w.funct7 \in 0 .. 127, w.rd \in 0 .. 31
  PROVE  \E m, n \in Int :
           /\ m = decode_imm_b(w) /\ m \in ImmBranch /\ n = m % 8192
           /\ (2 * ((n % 32) \div 2)) + ((n \div 2048) % 2) = w.rd
           /\ (64 * (n \div 4096)) + ((n \div 32) % 64) = w.funct7
<1>1. PICK f7 \in 0 .. 127, r \in 0 .. 31 : f7 = w.funct7 /\ r = w.rd
  OBVIOUS
<1>2. PICK a \in 0 .. 1, c \in 0 .. 63 :
        a = f7 \div 64 /\ c = f7 % 64 /\ f7 = 64 * a + c
  OBVIOUS
<1>3. PICK b \in 0 .. 1, d \in 0 .. 15 : b = r % 2 /\ d = r \div 2 /\ r = 2 * d + b
  OBVIOUS
<1>4. PICK n \in 0 .. 8191 : n = 4096 * a + 2048 * b + 32 * c + 2 * d
  OBVIOUS
<1>5. n % 32 = 2 * d /\ (2 * d) \div 2 = d
  BY <1>4
<1>6. n \div 2048 = 2 * a + b /\ (2 * a + b) % 2 = b
  BY <1>4
<1>7. n \div 4096 = a
  BY <1>4
<1>8. n \div 32 = 128 * a + 64 * b + c /\ (128 * a + 64 * b + c) % 64 = c
  BY <1>4
<1>9. PICK m \in Int : m = IF n >= 4096 THEN n - 8192 ELSE n
  OBVIOUS
<1>10. m % 8192 = n /\ m >= -4096 /\ m < 4096
  BY <1>9
<1>11. m % 2 = 0
  BY <1>4, <1>9
<1>12. m \in ImmBranch
  BY <1>10, <1>11 DEF ImmBranch
<1>13. SignExtend(n, 4096) = m
  BY <1>9 DEF SignExtend
<1>14. decode_imm_b(w) = m
  <2>1. decode_imm_b(w) = SignExtend(4096 * (f7 \div 64) + 2048 * (r % 2)
                                       + 32 * (f7 % 64) + 2 * (r \div 2), 4096)
    BY <1>1 DEF decode_imm_b
  <2> QED BY <1>2, <1>3, <1>4, <1>13, <2>1
<1>15. /\ (2 * ((n % 32) \div 2)) + ((n \div 2048) % 2) = r
       /\ (64 * (n \div 4096)) + ((n \div 32) % 64) = f7
  <2>1. (2 * ((n % 32) \div 2)) + ((n \div 2048) % 2) = 2 * d + b
    BY <1>5, <1>6
  <2>2. (64 * (n \div 4096)) + ((n \div 32) % 64) = 64 * a + c
    BY <1>7, <1>8
  <2> QED BY <1>2, <1>3, <2>1, <2>2
<1> QED BY <1>1, <1>10, <1>12, <1>14, <1>15

LEMMA PiecesU ==
  ASSUME NEW w, w.funct7 \in 0 .. 127, w.rs2 \in 0 .. 31, w.rs1 \in 0 .. 31,
         w.funct3 \in 0 .. 7
  PROVE  \E m, n \in Int :
           /\ m = decode_imm_u(w) /\ m \in ImmUpper /\ n = m \div 4096
           /\ n % 8 = w.funct3 /\ (n \div 8) % 32 = w.rs1
           /\ (n \div 256) % 32 = w.rs2 /\ (n \div 8192) % 128 = w.funct7
<1>1. PICK f7 \in 0 .. 127, r2 \in 0 .. 31, r1 \in 0 .. 31, f3 \in 0 .. 7 :
        f7 = w.funct7 /\ r2 = w.rs2 /\ r1 = w.rs1 /\ f3 = w.funct3
  OBVIOUS
<1>2. PICK h \in -64 .. 63 : h = IF f7 >= 64 THEN f7 - 128 ELSE f7
  OBVIOUS
<1>3. SignExtend(f7, 64) = h /\ h % 128 = f7
  BY <1>2 DEF SignExtend
<1>4. PICK n \in Int : n = 8192 * h + 256 * r2 + 8 * r1 + f3
  OBVIOUS
<1>5. PICK m \in Int : m = 4096 * n /\ m \div 4096 = n /\ m % 4096 = 0
  OBVIOUS
<1>6. n % 8 = f3
  BY <1>4
<1>7. n \div 8 = 1024 * h + 32 * r2 + r1 /\ (1024 * h + 32 * r2 + r1) % 32 = r1
  BY <1>4
<1>8. n \div 256 = 32 * h + r2 /\ (32 * h + r2) % 32 = r2
  BY <1>4
<1>9. n \div 8192 = h
  BY <1>4
<1>10. m \in ImmUpper
  BY <1>5, <1>9 DEF ImmUpper
<1>11. decode_imm_u(w) = m
  BY <1>1, <1>4, <1>5, <1>3 DEF decode_imm_u
<1>12. /\ (n \div 8) % 32 = r1 /\ (n \div 256) % 32 = r2
       /\ (n \div 8192) % 128 = f7
  BY <1>7, <1>8, <1>9, <1>3
<1> QED BY <1>1, <1>5, <1>6, <1>10, <1>11, <1>12

(* The operation that a word's function codes select has these codes.      *)
LEMMA SelectedBy ==
  ASSUME NEW f3 \in 0 .. 7, NEW f7 \in 0 .. 127
  PROVE  /\ register_op(f3, f7) # "UNKNOWN" =>
              /\ register_op(f3, f7) \in DOMAIN register_code
              /\ register_code[register_op(f3, f7)] = <<f3, f7>>
         /\ immediate_op(f3) # "UNKNOWN" =>
              /\ immediate_op(f3) \in DOMAIN immediate_code
              /\ immediate_code[immediate_op(f3)] = f3
<1>1. /\ register_code["ADD"] = <<0, 0>> /\ register_code["SLL"] = <<1, 0>>
      /\ register_code["SLT"] = <<2, 0>> /\ register_code["SLTU"] = <<3, 0>>
      /\ register_code["XOR"] = <<4, 0>> /\ register_code["SRL"] = <<5, 0>>
      /\ register_code["OR"] = <<6, 0>> /\ register_code["AND"] = <<7, 0>>
      /\ register_code["SUB"] = <<0, 32>>
      /\ register_code["SRA"] = <<5, 32>> /\ register_code["MUL"] = <<0, 1>>
      /\ register_code["DIV"] = <<4, 1>> /\ register_code["REM"] = <<6, 1>>
  BY DEF register_code
<1>2. DOMAIN register_code = {"ADD", "SLL", "SLT", "SLTU", "XOR", "SRL", "OR", "AND",
                              "SUB", "SRA", "MUL", "DIV", "REM"}
  BY DEF register_code
<1>3. /\ register_op(0, 0) = "ADD" /\ register_op(1, 0) = "SLL"
      /\ register_op(2, 0) = "SLT" /\ register_op(3, 0) = "SLTU"
      /\ register_op(4, 0) = "XOR" /\ register_op(5, 0) = "SRL"
      /\ register_op(6, 0) = "OR" /\ register_op(7, 0) = "AND"
  BY DEF register_op
<1>4. f7 = 32 => register_op(f3, f7) =
        IF f3 = 0 THEN "SUB" ELSE IF f3 = 5 THEN "SRA" ELSE "UNKNOWN"
  BY DEF register_op
<1>5. f7 = 1 => register_op(f3, f7) =
        IF f3 = 0 THEN "MUL" ELSE IF f3 = 4 THEN "DIV" ELSE IF f3 = 6 THEN "REM"
        ELSE "UNKNOWN"
  BY DEF register_op
<1>6. f7 \notin {0, 1, 32} => register_op(f3, f7) = "UNKNOWN"
  BY DEF register_op
<1>7. CASE f7 = 0
  <2>1. f3 \in {0, 1, 2, 3, 4, 5, 6, 7}
    OBVIOUS
  <2>2. /\ register_op(f3, f7) \in DOMAIN register_code
        /\ register_code[register_op(f3, f7)] = <<f3, f7>>
    BY <1>1, <1>2, <1>3, <1>7, <2>1
  <2>3. /\ immediate_op(f3) # "UNKNOWN" =>
              /\ immediate_op(f3) \in DOMAIN immediate_code
              /\ immediate_code[immediate_op(f3)] = f3
    BY DEF immediate_op, immediate_code
  <2> QED BY <2>2, <2>3
<1>8. CASE f7 # 0
  <2>1. register_op(f3, f7) # "UNKNOWN" =>
          /\ register_op(f3, f7) \in DOMAIN register_code
          /\ register_code[register_op(f3, f7)] = <<f3, f7>>
    BY <1>1, <1>2, <1>4, <1>5, <1>6, <1>8
  <2>2. /\ immediate_op(f3) # "UNKNOWN" =>
              /\ immediate_op(f3) \in DOMAIN immediate_code
              /\ immediate_code[immediate_op(f3)] = f3
    BY DEF immediate_op, immediate_code
  <2> QED BY <2>1, <2>2
<1> QED BY <1>7, <1>8

(* What is tolerated for the operations that are lenient. *)
LEMMA ToleratedFields ==
  /\ Tolerated("JALR", "funct3") = 0 .. 7
  /\ \A op \in {"FADD_D", "FSUB_D", "FMUL_D", "FDIV_D"} : Tolerated(op, "funct3") = {3}
  /\ Tolerated("FADD_D", "funct7") = {2}
  /\ Tolerated("FCVT_D_W", "funct7") = {96, 104}
  /\ Tolerated("FCVT_W_D", "funct7") = {96}
  /\ \A op \in conversions : Tolerated(op, "rs2") = 0 .. 31
  /\ Tolerated("EBREAK", "rs2") = 0 .. 31 /\ Tolerated("EBREAK", "funct7") = 0 .. 127
BY DEF Tolerated, conversions

(* Agreement of two words field by field. *)
LEMMA FieldByField ==
  ASSUME NEW w \in Word, NEW op, NEW e,
         w.opcode = e.opcode, w.rd = e.rd, w.rs1 = e.rs1,
         w.funct3 = e.funct3 \/ w.funct3 \in Tolerated(op, "funct3"),
         w.rs2 = e.rs2 \/ w.rs2 \in Tolerated(op, "rs2"),
         w.funct7 = e.funct7 \/ w.funct7 \in Tolerated(op, "funct7")
  PROVE  Encodes(w, op, e)
<1>1. DOMAIN w = {"opcode", "rd", "funct3", "rs1", "rs2", "funct7"}
  BY DEF Word
<1> QED BY <1>1 DEF Encodes

(* What a word that is taken for an instruction agrees with. *)
IsEncoding(w) ==
  LET decoded == Signed(decode_instruction(w))
  IN decoded.op # "UNKNOWN" =>
       /\ decoded \in Encodable
       /\ Encodes(w, decoded.op, Encode(decoded))

LEMMA NotAConversion ==
  ASSUME NEW d, d.op \notin conversions PROVE Signed(d) = d
BY DEF Signed

LEMMA WordFields ==
  ASSUME NEW w \in Word
  PROVE  /\ w.opcode \in 0 .. 127 /\ w.rd \in 0 .. 31 /\ w.funct3 \in 0 .. 7
         /\ w.rs1 \in 0 .. 31 /\ w.rs2 \in 0 .. 31 /\ w.funct7 \in 0 .. 127
         /\ IntReg(w.rd) \in IntRegister /\ FpReg(w.rd) \in FpRegister
         /\ IntReg(w.rs1) \in IntRegister /\ FpReg(w.rs1) \in FpRegister
         /\ IntReg(w.rs2) \in IntRegister /\ FpReg(w.rs2) \in FpRegister
BY DEF Word, IntReg, FpReg, IntRegister, FpRegister

(* One lemma for each format.  The I format: *)
LEMMA KnownI ==
  ASSUME NEW w \in Word, NEW op, NEW dest, NEW f3,
         dest \in {IntReg(w.rd), FpReg(w.rd)},
         op \in DOMAIN immediate_code \cup {"LD", "LW", "JALR", "FLD"},
         op = "FLD" <=> dest = FpReg(w.rd)
  PROVE  LET d == Fields(op, dest, IntReg(w.rs1), NoReg, decode_imm_i(w))
             e == I_type(w.opcode, f3, d)
         IN /\ d \in Encodable /\ Signed(d) = d /\ d.op = op
            /\ e.opcode = w.opcode /\ e.rd = w.rd /\ e.funct3 = f3 /\ e.rs1 = w.rs1
            /\ e.rs2 = w.rs2 /\ e.funct7 = w.funct7
<1>1. PICK m \in Int : /\ m = decode_imm_i(w) /\ m \in Imm12
                       /\ (m % 4096) % 32 = w.rs2 /\ (m % 4096) \div 32 = w.funct7
  BY WordFields, PiecesI
<1>2. PICK d : d = Fields(op, dest, IntReg(w.rs1), NoReg, m)
  OBVIOUS
<1>3. /\ d.op = op /\ d.dest = dest /\ d.src1 = IntReg(w.rs1) /\ d.src2 = NoReg
      /\ d.imm = m
  BY <1>2 DEF Fields
<1>4. d \in EncodableI
  <2>1. CASE op = "FLD"
    BY <1>1, <1>2, <2>1, WordFields DEF EncodableI, Format, Fields
  <2>2. CASE op # "FLD"
    BY <1>1, <1>2, <2>2, WordFields DEF EncodableI, Format, Fields
  <2> QED BY <2>1, <2>2
<1>5. op \notin conversions
  BY DEF conversions, immediate_code
<1>6. d.dest[2] = w.rd /\ d.src1[2] = w.rs1
  BY <1>3 DEF IntReg, FpReg
<1> QED BY <1>1, <1>2, <1>3, <1>4, <1>5, <1>6, NotAConversion
        DEF Encodable, I_type, Assembled

(* the S format, *)
LEMMA KnownS ==
  ASSUME NEW w \in Word, NEW op, NEW src2, NEW f3,
         src2 \in {IntReg(w.rs2), FpReg(w.rs2)},
         op \in {"SD", "SW", "FSD"},
         op = "FSD" <=> src2 = FpReg(w.rs2)
  PROVE  LET d == Fields(op, NoReg, IntReg(w.rs1), src2, decode_imm_s(w))
             e == S_type(w.opcode, f3, d)
         IN /\ d \in Encodable /\ Signed(d) = d /\ d.op = op
            /\ e.opcode = w.opcode /\ e.rd = w.rd /\ e.funct3 = f3 /\ e.rs1 = w.rs1
            /\ e.rs2 = w.rs2 /\ e.funct7 = w.funct7
<1>1. PICK m \in Int : /\ m = decode_imm_s(w) /\ m \in Imm12
                       /\ (m % 4096) % 32 = w.rd /\ (m % 4096) \div 32 = w.funct7
  <2>1. PICK v : v = [rs2 |-> w.rd, funct7 |-> w.funct7]
    OBVIOUS
  <2>2. decode_imm_s(w) = decode_imm_i(v) /\ v.rs2 = w.rd /\ v.funct7 = w.funct7
    BY <2>1 DEF decode_imm_s, decode_imm_i
  <2> QED BY <2>2, WordFields, PiecesI
<1>2. PICK d : d = Fields(op, NoReg, IntReg(w.rs1), src2, m)
  OBVIOUS
<1>3. /\ d.op = op /\ d.dest = NoReg /\ d.src1 = IntReg(w.rs1) /\ d.src2 = src2
      /\ d.imm = m
  BY <1>2 DEF Fields
<1>4. d \in EncodableS
  <2>1. CASE op = "FSD"
    BY <1>1, <1>2, <2>1, WordFields DEF EncodableS, Format, Fields
  <2>2. CASE op # "FSD"
    BY <1>1, <1>2, <2>2, WordFields DEF EncodableS, Format, Fields
  <2> QED BY <2>1, <2>2
<1>5. op \notin conversions
  BY DEF conversions
<1>6. d.src2[2] = w.rs2 /\ d.src1[2] = w.rs1
  BY <1>3 DEF IntReg, FpReg
<1> QED BY <1>1, <1>2, <1>3, <1>4, <1>5, <1>6, NotAConversion
        DEF Encodable, S_type, Assembled

(* the B format, *)
LEMMA KnownB ==
  ASSUME NEW w \in Word
  PROVE  LET d == Fields("BNE", NoReg, IntReg(w.rs1), IntReg(w.rs2), decode_imm_b(w))
             e == B_type(w.opcode, 1, d)
         IN /\ d \in Encodable /\ Signed(d) = d /\ d.op = "BNE"
            /\ e.opcode = w.opcode /\ e.rd = w.rd /\ e.funct3 = 1 /\ e.rs1 = w.rs1
            /\ e.rs2 = w.rs2 /\ e.funct7 = w.funct7
<1>1. PICK m, n \in Int : /\ m = decode_imm_b(w) /\ m \in ImmBranch /\ n = m % 8192
               /\ (2 * ((n % 32) \div 2)) + ((n \div 2048) % 2) = w.rd
               /\ (64 * (n \div 4096)) + ((n \div 32) % 64) = w.funct7
  BY WordFields, PiecesB
<1>2. PICK d : d = Fields("BNE", NoReg, IntReg(w.rs1), IntReg(w.rs2), m)
  OBVIOUS
<1>3. /\ d.op = "BNE" /\ d.dest = NoReg /\ d.src1 = IntReg(w.rs1)
      /\ d.src2 = IntReg(w.rs2) /\ d.imm = m
  BY <1>2 DEF Fields
<1>4. d \in EncodableB
  BY <1>1, <1>2, WordFields DEF EncodableB, Format, Fields
<1>5. d.src2[2] = w.rs2 /\ d.src1[2] = w.rs1 /\ Signed(d) = d
  BY <1>3, NotAConversion DEF IntReg, conversions
<1>6. LET e == B_type(w.opcode, 1, d)
      IN /\ e.opcode = w.opcode /\ e.rd = w.rd /\ e.funct3 = 1 /\ e.rs1 = w.rs1
         /\ e.rs2 = w.rs2 /\ e.funct7 = w.funct7
  BY <1>1, <1>3, <1>5 DEF B_type, Assembled
<1> QED BY <1>1, <1>2, <1>3, <1>4, <1>5, <1>6 DEF Encodable

(* the U format, *)
LEMMA KnownU ==
  ASSUME NEW w \in Word, NEW op \in {"LUI", "AUIPC"}
  PROVE  LET d == Fields(op, IntReg(w.rd), NoReg, NoReg, decode_imm_u(w))
             e == U_type(w.opcode, d)
         IN /\ d \in Encodable /\ Signed(d) = d /\ d.op = op
            /\ e.opcode = w.opcode /\ e.rd = w.rd /\ e.funct3 = w.funct3
            /\ e.rs1 = w.rs1 /\ e.rs2 = w.rs2 /\ e.funct7 = w.funct7
<1>1. PICK m, n \in Int : /\ m = decode_imm_u(w) /\ m \in ImmUpper /\ n = m \div 4096
               /\ n % 8 = w.funct3 /\ (n \div 8) % 32 = w.rs1
               /\ (n \div 256) % 32 = w.rs2 /\ (n \div 8192) % 128 = w.funct7
  BY WordFields, PiecesU
<1>2. PICK d : d = Fields(op, IntReg(w.rd), NoReg, NoReg, m)
  OBVIOUS
<1>3. d.op = op /\ d.dest = IntReg(w.rd) /\ d.imm = m
  BY <1>2 DEF Fields
<1>4. d \in EncodableU
  BY <1>1, <1>2, WordFields DEF EncodableU, Format, Fields
<1>5. d.dest[2] = w.rd /\ Signed(d) = d
  BY <1>3, NotAConversion DEF IntReg, conversions
<1>6. LET e == U_type(w.opcode, d)
      IN /\ e.opcode = w.opcode /\ e.rd = w.rd /\ e.funct3 = w.funct3
         /\ e.rs1 = w.rs1 /\ e.rs2 = w.rs2 /\ e.funct7 = w.funct7
  BY <1>1, <1>3, <1>5 DEF U_type, Assembled
<1> QED BY <1>1, <1>2, <1>3, <1>4, <1>5, <1>6 DEF Encodable

(* the R format on integers, *)
LEMMA KnownR ==
  ASSUME NEW w \in Word, NEW op \in DOMAIN register_code
  PROVE  LET d == Fields(op, IntReg(w.rd), IntReg(w.rs1), IntReg(w.rs2), 0)
         IN d \in Encodable /\ Signed(d) = d /\ d.op = op
            /\ d.dest[2] = w.rd /\ d.src1[2] = w.rs1 /\ d.src2[2] = w.rs2
<1>1. PICK d : d = Fields(op, IntReg(w.rd), IntReg(w.rs1), IntReg(w.rs2), 0)
  OBVIOUS
<1>2. d.op = op /\ d.dest[2] = w.rd /\ d.src1[2] = w.rs1 /\ d.src2[2] = w.rs2
  BY <1>1 DEF Fields, IntReg
<1>3. d \in EncodableR
  BY <1>1, WordFields DEF EncodableR, Format, Fields
<1>4. op \notin conversions
  BY DEF conversions, register_code
<1> QED BY <1>1, <1>2, <1>3, <1>4, NotAConversion DEF Encodable

(* and the R format on doubles, where a conversion moves one field to the  *)
(* other file and drops rs2.                                               *)
LEMMA KnownF ==
  ASSUME NEW w \in Word, NEW op \in DOMAIN fp_code
  PROVE  LET d == Signed(Fields(op, fp_dest(op, w), fp_src1(op, w), FpReg(w.rs2), 0))
         IN /\ d \in Encodable /\ d.op = op
            /\ d.dest[2] = w.rd /\ d.src1[2] = w.rs1
            /\ op \notin conversions => d.src2[2] = w.rs2
<1>1. PICK c : c = Fields(op, fp_dest(op, w), fp_src1(op, w), FpReg(w.rs2), 0)
  OBVIOUS
<1>2. op \in {"FADD_D", "FSUB_D", "FMUL_D", "FDIV_D"} \cup conversions
  BY DEF fp_code, conversions
<1>3. c.op = op
  BY <1>1 DEF Fields
<1>4. CASE op = "FCVT_D_W"
  <2>1. Signed(c) = Fields(op, FpReg(w.rd), IntReg(w.rs1), FpReg(0), 0)
    BY <1>1, <1>3, <1>4 DEF Signed, conversions, Fields, fp_dest, fp_src1
  <2>2. Signed(c) \in EncodableF
    BY <2>1, <1>4, WordFields DEF EncodableF, Format, Fields
  <2> QED BY <1>1, <1>4, <2>1, <2>2 DEF Encodable, Fields, FpReg, IntReg, conversions
<1>5. CASE op = "FCVT_W_D"
  <2>1. Signed(c) = Fields(op, IntReg(w.rd), FpReg(w.rs1), FpReg(0), 0)
    BY <1>1, <1>3, <1>5 DEF Signed, conversions, Fields, fp_dest, fp_src1
  <2>2. Signed(c) \in EncodableF
    BY <2>1, <1>5, WordFields DEF EncodableF, Format, Fields
  <2> QED BY <1>1, <1>5, <2>1, <2>2 DEF Encodable, Fields, FpReg, IntReg, conversions
<1>6. CASE op \in {"FADD_D", "FSUB_D", "FMUL_D", "FDIV_D"}
  <2>1. Signed(c) = Fields(op, FpReg(w.rd), FpReg(w.rs1), FpReg(w.rs2), 0)
    BY <1>1, <1>3, <1>6 DEF Signed, conversions, Fields, fp_dest, fp_src1
  <2>2. Signed(c) \in EncodableF
    BY <2>1, <1>6, WordFields DEF EncodableF, Format, Fields
  <2> QED BY <1>1, <1>6, <2>1, <2>2 DEF Encodable, Fields, FpReg, IntReg
<1> QED BY <1>2, <1>4, <1>5, <1>6 DEF conversions

(* The operations of a word's opcode that have function codes. *)
LEMMA SelectedElse ==
  ASSUME NEW f3 \in 0 .. 7, NEW f7 \in 0 .. 127
  PROVE  /\ load_op(f3) = IF f3 = 3 THEN "LD" ELSE IF f3 = 2 THEN "LW" ELSE "UNKNOWN"
         /\ store_op(f3) = IF f3 = 3 THEN "SD" ELSE IF f3 = 2 THEN "SW" ELSE "UNKNOWN"
         /\ \/ fp_op(f3, f7) = "FADD_D" /\ f3 \in {3, 7} /\ f7 \in {1, 2}
            \/ fp_op(f3, f7) = "FSUB_D" /\ f3 \in {3, 7} /\ f7 = 5
            \/ fp_op(f3, f7) = "FMUL_D" /\ f3 \in {3, 7} /\ f7 = 9
            \/ fp_op(f3, f7) = "FDIV_D" /\ f3 \in {3, 7} /\ f7 = 13
            \/ fp_op(f3, f7) = "FCVT_D_W" /\ f3 = 0 /\ f7 \in {96, 104, 105}
            \/ fp_op(f3, f7) = "FCVT_W_D" /\ f3 = 1 /\ f7 \in {96, 97}
            \/ fp_op(f3, f7) = "UNKNOWN"
<1>1. load_op(f3) = IF f3 = 3 THEN "LD" ELSE IF f3 = 2 THEN "LW" ELSE "UNKNOWN"
  BY DEF load_op
<1>2. store_op(f3) = IF f3 = 3 THEN "SD" ELSE IF f3 = 2 THEN "SW" ELSE "UNKNOWN"
  BY DEF store_op
<1>3. \/ fp_op(f3, f7) = "FADD_D" /\ f3 \in {3, 7} /\ f7 \in {1, 2}
      \/ fp_op(f3, f7) = "FSUB_D" /\ f3 \in {3, 7} /\ f7 = 5
      \/ fp_op(f3, f7) = "FMUL_D" /\ f3 \in {3, 7} /\ f7 = 9
      \/ fp_op(f3, f7) = "FDIV_D" /\ f3 \in {3, 7} /\ f7 = 13
      \/ fp_op(f3, f7) = "FCVT_D_W" /\ f3 = 0 /\ f7 \in {96, 104, 105}
      \/ fp_op(f3, f7) = "FCVT_W_D" /\ f3 = 1 /\ f7 \in {96, 97}
      \/ fp_op(f3, f7) = "UNKNOWN"
  BY DEF fp_op
<1> QED BY <1>1, <1>2, <1>3

(* Every word that is taken for an instruction is an encoding of it, but   *)
(* for what the decoder tolerates.                                         *)
LEMMA KnownIsEncoding == \A w \in Word : IsEncoding(w)
<1> SUFFICES ASSUME NEW w \in Word PROVE IsEncoding(w)
  OBVIOUS
<1> DEFINE d == decode_instruction(w)
<1>1. d.op = "UNKNOWN" => IsEncoding(w)
  BY NotAConversion DEF IsEncoding, conversions
<1>2. CASE w.opcode = OP_OP
  <2>1. PICK op : op = register_op(w.funct3, w.funct7)
    OBVIOUS
  <2>2. CASE op # "UNKNOWN"
    <3>1. op \in DOMAIN register_code /\ register_code[op] = <<w.funct3, w.funct7>>
      BY <2>1, <2>2, WordFields, SelectedBy
    <3>2. d = Fields(op, IntReg(w.rd), IntReg(w.rs1), IntReg(w.rs2), 0)
      BY <1>2, <2>1, ByOpcode
    <3>3. /\ d \in Encodable /\ Signed(d) = d /\ d.op = op
          /\ d.dest[2] = w.rd /\ d.src1[2] = w.rs1 /\ d.src2[2] = w.rs2
      BY <3>1, <3>2, KnownR
    <3>4. Encode(d) = Assembled(w.opcode, w.rd, w.funct3, w.rs1, w.rs2, w.funct7)
      BY <1>2, <3>1, <3>3, WordsOf DEF R_type
    <3> QED BY <3>3, <3>4, FieldByField DEF Assembled, IsEncoding
  <2>3. CASE op = "UNKNOWN"
    <3>1. d = Fields(op, IntReg(w.rd), IntReg(w.rs1), IntReg(w.rs2), 0)
      BY <1>2, <2>1, ByOpcode
    <3> QED BY <1>1, <2>3, <3>1 DEF Fields
  <2> QED BY <2>2, <2>3
<1>3. CASE w.opcode = OP_IMM
  <2>1. PICK op : op = immediate_op(w.funct3)
    OBVIOUS
  <2>2. CASE op # "UNKNOWN"
    <3>1. op \in DOMAIN immediate_code /\ immediate_code[op] = w.funct3
      BY <2>1, <2>2, WordFields, SelectedBy
    <3>2. d = Fields(op, IntReg(w.rd), IntReg(w.rs1), NoReg, decode_imm_i(w))
      BY <1>3, <2>1, ByOpcode
    <3>3. op # "FLD" /\ IntReg(w.rd) # FpReg(w.rd)
      BY <3>1 DEF IntReg, FpReg, immediate_code
    <3>4. PICK e : e = I_type(w.opcode, w.funct3, d)
      OBVIOUS
    <3>5. /\ d \in Encodable /\ Signed(d) = d /\ d.op = op
          /\ e.opcode = w.opcode /\ e.rd = w.rd /\ e.funct3 = w.funct3
          /\ e.rs1 = w.rs1 /\ e.rs2 = w.rs2 /\ e.funct7 = w.funct7
      BY <3>1, <3>2, <3>3, <3>4, KnownI
    <3>6. Encode(d) = e
      BY <1>3, <3>1, <3>4, <3>5, WordsOf
    <3> QED BY <3>5, <3>6, FieldByField DEF IsEncoding
  <2>3. CASE op = "UNKNOWN"
    <3>1. d = Fields(op, IntReg(w.rd), IntReg(w.rs1), NoReg, decode_imm_i(w))
      BY <1>3, <2>1, ByOpcode
    <3> QED BY <1>1, <2>3, <3>1 DEF Fields
  <2> QED BY <2>2, <2>3
<1>4. ASSUME NEW op \in {"LD", "LW", "JALR", "FLD"}, NEW dest, NEW f3,
             dest = IF op = "FLD" THEN FpReg(w.rd) ELSE IntReg(w.rd),
             f3 = w.funct3 \/ op = "JALR",
             d = Fields(op, dest, IntReg(w.rs1), NoReg, decode_imm_i(w)),
             d.op = op => Encode(d) = I_type(w.opcode, f3, d)
      PROVE  IsEncoding(w)
  <2>1. IntReg(w.rd) # FpReg(w.rd)
    BY DEF IntReg, FpReg
  <2>2. PICK e : e = I_type(w.opcode, f3, d)
    OBVIOUS
  <2>3. /\ d \in Encodable /\ Signed(d) = d /\ d.op = op
        /\ e.opcode = w.opcode /\ e.rd = w.rd /\ e.funct3 = f3
        /\ e.rs1 = w.rs1 /\ e.rs2 = w.rs2 /\ e.funct7 = w.funct7
    BY <1>4, <2>1, <2>2, KnownI
  <2>4. w.funct3 = f3 \/ w.funct3 \in Tolerated(op, "funct3")
    BY <1>4, ToleratedFields, WordFields
  <2>5. Encodes(w, op, e)
    BY <2>3, <2>4, FieldByField
  <2> QED BY <1>4, <2>2, <2>3, <2>5 DEF IsEncoding
<1>5. CASE w.opcode = OP_LOAD
  <2>1. CASE w.funct3 = 3
    BY <1>4, <1>5, <2>1, ByOpcode, WordFields, SelectedElse, WordsOf
  <2>2. CASE w.funct3 = 2
    BY <1>4, <1>5, <2>2, ByOpcode, WordFields, SelectedElse, WordsOf
  <2>3. CASE w.funct3 \notin {2, 3}
    BY <1>5, <1>1, <2>3, ByOpcode, WordFields, SelectedElse DEF Fields
  <2> QED BY <2>1, <2>2, <2>3
<1>6. CASE w.opcode = OP_FLOAD
  <2>1. CASE w.funct3 = 3
    BY <1>4, <1>6, <2>1, ByOpcode, WordsOf
  <2>2. CASE w.funct3 # 3
    BY <1>6, <1>1, <2>2, ByOpcode DEF Fields
  <2> QED BY <2>1, <2>2
<1>7. CASE w.opcode = OP_JALR
  BY <1>4, <1>7, ByOpcode, WordsOf
<1>8. ASSUME NEW op \in {"SD", "SW", "FSD"}, NEW src2,
             src2 = IF op = "FSD" THEN FpReg(w.rs2) ELSE IntReg(w.rs2),
             d = Fields(op, NoReg, IntReg(w.rs1), src2, decode_imm_s(w)),
             d.op = op => Encode(d) = S_type(w.opcode, w.funct3, d)
      PROVE  IsEncoding(w)
  <2>1. IntReg(w.rs2) # FpReg(w.rs2)
    BY DEF IntReg, FpReg
  <2>2. PICK e : e = S_type(w.opcode, w.funct3, d)
    OBVIOUS
  <2>3. /\ d \in Encodable /\ Signed(d) = d /\ d.op = op
        /\ e.opcode = w.opcode /\ e.rd = w.rd /\ e.funct3 = w.funct3
        /\ e.rs1 = w.rs1 /\ e.rs2 = w.rs2 /\ e.funct7 = w.funct7
    BY <1>8, <2>1, <2>2, KnownS
  <2>4. Encodes(w, op, e)
    BY <2>3, FieldByField
  <2> QED BY <1>8, <2>2, <2>3, <2>4 DEF IsEncoding
<1>9. CASE w.opcode = OP_STORE
  <2>1. CASE w.funct3 = 3
    BY <1>8, <1>9, <2>1, ByOpcode, WordFields, SelectedElse, WordsOf
  <2>2. CASE w.funct3 = 2
    BY <1>8, <1>9, <2>2, ByOpcode, WordFields, SelectedElse, WordsOf
  <2>3. CASE w.funct3 \notin {2, 3}
    BY <1>9, <1>1, <2>3, ByOpcode, WordFields, SelectedElse DEF Fields
  <2> QED BY <2>1, <2>2, <2>3
<1>10. CASE w.opcode = OP_FSTORE
  <2>1. CASE w.funct3 = 3
    BY <1>8, <1>10, <2>1, ByOpcode, WordsOf
  <2>2. CASE w.funct3 # 3
    BY <1>10, <1>1, <2>2, ByOpcode DEF Fields
  <2> QED BY <2>1, <2>2
<1>11. CASE w.opcode = OP_BRANCH
  <2>1. CASE w.funct3 = 1
    <3>1. PICK e : e = B_type(w.opcode, 1, d)
      OBVIOUS
    <3>2. /\ d \in Encodable /\ Signed(d) = d /\ d.op = "BNE"
          /\ e.opcode = w.opcode /\ e.rd = w.rd /\ e.funct3 = 1
          /\ e.rs1 = w.rs1 /\ e.rs2 = w.rs2 /\ e.funct7 = w.funct7
      BY <1>11, <2>1, <3>1, ByOpcode, KnownB
    <3>3. Encode(d) = e
      BY <1>11, <3>1, <3>2, WordsOf
    <3> QED BY <2>1, <3>2, <3>3, FieldByField DEF IsEncoding
  <2>2. CASE w.funct3 # 1
    BY <1>11, <1>1, <2>2, ByOpcode DEF Fields
  <2> QED BY <2>1, <2>2
<1>12. CASE w.opcode \in {OP_LUI, OP_AUIPC}
  <2>1. PICK op \in {"LUI", "AUIPC"} :
          d = Fields(op, IntReg(w.rd), NoReg, NoReg, decode_imm_u(w))
            /\ w.opcode = IF op = "LUI" THEN OP_LUI ELSE OP_AUIPC
    BY <1>12, ByOpcode
  <2>2. PICK e : e = U_type(w.opcode, d)
    OBVIOUS
  <2>3. /\ d \in Encodable /\ Signed(d) = d /\ d.op = op
        /\ e.opcode = w.opcode /\ e.rd = w.rd /\ e.funct3 = w.funct3
        /\ e.rs1 = w.rs1 /\ e.rs2 = w.rs2 /\ e.funct7 = w.funct7
    BY <2>1, <2>2, KnownU
  <2>4. Encode(d) = e
    BY <2>1, <2>2, <2>3, WordsOf
  <2> QED BY <2>3, <2>4, FieldByField DEF IsEncoding
<1>13. CASE w.opcode = OP_FP
  <2>1. PICK op : op = fp_op(w.funct3, w.funct7)
    OBVIOUS
  <2>2. d = Fields(op, fp_dest(op, w), fp_src1(op, w), FpReg(w.rs2), 0)
    BY <1>13, <2>1, ByOpcode
  <2>3. CASE op = "UNKNOWN"
    BY <1>1, <2>2, <2>3 DEF Fields
  <2>4. CASE op # "UNKNOWN"
    <3>1. op \in DOMAIN fp_code
      BY <2>1, <2>4, WordFields, SelectedElse DEF fp_code
    <3>2. PICK s : s = Signed(d)
      OBVIOUS
    <3>3. /\ s \in Encodable /\ s.op = op /\ s.dest[2] = w.rd /\ s.src1[2] = w.rs1
          /\ op \notin conversions => s.src2[2] = w.rs2
      BY <2>2, <3>1, <3>2, KnownF
    <3>4. Encode(s) = Assembled(w.opcode, w.rd, fp_code[op][1], w.rs1, s.src2[2],
                                fp_code[op][2])
      BY <1>13, <3>1, <3>3, WordsOf DEF R_type
    <3>5. /\ fp_code["FADD_D"] = <<7, 1>> /\ fp_code["FSUB_D"] = <<7, 5>>
          /\ fp_code["FMUL_D"] = <<7, 9>> /\ fp_code["FDIV_D"] = <<7, 13>>
          /\ fp_code["FCVT_D_W"] = <<0, 105>> /\ fp_code["FCVT_W_D"] = <<1, 97>>
      BY DEF fp_code
    <3>6. /\ w.funct3 = fp_code[op][1] \/ w.funct3 \in Tolerated(op, "funct3")
          /\ w.funct7 = fp_code[op][2] \/ w.funct7 \in Tolerated(op, "funct7")
      BY <2>1, <2>4, <3>5, WordFields, SelectedElse, ToleratedFields
    <3>7. w.rs2 = s.src2[2] \/ w.rs2 \in Tolerated(op, "rs2")
      BY <3>3, WordFields, ToleratedFields
    <3>8. Encodes(w, op, Encode(s))
      BY <3>4, <3>6, <3>7, FieldByField DEF Assembled
    <3> QED BY <3>2, <3>3, <3>8 DEF IsEncoding
  <2> QED BY <2>3, <2>4
<1>14. CASE w.opcode \notin {OP_LOAD, OP_FLOAD, OP_STORE, OP_FSTORE, OP_OP, OP_IMM,
                             OP_FP, OP_JALR, OP_BRANCH, OP_LUI, OP_AUIPC}
  <2>1. CASE is_ebreak(w)
    <3>1. d = Break
      BY <1>14, <2>1 DEF decode_instruction, Fields, Break
    <3>2. Encode(Break) = Assembled(OP_MISC_MEM, 0, 0, 0, 1, 0)
      BY DEF Encode, Break, register_code, fp_code, immediate_code
    <3>3. Signed(Break) = Break /\ Break.op = "EBREAK" /\ Break \in Encodable
      BY DEF Signed, Break, conversions, Encodable
    <3>4. Encodes(w, "EBREAK", Encode(Break))
      BY <2>1, <3>2, FieldByField, ToleratedFields, WordFields DEF is_ebreak, Assembled
    <3> QED BY <3>1, <3>3, <3>4 DEF IsEncoding
  <2>2. CASE ~is_ebreak(w)
    BY <1>14, <1>1, <2>2 DEF decode_instruction, Fields
  <2> QED BY <2>1, <2>2
<1> QED BY <1>2, <1>3, <1>5, <1>6, <1>7, <1>9, <1>10, <1>11, <1>12, <1>13, <1>14
-----------------------------------------------------------------------------
(* The number in the line of a lui or auipc. *)
UpperShown(e) == e.imm \div 4096

(* The text of an instruction, by format. *)
LEMMA TextOf ==
  ASSUME NEW x
  PROVE  LET e == x.decoded IN
         /\ e \in EncodableR =>
              toString(x) = Text(e.op, <<e.dest, e.src1, e.src2>>, <<>>)
         /\ e \in EncodableF =>
              toString(x) = Text(e.op, IF e.op \in conversions THEN <<e.dest, e.src1>>
                                       ELSE <<e.dest, e.src1, e.src2>>, <<>>)
         /\ e \in EncodableI => toString(x) = Text(e.op, <<e.dest, e.src1>>, <<e.imm>>)
         /\ e \in EncodableS => toString(x) = Text(e.op, <<e.src2, e.src1>>, <<e.imm>>)
         /\ e \in EncodableB => toString(x) = Text(e.op, <<e.src1, e.src2>>, <<e.imm>>)
         /\ e \in EncodableU =>
              toString(x) = Text(e.op, <<e.dest>>, <<UpperShown(e)>>)
         /\ e = Break => toString(x) = Text(e.op, <<>>, <<>>)
<1>1. PICK e : e = x.decoded
  OBVIOUS
<1>2. /\ \A r \in IntRegister : reg_name_int(r) = r
      /\ \A r \in FpRegister : reg_name_fp(r) = r
  BY DEF reg_name_int, reg_name_fp, IntRegister, FpRegister
<1>3. ASSUME e \in EncodableR
      PROVE  toString(x) = Text(e.op, <<e.dest, e.src1, e.src2>>, <<>>)
  <2>1. /\ e.dest \in IntRegister /\ e.src1 \in IntRegister /\ e.src2 \in IntRegister
        /\ e.op \in {"ADD", "SUB", "AND", "OR", "XOR", "SLT", "SLTU", "SLL",
                     "SRL", "SRA"} \cup muldiv_ops
    BY <1>3 DEF EncodableR, Format, register_code, muldiv_ops
  <2> QED BY <1>1, <1>2, <2>1 DEF toString, muldiv_ops
<1>4. ASSUME e \in EncodableF
      PROVE  toString(x) = Text(e.op, IF e.op \in conversions THEN <<e.dest, e.src1>>
                                      ELSE <<e.dest, e.src1, e.src2>>, <<>>)
  <2>1. CASE e.op \in {"FADD_D", "FSUB_D", "FMUL_D", "FDIV_D"}
    <3>1. e.dest \in FpRegister /\ e.src1 \in FpRegister /\ e.src2 \in FpRegister
      BY <1>4, <2>1 DEF EncodableF, Format
    <3> QED BY <1>1, <1>2, <2>1, <3>1 DEF toString, conversions, muldiv_ops
  <2>2. CASE e.op = "FCVT_D_W"
    <3>1. e.dest \in FpRegister /\ e.src1 \in IntRegister
      BY <1>4, <2>2 DEF EncodableF, Format
    <3> QED BY <1>1, <1>2, <2>2, <3>1 DEF toString, conversions, muldiv_ops
  <2>3. CASE e.op = "FCVT_W_D"
    <3>1. e.dest \in IntRegister /\ e.src1 \in FpRegister
      BY <1>4, <2>3 DEF EncodableF, Format
    <3> QED BY <1>1, <1>2, <2>3, <3>1 DEF toString, conversions, muldiv_ops
  <2> QED BY <1>4, <2>1, <2>2, <2>3 DEF EncodableF, Format
<1>5. ASSUME e \in EncodableI
      PROVE  toString(x) = Text(e.op, <<e.dest, e.src1>>, <<e.imm>>)
  <2>1. CASE e.op = "FLD"
    <3>1. e.dest \in FpRegister /\ e.src1 \in IntRegister
      BY <1>5, <2>1 DEF EncodableI, Format, immediate_code
    <3> QED BY <1>1, <1>2, <2>1, <3>1 DEF toString, muldiv_ops
  <2>2. CASE e.op # "FLD"
    <3>1. /\ e.dest \in IntRegister /\ e.src1 \in IntRegister
          /\ e.op \in {"ADDI", "ANDI", "ORI", "XORI", "SLTI", "SLTIU", "JALR", "LD", "LW"}
      BY <1>5, <2>2 DEF EncodableI, Format, immediate_code
    <3> QED BY <1>1, <1>2, <3>1 DEF toString, muldiv_ops
  <2> QED BY <2>1, <2>2
<1>6. ASSUME e \in EncodableS
      PROVE  toString(x) = Text(e.op, <<e.src2, e.src1>>, <<e.imm>>)
  <2>1. CASE e.op = "FSD"
    <3>1. e.src1 \in IntRegister /\ e.src2 \in FpRegister
      BY <1>6, <2>1 DEF EncodableS, Format
    <3> QED BY <1>1, <1>2, <2>1, <3>1 DEF toString, muldiv_ops
  <2>2. CASE e.op # "FSD"
    <3>1. /\ e.src1 \in IntRegister /\ e.src2 \in IntRegister
          /\ e.op \in {"SD", "SW"}
      BY <1>6, <2>2 DEF EncodableS, Format
    <3> QED BY <1>1, <1>2, <3>1 DEF toString, TextIntStore, muldiv_ops
  <2> QED BY <2>1, <2>2
<1>9. ASSUME e \in EncodableB
      PROVE  toString(x) = Text(e.op, <<e.src1, e.src2>>, <<e.imm>>)
  <2>1. e.src1 \in IntRegister /\ e.src2 \in IntRegister /\ e.op = "BNE"
    BY <1>9 DEF EncodableB, Format
  <2> QED BY <1>1, <1>2, <2>1 DEF toString, muldiv_ops
<1>7. ASSUME e \in EncodableU
      PROVE  toString(x) = Text(e.op, <<e.dest>>, <<UpperShown(e)>>)
  <2>1. e.dest \in IntRegister /\ e.op \in {"LUI", "AUIPC"}
    BY <1>7 DEF EncodableU, Format
  <2> QED BY <1>1, <1>2, <2>1 DEF toString, muldiv_ops, UpperShown
<1>8. ASSUME e = Break PROVE toString(x) = Text(e.op, <<>>, <<>>)
  BY <1>1, <1>8 DEF toString, Break, muldiv_ops
<1> QED BY <1>1, <1>3, <1>4, <1>5, <1>6, <1>7, <1>8, <1>9

(* A conversion's text does not show its rs2. *)
LEMMA TextSigned ==
  ASSUME NEW w, NEW d, d = decode_instruction(w)
  PROVE  toString([raw |-> w, decoded |-> d]) =
           toString([raw |-> w, decoded |-> Signed(d)])
<1>1. CASE d.op \in conversions
  <2>1. PICK s : s = [d EXCEPT !.src2 = FpReg(0)]
    OBVIOUS
  <2>2. \E o, a, b, c, n : d = Fields(o, a, b, c, n)
    BY DEF decode_instruction
  <2>3. s.op = d.op /\ s.dest = d.dest /\ s.src1 = d.src1
    BY <2>1, <2>2 DEF Fields
  <2>4. Signed(d) = s
    BY <1>1, <2>1 DEF Signed
  <2> QED BY <1>1, <2>3, <2>4 DEF toString, conversions, muldiv_ops
<1>2. CASE d.op \notin conversions
  BY <1>2, NotAConversion
<1> QED BY <1>1, <1>2

LEMMA TextUnknown ==
  ASSUME NEW w, NEW d, d.op = "UNKNOWN"
  PROVE  toString([raw |-> w, decoded |-> d]) = Text("unknown", <<>>, Digits(w))
BY DEF toString, muldiv_ops

(* The parts of a text. *)
LEMMA TextParts ==
  ASSUME NEW x
  PROVE  LET e == x.decoded
             t == toString(x)
         IN /\ e \in Encodable => t.mnemonic = e.op
            /\ e \in EncodableR => t.registers = <<e.dest, e.src1, e.src2>>
            /\ e \in EncodableF =>
                 t.registers = IF e.op \in conversions THEN <<e.dest, e.src1>>
                               ELSE <<e.dest, e.src1, e.src2>>
            /\ e \in EncodableI => t.registers = <<e.dest, e.src1>> /\ t.numbers = <<e.imm>>
            /\ e \in EncodableS => t.registers = <<e.src2, e.src1>> /\ t.numbers = <<e.imm>>
            /\ e \in EncodableB => t.registers = <<e.src1, e.src2>> /\ t.numbers = <<e.imm>>
            /\ e \in EncodableU =>
                 t.registers = <<e.dest>> /\ t.numbers = <<UpperShown(e)>>
<1>1. PICK e : e = x.decoded
  OBVIOUS
<1>2. PICK t : t = toString(x)
  OBVIOUS
<1>3. e \in EncodableR =>
        t.mnemonic = e.op /\ t.registers = <<e.dest, e.src1, e.src2>>
  BY <1>1, <1>2, TextOf DEF Text
<1>4. e \in EncodableF =>
        /\ t.mnemonic = e.op
        /\ t.registers = IF e.op \in conversions THEN <<e.dest, e.src1>>
                         ELSE <<e.dest, e.src1, e.src2>>
  BY <1>1, <1>2, TextOf DEF Text
<1>5. e \in EncodableI =>
        /\ t.mnemonic = e.op
        /\ t.registers = <<e.dest, e.src1>> /\ t.numbers = <<e.imm>>
  BY <1>1, <1>2, TextOf DEF Text
<1>6. e \in EncodableS =>
        /\ t.mnemonic = e.op
        /\ t.registers = <<e.src2, e.src1>> /\ t.numbers = <<e.imm>>
  BY <1>1, <1>2, TextOf DEF Text
<1>9. e \in EncodableB =>
        /\ t.mnemonic = e.op
        /\ t.registers = <<e.src1, e.src2>> /\ t.numbers = <<e.imm>>
  BY <1>1, <1>2, TextOf DEF Text
<1>7. e \in EncodableU =>
        /\ t.mnemonic = e.op
        /\ t.registers = <<e.dest>> /\ t.numbers = <<UpperShown(e)>>
  BY <1>1, <1>2, TextOf DEF Text
<1>8. ASSUME e = Break PROVE t.mnemonic = e.op
  <2>1. t = Text(e.op, <<>>, <<>>)
    BY <1>1, <1>2, <1>8, TextOf
  <2> QED BY <2>1 DEF Text
<1> QED BY <1>1, <1>2, <1>3, <1>4, <1>5, <1>6, <1>7, <1>8, <1>9 DEF Encodable

(* Instructions that have an encoding are told apart by their texts. *)
LEMMA EncodableReadBack ==
  ASSUME NEW e \in Encodable, NEW f \in Encodable, NEW x, NEW y,
         e = x.decoded, f = y.decoded, toString(x) = toString(y)
  PROVE  e = f
<1>1. /\ \A s \in EncodableR : s.op \in DOMAIN register_code
      /\ \A s \in EncodableF : s.op \in DOMAIN fp_code
      /\ \A s \in EncodableI : s.op \in DOMAIN immediate_code \cup {"LD", "LW", "JALR", "FLD"}
      /\ \A s \in EncodableS : s.op \in {"SD", "SW", "FSD"}
      /\ \A s \in EncodableB : s.op = "BNE"
      /\ \A s \in EncodableU : s.op \in {"LUI", "AUIPC"}
      /\ Break.op = "EBREAK"
  BY DEF EncodableR, EncodableF, EncodableI, EncodableS, EncodableB, EncodableU, Break,
     Format, fp_code
<1>2. e.op = f.op
  BY TextParts
<1>3. /\ DOMAIN register_code = {"ADD", "SLL", "SLT", "SLTU", "XOR", "SRL", "OR",
                                 "AND", "SUB", "SRA", "MUL", "DIV", "REM"}
      /\ DOMAIN fp_code = {"FADD_D", "FSUB_D", "FMUL_D", "FDIV_D", "FCVT_D_W",
                           "FCVT_W_D"}
      /\ DOMAIN immediate_code = {"ADDI", "SLTI", "SLTIU", "XORI", "ORI", "ANDI"}
  BY DEF register_code, fp_code, immediate_code
<1>4. CASE e \in EncodableR
  <2>1. f \in EncodableR
    BY <1>1, <1>2, <1>3, <1>4 DEF Encodable
  <2>2. e.dest = f.dest /\ e.src1 = f.src1 /\ e.src2 = f.src2
    <3>1. <<e.dest, e.src1, e.src2>> = <<f.dest, f.src1, f.src2>>
      BY <1>4, <2>1, TextParts
    <3> QED BY <3>1
  <2> QED BY <1>2, <1>4, <2>1, <2>2 DEF EncodableR, Format
<1>5. CASE e \in EncodableF
  <2>1. f \in EncodableF
    BY <1>1, <1>2, <1>3, <1>5 DEF Encodable
  <2>2. CASE e.op \in conversions
    <3>1. e.dest = f.dest /\ e.src1 = f.src1
      <4>1. <<e.dest, e.src1>> = <<f.dest, f.src1>>
        BY <1>2, <1>5, <2>1, <2>2, TextParts
      <4> QED BY <4>1
    <3>2. e.src2 = f.src2
      BY <1>2, <1>5, <2>1, <2>2 DEF EncodableF, Format, conversions
    <3> QED BY <1>2, <1>5, <2>1, <3>1, <3>2 DEF EncodableF, Format
  <2>3. CASE e.op \notin conversions
    <3>1. e.dest = f.dest /\ e.src1 = f.src1 /\ e.src2 = f.src2
      <4>1. <<e.dest, e.src1, e.src2>> = <<f.dest, f.src1, f.src2>>
        BY <1>2, <1>5, <2>1, <2>3, TextParts
      <4> QED BY <4>1
    <3> QED BY <1>2, <1>5, <2>1, <3>1 DEF EncodableF, Format
  <2> QED BY <2>2, <2>3
<1>6. CASE e \in EncodableI
  <2>1. f \in EncodableI
    BY <1>1, <1>2, <1>3, <1>6 DEF Encodable
  <2>2. e.dest = f.dest /\ e.src1 = f.src1 /\ e.imm = f.imm
    <3>1. /\ <<e.dest, e.src1>> = <<f.dest, f.src1>>
          /\ <<e.imm>> = <<f.imm>>
      BY <1>6, <2>1, TextParts
    <3> QED BY <3>1
  <2> QED BY <1>2, <1>6, <2>1, <2>2 DEF EncodableI, Format
<1>7. CASE e \in EncodableS
  <2>1. f \in EncodableS
    BY <1>1, <1>2, <1>3, <1>7 DEF Encodable
  <2>2. e.src2 = f.src2 /\ e.src1 = f.src1 /\ e.imm = f.imm
    <3>1. /\ <<e.src2, e.src1>> = <<f.src2, f.src1>>
          /\ <<e.imm>> = <<f.imm>>
      BY <1>7, <2>1, TextParts
    <3> QED BY <3>1
  <2> QED BY <1>2, <1>7, <2>1, <2>2 DEF EncodableS, Format
<1>8. CASE e \in EncodableB
  <2>1. f \in EncodableB
    BY <1>1, <1>2, <1>3, <1>8 DEF Encodable
  <2>2. e.src2 = f.src2 /\ e.src1 = f.src1 /\ e.imm = f.imm
    <3>1. /\ <<e.src1, e.src2>> = <<f.src1, f.src2>>
          /\ <<e.imm>> = <<f.imm>>
      BY <1>8, <2>1, TextParts
    <3> QED BY <3>1
  <2> QED BY <1>2, <1>8, <2>1, <2>2 DEF EncodableB, Format
<1>9. CASE e \in EncodableU
  <2>1. f \in EncodableU
    BY <1>1, <1>2, <1>3, <1>9 DEF Encodable
  <2>2. e.dest = f.dest /\ UpperShown(e) = UpperShown(f)
    <3>1. /\ <<e.dest>> = <<f.dest>>
          /\ <<UpperShown(e)>> = <<UpperShown(f)>>
      BY <1>9, <2>1, TextParts
    <3> QED BY <3>1
  <2>3. /\ e.imm \in Int /\ f.imm \in Int
        /\ e.imm % 4096 = 0 /\ f.imm % 4096 = 0
    BY <1>9, <2>1 DEF EncodableU, Format, ImmUpper
  <2>4. e.imm = f.imm
    <3>1. PICK m \in Int, n \in Int : m = e.imm /\ n = f.imm
      BY <2>3
    <3>2. m \div 4096 = n \div 4096 /\ m % 4096 = 0 /\ n % 4096 = 0
      BY <2>2, <2>3, <3>1 DEF UpperShown
    <3>3. m = n
      BY <3>2
    <3> QED BY <3>1, <3>3
  <2> QED BY <1>2, <1>9, <2>1, <2>2, <2>4 DEF EncodableU, Format
<1>10. CASE e = Break
  BY <1>1, <1>2, <1>3, <1>10 DEF Encodable
<1> QED BY <1>4, <1>5, <1>6, <1>7, <1>8, <1>9, <1>10 DEF Encodable

(* An instruction that has an encoding is written as in the manual. *)
LEMMA TextIsWritten ==
  ASSUME NEW x, x.decoded \in Encodable
  PROVE  toString(x) = Written(x.decoded) /\ toString(x).mnemonic # "unknown"
<1>1. PICK e \in Encodable : e = x.decoded
  OBVIOUS
<1>2. /\ e \in EncodableR => e.op \in DOMAIN register_code
      /\ e \in EncodableF => e.op \in DOMAIN fp_code
      /\ e \in EncodableI => e.op \in DOMAIN immediate_code \cup {"LD", "LW", "JALR", "FLD"}
      /\ e \in EncodableS => e.op \in {"SD", "SW", "FSD"}
      /\ e \in EncodableB => e.op = "BNE"
      /\ e \in EncodableU => e.op \in {"LUI", "AUIPC"}
      /\ e = Break => e.op = "EBREAK"
  BY DEF EncodableR, EncodableF, EncodableI, EncodableS, EncodableB, EncodableU, Break,
     Format, fp_code
<1>3. /\ DOMAIN register_code = {"ADD", "SLL", "SLT", "SLTU", "XOR", "SRL", "OR",
                                 "AND", "SUB", "SRA", "MUL", "DIV", "REM"}
      /\ DOMAIN fp_code = {"FADD_D", "FSUB_D", "FMUL_D", "FDIV_D", "FCVT_D_W",
                           "FCVT_W_D"}
      /\ DOMAIN immediate_code = {"ADDI", "SLTI", "SLTIU", "XORI", "ORI", "ANDI"}
  BY DEF register_code, fp_code, immediate_code
<1>4. toString(x).mnemonic # "unknown"
  <2>1. e.op # "unknown"
    BY <1>2, <1>3 DEF Encodable
  <2> QED BY <1>1, <2>1, TextParts
<1>5. toString(x) = Written(e)
  <2>1. CASE e \in EncodableR
    <3>1. /\ e \notin EncodableS /\ e \notin EncodableB /\ e \notin EncodableI
          /\ e \notin EncodableU /\ e # Break /\ e.op \notin conversions
      BY <1>2, <1>3, <2>1 DEF conversions
    <3>2. Written(e) = Text(e.op, <<e.dest, e.src1, e.src2>>, <<>>)
      BY <3>1 DEF Written
    <3> QED BY <1>1, <2>1, <3>2, TextOf
  <2>2. CASE e \in EncodableF
    <3>1. /\ e \notin EncodableS /\ e \notin EncodableB /\ e \notin EncodableI
          /\ e \notin EncodableU /\ e # Break
      BY <1>2, <1>3, <2>2
    <3>2. Written(e) = Text(e.op, IF e.op \in conversions THEN <<e.dest, e.src1>>
                                  ELSE <<e.dest, e.src1, e.src2>>, <<>>)
      BY <3>1 DEF Written
    <3> QED BY <1>1, <2>2, <3>2, TextOf
  <2>3. CASE e \in EncodableI
    <3>1. /\ e \notin EncodableS /\ e \notin EncodableB /\ e \notin EncodableU
          /\ e # Break /\ e.op \notin conversions
      BY <1>2, <1>3, <2>3 DEF conversions
    <3>2. Written(e) = Text(e.op, <<e.dest, e.src1>>, <<e.imm>>)
      BY <2>3, <3>1 DEF Written
    <3> QED BY <1>1, <2>3, <3>2, TextOf
  <2>4. CASE e \in EncodableS
    <3>1. /\ e \notin EncodableB /\ e \notin EncodableI /\ e \notin EncodableU
          /\ e # Break /\ e.op \notin conversions
      BY <1>2, <1>3, <2>4 DEF conversions
    <3>2. Written(e) = Text(e.op, <<e.src2, e.src1>>, <<e.imm>>)
      BY <2>4, <3>1 DEF Written
    <3> QED BY <1>1, <2>4, <3>2, TextOf
  <2>5. CASE e \in EncodableB
    <3>1. /\ e \notin EncodableS /\ e \notin EncodableI /\ e \notin EncodableU
          /\ e # Break /\ e.op \notin conversions
      BY <1>2, <1>3, <2>5 DEF conversions
    <3>2. Written(e) = Text(e.op, <<e.src1, e.src2>>, <<e.imm>>)
      BY <2>5, <3>1 DEF Written
    <3> QED BY <1>1, <2>5, <3>2, TextOf
  <2>6. CASE e \in EncodableU
    <3>1. /\ e \notin EncodableS /\ e \notin EncodableB /\ e \notin EncodableI
          /\ e # Break /\ e.op \notin conversions
      BY <1>2, <1>3, <2>6 DEF conversions
    <3>2. Written(e) = Text(e.op, <<e.dest>>, <<UpperShown(e)>>)
      BY <2>6, <3>1 DEF Written, UpperShown
    <3> QED BY <1>1, <2>6, <3>2, TextOf
  <2>7. CASE e = Break
    <3>1. /\ e \notin EncodableS /\ e \notin EncodableB /\ e \notin EncodableI
          /\ e \notin EncodableU /\ e.op \notin conversions
      BY <1>2, <1>3, <2>7 DEF conversions
    <3>2. Written(e) = Text(e.op, <<>>, <<>>)
      BY <2>7, <3>1 DEF Written
    <3> QED BY <1>1, <2>7, <3>2, TextOf
  <2> QED BY <2>1, <2>2, <2>3, <2>4, <2>5, <2>6, <2>7 DEF Encodable
<1> QED BY <1>1, <1>4, <1>5

(* A word whose text is that of an instruction encodes it. *)
LEMMA TextReadBack ==
  ASSUME NEW w \in Word, NEW d, d = decode_instruction(w), NEW s \in Encodable,
         toString([raw |-> w, decoded |-> d]) = Written(s)
  PROVE  Encodes(w, s.op, Encode(s))
<1>1. PICK c : c = Signed(d)
  OBVIOUS
<1>2. PICK x, y : x = [raw |-> w, decoded |-> c] /\ y = [raw |-> w, decoded |-> s]
  OBVIOUS
<1>3. toString(x) = toString(y) /\ toString(y).mnemonic # "unknown"
  BY <1>1, <1>2, TextSigned, TextIsWritten
<1>4. c.op # "UNKNOWN"
  <2>1. ASSUME c.op = "UNKNOWN" PROVE toString(x) = Text("unknown", <<>>, Digits(w))
    BY <1>2, <2>1, TextUnknown
  <2> QED BY <1>3, <2>1 DEF Text
<1>5. c \in Encodable /\ Encodes(w, c.op, Encode(c))
  BY <1>1, <1>4, KnownIsEncoding DEF IsEncoding
<1>6. c = s
  BY <1>2, <1>3, <1>5, EncodableReadBack
<1> QED BY <1>5, <1>6
-----------------------------------------------------------------------------
(* The runs of the two programs *)

(* What a word is loaded as, and what is listed of it. *)
Loadable == {[raw |-> w, decoded |-> decode_instruction(w)] : w \in Word}
Listable == [index : Nat, raw : Word, text : {toString(x) : x \in Loadable}]

FrontTypes ==
  /\ tool \in {"translator", "tomasulo"} /\ argc \in 1 .. 3
  /\ file \in Files \cup {CannotOpen}
  /\ stage \in {"start", "load", "list", "simulate", "exit"}
  /\ i \in Nat /\ status \in {-1, 0, 1} /\ simulation \in {"none", "returned", "threw"}
  /\ instructions \in Seq(Loadable) /\ listing \in Seq(Listable)

(* What has been loaded is the beginning of the file, word by word, and    *)
(* what has been listed the beginning of what was loaded.                  *)
PrefixLoaded ==
  /\ Len(instructions) > 0 => file \in Files /\ Len(instructions) <= num_inst
  /\ \A k \in 1 .. Len(instructions) : instructions[k].raw = LoadedWord(k - 1)
PrefixListed ==
  /\ Len(listing) <= Len(instructions)
  /\ \A k \in 1 .. Len(listing) :
       listing[k] = [index |-> k - 1, raw |-> instructions[k].raw,
                     text |-> toString(instructions[k])]

(* All was done. *)
Success ==
  /\ argc = 2 /\ file \in Files /\ Len(instructions) = num_inst
  /\ tool = "translator" => Len(listing) = Len(instructions)
  /\ tool = "tomasulo" => simulation = "returned"

(* How far each stage has come. *)
StageReached ==
  /\ stage = "start" => i = 0 /\ instructions = <<>> /\ listing = <<>>
  /\ stage \in {"load", "list", "simulate"} => argc = 2 /\ file \in Files
  /\ stage = "load" => i = Len(instructions) /\ i <= num_inst /\ listing = <<>>
  /\ stage \in {"list", "simulate"} => Len(instructions) = num_inst
  /\ stage = "list" => tool = "translator" /\ i = Len(listing)
  /\ stage = "simulate" => tool = "tomasulo"
  /\ stage # "exit" => status = -1 /\ simulation = "none"
  /\ stage = "exit" => (status = 0 <=> Success)

FrontInv == FrontTypes /\ PrefixLoaded /\ PrefixListed /\ StageReached

LEMMA NumInst ==
  ASSUME file \in Files
  PROVE  /\ num_inst \in Nat /\ Len(file) \in Nat
         /\ Len(file) - 4 * num_inst \in 0 .. 3
<1>1. Len(file) \in Nat
  BY FileAssumption
<1> QED BY <1>1 DEF num_inst

LEMMA LoadInv == ASSUME FrontInv, Load PROVE FrontInv'
<1> USE DEF Load
<1>1. /\ file \in Files /\ argc = 2 /\ i = Len(instructions) /\ i < num_inst
      /\ listing = <<>> /\ instructions \in Seq(Loadable) /\ i \in Nat
      /\ num_inst \in Nat
  BY NumInst DEF FrontInv, FrontTypes, StageReached
<1>2. PICK w \in Word : w = LoadedWord(i)
  <2>1. i \in 0 .. num_inst - 1
    BY <1>1
  <2> QED BY <1>1, <2>1, LoadedWords
<1>3. PICK x \in Loadable : x = [raw |-> w, decoded |-> decode_instruction(w)]
  BY DEF Loadable
<1>4. instructions' = Append(instructions, x)
  BY <1>2, <1>3
<1>5. /\ instructions' \in Seq(Loadable) /\ Len(instructions') = i + 1
      /\ instructions'[i + 1] = x
      /\ \A k \in 1 .. i : instructions'[k] = instructions[k]
  BY <1>1, <1>4, AppendProperties
<1>6. FrontTypes'
  BY <1>1, <1>5 DEF FrontInv, FrontTypes
<1>7. PrefixLoaded'
  <2>1. num_inst' = num_inst /\ \A k : LoadedWord(k)' = LoadedWord(k)
    BY DEF num_inst, LoadedWord, Byte
  <2>2. \A k \in 1 .. i + 1 : k \in 1 .. i \/ k = i + 1
    BY <1>1
  <2>3. instructions'[i + 1].raw = LoadedWord(i) /\ (i + 1) - 1 = i
    BY <1>1, <1>2, <1>3, <1>5
  <2>4. \A k \in 1 .. i : instructions'[k].raw = LoadedWord(k - 1)
    BY <1>1, <1>5 DEF FrontInv, PrefixLoaded
  <2>5. Len(instructions') <= num_inst
    BY <1>1, <1>5
  <2> QED BY <1>1, <1>5, <2>1, <2>2, <2>3, <2>4, <2>5 DEF PrefixLoaded
<1>8. PrefixListed'
  BY <1>1, <1>5 DEF PrefixListed
<1>9. StageReached'
  <2>1. num_inst' = num_inst
    BY DEF num_inst
  <2> QED BY <1>1, <1>5, <2>1 DEF FrontInv, StageReached
<1> QED BY <1>6, <1>7, <1>8, <1>9 DEF FrontInv

LEMMA ListInv == ASSUME FrontInv, List PROVE FrontInv'
<1> USE DEF List
<1>1. /\ file \in Files /\ argc = 2 /\ i = Len(listing) /\ i < Len(instructions)
      /\ instructions \in Seq(Loadable) /\ listing \in Seq(Listable) /\ i \in Nat
      /\ tool = "translator" /\ Len(instructions) = num_inst
  BY DEF FrontInv, FrontTypes, StageReached
<1>2. instructions[i + 1] \in Loadable
  <2>1. i + 1 \in 1 .. Len(instructions)
    BY <1>1
  <2> QED BY <1>1, <2>1, ElementOfSeq
<1>3. PICK t \in Listable : t = [index |-> i, raw |-> instructions[i + 1].raw,
                                text |-> toString(instructions[i + 1])]
  BY <1>1, <1>2 DEF Listable, Loadable
<1>4. listing' = Append(listing, t)
  BY <1>3
<1>5. /\ listing' \in Seq(Listable) /\ Len(listing') = i + 1
      /\ listing'[i + 1] = t
      /\ \A k \in 1 .. i : listing'[k] = listing[k]
  BY <1>1, <1>4, AppendProperties
<1>6. FrontTypes'
  BY <1>1, <1>5 DEF FrontInv, FrontTypes
<1>7. num_inst' = num_inst /\ \A k : LoadedWord(k)' = LoadedWord(k)
  BY DEF num_inst, LoadedWord, Byte
<1>8. PrefixLoaded'
  BY <1>7 DEF FrontInv, PrefixLoaded
<1>9. PrefixListed'
  <2>1. \A k \in 1 .. i + 1 : k \in 1 .. i \/ k = i + 1
    BY <1>1
  <2>2. \A k \in 1 .. i : listing'[k] = [index |-> k - 1, raw |-> instructions[k].raw,
                                         text |-> toString(instructions[k])]
    BY <1>1, <1>5 DEF FrontInv, PrefixListed
  <2>3. Len(listing') <= Len(instructions)
    BY <1>1, <1>5
  <2>4. (i + 1) - 1 = i
    BY <1>1
  <2>5. listing'[i + 1] = [index |-> (i + 1) - 1, raw |-> instructions[i + 1].raw,
                           text |-> toString(instructions[i + 1])]
    BY <1>3, <1>5, <2>4
  <2> QED BY <1>5, <2>1, <2>2, <2>3, <2>5 DEF PrefixListed
<1>10. StageReached'
  BY <1>1, <1>5, <1>7 DEF FrontInv, StageReached
<1> QED BY <1>6, <1>8, <1>9, <1>10 DEF FrontInv

(* A step that loads and lists nothing. *)
LEMMA StageInv ==
  ASSUME FrontInv, UNCHANGED <<tool, argc, file, instructions, listing>>,
         stage' \in {"start", "load", "list", "simulate", "exit"}, i' \in Nat,
         status' \in {-1, 0, 1}, simulation' \in {"none", "returned", "threw"},
         StageReached'
  PROVE  FrontInv'
<1>1. FrontTypes'
  BY DEF FrontInv, FrontTypes
<1>2. num_inst' = num_inst /\ \A k : LoadedWord(k)' = LoadedWord(k)
  BY DEF num_inst, LoadedWord, Byte
<1>3. PrefixLoaded' /\ PrefixListed'
  BY <1>2 DEF FrontInv, PrefixLoaded, PrefixListed
<1> QED BY <1>1, <1>3 DEF FrontInv

LEMMA FrontStep == FrontInv /\ [Next]_vars => FrontInv'
<1> SUFFICES ASSUME FrontInv, [Next]_vars PROVE FrontInv'
  OBVIOUS
<1>0. /\ FrontTypes /\ StageReached /\ PrefixListed
      /\ i \in Nat /\ Len(instructions) \in Nat /\ Len(listing) \in Nat
  BY DEF FrontInv, FrontTypes
<1>1. CASE Usage
  <2>1. StageReached'
    BY <1>0, <1>1 DEF Usage, Exit, StageReached, Success
  <2> QED BY <1>0, <1>1, <2>1, StageInv DEF Usage, Exit, FrontTypes
<1>2. CASE OpenFails
  <2>1. file \notin Files
    BY <1>2, FileAssumption DEF OpenFails
  <2>2. StageReached'
    BY <1>0, <1>2, <2>1 DEF OpenFails, Exit, ExceptionStatus, StageReached, Success
  <2> QED BY <1>0, <1>2, <2>2, StageInv DEF OpenFails, Exit, ExceptionStatus, FrontTypes
<1>3. CASE Open
  <2>0. file \in Files \cup {CannotOpen} /\ file # CannotOpen
    <3>1. file \in Files \cup {CannotOpen}
      BY <1>0 DEF FrontTypes
    <3> QED BY <1>3, <3>1 DEF Open
  <2>1. file \in Files
    BY <2>0
  <2>2. instructions = <<>> /\ i = 0
    BY <1>0, <1>3 DEF Open, StageReached
  <2>3. StageReached'
    BY <1>0, <1>3, <2>1, <2>2, NumInst DEF Open, StageReached, num_inst
  <2> QED BY <1>0, <1>3, <2>3, StageInv DEF Open, FrontTypes
<1>4. CASE Load
  BY <1>4, LoadInv
<1>5. CASE Loaded
  <2>1. num_inst' = num_inst /\ i = num_inst /\ i = Len(instructions)
    BY <1>0, <1>5, NumInst DEF Loaded, num_inst, StageReached
  <2>2. StageReached'
    BY <1>0, <1>5, <2>1 DEF Loaded, StageReached, FrontTypes
  <2> QED BY <1>0, <1>5, <2>2, StageInv DEF Loaded, FrontTypes
<1>6. CASE List
  BY <1>6, ListInv
<1>7. CASE Listed
  <2>1. num_inst' = num_inst /\ Len(listing) = Len(instructions)
    BY <1>0, <1>7 DEF Listed, num_inst, StageReached, PrefixListed
  <2>2. StageReached'
    BY <1>0, <1>7, <2>1 DEF Listed, Exit, StageReached, Success
  <2> QED BY <1>0, <1>7, <2>2, StageInv DEF Listed, Exit, FrontTypes
<1>8. CASE Simulate
  <2>1. num_inst' = num_inst
    BY <1>8 DEF Simulate, num_inst
  <2>2. StageReached'
    BY <1>0, <1>8, <2>1 DEF Simulate, Exit, ExceptionStatus, StageReached, Success
  <2> QED BY <1>0, <1>8, <2>2, StageInv DEF Simulate, Exit, ExceptionStatus, FrontTypes
<1>9. CASE UNCHANGED vars
  <2>1. num_inst' = num_inst
    BY <1>9 DEF vars, num_inst
  <2>2. StageReached'
    BY <1>0, <1>9, <2>1 DEF vars, StageReached, Success
  <2> QED BY <1>0, <1>9, <2>2, StageInv DEF vars, FrontTypes
<1> QED BY <1>1, <1>2, <1>3, <1>4, <1>5, <1>6, <1>7, <1>8, <1>9 DEF Next, Exited

LEMMA FrontInit == Init => FrontInv
BY DEF Init, FrontInv, FrontTypes, PrefixLoaded, PrefixListed, StageReached

LEMMA FrontInvariant == Spec => []FrontInv
BY FrontInit, FrontStep, PTL DEF Spec

(* What the invariant says of a loaded instruction. *)
LEMMA LoadedInstructions ==
  ASSUME FrontInv, NEW k \in DOMAIN instructions
  PROVE  /\ k \in 1 .. Len(instructions) /\ k \in 1 .. num_inst /\ file \in Files
         /\ instructions[k].raw \in Word
         /\ instructions[k].raw = LoadedWord(k - 1)
         /\ instructions[k].decoded = decode_instruction(instructions[k].raw)
         /\ instructions[k] = [raw |-> instructions[k].raw,
                               decoded |-> instructions[k].decoded]
<1>1. /\ instructions \in Seq(Loadable) /\ Len(instructions) \in Nat
      /\ DOMAIN instructions = 1 .. Len(instructions)
  BY DEF FrontInv, FrontTypes
<1>2. file \in Files /\ Len(instructions) <= num_inst
  BY <1>1 DEF FrontInv, PrefixLoaded
<1>3. k \in 1 .. num_inst
  BY <1>1, <1>2, NumInst
<1>4. instructions[k] \in Loadable
  BY <1>1, ElementOfSeq
<1> QED BY <1>1, <1>2, <1>3, <1>4 DEF Loadable, FrontInv, PrefixLoaded

(* Every word of every binary, as it stands in memory after loading, is an *)
(* encoding of the instruction it is taken for, but for the values that    *)
(* are tolerated.                                                          *)
THEOREM OnlyEncodingsKnown == Spec => []KnownWordsAreEncodings
<1>1. FrontInv => KnownWordsAreEncodings
  <2> SUFFICES ASSUME FrontInv, NEW k \in DOMAIN instructions
               PROVE  IsEncoding(instructions[k].raw)
    BY LoadedInstructions DEF KnownWordsAreEncodings, IsEncoding
  <2> QED BY LoadedInstructions, KnownIsEncoding
<1> QED BY <1>1, FrontInvariant, PTL

(* Whatever was assembled from whatever instructions, at any place of any  *)
(* file, is loaded as these very instructions, and no word is left behind. *)
THEOREM AssembledIsLoaded == Spec => []LoadsWhatWasAssembled
<1>1. FrontInv => LoadsWhatWasAssembled
  <2> SUFFICES ASSUME FrontInv, stage \in {"list", "simulate"}
               PROVE  /\ \A k \in DOMAIN instructions : \A s \in Source :
                           FileBytes(k) = s.bytes => instructions[k].decoded = s.instruction
                      /\ Len(file) - 4 * Len(instructions) \in 0 .. 3
    BY DEF LoadsWhatWasAssembled
  <2>1. ASSUME NEW k \in DOMAIN instructions, NEW s \in Source, FileBytes(k) = s.bytes
        PROVE  instructions[k].decoded = s.instruction
    <3>1. PICK e \in Encodable : s.instruction = e /\ s.bytes = Bytes(Encode(e))
      BY AssemblyAssumption DEF Source
    <3>2. LoadedWord(k - 1) = Encode(e)
      BY <2>1, <3>1, LoadedInstructions, EncodingsAreWords, BytesLoadBack
    <3> QED BY <3>1, <3>2, LoadedInstructions, DecodeInvertsEncode
  <2>2. Len(file) - 4 * Len(instructions) \in 0 .. 3
    BY NumInst DEF FrontInv, StageReached
  <2> QED BY <2>1, <2>2
<1> QED BY <1>1, FrontInvariant, PTL

(* In every listing of every binary: the words are those of the file, an   *)
(* encoded instruction is shown as it was written, and the text of an      *)
(* instruction is shown only beside a word that encodes it.                *)
THEOREM ListingIsTrue == Spec => []ListingShowsBinary
<1>1. FrontInv => ListingShowsBinary
  <2> SUFFICES ASSUME FrontInv, NEW k \in DOMAIN listing
               PROVE  /\ Bytes(listing[k].raw) = FileBytes(listing[k].index + 1)
                      /\ \A s \in Source :
                           /\ listing[k].raw = s.word => listing[k].text = s.text
                           /\ listing[k].text = s.text =>
                                Encodes(listing[k].raw, s.instruction.op, s.word)
    BY DEF ListingShowsBinary
  <2>1. k \in 1 .. Len(listing) /\ k \in DOMAIN instructions
    <3>1. /\ Len(listing) \in Nat /\ Len(instructions) \in Nat
          /\ DOMAIN listing = 1 .. Len(listing)
          /\ DOMAIN instructions = 1 .. Len(instructions)
      BY DEF FrontInv, FrontTypes
    <3> QED BY <3>1 DEF FrontInv, PrefixListed
  <2>2. PICK x : x = instructions[k]
    OBVIOUS
  <2>3. listing[k] = [index |-> k - 1, raw |-> x.raw, text |-> toString(x)]
    BY <2>1, <2>2 DEF FrontInv, PrefixListed
  <2>4. /\ file \in Files /\ k \in 1 .. num_inst /\ x.raw = LoadedWord(k - 1)
        /\ x.raw \in Word /\ x.decoded = decode_instruction(x.raw)
        /\ x = [raw |-> x.raw, decoded |-> x.decoded]
    BY <2>1, <2>2, LoadedInstructions
  <2>5. Bytes(listing[k].raw) = FileBytes(listing[k].index + 1)
    <3>1. (k - 1) + 1 = k
      BY <2>4, NumInst
    <3> QED BY <2>3, <2>4, <3>1, LoadedBytes
  <2>6. ASSUME NEW s \in Source
        PROVE  /\ listing[k].raw = s.word => listing[k].text = s.text
               /\ listing[k].text = s.text =>
                    Encodes(listing[k].raw, s.instruction.op, s.word)
    <3>1. PICK e \in Encodable : /\ s.instruction = e /\ s.word = Encode(e)
                                 /\ s.text = Written(e)
      BY AssemblyAssumption DEF Source
    <3>2. listing[k].raw = s.word => listing[k].text = s.text
      BY <2>3, <2>4, <3>1, DecodeInvertsEncode, TextIsWritten
    <3>3. listing[k].text = s.text => Encodes(listing[k].raw, s.instruction.op, s.word)
      BY <2>3, <2>4, <3>1, TextReadBack
    <3> QED BY <3>2, <3>3
  <2> QED BY <2>5, <2>6
<1> QED BY <1>1, FrontInvariant, PTL

(* An exit status of 0 is never given away, not for a wrong number of      *)
(* arguments, a file that did not open, a word left over or a simulation   *)
(* that threw; and never withheld when all was done.                       *)
THEOREM StatusIsTrue == Spec => []StatusTellsTheTruth
<1>1. FrontInv => StatusTellsTheTruth
  <2> SUFFICES ASSUME FrontInv, stage = "exit"
               PROVE  status = 0 <=>
                        /\ argc = 2 /\ file # CannotOpen
                        /\ Len(file) < 4 * (Len(instructions) + 1)
                        /\ tool = "translator" => Len(listing) = Len(instructions)
                        /\ tool = "tomasulo" => simulation = "returned"
    BY DEF StatusTellsTheTruth
  <2>1. status = 0 <=> Success
    BY DEF FrontInv, StageReached
  <2>2. file # CannotOpen <=> file \in Files
    BY FileAssumption DEF FrontInv, FrontTypes
  <2>3. ASSUME file \in Files
        PROVE  Len(instructions) = num_inst <=> Len(file) < 4 * (Len(instructions) + 1)
    <3>1. Len(instructions) \in Nat /\ Len(instructions) <= num_inst
      BY <2>3, NumInst DEF FrontInv, FrontTypes, PrefixLoaded
    <3> QED BY <2>3, <3>1, NumInst
  <2> QED BY <2>1, <2>2, <2>3 DEF Success
<1> QED BY <1>1, FrontInvariant, PTL
=============================================================================

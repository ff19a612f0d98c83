------------------------------ MODULE FrontEnd ------------------------------
(***************************************************************************)
(* The two programs around the core: loader.cpp reads a raw binary and     *)
(* decodes it word by word; translator.cpp lists what was loaded, main.cpp *)
(* simulates it.  Either reports an exception and exits with status 1.     *)
(*                                                                         *)
(* A line of the listing shows an index, a word, and the text of the       *)
(* instruction (Instruction::toString): a mnemonic, one for each           *)
(* operation, with the registers and numbers after it.                     *)
(***************************************************************************)
EXTENDS Decoder, Sequences

CONSTANTS Files,        \* contents of binaries: sequences of bytes
          CannotOpen    \* a file name that does not open

ASSUME FileAssumption == Files \subseteq Seq(0 .. 255) /\ CannotOpen \notin Files

VARIABLES tool,         \* which main() runs
          argc, file,   \* its argument
          stage,        \* where it is
          i,            \* the index of the loop it is in
          instructions, listing,
          simulation,   \* how simulate() ended, if it did
          status        \* exit status, -1 while running

vars == <<tool, argc, file, stage, i, instructions, listing, simulation, status>>

Init ==
  /\ tool \in {"translator", "tomasulo"} /\ argc \in 1 .. 3
  /\ file \in Files \cup {CannotOpen}
  /\ stage = "start" /\ i = 0 /\ instructions = <<>> /\ listing = <<>>
  /\ simulation = "none" /\ status = -1

Exit(code) == stage' = "exit" /\ status' = code
(* What main returns from its catch. *)
SlipExceptionStatus == 0
ExceptionStatus == 1

Usage ==
  /\ stage = "start" /\ argc # 2
  /\ Exit(1)
  /\ UNCHANGED <<tool, argc, file, i, instructions, listing, simulation>>
-----------------------------------------------------------------------------
(* load_instructions_from_bin *)

OpenFails ==
  /\ stage = "start" /\ argc = 2 /\ file = CannotOpen
  /\ Exit(ExceptionStatus)
  /\ UNCHANGED <<tool, argc, file, i, instructions, listing, simulation>>

Open ==
  /\ stage = "start" /\ argc = 2 /\ file # CannotOpen
  /\ stage' = "load"
  /\ UNCHANGED <<tool, argc, file, i, instructions, listing, simulation, status>>

(* Up to three bytes after the last whole word are dropped. *)
num_inst == Len(file) \div 4
Byte(k, n) == file[4 * k + n + 1]

(* The fields of the little-endian word k of the file. *)
LoadedWord(k) ==
  [opcode |-> Byte(k, 0) % 128,
   rd     |-> 2 * (Byte(k, 1) % 16) + Byte(k, 0) \div 128,
   funct3 |-> (Byte(k, 1) \div 16) % 8,
   rs1    |-> 2 * (Byte(k, 2) % 16) + Byte(k, 1) \div 128,
   rs2    |-> 16 * (Byte(k, 3) % 2) + Byte(k, 2) \div 16,
   funct7 |-> Byte(k, 3) \div 2]

Load ==
  /\ stage = "load" /\ i < num_inst
  /\ LET word == LoadedWord(i)
     IN instructions' = Append(instructions,
                               [raw |-> word, decoded |-> decode_instruction(word)])
  /\ i' = i + 1
  /\ UNCHANGED <<tool, argc, file, stage, listing, simulation, status>>

Loaded ==
  /\ stage = "load" /\ i >= num_inst
  /\ stage' = IF tool = "translator" THEN "list" ELSE "simulate"
  /\ i' = 0
  /\ UNCHANGED <<tool, argc, file, instructions, listing, simulation, status>>
-----------------------------------------------------------------------------
(* Instruction::toString *)

reg_name_int(r) == IF r[1] = "int" THEN r ELSE <<"x?", 0>>
reg_name_fp(r)  == IF r[1] = "fp" THEN r ELSE <<"f?", 0>>

Text(mnemonic, registers, numbers) ==
  [mnemonic |-> mnemonic, registers |-> registers, numbers |-> numbers]

(* The number in the text of an UNKNOWN is the word. *)
Digits(w) == <<w.funct7, w.rs2, w.rs1, w.funct3, w.rd, w.opcode>>

SlipTextStoreDest(inst) ==
  Text(inst.op, <<reg_name_int(inst.dest), reg_name_int(inst.src1)>>, <<inst.imm>>)
TextIntStore(inst) ==
  Text(inst.op, <<reg_name_int(inst.src2), reg_name_int(inst.src1)>>, <<inst.imm>>)

toString(instruction) ==
  LET inst == instruction.decoded
      rd == reg_name_int(inst.dest)
      fd == reg_name_fp(inst.dest)
      rs1 == reg_name_int(inst.src1)
      fs1 == reg_name_fp(inst.src1)
      rs2 == reg_name_int(inst.src2)
      fs2 == reg_name_fp(inst.src2)
  IN CASE inst.op \in {"ADD", "SUB", "AND", "OR", "XOR", "SLT", "SLTU", "SLL",
                       "SRL", "SRA"} \cup muldiv_ops ->
            Text(inst.op, <<rd, rs1, rs2>>, <<>>)
       [] inst.op \in {"ADDI", "ANDI", "ORI", "XORI", "SLTI", "SLTIU", "JALR",
                       "LD", "LW"} ->
            Text(inst.op, <<rd, rs1>>, <<inst.imm>>)
       [] inst.op \in {"FADD_D", "FSUB_D", "FMUL_D", "FDIV_D"} ->
            Text(inst.op, <<fd, fs1, fs2>>, <<>>)
       [] inst.op \in {"FEQ_D", "FLT_D", "FLE_D"} ->
            Text(inst.op, <<rd, fs1, fs2>>, <<>>)
       [] inst.op = "FCVT_D_W" -> Text(inst.op, <<fd, rs1>>, <<>>)
       [] inst.op = "FCVT_W_D" -> Text(inst.op, <<rd, fs1>>, <<>>)
       [] inst.op = "FLD" -> Text(inst.op, <<fd, rs1>>, <<inst.imm>>)
       [] inst.op = "FSD" -> Text(inst.op, <<fs2, rs1>>, <<inst.imm>>)
       [] inst.op \in {"SD", "SW"} -> TextIntStore(inst)
       [] inst.op = "BNE" -> Text(inst.op, <<rs1, rs2>>, <<inst.imm>>)
       [] inst.op \in {"LUI", "AUIPC"} ->
            Text(inst.op, <<rd>>, <<inst.imm \div 4096>>)
       [] inst.op = "EBREAK" -> Text(inst.op, <<>>, <<>>)
       [] OTHER -> Text("unknown", <<>>, Digits(instruction.raw))
-----------------------------------------------------------------------------
(* The rest of the two main functions *)

List ==
  /\ stage = "list" /\ i < Len(instructions)
  /\ LET inst == instructions[i + 1]
     IN listing' = Append(listing,
                          [index |-> i, raw |-> inst.raw, text |-> toString(inst)])
  /\ i' = i + 1
  /\ UNCHANGED <<tool, argc, file, stage, instructions, simulation, status>>

Listed ==
  /\ stage = "list" /\ i >= Len(instructions)
  /\ Exit(0)
  /\ UNCHANGED <<tool, argc, file, i, instructions, listing, simulation>>

(* simulate() is the subject of TomasuloSim; main sees it return or throw. *)
Simulate ==
  /\ stage = "simulate"
  /\ \/ simulation' = "returned" /\ Exit(0)
     \/ simulation' = "threw" /\ Exit(ExceptionStatus)
  /\ UNCHANGED <<tool, argc, file, i, instructions, listing>>

Exited == stage = "exit" /\ UNCHANGED vars

Next == Usage \/ OpenFails \/ Open \/ Load \/ Loaded \/ List \/ Listed
          \/ Simulate \/ Exited

Spec == Init /\ [][Next]_vars
=============================================================================

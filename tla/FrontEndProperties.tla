-------------------------- MODULE FrontEndProperties -------------------------
(***************************************************************************)
(* What loading and listing a binary promise.                              *)
(***************************************************************************)
EXTENDS FrontEnd, Encoding

CONSTANT Assembly     \* instructions that an assembler put into the binaries

ASSUME AssemblyAssumption == Assembly \subseteq Encodable

(* The bytes of a word in a binary, least significant first. *)
Bytes(w) ==
  <<w.opcode + 128 * (w.rd % 2),
    (w.rd \div 2) + 16 * w.funct3 + 128 * (w.rs1 % 2),
    (w.rs1 \div 2) + 16 * (w.rs2 % 16),
    (w.rs2 \div 16) + 2 * w.funct7>>
FileBytes(k) == SubSeq(file, 4 * k - 3, 4 * k)

(* The assembly language of the manual: the operands in the order of the   *)
(* format, in a store the data before the base.  Written from the manual.  *)
conversions == {"FCVT_D_W", "FCVT_W_D"}
Written(s) ==
  CASE s \in EncodableS -> Text(s.op, <<s.src2, s.src1>>, <<s.imm>>)
    [] s \in EncodableB -> Text(s.op, <<s.src1, s.src2>>, <<s.imm>>)
    [] s \in EncodableI -> Text(s.op, <<s.dest, s.src1>>, <<s.imm>>)
    [] s \in EncodableU -> Text(s.op, <<s.dest>>, <<s.imm \div 4096>>)
    [] s = Break        -> Text(s.op, <<>>, <<>>)
    [] s.op \in conversions -> Text(s.op, <<s.dest, s.src1>>, <<>>)
    [] OTHER            -> Text(s.op, <<s.dest, s.src1, s.src2>>, <<>>)

Source == {[instruction |-> s, word |-> Encode(s), bytes |-> Bytes(Encode(s)),
            text |-> Written(s)] : s \in Assembly}
-----------------------------------------------------------------------------
(* The fields of a word that need not be those of the encoding for         *)
(* decode_instruction to take it for op, and what they may be instead.     *)
(* Formats of the manual are behind some: funct7 2 is a half-precision     *)
(* addition, 96 and 104 convert singles, rs2 1 is an unsigned conversion   *)
(* (the decoder keeps it as an operand that nothing reads).                *)
Tolerated(op, field) ==
  CASE op = "JALR" /\ field = "funct3" -> 0 .. 7
    [] op \in {"FADD_D", "FSUB_D", "FMUL_D", "FDIV_D"} /\ field = "funct3" -> {3}
    [] op = "FADD_D" /\ field = "funct7" -> {2}
    [] op = "FCVT_D_W" /\ field = "funct7" -> {96, 104}
    [] op = "FCVT_W_D" /\ field = "funct7" -> {96}
    [] op \in conversions /\ field = "rs2" -> 0 .. 31
    [] op = "EBREAK" /\ field = "rs2" -> 0 .. 31
    [] op = "EBREAK" /\ field = "funct7" -> 0 .. 127
    [] OTHER -> {}
Encodes(word, op, encoding) ==
  \A field \in DOMAIN word :
    word[field] \in {encoding[field]} \cup Tolerated(op, field)
Signed(decoded) ==
  IF decoded.op \in conversions THEN [decoded EXCEPT !.src2 = FpReg(0)] ELSE decoded
-----------------------------------------------------------------------------
(* What was assembled is what is simulated or listed: when a file has been *)
(* loaded, four bytes that encode an instruction have been decoded to this *)
(* instruction, with its registers, its file and the sign of its scattered *)
(* immediate, and at most three bytes are left over.                       *)
LoadsWhatWasAssembled ==
  stage \in {"list", "simulate"} /\ i = 0 =>
    /\ \A k \in DOMAIN instructions :
         LET bytes == FileBytes(k)
         IN \A s \in Source :
              bytes = s.bytes => instructions[k].decoded = s.instruction
    /\ Len(file) - 4 * Len(instructions) \in 0 .. 3

(* The listing shows the binary: the word at an index is the one the file  *)
(* has there; one that encodes an instruction stands next to its assembly  *)
(* text; and next to the text of an instruction stands a word that is      *)
(* taken for it rightly, but for what the decoder tolerates.               *)
ListingShowsBinary ==
  \A k \in DOMAIN listing :
    LET line == listing[k]
    IN /\ Bytes(line.raw) = FileBytes(line.index + 1)
       /\ \A s \in Source :
            /\ line.raw = s.word => line.text = s.text
            /\ line.text = s.text => Encodes(line.raw, s.instruction.op, s.word)

(* The exit status is 0 exactly if all was done: a binary was named,       *)
(* opened and loaded to its last word, and then listed to its last line,   *)
(* or simulated without an exception.                                      *)
StatusTellsTheTruth ==
  stage = "exit" =>
    (status = 0 <=>
       /\ argc = 2 /\ file # CannotOpen
       /\ Len(file) < 4 * (Len(instructions) + 1)
       /\ tool = "translator" => Len(listing) = Len(instructions)
       /\ tool = "tomasulo" => simulation = "returned")

(* A word is taken for an instruction only if it is the encoding of one,   *)
(* the tolerated fields apart: what the simulator lacks becomes UNKNOWN    *)
(* and is not executed as something else.                                  *)
KnownWordsAreEncodings ==
  \A k \in DOMAIN instructions :
    LET decoded == Signed(instructions[k].decoded)
    IN decoded.op # "UNKNOWN" =>
         /\ decoded \in Encodable
         /\ Encodes(instructions[k].raw, decoded.op, Encode(decoded))
=============================================================================

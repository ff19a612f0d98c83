----------------------------- MODULE MCFrontEnd -----------------------------
(***************************************************************************)
(* Binaries for the front end.                                             *)
(***************************************************************************)
EXTENDS FrontEndProperties

(* Every instruction the decoder knows, with each bit of its immediate     *)
(* alone and the extreme values, and with registers of every bit pattern   *)
(* at the places where they could be confused.                             *)
Powers(n) == {2^k : k \in 0 .. n}
SampleImm == Powers(10) \cup {-2048, -1, 0, 2047}
X == {IntReg(10), IntReg(21)}
F == {FpReg(10), FpReg(21)}
Samples ==
  Format(DOMAIN register_code, X, X, X, {0})
    \cup Format(DOMAIN immediate_code \cup {"LD", "LW", "JALR"},
                {IntReg(31)}, {IntReg(0)}, {NoReg}, SampleImm)
    \cup Format({"FLD"}, F, X, {NoReg}, SampleImm)
    \cup Format({"SD", "SW"}, {NoReg}, X, X, SampleImm)
    \cup Format({"FSD"}, {NoReg}, X, F, SampleImm)
    \cup Format({"BNE"}, {NoReg}, X, X,
                {2 * n : n \in SampleImm} \cup {-2, 2 * 2046})
    \cup Format({"LUI", "AUIPC"}, X, {NoReg}, {NoReg},
                {4096 * n : n \in Powers(18) \cup {-524288, -1, 0, 524287}})
    \cup Format({"FADD_D", "FSUB_D", "FMUL_D", "FDIV_D"}, F, F, F, {0})
    \cup Format({"FCVT_D_W"}, F, X, {FpReg(0)}, {0})
    \cup Format({"FCVT_W_D"}, X, F, {FpReg(0)}, {0})
    \cup {Break}

(* Binaries of one instruction with up to three bytes after it, the empty  *)
(* one, those of two similar instructions, and those of a conversion and   *)
(* the unsigned one, which differs in rs2.                                 *)
Alike == {s \in Samples : /\ s.imm \in {0, 4, 4096}
                          /\ s.op \in {"SD", "FSD", "FLD", "BNE", "LUI", "FCVT_D_W",
                                       "FCVT_W_D", "FADD_D", "SUB"}}
AssembledFiles ==
  {Bytes(Encode(s)) \o [k \in 1 .. n |-> 255] : s \in Samples, n \in 0 .. 3}
    \cup {[k \in 1 .. n |-> 255] : n \in 0 .. 3}
    \cup {Bytes(Encode(s)) \o Bytes(Encode(t)) : s, t \in Alike}
    \cup {Bytes(Encode(s)) \o Bytes([Encode(s) EXCEPT !.rs2 = 1]) :
             s \in {t \in Samples : t.op \in conversions}}

(* One word, with every opcode in use and a few others, every funct3, and  *)
(* a funct7 in use or like one.                                            *)
WordFiles ==
  {Bytes(Assembled(o, r[1], f3, r[2], r[3], f7)) :
     o \in {3, 7, 15, 19, 23, 35, 39, 51, 55, 67, 83, 99, 103, 111, 115},
     f3 \in 0 .. 7, f7 \in 0 .. 5 \cup {9, 13, 16, 32, 33, 64, 95} \cup 96 .. 98 \cup 104 .. 106,
     r \in {<<0, 0, 0>>, <<0, 0, 2>>, <<21, 10, 31>>}}

Binaries == AssembledFiles \cup WordFiles
=============================================================================

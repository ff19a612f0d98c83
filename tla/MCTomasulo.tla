----------------------------- MODULE MCTomasulo -----------------------------
(***************************************************************************)
(* Small instances of the simulator core for TLC: sizes, initial states    *)
(* and the families of programs the runs enumerate.  Every instruction is  *)
(* one that decode_instruction can return.                                 *)
(***************************************************************************)
EXTENDS TomasuloProperties

CONSTANTS WIDTH,        \* bits of a machine word
          MaxLen        \* length of the enumerated programs

Units == INSTANCE FunctionalUnits

MCWord == 2^WIDTH
MCF64 == 0 .. MCWord             \* with NaN = 2^WIDTH
MCCompute(op, v1, v2) == Units!execute(op, v1, v2)

(* Instruction constructors, by format.  The decoder leaves the field of   *)
(* the second operand in fs2 for the conversions, so they use R as well.   *)
x(i) == <<"int", i>>
f(i) == <<"fp", i>>
R(op, d, a, b) == [op |-> op, dest |-> d, src1 |-> a, src2 |-> b, imm |-> 0]
I(op, d, a, n) == [op |-> op, dest |-> d, src1 |-> a, src2 |-> NoReg, imm |-> n]
S(op, b, a, n) == [op |-> op, dest |-> NoReg, src1 |-> a, src2 |-> b, imm |-> n]
B(a, b, n) == [op |-> "BNE", dest |-> NoReg, src1 |-> a, src2 |-> b, imm |-> n]

ProgramsUpTo(n, alphabet) == UNION {[1 .. m -> alphabet] : m \in 0 .. n}
ProgramsOver(alphabet) == ProgramsUpTo(MaxLen, alphabet)

(* x0 is zero and the other registers hold distinct values. *)
MCInitRegs ==
  {[r \in Reg |-> IF r = x(0) THEN <<"int", 0>> ELSE <<r[1], r[2] + 1>>]}
MCEmptyMemory == {<<>>}

(* Stations and units: those of tomasulo_sim.h, and few of each.  *)
HeaderRS ==
  [INTALU |-> 6, MULDIV |-> 2, LOAD |-> 8, STORE |-> 6, FPADD |-> 4,
   FPMUL |-> 4, FPDIV |-> 2]
HeaderFU ==
  [INTALU |-> 2, MULDIV |-> 1, LOAD |-> 2, STORE |-> 1, FPADD |-> 2,
   FPMUL |-> 2, FPDIV |-> 1]
OfEach(n) == [t \in RSType |-> n]
SmallFU == [OfEach(1) EXCEPT !["INTALU"] = 2]
SmallRS == [OfEach(1) EXCEPT !["INTALU"] = 4, !["MULDIV"] = 2]
-----------------------------------------------------------------------------
(* Register programs: integer and double chains of every latency, with     *)
(* RAW, WAR and WAW dependences and with stalls.  The only instructions    *)
(* whose destination is a source are ALU ones, and there are as many ALU   *)
(* stations as ROB entries, so that they never stall for a station.        *)
ArithAlphabet ==
  {R("ADD", x(1), x(1), x(2)), R("MUL", x(1), x(2), x(2)),
   R("MUL", x(2), x(1), x(1)), R("FMUL_D", f(0), f(1), f(1)),
   R("FADD_D", f(1), f(0), f(0)), R("FCVT_W_D", x(1), f(1), f(0))}
ArithPrograms == ProgramsOver(ArithAlphabet)
-----------------------------------------------------------------------------
(* Memory programs: x1 and x2 chase pointers through the words at 0 and 4, *)
(* stores go to the words at 8 and 12 from x3.  No load follows a store to *)
(* the same word, and no load overwrites its own base register.            *)
MemoryRegs ==
  {[r \in Reg |-> CASE r = x(1) -> <<"int", 0>> [] r = x(2) -> <<"int", 4>>
                    [] r = x(3) -> <<"int", 8>> [] OTHER -> <<r[1], 1>>]}
MemoryWords ==
  {[a \in {<<"int", 0>>, <<"int", 4>>, <<"int", 8>>, <<"fp", 0>>} |->
      IF a = <<"fp", 0>> THEN <<"fp", 7>> ELSE <<"int", 4 - (a[2] % 8)>>]}
EarlyLoad == I("LW", x(1), x(3), 0)
MemoryAlphabet ==
  {EarlyLoad, I("LW", x(1), x(2), 0), I("LD", x(2), x(1), 0),
   I("FLD", f(1), x(1), 0), S("SW", x(1), x(3), 0), S("SD", x(2), x(3), 0),
   S("FSD", f(1), x(3), 4), R("FADD_D", f(1), f(1), f(1))}
MemoryPrograms ==
  {p \in ProgramsOver(MemoryAlphabet) :
     \A i, j \in DOMAIN p : i < j /\ is_store_op(p[i].op) => p[j] # EarlyLoad}
MemoryRS == [OfEach(1) EXCEPT !["STORE"] = 2, !["FPADD"] = 4]
=============================================================================

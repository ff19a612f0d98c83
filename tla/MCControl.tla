------------------------------ MODULE MCControl -----------------------------
(***************************************************************************)
(* Instances with jumps.                                                   *)
(***************************************************************************)
EXTENDS MCTomasulo

(* Anything the decoder returns: branches that resolve late, in either     *)
(* direction, jumps, illegal instructions with and without a destination,  *)
(* the same registers everywhere, one station of each sort.                *)
WildAlphabet ==
  {B(x(0), x(1), 8), B(x(1), x(0), -4), I("JALR", x(0), x(1), 8),
   R("MUL", x(1), x(1), x(1)), I("LW", x(1), x(0), 0), S("SW", x(1), x(1), 4),
   I("UNKNOWN", x(1), x(1), 0)}

(* A taken branch overtakes an instruction that failed to issue, and the   *)
(* register that instruction renamed is left to whichever instruction gets *)
(* the ROB entry.  When that one is of the other kind, or has no result,   *)
(* what reads the register gets the wrong kind of value, or waits for ever.*)
Overtaken(fill, uses) ==
  {<<R("FDIV_D", f(0), f(1), f(1)), R("MUL", x(1), x(2), x(2)),
     B(x(1), x(0), 8), R("FDIV_D", f(1), f(0), f(0)), u, v, w>> :
       u \in fill, v, w \in uses}
OvertakenUses ==
  {R("FADD_D", f(1), f(1), f(0)), S("FSD", f(1), x(0), 4),
   I("FLD", f(1), x(2), 0), S("SD", x(2), x(0), 0), I("ADDI", x(2), x(2), 1)}
WildPrograms ==
  ProgramsOver(WildAlphabet)
    \cup Overtaken({R("SUB", x(2), x(2), x(1)), S("SW", x(2), x(1), 0)}, OvertakenUses)
WildRS == [OfEach(1) EXCEPT !["INTALU"] = 2]
WildFU == [SmallFU EXCEPT !["LOAD"] = 2]
-----------------------------------------------------------------------------
(* Loops and skips whose BNE has its operands when it issues: the branch   *)
(* is resolved before anything is fetched after it.                        *)
BodyAlphabet ==
  {R("MUL", x(3), x(2), x(2)), I("LW", x(4), x(1), 0), S("SW", x(3), x(1), 8),
   R("FMUL_D", f(0), f(1), f(1)), R("FADD_D", f(1), f(0), f(0)),
   I("LUI", x(3), NoReg, 0)}
Loop(body) == body \o <<I("ADDI", x(1), x(1), -1),
                        B(x(1), x(0), -4 * (Len(body) + 1))>>
Skip(body) == <<B(x(1), x(2), 4 * (Len(body) + 1))>> \o body
(* A branch that leads out of the program, past its end. *)
Leave(body) == <<B(x(1), x(2), 4 * (Len(body) + 3))>> \o body
Bodies == ProgramsUpTo(2, BodyAlphabet)
LoopPrograms ==
  {Loop(a) \o b : a \in Bodies, b \in ProgramsUpTo(1, BodyAlphabet)}
    \cup {Skip(a) \o Loop(b) : a, b \in ProgramsUpTo(1, BodyAlphabet)}
    \cup {a \o Leave(b) : a, b \in ProgramsUpTo(1, BodyAlphabet)}
InOrderPrograms == ArithPrograms \cup LoopPrograms
=============================================================================

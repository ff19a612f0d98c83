--------------------------- MODULE MCResimulation ---------------------------
(***************************************************************************)
(* Small instances of repeated calls, with the programs of MCTomasulo.     *)
(***************************************************************************)
EXTENDS MCTomasulo, Resimulation

(* A store that lands where an early load of the next call reads. *)
CallPrograms ==
  {p \in ProgramsOver({R("MUL", x(1), x(2), x(2)), I("LW", x(1), x(3), 0),
                       S("SW", x(1), x(3), 0), R("FADD_D", f(1), f(1), f(1))}) :
     \A i, j \in DOMAIN p : i < j /\ p[i].op = "SW" => p[j].op # "LW"}

(* The same program each time. *)
OneProgram == {<<R("MUL", x(1), x(2), x(2)), S("SW", x(1), x(3), 0)>>}
=============================================================================

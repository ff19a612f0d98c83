---------------------------- MODULE MCDivergences ---------------------------
(***************************************************************************)
(* Where the code does something else than a comment or Readme.md says,    *)
(* each with one short program, on the machine of tomasulo_sim.h.          *)
(***************************************************************************)
EXTENDS MCTomasulo

StoreThenLoad ==
  {<<R("MUL", x(1), x(1), x(1)), S("SW", x(1), x(0), 0), I("LW", x(2), x(0), 0)>>}
ThreeMuls == {[i \in 1 .. 3 |-> R("MUL", x(1), x(1), x(1))]}
WriteX0 == {<<I("ADDI", x(0), x(1), 1)>>}
LateBranch ==
  {<<R("MUL", x(1), x(2), x(2)), B(x(1), x(0), 12)>>
     \o [i \in 1 .. 4 |-> I("ADDI", x(2), x(2), 1)]}

(* Readme.md: the LSQ tracks memory dependences.  A load that has executed *)
(* holds the data of the youngest older store in flight to its word, if    *)
(* that store has executed.                                                *)
SameWord(j, k) ==
  /\ memory_kind(rob[j].op) = memory_kind(rob[k].op)
  /\ lsq[rob[j].lsq_idx].address = lsq[rob[k].lsq_idx].address
YoungestOlderStore(j, k) ==
  LET Stores == {i \in RobIdx : /\ InFlight(i) /\ Older(i, k)
                                /\ is_store_op(rob[i].op)
                                /\ rob[i].state = "EXECUTED" /\ SameWord(i, k)}
  IN j \in Stores /\ \A i \in Stores : i = j \/ Older(i, j)
LoadsSeeOlderStores ==
  \A j, k \in RobIdx :
    /\ InFlight(k) /\ is_load_op(rob[k].op) /\ rob[k].state = "EXECUTED"
    /\ YoungestOlderStore(j, k)
    => rob[k].result = lsq[rob[j].lsq_idx].data

(* simulate(), where it skips the initial value of x0: x0 is hardwired to 0. *)
X0Hardwired == regs[x(0)] = <<"int", 0>>

(* Readme.md: the next pc of a taken BNE is its pc + imm. *)
BneTarget ==
  [][\A u \in Redirecting :
       stage = "advance" /\ fus[u].op = "BNE" =>
         next_fetch_branch' = rob[fus[u].rob_idx].instr
                                + Words(rs[StationOf(u)].A)]_vars
=============================================================================

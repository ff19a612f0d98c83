-------------------------- MODULE InstructionWindow --------------------------
(***************************************************************************)
(* What reorder buffer, load-store queue, stations and units are for: a    *)
(* window onto the program in which instructions execute in any order.     *)
(* They enter the window one at a time at its end, each at its own moment  *)
(* begins and completes, and they leave it, executed, one at a time from   *)
(* its front.  No indices, tags or flags: the hardware shows only in how   *)
(* many instructions of a kind the window has room for.                    *)
(***************************************************************************)
EXTENDS Instructions, Sequences, FiniteSets

CONSTANTS
  ROB_SIZE,         \* instructions in the window
  LSQ_SIZE,         \* loads and stores in the window
  NUM_RS, NUM_FU,   \* of one class: not yet executed, and executing
  Programs

VARIABLES
  program,
  window            \* the instructions in flight, oldest first

windowVars == <<program, window>>

InState(states) == {n \in DOMAIN window : window[n].state \in states}
Accesses == {n \in DOMAIN window : is_memory_op(window[n].op)}
OfClass(t) == {n \in DOMAIN window : station_type(window[n].op) = t}

Fits ==
  /\ Len(window) <= ROB_SIZE
  /\ Cardinality(Accesses) <= LSQ_SIZE
  /\ \A t \in RSType :
       /\ Cardinality(OfClass(t) \cap InState({"ISSUED", "EXECUTING"})) <= NUM_RS[t]
       /\ Cardinality(OfClass(t) \cap InState({"EXECUTING"})) <= NUM_FU[t]

WindowInit == program \in Programs /\ window = <<>>

(* Which instruction comes next is a matter of the branches before it. *)
EnterWindow ==
  \E i \in 0 .. Len(program)-1 :
    /\ station_type(program[i + 1].op) \in RSType
    /\ window' = Append(window, [instr |-> i, op |-> program[i + 1].op,
                                 state |-> "ISSUED"])

Moved(S, state) ==
  [n \in DOMAIN window |->
     IF n \in S THEN [window[n] EXCEPT !.state = state] ELSE window[n]]
Begin == \E S \in SUBSET InState({"ISSUED"}) : window' = Moved(S, "EXECUTING")
Complete == \E S \in SUBSET InState({"EXECUTING"}) : window' = Moved(S, "EXECUTED")

LeaveWindow ==
  /\ window # <<>> /\ Head(window).state = "EXECUTED"
  /\ window' = Tail(window)

WindowNext == /\ EnterWindow \/ Begin \/ Complete \/ LeaveWindow
              /\ UNCHANGED program
              /\ Fits'

WindowSpec == WindowInit /\ [][WindowNext]_windowVars
=============================================================================

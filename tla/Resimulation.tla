---------------------------- MODULE Resimulation ----------------------------
(***************************************************************************)
(* simulate() called again after it has returned.  tomasulo_sim.h exports  *)
(* it and its state is global, so a second call meets what the first one   *)
(* left.  (main makes one call; when simulate() throws, main exits.)       *)
(***************************************************************************)
EXTENDS TomasuloProperties

GlobalsCleared ==
  /\ regs_status' = [r \in Reg |-> NoTag]
  /\ rs' = [s \in StationId |-> IdleStation]
  /\ fus' = [u \in UnitId |-> IdleUnit]
  /\ rob' = [k \in RobIdx |-> EmptyEntry] /\ rob_tail' = 0 /\ rob_count' = 0
  /\ lsq' = [q \in LsqIdx |-> EmptySlot] /\ lsq_tail' = 0 /\ lsq_count' = 0
  /\ next_fetch_idx' = 0
  /\ stage' = IF Unfinished(0, 0)' THEN "commit" ELSE "done"
InputsLoaded ==
  instruction_queue' \in Programs /\ regs' \in InitRegs /\ memory' \in InitMemory

SlipCallKeepsHead ==
  /\ stage = "done" /\ InputsLoaded /\ GlobalsCleared
  /\ UNCHANGED <<rob_head, cdb_list, next_fetch_branch>>
SlipCallKeepsMemory ==
  /\ stage = "done" /\ instruction_queue' \in Programs /\ regs' \in InitRegs
  /\ GlobalsCleared /\ rob_head' = 0
  /\ UNCHANGED <<memory, cdb_list, next_fetch_branch>>
(* The call resets everything but where it fetches; the first executeFU of *)
(* its loop clears cdb_list before anything reads it.                      *)
CallAgain ==
  /\ stage = "done" /\ InputsLoaded /\ GlobalsCleared /\ rob_head' = 0
  /\ UNCHANGED <<cdb_list, next_fetch_branch>>

(* Every turn of the loop ends, so a call that has begun goes on; nobody   *)
(* has to call again.                                                      *)
CallsSpec == Init /\ [][Next \/ CallAgain]_vars /\ WF_vars(Next)
-----------------------------------------------------------------------------
(* Whatever was called before, a call of simulate() starts from the        *)
(* registers and the memory it is given, at the index at which the last    *)
(* one stopped, and commits one instruction at a time like the in-order    *)
(* machine: of what an earlier call left in a station, a unit, a queue or  *)
(* a table nothing is seen but this index.                                 *)
EachCallInOrder ==
  [][\/ InOrder!Step
     \/ /\ stage = "done" /\ CommittedPC' = CommittedPC
        /\ instruction_queue' \in Programs
        /\ regs' \in InitRegs /\ memory' \in InitMemory]_(InOrder!isaVars)

(* Every call of simulate() returns. *)
EveryCallReturns == []<>(stage = "done")

(* simulate() begins with the comment "initialise the global state": a     *)
(* call executes its program from the first instruction.                   *)
CallsStartAtFirst == [][CallAgain => CommittedPC' = 0]_vars
=============================================================================

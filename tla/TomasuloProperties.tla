------------------------- MODULE TomasuloProperties -------------------------
(***************************************************************************)
(* What the simulator core promises, as invariants, action properties and  *)
(* the refinement of the in-order machine ISA.                             *)
(***************************************************************************)
EXTENDS TomasuloSim

(* The slots between rob_head and rob_tail hold the instructions in        *)
(* flight, oldest first.                                                   *)
Age(k) == (k - rob_head) % ROB_SIZE
InFlight(k) == k \in RobIdx /\ Age(k) < rob_count
Older(j, k) == Age(j) < Age(k)
Pending(k) == InFlight(k) /\ rob[k].state \in {"ISSUED", "EXECUTING"}
Writes(k, r) == InFlight(k) /\ rob[k].dest = r

StationRecord ==
  [busy : BOOLEAN, op : OpType, Qj : Tag, Vj : OperandValue \cup {NoValue},
   Qk : Tag, Vk : OperandValue \cup {NoValue}, ROB_idx : RobIdx \cup {-1},
   A : Int]
UnitRecord ==
  [busy : BOOLEAN, remaining_cycles : Int, op : OpType, v1 : OperandValue,
   v2 : OperandValue, rob_idx : RobIdx \cup {-1}, rs_idx : Int]
EntryRecord ==
  [busy : BOOLEAN, op : OpType, dest : Reg \cup {NoReg},
   result : OperandValue \cup {NoValue},
   state : {"ISSUED", "EXECUTING", "EXECUTED", "COMMITTED"},
   lsq_idx : LsqIdx \cup {-1}, instr : Int]
SlotRecord ==
  [valid : BOOLEAN, address : 0 .. WORD-1, addr_ready : BOOLEAN,
   data : OperandValue \cup {NoValue}, rob_idx : RobIdx \cup {-1}]

(* The type of every variable.  The bounds of lsq_count are part of        *)
(* LsqMatchesRob: they depend on what the ROB holds.                       *)
TypeOK ==
  /\ regs \in [Reg -> OperandValue]
  /\ regs_status \in [Reg -> Tag]
  /\ DOMAIN memory \subseteq MemKey
  /\ memory \in [DOMAIN memory -> OperandValue]
  /\ rs \in [StationId -> StationRecord]
  /\ fus \in [UnitId -> UnitRecord]
  /\ rob \in [RobIdx -> EntryRecord]
  /\ rob_head \in RobIdx /\ rob_tail \in RobIdx /\ rob_count \in 0 .. ROB_SIZE
  /\ lsq \in [LsqIdx -> SlotRecord]
  /\ lsq_tail \in LsqIdx /\ lsq_count \in Int
  /\ cdb_list \subseteq [producer_id : RobIdx, value : OperandValue]
  /\ instruction_queue \in Seq(Instruction)
  /\ next_fetch_idx \in Int /\ next_fetch_branch \in Int
  /\ stage \in Stage
-----------------------------------------------------------------------------
(* Invariants of every program.                                            *)

(* The ROB is a ring: its tail is its head plus its count, and exactly the *)
(* counted slots hold live instructions, although issue_instruction writes *)
(* the slot at the tail before it knows whether it will issue.             *)
RobIsARing ==
  /\ rob_tail = (rob_head + rob_count) % ROB_SIZE
  /\ \A k \in RobIdx : InFlight(k) => rob[k].busy /\ rob[k].state # "COMMITTED"
  /\ \A k \in RobIdx : rob[k].busy => InFlight(k) \/ k = rob_tail

(* The LSQ holds exactly the loads and stores in flight, in program order, *)
(* although its slots are given back one by one as the ROB commits and its *)
(* head index is never moved.                                              *)
LsqMatchesRob ==
  /\ \A k \in RobIdx : InFlight(k) /\ is_memory_op(rob[k].op) =>
       /\ rob[k].lsq_idx \in LsqIdx
       /\ lsq[rob[k].lsq_idx].valid /\ lsq[rob[k].lsq_idx].rob_idx = k
       /\ (lsq_tail - rob[k].lsq_idx - 1) % LSQ_SIZE =
            Cardinality({i \in RobIdx : InFlight(i) /\ Older(k, i)
                                        /\ is_memory_op(rob[i].op)})
  /\ lsq_count = Cardinality({k \in RobIdx : InFlight(k)
                                             /\ is_memory_op(rob[k].op)})
  /\ lsq_count = Cardinality({q \in LsqIdx : lsq[q].valid})

(* A busy station works for one pending ROB entry, no two stations for the *)
(* same one, and every pending entry has its station: no instruction in    *)
(* flight is orphaned and no result is delivered to a reused entry.        *)
StationsServeRob ==
  /\ \A s \in StationId : rs[s].busy =>
       /\ Pending(rs[s].ROB_idx)
       /\ s[1] = station_type(rob[rs[s].ROB_idx].op)
       /\ rs[s].op = rob[rs[s].ROB_idx].op
  /\ \A s, w \in StationId : rs[s].busy /\ rs[w].busy
       /\ rs[s].ROB_idx = rs[w].ROB_idx => s = w
  /\ \A k \in RobIdx : Pending(k) =>
       \E s \in StationId : rs[s].busy /\ rs[s].ROB_idx = k

(* A busy unit executes the operation its station still holds, for the ROB *)
(* entry the station names; an entry is EXECUTING exactly while one unit   *)
(* works for it.                                                           *)
UnitsServeStations ==
  /\ \A u \in UnitId : fus[u].busy =>
       /\ StationOf(u) \in StationId /\ rs[StationOf(u)].busy
       /\ rs[StationOf(u)].ROB_idx = fus[u].rob_idx
       /\ rob[fus[u].rob_idx].state = "EXECUTING"
       /\ fus[u].remaining_cycles > 0
  /\ \A u, w \in UnitId : fus[u].busy /\ fus[w].busy
       /\ fus[u].rob_idx = fus[w].rob_idx => u = w
  /\ \A k \in RobIdx : InFlight(k) /\ rob[k].state = "EXECUTING" =>
       \E u \in UnitId : fus[u].busy /\ fus[u].rob_idx = k

(* The address and the data of a load or store are in its LSQ slot exactly *)
(* when it has executed, so commit_head_of_rob never finds the head store  *)
(* without them ("in theory ready after execute", its comment says).       *)
LsqReadyWhenExecuted ==
  \A k \in RobIdx : InFlight(k) /\ is_memory_op(rob[k].op) =>
    LET slot == lsq[rob[k].lsq_idx] IN
      /\ slot.addr_ready <=> rob[k].state = "EXECUTED"
      /\ is_store_op(rob[k].op) => (slot.data # NoValue <=> slot.addr_ready)

(* Between issue and commit an entry keeps its instruction, and its state  *)
(* only moves forward, one phase at a time; it leaves the ROB executed,    *)
(* from the head, and enters it at the tail.                               *)
Phase(k) == CASE rob[k].state = "ISSUED" -> 0 [] rob[k].state = "EXECUTING" -> 1
              [] rob[k].state = "EXECUTED" -> 2 [] OTHER -> 3
EntriesProgress ==
  [][\A k \in RobIdx :
       /\ InFlight(k) /\ InFlight(k)' =>
            /\ \A field \in {"instr", "op", "dest", "lsq_idx"} :
                 rob'[k][field] = rob[k][field]
            /\ Phase(k)' \in {Phase(k), Phase(k) + 1}
       /\ InFlight(k) /\ ~InFlight(k)' => k = rob_head /\ Phase(k) = 2
       /\ ~InFlight(k) /\ InFlight(k)' => k = rob_tail /\ Phase(k)' = 0]_vars

(* The ROB from head to tail, and what its indices stand for: a window     *)
(* onto the program whose instructions execute in any order, but enter and *)
(* leave it in order, and never more of them than the LSQ, the stations    *)
(* and the units have room for.                                            *)
SlotAt(n) == (rob_head + n - 1) % ROB_SIZE
Window == [n \in 1 .. rob_count |->
             [instr |-> rob[SlotAt(n)].instr, op |-> rob[SlotAt(n)].op,
              state |-> rob[SlotAt(n)].state]]

OutOfOrder == INSTANCE InstructionWindow
                WITH program <- instruction_queue, window <- Window

RefinesWindow == OutOfOrder!WindowSpec

(* What an inductive argument needs besides TypeOK and RobIsARing: every   *)
(* index that a busy structure will use as a subscript is one.             *)
SubscriptsInRange ==
  /\ \A k \in RobIdx : InFlight(k) /\ is_memory_op(rob[k].op) =>
       rob[k].lsq_idx \in LsqIdx
  /\ \A s \in StationId : rs[s].busy => rs[s].ROB_idx \in RobIdx
  /\ \A u \in UnitId : fus[u].busy =>
       fus[u].rob_idx \in RobIdx /\ StationOf(u) \in StationId
RingInv == TypeOK /\ RobIsARing /\ SubscriptsInRange
-----------------------------------------------------------------------------
(* What keeps the simulator to program order.                              *)

(* Of the program: that its instructions are as the decoder makes them,    *)
(* that they mean what the simulator computes (JALR links and AUIPC adds   *)
(* rs.A, x0 can be written), and that they have the registers that takes.  *)
WellFormed ==
  \A n \in 1 .. Len(instruction_queue) :
    WellFormedInstruction(instruction_queue[n])
Supported(i) ==
  /\ i.op \notin {"JALR", "AUIPC"} /\ i.dest # <<"int", 0>>
  /\ i.op \notin {"LUI", "EBREAK", "UNKNOWN"} => i.src1 # NoReg
  /\ is_store_op(i.op) => i.src2 # NoReg
  /\ i.op = "BNE" => i.dest = NoReg /\ i.imm % 4 = 0
  /\ i.op = "LUI" => i.src2 = NoReg
AllSupported ==
  \A n \in 1 .. Len(instruction_queue) : Supported(instruction_queue[n])

(* Of the run: that failed attempts to issue do no harm.  Such an attempt  *)
(* may have mapped r to the entry the next one will fill; no branch comes  *)
(* between the two, and no attempt reads what an earlier one renamed.      *)
Retried(r) == regs_status[r] = rob_tail /\ rob_count < ROB_SIZE
RetryUndisturbed ==
  stage = "advance" /\ Redirecting # {} => \A r \in Reg : ~Retried(r)
RetryReadsOthers ==
  stage = "issue" /\ CanFetch =>
    \A r \in Reg \cap {Instr.src1, Instr.src2} : ~Retried(r)

(* That a store commits before a younger load of its location executes,    *)
(* and that a branch is taken before anything is fetched behind it.        *)
LocationOf(k) == <<memory_kind(rob[k].op), lsq[rob[k].lsq_idx].address>>
LoadsInOrder ==
  stage = "commit" /\ CanCommit /\ is_store_op(HeadEntry.op) =>
    \A k \in RobIdx :
      InFlight(k) /\ is_load_op(rob[k].op) /\ rob[k].state = "EXECUTED"
        => LocationOf(k) # LocationOf(rob_head)
BranchesInTime ==
  stage = "advance" => \A u \in Redirecting : NextRob(fus[u].rob_idx) = rob_tail

(* All of it: no instruction overtakes an older one in a way that the      *)
(* simulator does not notice.  Where this holds, the committed state is    *)
(* that of ISA.                                                            *)
Ordered ==
  /\ WellFormed /\ RetryUndisturbed /\ RetryReadsOthers
  /\ AllSupported /\ LoadsInOrder /\ BranchesInTime
-----------------------------------------------------------------------------
(* Invariants of programs without jumps whose instructions do not stall    *)
(* with a destination that is also a source.                               *)

(* The status table names, for every register, the youngest instruction in *)
(* flight that writes it, or nothing; or, after a failed attempt to issue, *)
(* the entry that the next attempt will fill for that register.            *)
RenameTable ==
  \A r \in Reg :
    LET tag == regs_status[r] IN
      \/ tag = NoTag /\ \A k \in RobIdx : ~Writes(k, r)
      \/ /\ tag # NoTag /\ Writes(tag, r)
         /\ \A k \in RobIdx : Writes(k, r) => k = tag \/ Older(k, tag)
      \/ /\ tag = rob_tail /\ rob_count < ROB_SIZE
         /\ InProgram(next_fetch_branch) /\ Instr.dest = r

(* A station waits only for an older instruction that will still broadcast *)
(* and that produces a value of the kind it waits for.                     *)
Awaits(s, tag, kind) ==
  /\ InFlight(tag) /\ Older(tag, rs[s].ROB_idx)
  /\ rob[tag].dest[1] = kind
  /\ rob[tag].state = "EXECUTED" =>
       stage \in {"issue", "broadcast"} /\ Heard(tag) # {}
NoLostWakeup ==
  \A s \in StationId : rs[s].busy =>
    /\ rs[s].Qj # NoTag => Awaits(s, rs[s].Qj, operand_kind_1(rs[s].op))
    /\ rs[s].Qk # NoTag => Awaits(s, rs[s].Qk, "int") \/ Awaits(s, rs[s].Qk, "fp")

(* The simulator never waits for itself: the head has its operands as soon *)
(* as it is the head, and is committed as soon as it has executed; while   *)
(* anything is in flight, either the head has executed or a unit counts    *)
(* down; and while nothing is, nothing keeps the next instruction out      *)
(* (unless no array takes it: then simulate() never returns).              *)
NeverStuck ==
  /\ rob_count > 0 =>
       /\ HeadEntry.state = "ISSUED" =>
            \E s \in StationId :
              rs[s].ROB_idx = rob_head /\ s[2] \in Ready(s[1])
       /\ HeadEntry.state = "EXECUTED" => CanCommit
       /\ stage = "advance" =>
            HeadEntry.state = "EXECUTED" \/ \E u \in UnitId : fus[u].busy
  /\ rob_count = 0 /\ stage = "issue" /\ CanFetch /\ Type \in RSType =>
       ~RobFull /\ ~LsqFull /\ ~NoStation

(* When simulate() returns nothing is left behind: no busy station or      *)
(* unit, no LSQ slot, no register still renamed.                           *)
QuiescentAtEnd ==
  stage = "done" =>
    /\ \A s \in StationId : ~rs[s].busy
    /\ \A u \in UnitId : ~fus[u].busy
    /\ lsq_count = 0
    /\ \A r \in Reg : regs_status[r] = NoTag
-----------------------------------------------------------------------------
(* The committed state is that of the in-order machine: an instruction     *)
(* takes effect when it commits, with the operands and the memory of       *)
(* program order, and every instruction of the program eventually does.    *)
CommittedPC == IF rob_count > 0 THEN HeadEntry.instr ELSE next_fetch_branch

InOrder == INSTANCE ISA WITH program <- instruction_queue, pc <- CommittedPC,
                             alu <- compute_result

RefinesISA == InOrder!ISASpec

(* Its safety half, which a proof can reach: no instruction takes effect   *)
(* early, twice, with a stale operand, or on a path not taken.             *)
ExecutesInOrder == InOrder!ISAInit /\ [][InOrder!Step]_(InOrder!isaVars)

(* simulate() returns. *)
Termination == <>(stage = "done")
=============================================================================

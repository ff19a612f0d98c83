---------------------------- MODULE TomasuloSim -----------------------------
(***************************************************************************)
(* The simulator core, tomasulo_sim.cpp: reservation stations, functional  *)
(* units, reorder buffer (ROB), load-store queue (LSQ), register status    *)
(* table and common data bus, driven by the cycle loop of simulate().      *)
(*                                                                         *)
(* The program is sequential.  One turn of the loop calls                  *)
(*   commit_head_of_rob; executeFU (launch, then advance every unit);      *)
(*   the branch redirect and issue_instruction; CDB_broadcast              *)
(* and stage says which call comes next, so a turn is five steps of this   *)
(* specification.  What varies is the input: the program, the initial      *)
(* registers and the initial memory are chosen in Init.                    *)
(***************************************************************************)
EXTENDS Instructions, Sequences, FiniteSets

CONSTANTS
  ROB_SIZE,               \* number of ROB entries
  LSQ_SIZE,               \* number of LSQ entries
  NUM_RS,                 \* stations in each array, a function on RSType
  NUM_FU,                 \* functional units in each array, likewise
  IntRegs, FpRegs,        \* the register numbers in use
  WORD,                   \* a uint64_t is a number in 0 .. WORD-1
  F64,                    \* the doubles the model distinguishes
  compute_result(_, _, _),\* FunctionalUnit::compute_result, by operation
  NoValue,                \* an empty std::optional<OperandValue>
  Programs,               \* the instruction sequences simulate() is given
  InitRegs, InitMemory    \* the initial register files and memories

Reg == ({"int"} \X IntRegs) \cup ({"fp"} \X FpRegs)
OperandValue == ({"int"} \X (0 .. WORD-1)) \cup ({"fp"} \X F64)
MemKey == Kind \X (0 .. WORD-1)
Instruction == [op : OpType, src1 : Reg \cup {NoReg}, src2 : Reg \cup {NoReg},
                dest : Reg \cup {NoReg}, imm : Int]

RobIdx == 0 .. ROB_SIZE-1
LsqIdx == 0 .. LSQ_SIZE-1
StationId == UNION {{t} \X (0 .. NUM_RS[t]-1) : t \in RSType}
UnitId    == UNION {{t} \X (0 .. NUM_FU[t]-1) : t \in RSType}

(* A tag "ROBi" is the number i; the empty tag is what get_rob_index makes *)
(* of it.                                                                  *)
NoTag == -1
Tag == RobIdx \cup {NoTag}

ASSUME SizeAssumption ==
  /\ ROB_SIZE \in Nat \ {0} /\ LSQ_SIZE \in Nat \ {0} /\ WORD \in Nat \ {0}
  /\ NUM_RS \in [RSType -> Nat \ {0}] /\ NUM_FU \in [RSType -> Nat \ {0}]
ASSUME ValueAssumption ==
  /\ IntRegs \subseteq 0 .. 31 /\ FpRegs \subseteq 0 .. 31
  /\ F64 \subseteq Int /\ 0 \in F64
  /\ NoValue \notin OperandValue
ASSUME ComputeAssumption ==
  \A op \in OpType, v1, v2 \in OperandValue :
    compute_result(op, v1, v2) \in OperandValue
(* What execute_alu_op computes for the two operations that the in-order   *)
(* machine gives a meaning of their own.                                   *)
ASSUME ControlAssumption ==
  \A v1, v2 \in OperandValue :
    v2[1] = "int" =>
      /\ compute_result("LUI", v1, v2) = v2
      /\ v1[1] = "int" => (compute_result("BNE", v1, v2)[2] = 1 <=> v1 # v2)
ASSUME InputAssumption ==
  /\ Programs \subseteq Seq(Instruction)
  /\ InitRegs \subseteq [Reg -> OperandValue]
  /\ \A m \in InitMemory : /\ DOMAIN m \subseteq MemKey
                           /\ \A a \in DOMAIN m : m[a] \in OperandValue
                           /\ m = [a \in DOMAIN m |-> m[a]]

VARIABLES
  regs,             \* regs_int and regs_fp
  regs_status,      \* regs_int_status and regs_fp_status
  memory,           \* memory_int and memory_fp: absent keys read as zero
  rs,               \* the seven reservation-station arrays
  fus,              \* the seven functional-unit arrays
  rob, rob_head, rob_tail, rob_count,
  lsq, lsq_tail, lsq_count,   \* lsq_head exists but nothing moves or reads it
  cdb_list,         \* a set: one turn never broadcasts a tag twice
  instruction_queue,
  next_fetch_idx,   \* a size_t; a negative number is one past every index
  next_fetch_branch,
  stage             \* the call of the cycle loop that comes next

robVars == <<rob, rob_head, rob_tail, rob_count>>
lsqVars == <<lsq, lsq_tail, lsq_count>>
fetchVars == <<instruction_queue, next_fetch_idx, next_fetch_branch>>
vars == <<regs, regs_status, memory, rs, fus, robVars, lsqVars, cdb_list,
          fetchVars, stage>>

Stage == {"commit", "launch", "advance", "issue", "broadcast", "done", "threw"}
-----------------------------------------------------------------------------
IdleStation == [busy |-> FALSE, op |-> "UNKNOWN", Qj |-> NoTag, Vj |-> NoValue,
                Qk |-> NoTag, Vk |-> NoValue, ROB_idx |-> -1, A |-> 0]
IdleUnit == [busy |-> FALSE, remaining_cycles |-> 0, op |-> "UNKNOWN",
             v1 |-> <<"int", 0>>, v2 |-> <<"int", 0>>, rob_idx |-> -1,
             rs_idx |-> -1]
(* ROBEntry.instr, the copy of the instruction, is kept as its index in    *)
(* instruction_queue; is_load and is_store are functions of op.            *)
EmptyEntry == [busy |-> FALSE, op |-> "UNKNOWN", dest |-> NoReg,
               result |-> NoValue, state |-> "ISSUED", lsq_idx |-> -1,
               instr |-> 0]
EmptySlot == [valid |-> FALSE, address |-> 0, addr_ready |-> FALSE,
              data |-> NoValue, rob_idx |-> -1]

(* Operators named Slip... are mistakes one could make in the definition   *)
(* that follows; the specification does not use them.                      *)
SlipNextRobNoWrap(i) == i + 1
NextRob(i) == (i + 1) % ROB_SIZE
SlipNextLsqStays(i) == i
NextLsq(i) == (i + 1) % LSQ_SIZE

InProgram(i) == i \in 0 .. Len(instruction_queue)-1

SlipUnfinishedAtLastFetch(fetch, count) == InProgram(fetch)
(* The loop condition of simulate(). *)
Unfinished(fetch, count) == InProgram(fetch) \/ count > 0

(* What simulate() does before its loop.  It resets neither                *)
(* next_fetch_branch nor cdb_list, which are zero and empty only when the  *)
(* process starts.                                                         *)
Started ==
  /\ instruction_queue \in Programs
  /\ regs \in InitRegs
  /\ memory \in InitMemory
  /\ regs_status = [r \in Reg |-> NoTag]
  /\ rs = [s \in StationId |-> IdleStation]
  /\ fus = [u \in UnitId |-> IdleUnit]
  /\ rob = [k \in RobIdx |-> EmptyEntry]
  /\ rob_head = 0 /\ rob_tail = 0 /\ rob_count = 0
  /\ lsq = [q \in LsqIdx |-> EmptySlot]
  /\ lsq_tail = 0 /\ lsq_count = 0
  /\ next_fetch_idx = 0
  /\ stage = IF Unfinished(0, 0) THEN "commit" ELSE "done"

Init == Started /\ cdb_list = {} /\ next_fetch_branch = 0
-----------------------------------------------------------------------------
(* commit_head_of_rob *)

HeadEntry == rob[rob_head]

SlipCanCommitUnexecuted == rob_count > 0 /\ HeadEntry.state # "ISSUED"
(* A store waits for its LSQ slot.  The guards on lsq_idx # -1 in the code *)
(* are left out: issue_instruction gives every load and store a slot.      *)
CanCommit ==
  /\ rob_count > 0
  /\ HeadEntry.state = "EXECUTED"
  /\ is_store_op(HeadEntry.op) =>
       lsq[HeadEntry.lsq_idx].addr_ready /\ lsq[HeadEntry.lsq_idx].data # NoValue

(* to_int or to_fp throws on a value of the other kind. *)
CommitMismatch ==
  IF is_store_op(HeadEntry.op)
  THEN lsq[HeadEntry.lsq_idx].data[1] # memory_kind(HeadEntry.op)
  ELSE /\ HeadEntry.result # NoValue /\ HeadEntry.dest # NoReg
       /\ HeadEntry.result[1] # HeadEntry.dest[1]

SlipReleaseRobStillBusy ==
  /\ rob' = [rob EXCEPT ![rob_head].state = "COMMITTED"]
  /\ rob_head' = NextRob(rob_head)
  /\ rob_count' = rob_count - 1
  /\ UNCHANGED rob_tail
ReleaseRob ==
  /\ rob' = [rob EXCEPT ![rob_head].busy = FALSE,
                        ![rob_head].state = "COMMITTED"]
  /\ rob_head' = NextRob(rob_head)
  /\ rob_count' = rob_count - 1
  /\ UNCHANGED rob_tail

SlipReleaseLsqUncounted ==
  /\ lsq' = [lsq EXCEPT ![HeadEntry.lsq_idx].valid = FALSE]
  /\ UNCHANGED <<lsq_count, lsq_tail>>
ReleaseLsq ==
  /\ lsq' = [lsq EXCEPT ![HeadEntry.lsq_idx].valid = FALSE]
  /\ lsq_count' = lsq_count - 1
  /\ UNCHANGED lsq_tail

SlipReleaseStatusAlways(r) == [regs_status EXCEPT ![r] = NoTag]
(* The status entry is released only if this instruction still owns it. *)
ReleaseStatus(r) ==
  IF regs_status[r] = rob_head THEN [regs_status EXCEPT ![r] = NoTag]
  ELSE regs_status

CommitNothing ==
  /\ stage = "commit" /\ ~CanCommit
  /\ stage' = "launch"
  /\ UNCHANGED <<regs, regs_status, memory, rs, fus, robVars, lsqVars,
                 cdb_list, fetchVars>>

CommitStore ==
  /\ stage = "commit" /\ CanCommit /\ ~CommitMismatch
  /\ is_store_op(HeadEntry.op)
  /\ LET slot == lsq[HeadEntry.lsq_idx]
         key  == <<memory_kind(HeadEntry.op), slot.address>>
     IN memory' = [a \in DOMAIN memory \cup {key} |->
                     IF a = key THEN slot.data ELSE memory[a]]
  /\ ReleaseLsq
  /\ ReleaseRob
  /\ stage' = "launch"
  /\ UNCHANGED <<regs, regs_status, rs, fus, cdb_list, fetchVars>>

CommitRegister ==
  /\ stage = "commit" /\ CanCommit /\ ~CommitMismatch
  /\ ~is_store_op(HeadEntry.op)
  /\ IF HeadEntry.result # NoValue /\ HeadEntry.dest # NoReg
     THEN /\ regs' = [regs EXCEPT ![HeadEntry.dest] = HeadEntry.result]
          /\ regs_status' = ReleaseStatus(HeadEntry.dest)
     ELSE UNCHANGED <<regs, regs_status>>
  /\ IF is_load_op(HeadEntry.op) THEN ReleaseLsq ELSE UNCHANGED lsqVars
  /\ ReleaseRob
  /\ stage' = "launch"
  /\ UNCHANGED <<memory, rs, fus, cdb_list, fetchVars>>

(* The exception leaves simulate(); main reports it and exits. *)
CommitThrow ==
  /\ stage = "commit" /\ CanCommit /\ CommitMismatch
  /\ stage' = "threw"
  /\ UNCHANGED <<regs, regs_status, memory, rs, fus, robVars, lsqVars,
                 cdb_list, fetchVars>>
-----------------------------------------------------------------------------
(* executeFU, first half: try_launch_to_fu on every array *)

SlipReadyWithoutQk(t) ==
  {i \in 0 .. NUM_RS[t]-1 :
     /\ rs[<<t, i>>].busy /\ rs[<<t, i>>].Qj = NoTag
     /\ t # "LOAD" => rs[<<t, i>>].Vk # NoValue
     /\ rob[rs[<<t, i>>].ROB_idx].state = "ISSUED"}
SlipReadyAgain(t) ==
  {i \in 0 .. NUM_RS[t]-1 :
     /\ rs[<<t, i>>].busy /\ rs[<<t, i>>].Qj = NoTag
     /\ t # "LOAD" => rs[<<t, i>>].Qk = NoTag /\ rs[<<t, i>>].Vk # NoValue}
Ready(t) ==
  {i \in 0 .. NUM_RS[t]-1 :
     LET s == rs[<<t, i>>] IN
       /\ s.busy
       /\ s.Qj = NoTag
       /\ t # "LOAD" => s.Qk = NoTag /\ s.Vk # NoValue
       /\ rob[s.ROB_idx].state = "ISSUED"}

Idle(t) == {j \in 0 .. NUM_FU[t]-1 : ~fus[<<t, j>>].busy}

(* Stations and units are scanned by index: the n-th ready station gets    *)
(* the n-th idle unit.                                                     *)
Rank(x, S) == Cardinality({y \in S : y < x})
Launches(t, i, j) ==
  i \in Ready(t) /\ j \in Idle(t) /\ Rank(i, Ready(t)) = Rank(j, Idle(t))

(* LUI and AUIPC have no first operand: *rs.Vj is then what an earlier     *)
(* occupant left, or the zero bytes of an optional that was never set.     *)
Contents(V) == IF V = NoValue THEN <<"int", 0>> ELSE V

LaunchedUnit(t, i) ==
  LET s == rs[<<t, i>>] IN
    [busy |-> TRUE, remaining_cycles |-> get_latency(s.op), op |-> s.op,
     v1 |-> Contents(s.Vj), v2 |-> IF t = "LOAD" THEN <<"fp", 0>> ELSE s.Vk,
     rob_idx |-> s.ROB_idx, rs_idx |-> i]

LaunchedEntries ==
  {rs[s].ROB_idx : s \in
     {w \in StationId : \E j \in Idle(w[1]) : Launches(w[1], w[2], j)}}

Launch ==
  /\ stage = "launch"
  /\ fus' = [u \in UnitId |->
               IF \E i \in Ready(u[1]) : Launches(u[1], i, u[2])
               THEN LaunchedUnit(u[1],
                      CHOOSE i \in Ready(u[1]) : Launches(u[1], i, u[2]))
               ELSE fus[u]]
  /\ rob' = [k \in RobIdx |->
               IF k \in LaunchedEntries
               THEN [rob[k] EXCEPT !.state = "EXECUTING"] ELSE rob[k]]
  /\ stage' = "advance"
  /\ UNCHANGED <<regs, regs_status, memory, rs, rob_head, rob_tail, rob_count,
                 lsqVars, cdb_list, fetchVars>>
-----------------------------------------------------------------------------
(* executeFU, second half: process_fu_array on every array *)

SlipCompletedOneLate ==
  {u \in UnitId : fus[u].busy /\ fus[u].remaining_cycles = 0}
(* The count reaches zero in this call. *)
Completed == {u \in UnitId : fus[u].busy /\ fus[u].remaining_cycles = 1}
StationOf(u) == <<u[1], fus[u].rs_idx>>

(* A load or a store takes effect only while its station is busy. *)
Delivered ==
  {u \in Completed : u[1] \in {"LOAD", "STORE"} => rs[StationOf(u)].busy}

(* The to_int and to_fp of the executors throw on the other kind. *)
WrongKind(u) ==
  \/ fus[u].v1[1] # operand_kind_1(fus[u].op)
  \/ /\ operand_kind_2(fus[u].op) # "unread"
     /\ fus[u].v2[1] # operand_kind_2(fus[u].op)

SlipAddressNoOffset(u) == fus[u].v1[2] % WORD
SlipAddressSwapped(u) == (fus[u].v2[2] + rs[StationOf(u)].A) % WORD
Address(u) == (fus[u].v1[2] + rs[StationOf(u)].A) % WORD

(* Memory is read as it is now: the LSQ is not searched for older stores.  *)
LoadValue(u) ==
  LET key == <<memory_kind(rs[StationOf(u)].op), Address(u)>>
  IN IF key \in DOMAIN memory THEN memory[key] ELSE <<key[1], 0>>

Result(u) ==
  IF u[1] = "LOAD" THEN LoadValue(u)
  ELSE compute_result(fus[u].op, fus[u].v1, fus[u].v2)

(* C++ integer division truncates. *)
Words(n) == IF n >= 0 THEN n \div 4 ELSE -((-n) \div 4)

SlipRedirectingAlways ==
  {u \in Delivered : rs[StationOf(u)].op \in {"BNE", "JALR"}}
(* A BNE whose condition holds, or a JALR, resets the fetch index: the BNE *)
(* relative to the instruction before next_fetch_idx, which is the BNE     *)
(* itself only if nothing was issued since; the JALR from its result.      *)
Redirecting ==
  {u \in Delivered : \/ rs[StationOf(u)].op = "BNE" /\ Result(u)[2] = 1
                     \/ rs[StationOf(u)].op = "JALR"}
SlipTargetFromNext(u) == next_fetch_idx + Words(rs[StationOf(u)].A)
Target(u) ==
  LET A == rs[StationOf(u)].A IN
    IF rs[StationOf(u)].op = "BNE" THEN next_fetch_idx - 1 + Words(A)
    ELSE ((Result(u)[2] + A) % WORD) \div 4

(* The units are visited by index, so the last one to redirect wins. *)
Redirect ==
  \/ Redirecting = {} /\ UNCHANGED next_fetch_branch
  \/ \E u \in Redirecting :
       /\ \A w \in Redirecting : w[2] <= u[2]
       /\ next_fetch_branch' = Target(u)

DeliveredTo(k) == {u \in Delivered : fus[u].rob_idx = k}
AddressedTo(q) ==
  {u \in Delivered : /\ u[1] \in {"LOAD", "STORE"}
                     /\ rob[fus[u].rob_idx].lsq_idx = q}

CompletedEntry(k, u) ==
  [rob[k] EXCEPT !.state = "EXECUTED",
                 !.result = IF u[1] = "STORE" THEN @ ELSE Result(u)]
AddressedSlot(q, u) ==
  [lsq[q] EXCEPT !.address = Address(u), !.addr_ready = TRUE,
                 !.data = IF u[1] = "STORE" THEN fus[u].v2 ELSE @]

Advance ==
  /\ stage = "advance" /\ \A u \in Delivered : ~WrongKind(u)
  /\ rob' = [k \in RobIdx |->
               IF DeliveredTo(k) = {} THEN rob[k]
               ELSE CompletedEntry(k, CHOOSE u \in DeliveredTo(k) : TRUE)]
  /\ lsq' = [q \in LsqIdx |->
               IF AddressedTo(q) = {} THEN lsq[q]
               ELSE AddressedSlot(q, CHOOSE u \in AddressedTo(q) : TRUE)]
  /\ cdb_list' = {[producer_id |-> fus[u].rob_idx, value |-> Result(u)] :
                    u \in {w \in Delivered : w[1] # "STORE"}}
  /\ Redirect
  /\ rs' = [s \in StationId |->
              IF \E u \in Completed : StationOf(u) = s
              THEN [rs[s] EXCEPT !.busy = FALSE] ELSE rs[s]]
  /\ fus' = [u \in UnitId |->
               IF fus[u].busy
               THEN [fus[u] EXCEPT !.busy = u \notin Completed,
                                   !.remaining_cycles = @ - 1]
               ELSE fus[u]]
  /\ stage' = "issue"
  /\ UNCHANGED <<regs, regs_status, memory, rob_head, rob_tail, rob_count,
                 lsq_tail, lsq_count, instruction_queue, next_fetch_idx>>

AdvanceThrow ==
  /\ stage = "advance" /\ \E u \in Delivered : WrongKind(u)
  /\ stage' = "threw"
  /\ UNCHANGED <<regs, regs_status, memory, rs, fus, robVars, lsqVars,
                 cdb_list, fetchVars>>
-----------------------------------------------------------------------------
(* The branch redirect of simulate() and issue_instruction *)

(* next_fetch_branch differs from next_fetch_idx only after a redirect, so *)
(* it is the index to fetch in either case.                                *)
CanFetch == InProgram(next_fetch_branch)
Instr == instruction_queue[next_fetch_branch + 1]
Type == station_type(Instr.op)

NewEntry(lsq_idx) ==
  [busy |-> TRUE, op |-> Instr.op, dest |-> Instr.dest, result |-> NoValue,
   state |-> "ISSUED", lsq_idx |-> lsq_idx, instr |-> next_fetch_branch]

(* The tail entry is written before a station is looked for, so a failed   *)
(* attempt leaves it in the slot, uncounted.                               *)
RobWithNew(lsq_idx) == [rob EXCEPT ![rob_tail] = NewEntry(lsq_idx)]

SlipOperandTagOnly(r, V) ==
  IF r = NoReg THEN [Q |-> NoTag, V |-> V]
  ELSE IF regs_status[r] = NoTag THEN [Q |-> NoTag, V |-> regs[r]]
  ELSE [Q |-> regs_status[r], V |-> V]
SlipOperandAfterRename(r, V) ==
  IF r = NoReg THEN [Q |-> NoTag, V |-> V]
  ELSE IF r = Instr.dest THEN [Q |-> rob_tail, V |-> V]
  ELSE IF regs_status[r] = NoTag THEN [Q |-> NoTag, V |-> regs[r]]
  ELSE IF rob[regs_status[r]].state = "EXECUTED"
       THEN [Q |-> NoTag, V |-> rob[regs_status[r]].result]
  ELSE [Q |-> regs_status[r], V |-> V]
(* What an operand register gives a station whose field holds V so far:    *)
(* the register's value, its producer's result, or the producer's tag.     *)
Operand(r, V) ==
  LET tag == regs_status[r]
      producer == RobWithNew(-1)[tag]
  IN CASE r = NoReg -> [Q |-> NoTag, V |-> V]
       [] r # NoReg /\ tag = NoTag -> [Q |-> NoTag, V |-> regs[r]]
       [] r # NoReg /\ tag # NoTag /\ producer.state = "EXECUTED" ->
            [Q |-> NoTag, V |-> producer.result]
       [] OTHER -> [Q |-> tag, V |-> V]

(* The destination now belongs to the tail entry. *)
Rename ==
  IF Instr.dest = NoReg THEN regs_status
  ELSE [regs_status EXCEPT ![Instr.dest] = rob_tail]

SlipFreeEvenIfBusy == {s \in StationId : s[1] = Type}
(* The free stations of the array; an operation without an array has none. *)
Free == {s \in StationId : s[1] = Type /\ ~rs[s].busy}
NoStation == Free = {}
RobFull == rob_count >= ROB_SIZE
SlipLsqFullTooLate == is_memory_op(Instr.op) /\ lsq_count > LSQ_SIZE
LsqFull == is_memory_op(Instr.op) /\ lsq_count >= LSQ_SIZE

(* What the free station s becomes.  Its tags are empty, cleared or not;   *)
(* Vj and Vk are never cleared, and an operation without src2 takes the    *)
(* immediate for it, except a load, which leaves Vk alone.                 *)
Filled(s) ==
  LET old == rs[s]
      j == Operand(Instr.src1, old.Vj)
      k == IF Instr.src2 = NoReg /\ ~is_memory_op(Instr.op)
           THEN [Q |-> NoTag, V |-> <<"int", Instr.imm % WORD>>]
           ELSE Operand(Instr.src2, old.Vk)
  IN [busy |-> TRUE, op |-> Instr.op, Qj |-> j.Q, Vj |-> j.V,
      Qk |-> k.Q, Vk |-> k.V, ROB_idx |-> rob_tail, A |-> Instr.imm]

Fetch(n) ==
  /\ next_fetch_idx' = next_fetch_branch + n
  /\ stage' = "broadcast"
  /\ UNCHANGED <<regs, memory, fus, rob_head, cdb_list, instruction_queue,
                 next_fetch_branch>>

Enter(lsq_idx) ==
  /\ rob' = RobWithNew(lsq_idx)
  /\ rob_tail' = NextRob(rob_tail)
  /\ rob_count' = rob_count + 1
  /\ \E s \in Free : /\ \A w \in Free : s[2] <= w[2]
                     /\ rs' = [rs EXCEPT ![s] = Filled(s)]
  /\ regs_status' = Rename
  /\ Fetch(1)

(* Nothing left to fetch, or no ROB entry. *)
IssueNothing ==
  /\ stage = "issue" /\ (CanFetch => RobFull)
  /\ Fetch(0)
  /\ UNCHANGED <<regs_status, rs, rob, rob_tail, rob_count, lsqVars>>

IssueArith ==
  /\ stage = "issue" /\ CanFetch /\ ~RobFull
  /\ ~is_memory_op(Instr.op) /\ ~NoStation
  /\ Enter(-1)
  /\ UNCHANGED lsqVars

(* No early return here: the destination is renamed although nothing was   *)
(* issued.                                                                 *)
StallArith ==
  /\ stage = "issue" /\ CanFetch /\ ~RobFull
  /\ ~is_memory_op(Instr.op) /\ NoStation
  /\ rob' = RobWithNew(-1)
  /\ regs_status' = Rename
  /\ Fetch(0)
  /\ UNCHANGED <<rs, rob_tail, rob_count, lsqVars>>

SlipIssueMemoryDirtySlot ==
  /\ stage = "issue" /\ CanFetch /\ ~RobFull
  /\ is_memory_op(Instr.op) /\ ~LsqFull /\ ~NoStation
  /\ Enter(lsq_tail)
  /\ lsq' = [lsq EXCEPT ![lsq_tail].valid = TRUE, ![lsq_tail].rob_idx = rob_tail]
  /\ lsq_tail' = NextLsq(lsq_tail)
  /\ lsq_count' = lsq_count + 1
IssueMemory ==
  /\ stage = "issue" /\ CanFetch /\ ~RobFull
  /\ is_memory_op(Instr.op) /\ ~LsqFull /\ ~NoStation
  /\ Enter(lsq_tail)
  /\ lsq' = [lsq EXCEPT ![lsq_tail] =
               [EmptySlot EXCEPT !.valid = TRUE, !.rob_idx = rob_tail]]
  /\ lsq_tail' = NextLsq(lsq_tail)
  /\ lsq_count' = lsq_count + 1

StallMemory ==
  /\ stage = "issue" /\ CanFetch /\ ~RobFull
  /\ is_memory_op(Instr.op) /\ (LsqFull \/ NoStation)
  /\ rob' = RobWithNew(-1)
  /\ Fetch(0)
  /\ UNCHANGED <<regs_status, rs, rob_tail, rob_count, lsqVars>>
-----------------------------------------------------------------------------
(* CDB_broadcast, and the end of a turn of the loop *)

Heard(tag) == {c \in cdb_list : c.producer_id = tag}
Capture(tag, V) == IF Heard(tag) = {} THEN [Q |-> tag, V |-> V]
                   ELSE [Q |-> NoTag, V |-> (CHOOSE c \in Heard(tag) : TRUE).value]

SlipBroadcastKeepsTarget ==
  /\ stage = "broadcast"
  /\ rs' = [s \in StationId |->
              LET j == Capture(rs[s].Qj, rs[s].Vj)
                  k == Capture(rs[s].Qk, rs[s].Vk)
              IN [rs[s] EXCEPT !.Qj = j.Q, !.Vj = j.V, !.Qk = k.Q, !.Vk = k.V]]
  /\ stage' = IF Unfinished(next_fetch_idx, rob_count) THEN "commit" ELSE "done"
  /\ UNCHANGED <<regs, regs_status, memory, fus, robVars, lsqVars, cdb_list,
                 fetchVars>>
CDB_broadcast ==
  /\ stage = "broadcast"
  /\ rs' = [s \in StationId |->
              LET j == Capture(rs[s].Qj, rs[s].Vj)
                  k == Capture(rs[s].Qk, rs[s].Vk)
              IN [rs[s] EXCEPT !.Qj = j.Q, !.Vj = j.V, !.Qk = k.Q, !.Vk = k.V]]
  /\ next_fetch_branch' = next_fetch_idx
  /\ stage' = IF Unfinished(next_fetch_idx, rob_count) THEN "commit" ELSE "done"
  /\ UNCHANGED <<regs, regs_status, memory, fus, robVars, lsqVars, cdb_list,
                 instruction_queue, next_fetch_idx>>

(* simulate() has returned, or thrown. *)
Stopped == stage \in {"done", "threw"} /\ UNCHANGED vars

Commit == CommitNothing \/ CommitStore \/ CommitRegister \/ CommitThrow
Issue == IssueNothing \/ IssueArith \/ StallArith \/ IssueMemory \/ StallMemory

Next == \/ Commit \/ Launch \/ Advance \/ AdvanceThrow \/ Issue
        \/ CDB_broadcast \/ Stopped

Spec == Init /\ [][Next]_vars

(* The loop is one thread and nothing in it blocks. *)
FairSpec == Spec /\ WF_vars(Next)
=============================================================================

--------------------------- MODULE TomasuloProofs ---------------------------
(***************************************************************************)
(* Theorems about the simulator core, for every size, program, initial     *)
(* state and compute_result that satisfy the assumptions of TomasuloSim.   *)
(***************************************************************************)
EXTENDS TomasuloProperties, TLAPS

(* Arithmetic modulo the size of the ROB. *)
LEMMA ModRob ==
  ASSUME NEW a \in Int, -ROB_SIZE <= a, a < 2 * ROB_SIZE
  PROVE  a % ROB_SIZE = IF a < 0 THEN a + ROB_SIZE
                        ELSE IF a < ROB_SIZE THEN a ELSE a - ROB_SIZE
<1>1. CASE a < 0
  BY <1>1, SizeAssumption
<1>2. CASE 0 <= a /\ a < ROB_SIZE
  BY <1>2, SizeAssumption
<1>3. CASE a >= ROB_SIZE
  BY <1>3, SizeAssumption
<1> QED BY <1>1, <1>2, <1>3, SizeAssumption

(* An index taken modulo the size of the LSQ is one of its slots. *)
LEMMA ModLsq ==
  ASSUME NEW a \in Int PROVE a % LSQ_SIZE \in LsqIdx
BY SizeAssumption DEF LsqIdx

(* Giving back the head removes exactly the head from the ring... *)
LEMMA RingShrinks ==
  ASSUME NEW h \in RobIdx, NEW c \in 1 .. ROB_SIZE, NEW k \in RobIdx
  PROVE  /\ NextRob(h) \in RobIdx
         /\ (NextRob(h) + (c - 1)) % ROB_SIZE = (h + c) % ROB_SIZE
         /\ (k - NextRob(h)) % ROB_SIZE < c - 1 <=>
              (k - h) % ROB_SIZE < c /\ k # h
<1>1. ROB_SIZE \in Nat \ {0}
  BY SizeAssumption
<1>2. NextRob(h) = IF h + 1 = ROB_SIZE THEN 0 ELSE h + 1
  BY <1>1, ModRob DEF NextRob, RobIdx
<1>3. (k - h) % ROB_SIZE = IF k < h THEN k - h + ROB_SIZE ELSE k - h
  BY <1>1, ModRob DEF RobIdx
<1>4. (k - NextRob(h)) % ROB_SIZE =
        IF k < NextRob(h) THEN k - NextRob(h) + ROB_SIZE ELSE k - NextRob(h)
  BY <1>1, <1>2, ModRob DEF RobIdx
<1>5. (NextRob(h) + (c - 1)) % ROB_SIZE = (h + c) % ROB_SIZE
  BY <1>1, <1>2, ModRob DEF RobIdx
<1> QED BY <1>1, <1>2, <1>3, <1>4, <1>5 DEF RobIdx

(* ... and taking the tail adds exactly the tail. *)
LEMMA RingGrows ==
  ASSUME NEW h \in RobIdx, NEW c \in 0 .. ROB_SIZE-1, NEW k \in RobIdx
  PROVE  /\ NextRob((h + c) % ROB_SIZE) \in RobIdx
         /\ NextRob((h + c) % ROB_SIZE) = (h + (c + 1)) % ROB_SIZE
         /\ (k - h) % ROB_SIZE < c + 1 <=>
              (k - h) % ROB_SIZE < c \/ k = (h + c) % ROB_SIZE
<1>1. ROB_SIZE \in Nat \ {0}
  BY SizeAssumption
<1>2. (h + c) % ROB_SIZE = IF h + c < ROB_SIZE THEN h + c ELSE h + c - ROB_SIZE
  BY <1>1, ModRob DEF RobIdx
<1>3. (h + (c + 1)) % ROB_SIZE =
        IF h + c + 1 < ROB_SIZE THEN h + c + 1 ELSE h + c + 1 - ROB_SIZE
  BY <1>1, ModRob DEF RobIdx
<1>4. NextRob((h + c) % ROB_SIZE) = (h + (c + 1)) % ROB_SIZE
  BY <1>1, <1>2, <1>3, ModRob DEF NextRob, RobIdx
<1>5. (k - h) % ROB_SIZE = IF k < h THEN k - h + ROB_SIZE ELSE k - h
  BY <1>1, ModRob DEF RobIdx
<1> QED BY <1>1, <1>2, <1>3, <1>4, <1>5 DEF RobIdx
-----------------------------------------------------------------------------
(* The values and what their parts are. *)
LEMMA Values ==
  /\ <<"int", 0>> \in OperandValue /\ <<"fp", 0>> \in OperandValue
  /\ \A n \in Int : <<"int", n % WORD>> \in OperandValue
  /\ \A v \in OperandValue : v[1] \in Kind /\ v[2] \in Int
  /\ NoValue \notin OperandValue
<1>1. \A n \in Int : n % WORD \in 0 .. WORD-1
  BY SizeAssumption
<1>2. \A n \in 0 .. WORD-1 : <<"int", n>> \in OperandValue
  BY DEF OperandValue
<1>3. <<"int", 0>> \in OperandValue /\ <<"fp", 0>> \in OperandValue
  BY <1>2, SizeAssumption, ValueAssumption DEF OperandValue
<1>4. ASSUME NEW v \in OperandValue PROVE v[1] \in Kind /\ v[2] \in Int
  <2>1. CASE v \in {"int"} \X (0 .. WORD-1)
    BY <2>1, SizeAssumption DEF Kind
  <2>2. CASE v \in {"fp"} \X F64
    BY <2>2, ValueAssumption DEF Kind
  <2> QED BY <1>4, <2>1, <2>2 DEF OperandValue
<1> QED BY <1>1, <1>2, <1>3, <1>4, ValueAssumption

(* The invariant holds when simulate() starts its loop, whatever an        *)
(* earlier call left in the two variables it does not reset.               *)
LeftOver ==
  /\ cdb_list \subseteq [producer_id : RobIdx, value : OperandValue]
  /\ next_fetch_branch \in Int
LEMMA StartedInv == Started /\ LeftOver => RingInv
<1> SUFFICES ASSUME Started, LeftOver PROVE RingInv
  OBVIOUS
<1> USE SizeAssumption DEF Started
<1>1. rs \in [StationId -> StationRecord]
  BY Values DEF StationRecord, IdleStation, OpType, NoTag, Tag
<1>2. fus \in [UnitId -> UnitRecord]
  BY Values DEF UnitRecord, IdleUnit, OpType
<1>3. rob \in [RobIdx -> EntryRecord]
  BY DEF EntryRecord, EmptyEntry, OpType
<1>4. lsq \in [LsqIdx -> SlotRecord]
  BY DEF SlotRecord, EmptySlot
<1>5. /\ regs \in [Reg -> OperandValue] /\ instruction_queue \in Seq(Instruction)
      /\ DOMAIN memory \subseteq MemKey /\ memory \in [DOMAIN memory -> OperandValue]
  BY InputAssumption
<1>6. TypeOK
  BY <1>1, <1>2, <1>3, <1>4, <1>5 DEF TypeOK, RobIdx, LsqIdx, Tag, Stage, LeftOver
<1>7. \A k \in RobIdx : ~InFlight(k)
  BY ModRob DEF InFlight, Age, RobIdx
<1>8. RobIsARing
  BY <1>7 DEF RobIsARing, EmptyEntry
<1>9. SubscriptsInRange
  BY <1>7 DEF SubscriptsInRange, IdleStation, IdleUnit
<1> QED BY <1>6, <1>8, <1>9 DEF RingInv
LEMMA InitInv == Init => RingInv
BY StartedInv DEF Init, LeftOver

(* What the head of a ROB that is not empty is. *)
LEMMA HeadInFlight ==
  ASSUME RingInv, rob_count > 0
  PROVE  /\ InFlight(rob_head) /\ rob_count \in 1 .. ROB_SIZE
         /\ HeadEntry \in EntryRecord
         /\ is_memory_op(HeadEntry.op) => HeadEntry.lsq_idx \in LsqIdx
<1>1. rob_head \in RobIdx /\ rob_count \in 1 .. ROB_SIZE
  BY SizeAssumption DEF RingInv, TypeOK
<1>2. InFlight(rob_head)
  BY <1>1, ModRob, SizeAssumption DEF InFlight, Age, RobIdx
<1> QED BY <1>1, <1>2 DEF RingInv, TypeOK, HeadEntry, SubscriptsInRange

(* An entry whose state or busy bit is rewritten is an entry. *)
LEMMA EntryRewritten ==
  ASSUME NEW e \in EntryRecord
  PROVE  /\ [e EXCEPT !.state = "EXECUTING"] \in EntryRecord
         /\ [e EXCEPT !.busy = FALSE, !.state = "COMMITTED"] \in EntryRecord
BY DEF EntryRecord

(* Giving back the head entry keeps the ring. *)
LEMMA ReleaseRobKeepsRing ==
  ASSUME RingInv, rob_count > 0, ReleaseRob
  PROVE  /\ rob' \in [RobIdx -> EntryRecord]
         /\ rob_head' \in RobIdx /\ rob_tail' \in RobIdx
         /\ rob_count' \in 0 .. ROB_SIZE
         /\ RobIsARing'
         /\ \A k \in RobIdx : InFlight(k)' <=> InFlight(k) /\ k # rob_head
         /\ \A k \in RobIdx : k # rob_head => rob'[k] = rob[k]
<1> USE SizeAssumption
<1>1. /\ rob \in [RobIdx -> EntryRecord] /\ rob_head \in RobIdx
      /\ rob_tail \in RobIdx /\ rob_count \in 1 .. ROB_SIZE
  BY HeadInFlight DEF RingInv, TypeOK
<1>2. rob' \in [RobIdx -> EntryRecord]
  <2>1. PICK e : e = [rob[rob_head] EXCEPT !.busy = FALSE, !.state = "COMMITTED"]
    OBVIOUS
  <2>2. e \in EntryRecord
    BY <1>1, <2>1, EntryRewritten
  <2>3. \A k \in RobIdx : rob'[k] = IF k = rob_head THEN e ELSE rob[k]
    BY <1>1, <2>1 DEF ReleaseRob
  <2>4. rob' = [k \in RobIdx |-> rob'[k]]
    BY <1>1 DEF ReleaseRob
  <2> QED BY <1>1, <2>2, <2>3, <2>4
<1>3. rob_head' \in RobIdx /\ rob_tail' \in RobIdx /\ rob_count' \in 0 .. ROB_SIZE
  BY <1>1, RingShrinks DEF ReleaseRob
<1>4. \A k \in RobIdx : InFlight(k)' <=> InFlight(k) /\ k # rob_head
  BY <1>1, RingShrinks DEF ReleaseRob, InFlight, Age
<1>5. \A k \in RobIdx : k # rob_head => rob'[k] = rob[k]
  BY <1>1 DEF ReleaseRob
<1>6. ~rob'[rob_head].busy
  BY <1>1 DEF ReleaseRob, EntryRecord
<1>7. rob_tail' = (rob_head' + rob_count') % ROB_SIZE
  BY <1>1, RingShrinks DEF ReleaseRob, RingInv, RobIsARing
<1>8. RobIsARing'
  BY <1>1, <1>4, <1>5, <1>6, <1>7 DEF RobIsARing, RingInv, ReleaseRob, InFlight
<1> QED BY <1>2, <1>3, <1>4, <1>5, <1>8
-----------------------------------------------------------------------------
(* Steps that change nothing the invariant looks at, except the stage. *)
LEMMA FrameInv ==
  ASSUME RingInv, stage' \in Stage,
         UNCHANGED <<regs, regs_status, memory, rs, fus, robVars, lsqVars,
                     cdb_list, fetchVars>>
  PROVE  RingInv'
<1> USE DEF robVars, lsqVars, fetchVars
<1>1. TypeOK'
  BY DEF RingInv, TypeOK
<1>2. RobIsARing'
  BY DEF RingInv, RobIsARing, InFlight, Age
<1>3. SubscriptsInRange'
  BY DEF RingInv, SubscriptsInRange, InFlight, Age, StationOf
<1> QED BY <1>1, <1>2, <1>3 DEF RingInv

(* The subscripts stay in range when an entry leaves the ROB. *)
LEMMA CommitKeepsSubscripts ==
  ASSUME RingInv, rob_count > 0, ReleaseRob, UNCHANGED <<rs, fus>>
  PROVE  SubscriptsInRange'
<1>1. ASSUME NEW k \in RobIdx, InFlight(k)', is_memory_op(rob'[k].op)
      PROVE  rob'[k].lsq_idx \in LsqIdx
  <2>1. InFlight(k) /\ rob'[k] = rob[k]
    BY <1>1, ReleaseRobKeepsRing
  <2> QED BY <1>1, <2>1 DEF RingInv, SubscriptsInRange
<1>2. \A s \in StationId : rs'[s].busy => rs'[s].ROB_idx \in RobIdx
  BY DEF RingInv, SubscriptsInRange
<1>3. \A u \in UnitId : fus'[u].busy =>
        fus'[u].rob_idx \in RobIdx /\ StationOf(u)' \in StationId
  BY DEF RingInv, SubscriptsInRange, StationOf
<1> QED BY <1>1, <1>2, <1>3 DEF SubscriptsInRange

(* Giving back an LSQ slot keeps the types of the queue. *)
LEMMA ReleaseLsqTypes ==
  ASSUME RingInv, ReleaseLsq, HeadEntry.lsq_idx \in LsqIdx
  PROVE  /\ lsq' \in [LsqIdx -> SlotRecord]
         /\ lsq_tail' \in LsqIdx /\ lsq_count' \in Int
<1>1. /\ lsq \in [LsqIdx -> SlotRecord] /\ lsq_tail \in LsqIdx
      /\ lsq_count \in Int
  BY DEF RingInv, TypeOK
<1>2. \A slot \in SlotRecord : [slot EXCEPT !.valid = FALSE] \in SlotRecord
  BY DEF SlotRecord
<1>3. lsq' \in [LsqIdx -> SlotRecord]
  BY <1>1, <1>2 DEF ReleaseLsq
<1> QED BY <1>1, <1>3 DEF ReleaseLsq

(* commit_head_of_rob keeps the invariant. *)
LEMMA CommitInv == ASSUME RingInv, Commit PROVE RingInv'
<1>1. CASE CommitNothing \/ CommitThrow
  BY <1>1, FrameInv DEF CommitNothing, CommitThrow, Stage
<1>2. CASE CommitStore
  <2> USE <1>2 DEF CommitStore
  <2>1. rob_count > 0 /\ is_memory_op(HeadEntry.op)
    BY DEF CanCommit, is_memory_op
  <2> DEFINE slot == lsq[HeadEntry.lsq_idx]
             key == <<memory_kind(HeadEntry.op), slot.address>>
  <2>2. slot \in SlotRecord /\ slot.data # NoValue
    BY <2>1, HeadInFlight DEF CanCommit, RingInv, TypeOK
  <2>3. key \in MemKey /\ slot.data \in OperandValue
    BY <2>2 DEF SlotRecord, MemKey, memory_kind, Kind
  <2>4. DOMAIN memory' = DOMAIN memory \cup {key}
        /\ \A a \in DOMAIN memory' : memory'[a] \in OperandValue
    BY <2>3 DEF RingInv, TypeOK
  <2>5. DOMAIN memory' \subseteq MemKey /\ memory' \in [DOMAIN memory' -> OperandValue]
    <3>1. memory' = [a \in DOMAIN memory' |-> memory'[a]]
      BY <2>4
    <3>2. DOMAIN memory' \subseteq MemKey
      BY <2>3, <2>4 DEF RingInv, TypeOK
    <3> QED BY <2>4, <3>1, <3>2
  <2>6. TypeOK'
    BY <2>1, <2>5, HeadInFlight, ReleaseRobKeepsRing, ReleaseLsqTypes
       DEF RingInv, TypeOK, Stage, fetchVars
  <2> QED BY <2>1, <2>6, ReleaseRobKeepsRing, CommitKeepsSubscripts DEF RingInv
<1>3. CASE CommitRegister
  <2> USE <1>3 DEF CommitRegister
  <2>1. rob_count > 0
    BY DEF CanCommit
  <2>2. regs' \in [Reg -> OperandValue] /\ regs_status' \in [Reg -> Tag]
    <3>1. HeadEntry.result \in OperandValue \cup {NoValue}
          /\ HeadEntry.dest \in Reg \cup {NoReg}
      BY <2>1, HeadInFlight DEF EntryRecord
    <3> QED BY <3>1 DEF RingInv, TypeOK, ReleaseStatus, Tag
  <2>3. /\ lsq' \in [LsqIdx -> SlotRecord]
        /\ lsq_tail' \in LsqIdx /\ lsq_count' \in Int
    BY <2>1, HeadInFlight, ReleaseLsqTypes
       DEF RingInv, TypeOK, is_memory_op, lsqVars
  <2>4. TypeOK'
    BY <2>1, <2>2, <2>3, ReleaseRobKeepsRing DEF RingInv, TypeOK, Stage, fetchVars
  <2> QED BY <2>1, <2>4, ReleaseRobKeepsRing, CommitKeepsSubscripts DEF RingInv
<1> QED BY <1>1, <1>2, <1>3 DEF Commit
-----------------------------------------------------------------------------
(* Steps that write the ROB without moving its head or its tail: what they *)
(* must preserve for the ring to survive.                                  *)
LEMMA RingRewritten ==
  ASSUME RingInv, UNCHANGED <<rob_head, rob_tail, rob_count>>,
         \A k \in RobIdx : InFlight(k) =>
           /\ rob'[k].busy = rob[k].busy
           /\ rob[k].state # "COMMITTED" => rob'[k].state # "COMMITTED",
         \A k \in RobIdx : k # rob_tail => rob'[k].busy = rob[k].busy
  PROVE  RobIsARing'
BY DEF RingInv, RobIsARing, InFlight, Age

(* Stations and units are pairs of an array and an index. *)
LEMMA StationIdParts ==
  ASSUME NEW s \in StationId
  PROVE  /\ s = <<s[1], s[2]>> /\ s[1] \in RSType /\ s[2] \in 0 .. NUM_RS[s[1]]-1
         /\ \A i \in 0 .. NUM_RS[s[1]]-1 : <<s[1], i>> \in StationId
BY DEF StationId

(* A unit and the stations of its array. *)
LEMMA UnitIdParts ==
  ASSUME NEW u \in UnitId
  PROVE  /\ u[1] \in RSType
         /\ \A i \in 0 .. NUM_RS[u[1]]-1 : <<u[1], i>> \in StationId
BY DEF UnitId, StationId

(* try_launch_to_fu keeps the invariant. *)
LEMMA LaunchInv == ASSUME RingInv, Launch PROVE RingInv'
<1> USE DEF Launch
<1>1. ASSUME NEW u \in UnitId, NEW i \in Ready(u[1])
      PROVE  /\ LaunchedUnit(u[1], i) \in UnitRecord
             /\ LaunchedUnit(u[1], i).rob_idx \in RobIdx
             /\ <<u[1], LaunchedUnit(u[1], i).rs_idx>> \in StationId
  <2> DEFINE s == rs[<<u[1], i>>]
  <2>1. i \in Int /\ <<u[1], i>> \in StationId
    BY UnitIdParts DEF Ready
  <2>2. s \in StationRecord /\ s.busy /\ s.ROB_idx \in RobIdx
    BY <2>1 DEF Ready, RingInv, TypeOK, SubscriptsInRange
  <2>3. u[1] # "LOAD" => s.Vk \in OperandValue
    BY <2>1, <2>2 DEF Ready, StationRecord
  <2>4. Contents(s.Vj) \in OperandValue
    BY <2>2, Values DEF StationRecord, Contents
  <2>5. get_latency(s.op) \in Int
    BY DEF get_latency
  <2> QED BY <2>1, <2>2, <2>3, <2>4, <2>5, Values
          DEF LaunchedUnit, UnitRecord, StationRecord
<1>2. ASSUME NEW u \in UnitId
      PROVE  /\ fus'[u] \in UnitRecord
             /\ fus'[u].busy => /\ fus'[u].rob_idx \in RobIdx
                               /\ <<u[1], fus'[u].rs_idx>> \in StationId
  BY <1>1 DEF RingInv, TypeOK, SubscriptsInRange, StationOf
<1>3. rob' \in [RobIdx -> EntryRecord]
  <2>1. \A k \in RobIdx :
          rob[k] \in EntryRecord
            /\ [rob[k] EXCEPT !.state = "EXECUTING"] \in EntryRecord
    BY EntryRewritten DEF RingInv, TypeOK
  <2> QED BY <2>1
<1>4. \A k \in RobIdx :
        /\ rob'[k].busy = rob[k].busy /\ rob'[k].op = rob[k].op
        /\ rob'[k].lsq_idx = rob[k].lsq_idx
        /\ rob'[k].state # rob[k].state => rob'[k].state = "EXECUTING"
  BY DEF RingInv, TypeOK, EntryRecord
<1>5. TypeOK'
  BY <1>2, <1>3 DEF RingInv, TypeOK, Stage, lsqVars, fetchVars
<1>6. RobIsARing'
  BY <1>4, RingRewritten
<1>7. SubscriptsInRange'
  BY <1>2, <1>4 DEF RingInv, SubscriptsInRange, InFlight, Age, StationOf
<1> QED BY <1>5, <1>6, <1>7 DEF RingInv

(* A unit that completes: its entry, its station and its result. *)
LEMMA DeliveredTypes ==
  ASSUME RingInv, NEW u \in Delivered
  PROVE  /\ u \in UnitId /\ fus[u] \in UnitRecord /\ fus[u].rob_idx \in RobIdx
         /\ rs[StationOf(u)] \in StationRecord
         /\ Address(u) \in 0 .. WORD-1
         /\ Result(u) \in OperandValue
         /\ Target(u) \in Int
<1> USE SizeAssumption
<1>1. /\ u \in UnitId /\ fus[u] \in UnitRecord /\ fus[u].rob_idx \in RobIdx
      /\ StationOf(u) \in StationId
  BY DEF Delivered, Completed, RingInv, TypeOK, SubscriptsInRange
<1>2. rs[StationOf(u)] \in StationRecord
  BY <1>1 DEF RingInv, TypeOK
<1>3. Address(u) \in 0 .. WORD-1
  <2>1. fus[u].v1[2] \in Int /\ rs[StationOf(u)].A \in Int
    BY <1>1, <1>2, Values DEF UnitRecord, StationRecord
  <2>2. \A n \in Int : n % WORD \in 0 .. WORD-1
    OBVIOUS
  <2> QED BY <2>1, <2>2 DEF Address
<1>4. LoadValue(u) \in OperandValue
  BY Values DEF LoadValue, memory_kind, RingInv, TypeOK
<1>5. compute_result(fus[u].op, fus[u].v1, fus[u].v2) \in OperandValue
  BY <1>1, ComputeAssumption DEF UnitRecord
<1>6. Result(u) \in OperandValue
  BY <1>4, <1>5 DEF Result
<1>7. Target(u) \in Int
  <2>1. rs[StationOf(u)].A \in Int /\ Result(u)[2] \in Int
    BY <1>2, <1>6, Values DEF StationRecord
  <2>2. Words(rs[StationOf(u)].A) \in Int
    BY <2>1 DEF Words
  <2>3. ((Result(u)[2] + rs[StationOf(u)].A) % WORD) \div 4 \in Int
    BY <2>1
  <2> QED BY <2>2, <2>3 DEF Target, RingInv, TypeOK
<1> QED BY <1>1, <1>2, <1>3, <1>6, <1>7

(* A unit that counts down keeps its type, its entry and its station. *)
LEMMA UnitCounts ==
  ASSUME NEW f \in UnitRecord, NEW b \in BOOLEAN
  PROVE  LET g == [f EXCEPT !.busy = b, !.remaining_cycles = @ - 1] IN
           /\ g \in UnitRecord /\ g.busy = b
           /\ g.rob_idx = f.rob_idx /\ g.rs_idx = f.rs_idx
<1>1. f.remaining_cycles - 1 \in Int
  BY DEF UnitRecord
<1>2. ASSUME NEW n \in Int
      PROVE  LET g == [f EXCEPT !.busy = b, !.remaining_cycles = n] IN
               /\ g \in UnitRecord /\ g.busy = b
               /\ g.rob_idx = f.rob_idx /\ g.rs_idx = f.rs_idx
  BY DEF UnitRecord
<1> QED BY <1>1, <1>2

(* process_fu_array keeps the invariant. *)
LEMMA AdvanceInv == ASSUME RingInv, Advance \/ AdvanceThrow PROVE RingInv'
<1>1. CASE AdvanceThrow
  BY <1>1, FrameInv DEF AdvanceThrow, Stage
<1>2. CASE Advance
  <2>1. ASSUME NEW k \in RobIdx
        PROVE  /\ rob'[k] \in EntryRecord /\ rob'[k].busy = rob[k].busy
               /\ rob'[k].op = rob[k].op /\ rob'[k].lsq_idx = rob[k].lsq_idx
               /\ rob'[k].state # rob[k].state => rob'[k].state = "EXECUTED"
    <3>1. rob[k] \in EntryRecord
      BY DEF RingInv, TypeOK
    <3>2. ASSUME NEW u \in Delivered
          PROVE  /\ CompletedEntry(k, u) \in EntryRecord
                 /\ CompletedEntry(k, u).busy = rob[k].busy
                 /\ CompletedEntry(k, u).op = rob[k].op
                 /\ CompletedEntry(k, u).lsq_idx = rob[k].lsq_idx
                 /\ CompletedEntry(k, u).state = "EXECUTED"
      BY <3>1, DeliveredTypes DEF CompletedEntry, EntryRecord
    <3>3. CASE DeliveredTo(k) = {}
      BY <1>2, <3>1, <3>3 DEF Advance
    <3>4. CASE DeliveredTo(k) # {}
      <4>1. PICK u \in Delivered : rob'[k] = CompletedEntry(k, u)
        BY <1>2, <3>4 DEF DeliveredTo, Advance
      <4> QED BY <4>1, <3>2
    <3> QED BY <3>3, <3>4
  <2>2. ASSUME NEW q \in LsqIdx PROVE lsq'[q] \in SlotRecord
    <3>1. lsq[q] \in SlotRecord
      BY DEF RingInv, TypeOK
    <3>2. ASSUME NEW u \in Delivered PROVE AddressedSlot(q, u) \in SlotRecord
      BY <3>1, DeliveredTypes DEF AddressedSlot, SlotRecord, UnitRecord
    <3>3. CASE AddressedTo(q) = {}
      BY <1>2, <3>1, <3>3 DEF Advance
    <3>4. CASE AddressedTo(q) # {}
      <4>1. PICK u \in Delivered : lsq'[q] = AddressedSlot(q, u)
        BY <1>2, <3>4 DEF AddressedTo, Advance
      <4> QED BY <4>1, <3>2
    <3> QED BY <3>3, <3>4
  <2>3. cdb_list' \subseteq [producer_id : RobIdx, value : OperandValue]
    <3>1. \A u \in Delivered : fus[u].rob_idx \in RobIdx /\ Result(u) \in OperandValue
      BY DeliveredTypes
    <3>2. cdb_list' = {[producer_id |-> fus[u].rob_idx, value |-> Result(u)] :
                         u \in {w \in Delivered : w[1] # "STORE"}}
      BY <1>2 DEF Advance
    <3> QED BY <3>1, <3>2
  <2>4. next_fetch_branch' \in Int
    BY <1>2, DeliveredTypes DEF Advance, Redirect, Redirecting, RingInv, TypeOK
  <2>5. ASSUME NEW s \in StationId
        PROVE  /\ rs'[s] \in StationRecord
               /\ rs'[s].busy => rs[s].busy /\ rs'[s].ROB_idx = rs[s].ROB_idx
    <3>1. rs[s] \in StationRecord
      BY DEF RingInv, TypeOK
    <3>2. rs'[s] = rs[s] \/ rs'[s] = [rs[s] EXCEPT !.busy = FALSE]
      BY <1>2 DEF Advance
    <3> QED BY <3>1, <3>2 DEF StationRecord
  <2>6. ASSUME NEW u \in UnitId
        PROVE  /\ fus'[u] \in UnitRecord
               /\ fus'[u].busy => /\ fus[u].busy /\ fus'[u].rob_idx = fus[u].rob_idx
                                 /\ fus'[u].rs_idx = fus[u].rs_idx
    <3>1. fus[u] \in UnitRecord
      BY DEF RingInv, TypeOK
    <3>2. CASE ~fus[u].busy
      BY <1>2, <3>1, <3>2 DEF Advance
    <3>3. CASE fus[u].busy
      <4>1. CASE u \in Completed
        <5>1. fus'[u] = [fus[u] EXCEPT !.busy = FALSE,
                                       !.remaining_cycles = @ - 1]
          BY <1>2, <3>3, <4>1 DEF Advance
        <5> QED BY <3>1, <3>3, <5>1, UnitCounts
      <4>2. CASE u \notin Completed
        <5>1. fus'[u] = [fus[u] EXCEPT !.busy = TRUE,
                                       !.remaining_cycles = @ - 1]
          BY <1>2, <3>3, <4>2 DEF Advance
        <5> QED BY <3>1, <3>3, <5>1, UnitCounts
      <4> QED BY <4>1, <4>2
    <3> QED BY <3>2, <3>3
  <2>7. TypeOK'
    <3>1. /\ rob' \in [RobIdx -> EntryRecord] /\ lsq' \in [LsqIdx -> SlotRecord]
          /\ rs' \in [StationId -> StationRecord] /\ fus' \in [UnitId -> UnitRecord]
      BY <1>2, <2>1, <2>2, <2>5, <2>6 DEF Advance
    <3> QED BY <1>2, <3>1, <2>3, <2>4 DEF RingInv, TypeOK, Stage, Advance
  <2>8. RobIsARing'
    BY <1>2, <2>1, RingRewritten DEF Advance
  <2>9. SubscriptsInRange'
    BY <1>2, <2>1, <2>5, <2>6
       DEF Advance, RingInv, SubscriptsInRange, InFlight, Age, StationOf
  <2> QED BY <2>7, <2>8, <2>9 DEF RingInv
<1> QED BY <1>1, <1>2

(* CDB_broadcast keeps the invariant. *)
LEMMA BroadcastInv == ASSUME RingInv, CDB_broadcast PROVE RingInv'
<1> USE DEF CDB_broadcast
<1>1. ASSUME NEW tag \in Tag, NEW V \in OperandValue \cup {NoValue}
      PROVE  Capture(tag, V).Q \in Tag /\ Capture(tag, V).V \in OperandValue \cup {NoValue}
  BY DEF Capture, Heard, Tag, RingInv, TypeOK
<1>2. ASSUME NEW s \in StationId
      PROVE  /\ rs'[s] \in StationRecord
             /\ rs'[s].busy => rs[s].busy /\ rs'[s].ROB_idx = rs[s].ROB_idx
  BY <1>1 DEF RingInv, TypeOK, StationRecord
<1>3. TypeOK'
  BY <1>2 DEF RingInv, TypeOK, Stage, robVars, lsqVars
<1>4. RobIsARing'
  BY DEF RingInv, RobIsARing, InFlight, Age, robVars
<1>5. SubscriptsInRange'
  BY <1>2 DEF RingInv, SubscriptsInRange, InFlight, Age, StationOf, robVars
<1> QED BY <1>3, <1>4, <1>5 DEF RingInv
-----------------------------------------------------------------------------
(* The tail of a ROB with room is the slot after the ring. *)
LEMMA TailIsFree ==
  ASSUME RingInv, ~RobFull
  PROVE  /\ rob_count \in 0 .. ROB_SIZE-1 /\ rob_tail \in RobIdx
         /\ ~InFlight(rob_tail)
<1>1. /\ rob_count \in 0 .. ROB_SIZE-1 /\ rob_tail \in RobIdx
      /\ rob_head \in RobIdx /\ rob_tail = (rob_head + rob_count) % ROB_SIZE
  BY SizeAssumption DEF RingInv, TypeOK, RobIsARing, RobFull
<1>2. rob_tail = IF rob_head + rob_count < ROB_SIZE THEN rob_head + rob_count
                 ELSE rob_head + rob_count - ROB_SIZE
  BY <1>1, ModRob, SizeAssumption DEF RobIdx
<1>3. (rob_tail - rob_head) % ROB_SIZE = rob_count
  BY <1>1, <1>2, ModRob, SizeAssumption DEF RobIdx
<1> QED BY <1>1, <1>3, SizeAssumption DEF InFlight, Age

(* The instruction issue_instruction looks at, and the entry it prepares. *)
LEMMA FetchTypes ==
  ASSUME RingInv, CanFetch
  PROVE  /\ Instr \in Instruction
         /\ \A q \in LsqIdx \cup {-1} : NewEntry(q) \in EntryRecord
<1>1. instruction_queue \in Seq(Instruction) /\ next_fetch_branch \in Int
  BY DEF RingInv, TypeOK
<1>2. Instr \in Instruction
  BY <1>1 DEF Instr, CanFetch, InProgram
<1>3. ASSUME NEW q \in LsqIdx \cup {-1} PROVE NewEntry(q) \in EntryRecord
  <2>1. Instr.op \in OpType /\ Instr.dest \in Reg \cup {NoReg}
    BY <1>2 DEF Instruction
  <2> QED BY <1>1, <2>1 DEF NewEntry, EntryRecord
<1> QED BY <1>2, <1>3

(* What the entry prepared at the tail does to the ROB. *)
LEMMA TailWritten ==
  ASSUME RingInv, CanFetch, ~RobFull, NEW q \in LsqIdx \cup {-1}
  PROVE  /\ RobWithNew(q) \in [RobIdx -> EntryRecord]
         /\ RobWithNew(q)[rob_tail] = NewEntry(q)
         /\ \A k \in RobIdx : k # rob_tail => RobWithNew(q)[k] = rob[k]
         /\ \A k \in RobIdx : InFlight(k) => RobWithNew(q)[k] = rob[k]
<1>1. rob \in [RobIdx -> EntryRecord]
  BY DEF RingInv, TypeOK
<1>2. NewEntry(q) \in EntryRecord
  BY FetchTypes
<1>3. rob_tail \in RobIdx /\ ~InFlight(rob_tail)
  BY TailIsFree
<1> QED BY <1>1, <1>2, <1>3 DEF RobWithNew

(* An operand is a value or the tag of an entry. *)
LEMMA OperandTypes ==
  ASSUME RingInv, CanFetch, ~RobFull,
         NEW r \in Reg \cup {NoReg}, NEW V \in OperandValue \cup {NoValue}
  PROVE  /\ Operand(r, V).Q \in Tag
         /\ Operand(r, V).V \in OperandValue \cup {NoValue}
<1>1. CASE r = NoReg
  BY <1>1 DEF Operand, Tag
<1>2. CASE r # NoReg
  <2>1. regs[r] \in OperandValue /\ regs_status[r] \in Tag
    BY <1>2 DEF RingInv, TypeOK
  <2>2. CASE regs_status[r] = NoTag
    BY <1>2, <2>1, <2>2 DEF Operand, Tag
  <2>3. CASE regs_status[r] # NoTag
    <3>1. RobWithNew(-1)[regs_status[r]] \in EntryRecord
      BY <2>1, <2>3, TailWritten DEF Tag
    <3>2. RobWithNew(-1)[regs_status[r]].result \in OperandValue \cup {NoValue}
      BY <3>1 DEF EntryRecord
    <3> HIDE DEF Tag
    <3> QED BY <1>2, <2>1, <2>3, <3>2 DEF Operand, Tag
  <2> QED BY <2>2, <2>3
<1> QED BY <1>1, <1>2

(* A station that is filled. *)
LEMMA FilledTypes ==
  ASSUME RingInv, CanFetch, ~RobFull, NEW s \in StationId
  PROVE  Filled(s) \in StationRecord /\ Filled(s).ROB_idx = rob_tail
<1>1. rs[s] \in StationRecord /\ rob_tail \in RobIdx
  BY DEF RingInv, TypeOK
<1>2. /\ Instr.op \in OpType /\ Instr.src1 \in Reg \cup {NoReg}
      /\ Instr.src2 \in Reg \cup {NoReg} /\ Instr.imm \in Int
  BY FetchTypes DEF Instruction
<1>3. /\ rs[s].Vj \in OperandValue \cup {NoValue}
      /\ rs[s].Vk \in OperandValue \cup {NoValue}
  BY <1>1 DEF StationRecord
<1> DEFINE j == Operand(Instr.src1, rs[s].Vj)
           k == IF Instr.src2 = NoReg /\ ~is_memory_op(Instr.op)
                THEN [Q |-> NoTag, V |-> <<"int", Instr.imm % WORD>>]
                ELSE Operand(Instr.src2, rs[s].Vk)
<1>4. j.Q \in Tag /\ j.V \in OperandValue \cup {NoValue}
  BY <1>2, <1>3, OperandTypes
<1>5. k.Q \in Tag /\ k.V \in OperandValue \cup {NoValue}
  <2>1. Operand(Instr.src2, rs[s].Vk).Q \in Tag
        /\ Operand(Instr.src2, rs[s].Vk).V \in OperandValue \cup {NoValue}
    BY <1>2, <1>3, OperandTypes
  <2>2. <<"int", Instr.imm % WORD>> \in OperandValue /\ NoTag \in Tag
    BY <1>2, Values DEF Tag
  <2> QED BY <2>1, <2>2
<1>6. Filled(s) = [busy |-> TRUE, op |-> Instr.op, Qj |-> j.Q, Vj |-> j.V,
                   Qk |-> k.Q, Vk |-> k.V, ROB_idx |-> rob_tail,
                   A |-> Instr.imm]
  BY DEF Filled
<1> HIDE DEF j, k
<1> QED BY <1>1, <1>2, <1>4, <1>5, <1>6 DEF StationRecord

(* Renaming a destination to the tail keeps the type of the status table. *)
LEMMA RenameTypes ==
  ASSUME RingInv, CanFetch PROVE Rename \in [Reg -> Tag]
<1>1. Instr.dest \in Reg \cup {NoReg}
  BY FetchTypes DEF Instruction
<1> QED BY <1>1 DEF Rename, RingInv, TypeOK, Tag

(* A failed attempt to issue leaves an entry at the tail and no other. *)
LEMMA StallInv ==
  ASSUME RingInv, CanFetch, ~RobFull, rob' = RobWithNew(-1), Fetch(0),
         regs_status' \in [Reg -> Tag],
         UNCHANGED <<rs, rob_tail, rob_count, lsqVars>>
  PROVE  RingInv'
<1> USE DEF Fetch, lsqVars
<1>1. /\ rob' \in [RobIdx -> EntryRecord]
      /\ \A k \in RobIdx : k # rob_tail => rob'[k] = rob[k]
      /\ \A k \in RobIdx : InFlight(k) => rob'[k] = rob[k]
  BY TailWritten
<1>2. TypeOK'
  BY <1>1 DEF RingInv, TypeOK, Stage
<1>3. RobIsARing'
  BY <1>1, RingRewritten
<1>4. SubscriptsInRange'
  BY <1>1 DEF RingInv, SubscriptsInRange, InFlight, Age, StationOf
<1> QED BY <1>2, <1>3, <1>4 DEF RingInv

(* An instruction that is issued takes the tail and a free station. *)
LEMMA EnterInv ==
  ASSUME RingInv, CanFetch, ~RobFull, NEW q \in LsqIdx \cup {-1}, Enter(q),
         is_memory_op(Instr.op) => q \in LsqIdx,
         lsq' \in [LsqIdx -> SlotRecord], lsq_tail' \in LsqIdx,
         lsq_count' \in Int
  PROVE  RingInv'
<1> USE DEF Enter, Fetch
<1>1. /\ rob' \in [RobIdx -> EntryRecord]
      /\ rob'[rob_tail] = NewEntry(q)
      /\ \A k \in RobIdx : k # rob_tail => rob'[k] = rob[k]
  BY TailWritten
<1>2. /\ rob_head \in RobIdx /\ rob_tail = (rob_head + rob_count) % ROB_SIZE
      /\ rob_count \in 0 .. ROB_SIZE-1 /\ rob_tail \in RobIdx
  BY TailIsFree DEF RingInv, TypeOK, RobIsARing
<1>3. rob_tail' \in RobIdx /\ rob_tail' = (rob_head' + rob_count') % ROB_SIZE
  BY <1>2, RingGrows
<1>4. \A k \in RobIdx : InFlight(k)' <=> InFlight(k) \/ k = rob_tail
  BY <1>2, RingGrows DEF InFlight, Age
<1>5. PICK s \in StationId : rs' = [rs EXCEPT ![s] = Filled(s)]
  BY DEF Free
<1>6. ASSUME NEW w \in StationId
      PROVE  /\ rs'[w] \in StationRecord
             /\ rs'[w].busy => rs'[w].ROB_idx \in RobIdx
  <2>1. rs \in [StationId -> StationRecord]
    BY DEF RingInv, TypeOK
  <2>2. CASE w = s
    BY <1>2, <1>5, <2>1, <2>2, FilledTypes
  <2>3. CASE w # s
    BY <1>5, <2>1, <2>3 DEF RingInv, SubscriptsInRange
  <2> QED BY <2>2, <2>3
<1>7. TypeOK'
  <2>1. rs' \in [StationId -> StationRecord]
    BY <1>5, <1>6 DEF RingInv, TypeOK
  <2>2. rob_count' \in 0 .. ROB_SIZE
    BY <1>2, SizeAssumption
  <2> QED BY <1>1, <1>3, <2>1, <2>2, RenameTypes DEF RingInv, TypeOK, Stage
<1>8. RobIsARing'
  <2>1. rob'[rob_tail].busy /\ rob'[rob_tail].state = "ISSUED"
        /\ rob'[rob_tail].op = Instr.op /\ rob'[rob_tail].lsq_idx = q
    BY <1>1 DEF NewEntry
  <2>2. \A k \in RobIdx : InFlight(k)' =>
          rob'[k].busy /\ rob'[k].state # "COMMITTED"
    BY <1>1, <1>4, <2>1 DEF RingInv, RobIsARing
  <2>3. \A k \in RobIdx : rob'[k].busy => InFlight(k)'
    BY <1>1, <1>4 DEF RingInv, RobIsARing
  <2> QED BY <1>3, <2>2, <2>3 DEF RobIsARing
<1>9. SubscriptsInRange'
  <2>1. rob'[rob_tail].op = Instr.op /\ rob'[rob_tail].lsq_idx = q
    BY <1>1 DEF NewEntry
  <2>2. \A k \in RobIdx : InFlight(k)' /\ is_memory_op(rob'[k].op) =>
          rob'[k].lsq_idx \in LsqIdx
    BY <1>1, <1>4, <2>1 DEF RingInv, SubscriptsInRange
  <2>3. \A u \in UnitId : fus'[u].busy =>
          fus'[u].rob_idx \in RobIdx /\ StationOf(u)' \in StationId
    BY DEF RingInv, SubscriptsInRange, StationOf
  <2> QED BY <1>6, <2>2, <2>3 DEF SubscriptsInRange
<1> QED BY <1>7, <1>8, <1>9 DEF RingInv

(* issue_instruction keeps the invariant, whether it issues or not. *)
LEMMA IssueInv == ASSUME RingInv, Issue PROVE RingInv'
<1>1. CASE IssueNothing
  <2> USE <1>1 DEF IssueNothing, Fetch, lsqVars
  <2>1. TypeOK'
    BY DEF RingInv, TypeOK, Stage
  <2>2. RobIsARing'
    BY RingRewritten
  <2>3. SubscriptsInRange'
    BY DEF RingInv, SubscriptsInRange, InFlight, Age, StationOf
  <2> QED BY <2>1, <2>2, <2>3 DEF RingInv
<1>2. CASE IssueArith
  BY <1>2, EnterInv DEF IssueArith, lsqVars, RingInv, TypeOK
<1>3. CASE StallArith
  BY <1>3, StallInv, RenameTypes DEF StallArith
<1>4. CASE IssueMemory
  <2>1. lsq_tail \in LsqIdx /\ NextLsq(lsq_tail) \in LsqIdx
        /\ lsq_count \in Int /\ lsq \in [LsqIdx -> SlotRecord]
    BY ModLsq DEF RingInv, TypeOK, NextLsq, LsqIdx
  <2>2. [EmptySlot EXCEPT !.valid = TRUE, !.rob_idx = rob_tail] \in SlotRecord
    <3>1. rob_tail \in RobIdx /\ 0 \in 0 .. WORD-1
      BY SizeAssumption DEF RingInv, TypeOK
    <3> QED BY <3>1 DEF EmptySlot, SlotRecord
  <2>3. /\ lsq' \in [LsqIdx -> SlotRecord] /\ lsq_tail' \in LsqIdx
        /\ lsq_count' \in Int
    BY <1>4, <2>1, <2>2 DEF IssueMemory
  <2> QED BY <1>4, <2>1, <2>3, EnterInv DEF IssueMemory
<1>5. CASE StallMemory
  BY <1>5, StallInv DEF StallMemory, RingInv, TypeOK
<1> QED BY <1>1, <1>2, <1>3, <1>4, <1>5 DEF Issue
-----------------------------------------------------------------------------
(* RingInv is inductive. *)
LEMMA NextInv == RingInv /\ [Next]_vars => RingInv'
<1> SUFFICES ASSUME RingInv, [Next]_vars PROVE RingInv'
  OBVIOUS
<1>1. CASE Commit
  BY <1>1, CommitInv
<1>2. CASE Launch
  BY <1>2, LaunchInv
<1>3. CASE Advance \/ AdvanceThrow
  BY <1>3, AdvanceInv
<1>4. CASE Issue
  BY <1>4, IssueInv
<1>5. CASE CDB_broadcast
  BY <1>5, BroadcastInv
<1>6. CASE Stopped \/ UNCHANGED vars
  <2>1. stage' \in Stage
    BY <1>6 DEF Stopped, vars, RingInv, TypeOK
  <2> QED BY <1>6, <2>1, FrameInv DEF Stopped, vars
<1> QED BY <1>1, <1>2, <1>3, <1>4, <1>5, <1>6 DEF Next

(* Every variable of the simulator keeps its type: no index leaves its     *)
(* array, no ROB count leaves 0 .. ROB_SIZE and every value is one.        *)
THEOREM TypeCorrect == Spec => []TypeOK
<1>1. RingInv => TypeOK
  BY DEF RingInv
<1> QED BY InitInv, NextInv, <1>1, PTL DEF Spec

(* The ROB is a ring in every run of every program, whatever branches and  *)
(* stalls it meets: no slot of an instruction in flight is overwritten or  *)
(* given back, and every busy slot is in flight or at the tail.            *)
THEOREM RingCorrect == Spec => []RobIsARing
<1>1. RingInv => RobIsARing
  BY DEF RingInv
<1> QED BY InitInv, NextInv, <1>1, PTL DEF Spec
=============================================================================

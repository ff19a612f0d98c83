---------------------------- MODULE RenameProofs ----------------------------
(***************************************************************************)
(* That the register status table names the youngest writer in flight,     *)
(* that nobody waits for a broadcast that will not come, and that nothing  *)
(* is left behind at the end: for every size and every program, as long as *)
(* the program does not run into the defects of a failed attempt to issue. *)
(*                                                                         *)
(* issue_instruction renames the destination of an instruction for which   *)
(* it then finds no station, and counts on trying the same instruction     *)
(* again.  RetryUndisturbed and RetryReadsOthers say of a run that this    *)
(* works out.                                                              *)
(***************************************************************************)
EXTENDS LsqProofs

(* The three cases of RenameTable. *)
Unmapped(r) == regs_status[r] = NoTag /\ \A k \in RobIdx : ~Writes(k, r)
Mapped(r) ==
  /\ regs_status[r] \in RobIdx /\ Writes(regs_status[r], r)
  /\ \A k \in RobIdx : Writes(k, r) => k = regs_status[r] \/ Older(k, regs_status[r])
Retrying(r) == Retried(r) /\ CanFetch /\ Instr.dest = r
Named(r) == Unmapped(r) \/ Mapped(r) \/ Retrying(r)

StoresWriteNothing ==
  \A k \in RobIdx : InFlight(k) /\ is_store_op(rob[k].op) => rob[k].dest = NoReg
ResultsArrive ==
  \A k \in RobIdx : InFlight(k) /\ rob[k].state = "EXECUTED"
                    /\ ~is_store_op(rob[k].op) => rob[k].result # NoValue
RetryFollows ==
  stage = "broadcast" /\ (\E r \in Reg : Retried(r)) =>
    next_fetch_idx = next_fetch_branch
(* The inductive invariant: the head releases its register only if it has  *)
(* a result and a destination, and a register mapped ahead of the issue    *)
(* stays so only if the next attempt is for the same instruction.          *)
RenameInv == /\ LsqInv /\ StoresWriteNothing /\ ResultsArrive /\ RetryFollows
             /\ \A r \in Reg : Named(r)

LEMMA NamedIsRenameTable == RenameTable <=> \A r \in Reg : Named(r)
<1>1. NoTag \notin RobIdx
  BY SizeAssumption DEF NoTag, RobIdx
<1>2. \A k, r : Writes(k, r) => k \in RobIdx
  BY DEF Writes, InFlight
<1> QED BY <1>1, <1>2 DEF RenameTable, Named, Unmapped, Mapped, Retrying, Retried, CanFetch

(* Registers whose writers in flight, and whose mapping, stay as they are. *)
LEMMA NamedFrame ==
  ASSUME NEW r \in Reg, Named(r), UNCHANGED rob_head,
         regs_status'[r] = regs_status[r],
         \A k \in RobIdx : Writes(k, r)' <=> Writes(k, r),
         Retrying(r) => Named(r)'
  PROVE  Named(r)'
<1>1. CASE Unmapped(r)
  BY <1>1 DEF Named, Unmapped
<1>2. CASE Mapped(r)
  <2>1. PICK t \in RobIdx : t = regs_status[r]
    BY <1>2 DEF Mapped
  <2>2. Writes(t, r)' /\ \A k \in RobIdx : Writes(k, r)' => k = t \/ Older(k, t)
    BY <1>2, <2>1 DEF Mapped
  <2>3. \A k \in RobIdx : Older(k, t)' <=> Older(k, t)
    BY DEF Older, Age
  <2>4. regs_status'[r] = t
    BY <2>1
  <2>5. Mapped(r)'
    BY <2>2, <2>3, <2>4 DEF Mapped, Writes, InFlight, Older, Age
  <2> QED BY <2>5 DEF Named
<1> QED BY <1>1, <1>2 DEF Named
-----------------------------------------------------------------------------
LEMMA AgeOfTail ==
  ASSUME NEW h \in RobIdx, NEW c \in 0 .. ROB_SIZE-1
  PROVE  (((h + c) % ROB_SIZE) - h) % ROB_SIZE = c
<1>1. ROB_SIZE \in Nat \ {0}
  BY SizeAssumption
<1>2. (h + c) % ROB_SIZE = IF h + c < ROB_SIZE THEN h + c ELSE h + c - ROB_SIZE
  BY <1>1, ModRob DEF RobIdx
<1>3. CASE h + c < ROB_SIZE
  BY <1>1, <1>2, <1>3, ModRob DEF RobIdx
<1>4. CASE h + c >= ROB_SIZE
  BY <1>1, <1>2, <1>4, ModRob DEF RobIdx
<1> QED BY <1>1, <1>3, <1>4 DEF RobIdx

(* Order in the ring when the head leaves. *)
LEMMA OrderKept ==
  ASSUME RingInv, rob_count > 0, ReleaseRob, NEW j \in RobIdx, NEW k \in RobIdx,
         j # rob_head, k # rob_head
  PROVE  Older(j, k)' <=> Older(j, k)
<1>1. rob_head \in RobIdx /\ rob_head' = NextRob(rob_head)
  BY DEF RingInv, TypeOK, ReleaseRob
<1>2. /\ Age(j) \in Int /\ Age(k) \in Int
      /\ Age(j)' = Age(j) - 1 /\ Age(k)' = Age(k) - 1
  BY <1>1, AgeOfHead DEF Age
<1> QED BY <1>2 DEF Older

(* Commit releases the register of the head if nobody younger writes it.   *)
LEMMA CommitRename ==
  ASSUME RenameInv, CommitStore \/ CommitRegister
  PROVE  StoresWriteNothing' /\ ResultsArrive' /\ RetryFollows'
         /\ \A r \in Reg : Named(r)'
<1>1. /\ RingInv /\ rob_count > 0 /\ ReleaseRob /\ rob_head \in RobIdx
      /\ rob[rob_head].state = "EXECUTED" /\ InFlight(rob_head)
      /\ stage' = "launch" /\ UNCHANGED <<instruction_queue, next_fetch_branch>>
  BY HeadInFlight DEF RenameInv, LsqInv, ServeInv, RingInv, TypeOK, CommitStore,
     CommitRegister, CanCommit, HeadEntry, fetchVars
<1>2. /\ \A k \in RobIdx : InFlight(k)' <=> InFlight(k) /\ k # rob_head
      /\ \A k \in RobIdx : k # rob_head => rob'[k] = rob[k]
      /\ rob_tail' = rob_tail /\ rob_count' = rob_count - 1
      /\ rob_count \in 1 .. ROB_SIZE /\ rob_tail \in RobIdx
  BY <1>1, ReleaseRobKeepsRing, HeadInFlight DEF ReleaseRob, RingInv, TypeOK
<1>3. ASSUME NEW r \in Reg
      PROVE  \A k \in RobIdx : Writes(k, r)' <=> Writes(k, r) /\ k # rob_head
  BY <1>2 DEF Writes
<1>4. StoresWriteNothing' /\ ResultsArrive'
  BY <1>2 DEF RenameInv, StoresWriteNothing, ResultsArrive
<1>5. RetryFollows'
  BY <1>1 DEF RetryFollows
<1>6. ASSUME NEW r \in Reg
      PROVE  regs_status'[r] = IF Writes(rob_head, r) /\ regs_status[r] = rob_head
                               THEN NoTag ELSE regs_status[r]
  <2>1. regs_status \in [Reg -> Tag] /\ r # NoReg
    BY <1>1 DEF RingInv, TypeOK, Reg, NoReg
  <2>2. CASE CommitStore
    <3>1. regs_status' = regs_status /\ is_store_op(rob[rob_head].op)
      BY <2>2 DEF CommitStore, HeadEntry
    <3>2. rob[rob_head].dest = NoReg
      BY <1>1, <3>1 DEF RenameInv, StoresWriteNothing
    <3> QED BY <2>1, <3>1, <3>2 DEF Writes
  <2>3. CASE CommitRegister
    <3>1. ~is_store_op(rob[rob_head].op)
      BY <2>3 DEF CommitRegister, HeadEntry
    <3>2. rob[rob_head].result # NoValue
      BY <1>1, <3>1 DEF RenameInv, ResultsArrive
    <3>3. regs_status' = IF rob[rob_head].dest # NoReg
                         THEN ReleaseStatus(rob[rob_head].dest) ELSE regs_status
      BY <2>3, <3>2 DEF CommitRegister, HeadEntry
    <3>4. CASE rob[rob_head].dest = r
      <4>1. regs_status' = IF regs_status[r] = rob_head
                           THEN [regs_status EXCEPT ![r] = NoTag] ELSE regs_status
        BY <2>1, <3>3, <3>4 DEF ReleaseStatus
      <4> QED BY <1>1, <2>1, <3>4, <4>1 DEF Writes
    <3>5. CASE rob[rob_head].dest # r
      <4>1. regs_status'[r] = regs_status[r]
        BY <2>1, <3>3, <3>5 DEF ReleaseStatus
      <4> QED BY <3>5, <4>1 DEF Writes
    <3> QED BY <3>4, <3>5
  <2> QED BY <2>2, <2>3
<1>7. ASSUME NEW r \in Reg PROVE Named(r)'
  <2>1. Named(r)
    BY DEF RenameInv
  <2>2. CASE Unmapped(r)
    BY <1>1, <1>3, <1>6, <2>2 DEF Named, Unmapped
  <2>3. CASE Mapped(r) /\ regs_status[r] = rob_head
    <3>1. regs_status'[r] = NoTag
      BY <1>6, <2>3 DEF Mapped
    <3>2. ASSUME NEW k \in RobIdx, Writes(k, r) PROVE k = rob_head
      <4>1. k = rob_head \/ Older(k, rob_head)
        BY <2>3, <3>2 DEF Mapped
      <4>2. Age(k) \in 0 .. ROB_SIZE-1 /\ Age(rob_head) = 0
        BY <1>1, AgeOfHead DEF Age
      <4> QED BY <4>1, <4>2, SizeAssumption DEF Older
    <3> QED BY <1>3, <3>1, <3>2 DEF Named, Unmapped
  <2>4. CASE Mapped(r) /\ regs_status[r] # rob_head
    <3>1. PICK t \in RobIdx : t = regs_status[r] /\ t # rob_head /\ Writes(t, r)
      BY <2>4 DEF Mapped
    <3>2. regs_status'[r] = t /\ Writes(t, r)'
      BY <1>3, <1>6, <3>1
    <3>3. \A k \in RobIdx : Writes(k, r)' => k = t \/ Older(k, t)'
      BY <1>1, <1>3, <2>4, <3>1, OrderKept DEF Mapped
    <3>4. Mapped(r)'
      BY <3>2, <3>3 DEF Mapped, Writes, InFlight, Older, Age
    <3> QED BY <3>4 DEF Named
  <2>5. CASE Retrying(r)
    <3>1. /\ regs_status[r] = rob_tail /\ rob_count < ROB_SIZE
          /\ CanFetch' /\ Instr' = Instr /\ Instr.dest = r
      BY <1>1, <2>5 DEF Retrying, Retried, CanFetch, InProgram, Instr
    <3>2. rob_tail # rob_head
      <4>1. ~RobFull
        BY <1>2, <3>1, SizeAssumption DEF RobFull
      <4> QED BY <1>1, <4>1, TailIsFree
    <3>3. regs_status'[r] = rob_tail' /\ rob_count' < ROB_SIZE
      BY <1>2, <1>6, <3>1, <3>2, SizeAssumption
    <3> QED BY <3>1, <3>3 DEF Named, Retrying, Retried
  <2> QED BY <2>1, <2>2, <2>3, <2>4, <2>5 DEF Named
<1> QED BY <1>4, <1>5, <1>7
-----------------------------------------------------------------------------
(* Steps that move no entry in or out and map no register. *)
Still ==
  /\ UNCHANGED <<rob_head, rob_tail, rob_count, regs_status, instruction_queue>>
  /\ \A k \in RobIdx : InFlight(k) =>
       rob'[k].op = rob[k].op /\ rob'[k].dest = rob[k].dest

LEMMA StillRename ==
  ASSUME RenameInv, Still,
         \A r \in Reg : Retried(r) => next_fetch_branch' = next_fetch_branch
  PROVE  StoresWriteNothing' /\ \A r \in Reg : Named(r)'
<1>1. \A k \in RobIdx : InFlight(k)' <=> InFlight(k)
  BY DEF Still, InFlight, Age
<1>2. StoresWriteNothing'
  BY <1>1 DEF RenameInv, StoresWriteNothing, Still
<1>3. ASSUME NEW r \in Reg PROVE Named(r)'
  <2>1. \A k \in RobIdx : Writes(k, r)' <=> Writes(k, r)
    BY <1>1 DEF Writes, Still
  <2>2. Retrying(r) => Retrying(r)'
    BY DEF Retrying, Retried, CanFetch, InProgram, Instr, Still
  <2>3. Named(r) /\ rob_head' = rob_head /\ regs_status'[r] = regs_status[r]
    BY DEF RenameInv, Still
  <2>4. Retrying(r) => Named(r)'
    BY <2>2 DEF Named
  <2> QED BY <2>1, <2>3, <2>4, NamedFrame
<1> QED BY <1>2, <1>3

LEMMA LaunchRename ==
  ASSUME RenameInv, Launch
  PROVE  StoresWriteNothing' /\ ResultsArrive' /\ RetryFollows'
         /\ \A r \in Reg : Named(r)'
<1>1. ServeInv /\ RingInv
  BY DEF RenameInv, LsqInv, ServeInv
<1>2. ASSUME NEW k \in RobIdx
      PROVE  /\ rob'[k].op = rob[k].op /\ rob'[k].dest = rob[k].dest
             /\ rob'[k].result = rob[k].result
             /\ rob'[k].state = "EXECUTED" => rob[k].state = "EXECUTED"
             /\ InFlight(k)' <=> InFlight(k)
  <2>1. rob[k] \in EntryRecord
    BY <1>1 DEF RingInv, TypeOK
  <2>2. rob'[k] = IF k \in LaunchedEntries
                  THEN [rob[k] EXCEPT !.state = "EXECUTING"] ELSE rob[k]
    BY DEF Launch
  <2>3. InFlight(k)' <=> InFlight(k)
    BY DEF Launch, InFlight, Age
  <2> QED BY <2>1, <2>2, <2>3 DEF EntryRecord
<1>3. Still /\ next_fetch_branch' = next_fetch_branch
  BY <1>2 DEF Still, Launch, fetchVars
<1>4. ResultsArrive'
  BY <1>2 DEF RenameInv, ResultsArrive
<1>5. RetryFollows'
  BY DEF RetryFollows, Launch
<1> QED BY <1>3, <1>4, <1>5, StillRename

LEMMA AdvanceRename ==
  ASSUME RenameInv, Advance, RetryUndisturbed
  PROVE  StoresWriteNothing' /\ ResultsArrive' /\ RetryFollows'
         /\ \A r \in Reg : Named(r)'
<1>1. LsqInv /\ ServeInv /\ RingInv
  BY DEF RenameInv, LsqInv, ServeInv
<1>2. ASSUME NEW k \in RobIdx
      PROVE  /\ rob'[k].op = rob[k].op /\ rob'[k].dest = rob[k].dest
             /\ rob'[k].state = "EXECUTED" /\ ~is_store_op(rob[k].op) =>
                  \/ rob'[k].result # NoValue
                  \/ rob[k].state = "EXECUTED" /\ rob'[k].result = rob[k].result
             /\ InFlight(k)' <=> InFlight(k)
  <2>1. rob[k] \in EntryRecord
    BY <1>1 DEF RingInv, TypeOK
  <2>2. InFlight(k)' <=> InFlight(k)
    BY DEF Advance, InFlight, Age
  <2>3. CASE DeliveredTo(k) = {}
    BY <2>1, <2>2, <2>3 DEF Advance
  <2>4. CASE DeliveredTo(k) # {}
    <3>1. PICK u \in DeliveredTo(k) : rob'[k] = CompletedEntry(k, u)
      BY <2>4 DEF Advance
    <3>2. /\ u \in Delivered /\ fus[u].rob_idx = k
          /\ u[1] = "STORE" <=> is_store_op(rob[k].op)
      BY <1>1, DeliveredAccess, AccessTypes DEF DeliveredTo
    <3>3. Result(u) # NoValue
      BY <1>1, <3>2, DeliveredTypes, Values
    <3>4. /\ CompletedEntry(k, u).op = rob[k].op
          /\ CompletedEntry(k, u).dest = rob[k].dest
          /\ u[1] # "STORE" => CompletedEntry(k, u).result = Result(u)
      BY <2>1 DEF CompletedEntry, EntryRecord
    <3> QED BY <2>2, <3>1, <3>2, <3>3, <3>4
  <2> QED BY <2>3, <2>4
<1>3. Still
  BY <1>2 DEF Still, Advance
<1>4. \A r \in Reg : Retried(r) => next_fetch_branch' = next_fetch_branch
  BY DEF RetryUndisturbed, Advance, Redirect
<1>5. ResultsArrive'
  BY <1>2 DEF RenameInv, ResultsArrive
<1>6. RetryFollows'
  BY DEF RetryFollows, Advance
<1> QED BY <1>3, <1>4, <1>5, <1>6, StillRename

LEMMA BroadcastRename ==
  ASSUME RenameInv, CDB_broadcast
  PROVE  StoresWriteNothing' /\ ResultsArrive' /\ RetryFollows'
         /\ \A r \in Reg : Named(r)'
<1>1. Still /\ UNCHANGED robVars /\ stage = "broadcast"
      /\ next_fetch_branch' = next_fetch_idx /\ stage' \in {"commit", "done"}
  BY DEF Still, CDB_broadcast, robVars
<1>2. \A r \in Reg : Retried(r) => next_fetch_branch' = next_fetch_branch
  BY <1>1 DEF RenameInv, RetryFollows
<1>3. ResultsArrive'
  BY <1>1 DEF RenameInv, ResultsArrive, robVars, InFlight, Age
<1>4. RetryFollows'
  BY <1>1 DEF RetryFollows
<1> QED BY <1>1, <1>2, <1>3, <1>4, StillRename
-----------------------------------------------------------------------------
(* The instruction fetched. *)
LEMMA FetchedWellFormed ==
  ASSUME WellFormed, CanFetch, RingInv
  PROVE  /\ is_store_op(Instr.op) => Instr.dest = NoReg
         /\ Instr.op # "UNKNOWN" /\ Instr.src1 # NoReg =>
              Instr.src1[1] = operand_kind_1(Instr.op)
<1>1. next_fetch_branch + 1 \in 1 .. Len(instruction_queue)
  BY DEF CanFetch, InProgram, RingInv, TypeOK
<1> QED BY <1>1 DEF WellFormed, WellFormedInstruction, Instr

LEMMA IssueNothingRename ==
  ASSUME RenameInv, IssueNothing
  PROVE  StoresWriteNothing' /\ ResultsArrive' /\ RetryFollows'
         /\ \A r \in Reg : Named(r)'
<1>1. Still /\ next_fetch_branch' = next_fetch_branch /\ UNCHANGED robVars
      /\ next_fetch_idx' = next_fetch_branch + 0 /\ next_fetch_branch \in Int
  BY DEF Still, IssueNothing, Fetch, robVars, RenameInv, LsqInv, ServeInv, RingInv, TypeOK
<1>2. ResultsArrive'
  BY <1>1 DEF RenameInv, ResultsArrive, robVars, InFlight, Age
<1>3. RetryFollows'
  BY <1>1 DEF RetryFollows
<1> QED BY <1>1, <1>2, <1>3, StillRename

(* A failed attempt maps its destination to the entry of the next one. *)
LEMMA StallRename ==
  ASSUME RenameInv, StallArith \/ StallMemory
  PROVE  StoresWriteNothing' /\ ResultsArrive' /\ RetryFollows'
         /\ \A r \in Reg : Named(r)'
<1>1. /\ RingInv /\ CanFetch /\ ~RobFull /\ rob' = RobWithNew(-1)
      /\ UNCHANGED <<rob_head, rob_tail, rob_count, instruction_queue, next_fetch_branch>>
      /\ next_fetch_idx' = next_fetch_branch + 0 /\ next_fetch_branch \in Int
      /\ regs_status' = regs_status \/ regs_status' = Rename
  BY DEF StallArith, StallMemory, Fetch, RenameInv, LsqInv, ServeInv, RingInv, TypeOK
<1>2. \A k \in RobIdx : /\ InFlight(k)' <=> InFlight(k)
                        /\ InFlight(k) => rob'[k] = rob[k]
  BY <1>1, TailWritten DEF InFlight, Age
<1>3. StoresWriteNothing' /\ ResultsArrive'
  BY <1>2 DEF RenameInv, StoresWriteNothing, ResultsArrive
<1>4. RetryFollows'
  BY <1>1 DEF RetryFollows
<1>5. ASSUME NEW r \in Reg PROVE Named(r)'
  <2>1. \A k \in RobIdx : Writes(k, r)' <=> Writes(k, r)
    BY <1>2 DEF Writes
  <2>2. /\ CanFetch' /\ Instr' = Instr /\ rob_count < ROB_SIZE
        /\ regs_status \in [Reg -> Tag]
    BY <1>1, TailIsFree, SizeAssumption DEF CanFetch, InProgram, Instr, RingInv, TypeOK
  <2>3. CASE regs_status'[r] = regs_status[r]
    <3>1. Retrying(r) => Retrying(r)'
      BY <1>1, <2>2, <2>3 DEF Retrying, Retried
    <3>2. Named(r)
      BY DEF RenameInv
    <3>3. Retrying(r) => Named(r)'
      BY <3>1 DEF Named
    <3> QED BY <1>1, <2>1, <2>3, <3>2, <3>3, NamedFrame
  <2>4. CASE regs_status'[r] # regs_status[r]
    <3>1. regs_status' = Rename
      BY <1>1, <2>4
    <3>2. Instr.dest = r /\ regs_status'[r] = rob_tail
      BY <2>2, <2>4, <3>1 DEF Rename
    <3>3. Retrying(r)'
      BY <1>1, <2>2, <3>2 DEF Retrying, Retried
    <3> QED BY <3>3 DEF Named
  <2> QED BY <2>3, <2>4
<1> QED BY <1>3, <1>4, <1>5

(* An instruction that enters becomes the youngest writer of its register. *)
LEMMA EnterRename ==
  ASSUME RenameInv, WellFormed, CanFetch, ~RobFull,
         NEW q \in LsqIdx \cup {-1}, Enter(q), RingInv'
  PROVE  StoresWriteNothing' /\ ResultsArrive' /\ RetryFollows'
         /\ \A r \in Reg : Named(r)'
<1>1. /\ RingInv /\ rob_head' = rob_head /\ regs_status' = Rename
      /\ rob_tail' = NextRob(rob_tail) /\ rob_count' = rob_count + 1
      /\ regs_status \in [Reg -> Tag]
  BY DEF Enter, Fetch, RenameInv, LsqInv, ServeInv, RingInv, TypeOK
<1>2. PICK t \in RobIdx :
        /\ t = rob_tail /\ ~InFlight(t)
        /\ \A k \in RobIdx : InFlight(k)' <=> InFlight(k) \/ k = t
        /\ \A k \in RobIdx : k # t => rob'[k] = rob[k]
        /\ rob'[t] = NewEntry(q)
  BY <1>1, EnterRing
<1>3. rob'[t].op = Instr.op /\ rob'[t].dest = Instr.dest /\ rob'[t].state = "ISSUED"
  BY <1>2 DEF NewEntry
<1>4. StoresWriteNothing' /\ ResultsArrive'
  BY <1>1, <1>2, <1>3, FetchedWellFormed DEF RenameInv, StoresWriteNothing, ResultsArrive
<1>5. ASSUME NEW k \in RobIdx PROVE Age(k)' = Age(k) /\ Age(k) \in Int
  BY <1>1, AgeOfHead DEF Age, RingInv, TypeOK
<1>6. Age(t) = rob_count
  <2>1. /\ rob_count \in 0 .. ROB_SIZE-1 /\ rob_head \in RobIdx
        /\ t = (rob_head + rob_count) % ROB_SIZE
    BY <1>1, <1>2, TailIsFree DEF RingInv, TypeOK, RobIsARing
  <2> QED BY <2>1, AgeOfTail DEF Age
<1>7. ASSUME NEW r \in Reg PROVE Unmapped(r)' \/ Mapped(r)'
  <2>1. Named(r) /\ r # NoReg
    BY DEF RenameInv, Reg, NoReg
  <2>2. CASE Instr.dest = r
    <3>1. regs_status'[r] = t
      BY <1>1, <1>2, <2>1, <2>2 DEF Rename
    <3>2. Writes(t, r)'
      BY <1>2, <1>3, <2>2 DEF Writes, InFlight, Age
    <3>3. ASSUME NEW k \in RobIdx, Writes(k, r)' PROVE k = t \/ Older(k, t)'
      <4>1. k = t \/ InFlight(k)
        BY <1>2, <3>3 DEF Writes
      <4> QED BY <1>5, <1>6, <4>1 DEF Older, InFlight
    <3> QED BY <3>1, <3>2, <3>3 DEF Mapped, Writes, InFlight, Older, Age
  <2>3. CASE Instr.dest # r
    <3>1. regs_status'[r] = regs_status[r]
      BY <1>1, <2>3 DEF Rename
    <3>2. \A k \in RobIdx : Writes(k, r)' <=> Writes(k, r)
      BY <1>2, <1>3, <2>3 DEF Writes
    <3>3. CASE Unmapped(r)
      BY <3>1, <3>2, <3>3 DEF Unmapped
    <3>4. CASE Mapped(r)
      <4>1. PICK m \in RobIdx : m = regs_status[r] /\ Writes(m, r)
        BY <3>4 DEF Mapped
      <4>2. regs_status'[r] = m /\ Writes(m, r)'
        BY <3>1, <3>2, <4>1
      <4>3. \A k \in RobIdx : Writes(k, r)' => k = m \/ Older(k, m)'
        BY <1>5, <3>2, <3>4, <4>1 DEF Mapped, Older
      <4> QED BY <4>2, <4>3 DEF Mapped, Writes, InFlight, Older, Age
    <3> QED BY <2>1, <2>3, <3>3, <3>4 DEF Named, Retrying
  <2> QED BY <2>2, <2>3
<1>8. ASSUME NEW r \in Reg, Retried(r)' PROVE FALSE
  <2>1. PICK m \in RobIdx : m = rob_tail'
    BY DEF RingInv, TypeOK
  <2>2. rob_head' \in RobIdx /\ rob_count' \in 0 .. ROB_SIZE-1
    BY <1>8, SizeAssumption DEF Retried, RingInv, TypeOK
  <2>3. m = (rob_head' + rob_count') % ROB_SIZE
    BY <2>1 DEF RingInv, RobIsARing
  <2>4. (m - rob_head') % ROB_SIZE = rob_count'
    BY <2>2, <2>3, AgeOfTail
  <2>5. ~Writes(m, r)'
    BY <2>2, <2>4 DEF Writes, InFlight, Age
  <2>6. regs_status'[r] = m /\ m # NoTag
    BY <1>8, <2>1, SizeAssumption DEF Retried, NoTag, RobIdx
  <2>7. ~Unmapped(r)'
    BY <2>6 DEF Unmapped
  <2>8. ~Mapped(r)'
    BY <2>5, <2>6 DEF Mapped, Writes, InFlight, Age
  <2> QED BY <1>7, <2>7, <2>8
<1>9. RetryFollows'
  BY <1>8 DEF RetryFollows
<1> QED BY <1>4, <1>7, <1>9 DEF Named
-----------------------------------------------------------------------------
LEMMA RenameInductive ==
  RenameInv /\ WellFormed /\ RetryUndisturbed /\ [Next]_vars => RenameInv'
<1> SUFFICES ASSUME RenameInv, WellFormed, RetryUndisturbed, [Next]_vars
             PROVE  StoresWriteNothing' /\ ResultsArrive' /\ RetryFollows'
                    /\ \A r \in Reg : Named(r)'
  BY LsqInductive DEF RenameInv
<1>1. CASE CommitStore \/ CommitRegister
  BY <1>1, CommitRename
<1>2. CASE Launch
  BY <1>2, LaunchRename
<1>3. CASE Advance
  BY <1>3, AdvanceRename
<1>4. CASE IssueNothing
  BY <1>4, IssueNothingRename
<1>5. CASE StallArith \/ StallMemory
  BY <1>5, StallRename
<1>6. CASE IssueArith \/ IssueMemory
  <2>1. lsq_tail \in LsqIdx /\ RingInv'
    BY LsqInductive DEF RenameInv, LsqInv, ServeInv, RingInv, TypeOK
  <2>2. PICK q \in LsqIdx \cup {-1} : CanFetch /\ ~RobFull /\ Enter(q)
    BY <1>6, <2>1 DEF IssueArith, IssueMemory
  <2> QED BY <2>1, <2>2, EnterRename
<1>7. CASE CDB_broadcast
  BY <1>7, BroadcastRename
<1>8. CASE CommitNothing \/ CommitThrow \/ AdvanceThrow \/ Stopped \/ UNCHANGED vars
  <2>1. /\ UNCHANGED robVars /\ UNCHANGED <<regs_status, fetchVars>>
        /\ stage' = stage \/ stage' # "broadcast"
    BY <1>8 DEF CommitNothing, CommitThrow, AdvanceThrow, Stopped, vars
  <2>2. Still /\ next_fetch_branch' = next_fetch_branch
    BY <2>1 DEF Still, robVars, fetchVars
  <2>3. ResultsArrive'
    BY <2>1 DEF RenameInv, ResultsArrive, robVars, InFlight, Age
  <2>4. RetryFollows'
    BY <2>1 DEF RenameInv, RetryFollows, Retried, robVars, fetchVars
  <2> QED BY <2>2, <2>3, <2>4, StillRename
<1> QED BY <1>1, <1>2, <1>3, <1>4, <1>5, <1>6, <1>7, <1>8 DEF Next, Commit, Issue

LEMMA RenameStarted == Started /\ LeftOver => RenameInv
<1> SUFFICES ASSUME Started, LeftOver PROVE RenameInv
  OBVIOUS
<1>1. \A k \in RobIdx : ~InFlight(k)
  BY ModRob, SizeAssumption DEF Started, InFlight, Age, RobIdx
<1>2. \A r \in Reg : Named(r)
  BY <1>1 DEF Started, Named, Unmapped, Writes
<1>3. RetryFollows
  BY DEF Started, RetryFollows
<1> QED BY <1>1, <1>2, <1>3, LsqStarted DEF RenameInv, StoresWriteNothing, ResultsArrive

LEMMA RenameInit == Init => RenameInv
BY RenameStarted DEF Init, LeftOver

(* The status table names, for every register, its youngest writer in      *)
(* flight: renaming at issue and the conditional release at commit keep it *)
(* so although ROB indices are reused as tags.                             *)
THEOREM RenameCorrect ==
  Spec /\ [](WellFormed /\ RetryUndisturbed) => []RenameTable
<1>1. RenameInv => RenameTable
  BY NamedIsRenameTable DEF RenameInv
<1> QED BY RenameInit, RenameInductive, <1>1, PTL DEF Spec
-----------------------------------------------------------------------------
(* The entry e waits for the entry t. *)
AwaitsAt(t, e, kind) ==
  /\ InFlight(t) /\ Older(t, e) /\ rob[t].dest[1] = kind
  /\ rob[t].state = "EXECUTED" =>
       stage \in {"issue", "broadcast"} /\ Heard(t) # {}
(* CDB_broadcast ends the waiting for what it has heard. *)
StillAwaited(t) == stage = "broadcast" => Heard(t) = {}

LEMMA WakeupFrame ==
  ASSUME ServeInv, NoLostWakeup,
         \A s \in StationId : rs'[s].busy =>
           /\ rs[s].busy /\ rs'[s].ROB_idx = rs[s].ROB_idx /\ rs'[s].op = rs[s].op
           /\ rs'[s].Qj # NoTag => rs'[s].Qj = rs[s].Qj /\ StillAwaited(rs[s].Qj)
           /\ rs'[s].Qk # NoTag => rs'[s].Qk = rs[s].Qk /\ StillAwaited(rs[s].Qk),
         \A t, e \in RobIdx, kind \in Kind :
           StillAwaited(t) /\ Pending(e) /\ AwaitsAt(t, e, kind)
             => AwaitsAt(t, e, kind)'
  PROVE  NoLostWakeup'
<1>1. ASSUME NEW s \in StationId, rs'[s].busy, NEW t, NEW kind \in Kind,
             Awaits(s, t, kind), StillAwaited(t)
      PROVE  Awaits(s, t, kind)'
  <2>1. PICK e \in RobIdx : e = rs[s].ROB_idx /\ Pending(e)
    BY <1>1 DEF ServeInv, StationsServeRob, Pending, InFlight
  <2>2. t \in RobIdx /\ AwaitsAt(t, e, kind)
    BY <1>1, <2>1 DEF Awaits, AwaitsAt, InFlight
  <2>3. AwaitsAt(t, e, kind)' /\ rs'[s].ROB_idx = e
    BY <1>1, <2>1, <2>2
  <2> QED BY <2>3 DEF AwaitsAt, Awaits, InFlight, Older, Age, Heard
<1>2. ASSUME NEW s \in StationId, rs'[s].busy
      PROVE  /\ rs'[s].Qj # NoTag => Awaits(s, rs[s].Qj, operand_kind_1(rs[s].op))'
             /\ rs'[s].Qk # NoTag =>
                  Awaits(s, rs[s].Qk, "int")' \/ Awaits(s, rs[s].Qk, "fp")'
  <2>1. rs[s].busy /\ rs'[s].op = rs[s].op
    BY <1>2
  <2>2. ASSUME rs'[s].Qj # NoTag
        PROVE  Awaits(s, rs[s].Qj, operand_kind_1(rs[s].op))'
    <3>1. PICK t : t = rs[s].Qj /\ t = rs'[s].Qj
      BY <1>2, <2>2
    <3>2. PICK kind \in Kind : kind = operand_kind_1(rs[s].op)
      BY DEF Kind, operand_kind_1
    <3>3. Awaits(s, t, kind) /\ StillAwaited(t)
      BY <1>2, <2>1, <2>2, <3>1, <3>2 DEF NoLostWakeup
    <3>4. Awaits(s, t, kind)'
      BY <1>1, <1>2, <3>3
    <3> QED BY <2>1, <3>1, <3>2, <3>4 DEF Awaits, InFlight, Older, Age, Heard
  <2>3. ASSUME rs'[s].Qk # NoTag
        PROVE  Awaits(s, rs[s].Qk, "int")' \/ Awaits(s, rs[s].Qk, "fp")'
    <3>1. PICK t : t = rs[s].Qk /\ t = rs'[s].Qk
      BY <1>2, <2>3
    <3>2. StillAwaited(t) /\ \E kind \in {"int", "fp"} : Awaits(s, t, kind)
      BY <1>2, <2>1, <2>3, <3>1 DEF NoLostWakeup
    <3>3. PICK kind \in {"int", "fp"} : Awaits(s, t, kind)
      BY <3>2
    <3>4. Awaits(s, t, kind)'
      BY <1>1, <1>2, <3>2, <3>3 DEF Kind
    <3> QED BY <3>1, <3>4 DEF Awaits, InFlight, Older, Age, Heard
  <2> QED BY <2>2, <2>3
<1> QED BY <1>2 DEF NoLostWakeup, Awaits, InFlight, Older, Age, Heard

(* The head that commits has executed, so nobody waits for it any more. *)
LEMMA CommitWakeup ==
  ASSUME ServeInv, NoLostWakeup, CommitStore \/ CommitRegister PROVE NoLostWakeup'
<1>1. /\ RingInv /\ rob_count > 0 /\ ReleaseRob /\ UNCHANGED <<rs, cdb_list>>
      /\ rob[rob_head].state = "EXECUTED" /\ stage = "commit"
  BY DEF ServeInv, CommitStore, CommitRegister, CanCommit, HeadEntry
<1>2. /\ \A k \in RobIdx : InFlight(k)' <=> InFlight(k) /\ k # rob_head
      /\ \A k \in RobIdx : k # rob_head => rob'[k] = rob[k]
  BY <1>1, ReleaseRobKeepsRing
<1>3. ASSUME NEW t \in RobIdx, NEW e \in RobIdx, NEW kind \in Kind,
             Pending(e), AwaitsAt(t, e, kind)
      PROVE  AwaitsAt(t, e, kind)'
  <2>1. t # rob_head /\ e # rob_head /\ rob[t].state # "EXECUTED"
    BY <1>1, <1>3 DEF AwaitsAt, Pending
  <2>2. Older(t, e)' /\ InFlight(t)' /\ rob'[t] = rob[t]
    BY <1>1, <1>2, <1>3, <2>1, OrderKept DEF AwaitsAt
  <2> QED BY <1>3, <2>1, <2>2 DEF AwaitsAt
<1>4. \A t : StillAwaited(t)
  BY <1>1 DEF StillAwaited
<1> QED BY <1>1, <1>3, <1>4, WakeupFrame

LEMMA LaunchWakeup ==
  ASSUME ServeInv, NoLostWakeup, Launch PROVE NoLostWakeup'
<1>1. ASSUME NEW t \in RobIdx, NEW e \in RobIdx, NEW kind \in Kind,
             AwaitsAt(t, e, kind)
      PROVE  AwaitsAt(t, e, kind)'
  <2>1. rob[t] \in EntryRecord
    BY DEF ServeInv, RingInv, TypeOK
  <2>2. rob'[t] = IF t \in LaunchedEntries
                  THEN [rob[t] EXCEPT !.state = "EXECUTING"] ELSE rob[t]
    BY DEF Launch
  <2>3. rob'[t].dest = rob[t].dest /\ (rob'[t].state = "EXECUTED" => rob'[t] = rob[t])
    BY <2>1, <2>2 DEF EntryRecord
  <2>4. rob[t].state # "EXECUTED"
    BY <1>1 DEF AwaitsAt, Launch
  <2> QED BY <1>1, <2>3, <2>4 DEF AwaitsAt, Launch, InFlight, Older, Age
<1>2. UNCHANGED rs /\ \A t : StillAwaited(t)
  BY DEF Launch, StillAwaited
<1> QED BY <1>1, <1>2, WakeupFrame

(* What somebody waits for is broadcast in the turn in which it completes. *)
LEMMA AdvanceWakeup ==
  ASSUME RenameInv, NoLostWakeup, Advance PROVE NoLostWakeup'
<1>1. LsqInv /\ ServeInv /\ StoresWriteNothing
  BY DEF RenameInv, LsqInv
<1>2. ASSUME NEW t \in RobIdx, NEW e \in RobIdx, NEW kind \in Kind,
             AwaitsAt(t, e, kind)
      PROVE  AwaitsAt(t, e, kind)'
  <2>1. rob[t] \in EntryRecord /\ rob[t].state # "EXECUTED" /\ InFlight(t)
    BY <1>1, <1>2 DEF ServeInv, RingInv, TypeOK, AwaitsAt, Advance
  <2>2. InFlight(t)' /\ Older(t, e)' /\ stage' = "issue"
    BY <1>2 DEF AwaitsAt, Advance, InFlight, Older, Age
  <2>3. CASE DeliveredTo(t) = {}
    <3>1. rob'[t] = rob[t]
      BY <2>3 DEF Advance
    <3> QED BY <1>2, <2>1, <2>2, <3>1 DEF AwaitsAt
  <2>4. CASE DeliveredTo(t) # {}
    <3>1. PICK u \in DeliveredTo(t) : rob'[t] = CompletedEntry(t, u)
      BY <2>4 DEF Advance
    <3>2. rob'[t].dest = rob[t].dest
      BY <2>1, <3>1 DEF CompletedEntry, EntryRecord
    <3>3. ~is_store_op(rob[t].op)
      <4>1. rob[t].dest # NoReg
        BY <1>2 DEF AwaitsAt, NoReg, Kind
      <4> QED BY <1>1, <2>1, <4>1 DEF StoresWriteNothing
    <3>4. u \in Delivered /\ fus[u].rob_idx = t /\ u[1] # "STORE"
      BY <1>1, <3>3, DeliveredAccess, AccessTypes DEF DeliveredTo
    <3>5. [producer_id |-> t, value |-> Result(u)] \in cdb_list'
      BY <3>4 DEF Advance
    <3>6. \E c \in cdb_list' : c.producer_id = t
      BY <3>5
    <3>7. Heard(t)' # {}
      BY <3>6 DEF Heard
    <3> QED BY <1>2, <2>2, <3>2, <3>7 DEF AwaitsAt
  <2> QED BY <2>3, <2>4
<1>3. ASSUME NEW s \in StationId
      PROVE  /\ rs'[s].busy => rs[s].busy
             /\ rs'[s].ROB_idx = rs[s].ROB_idx /\ rs'[s].op = rs[s].op
             /\ rs'[s].Qj = rs[s].Qj /\ rs'[s].Qk = rs[s].Qk
  <2>1. rs[s] \in StationRecord
    BY <1>1 DEF ServeInv, RingInv, TypeOK
  <2>2. rs'[s] = IF \E u \in Completed : StationOf(u) = s
                 THEN [rs[s] EXCEPT !.busy = FALSE] ELSE rs[s]
    BY DEF Advance
  <2> QED BY <2>1, <2>2 DEF StationRecord
<1>4. \A t : StillAwaited(t)
  BY DEF Advance, StillAwaited
<1> QED BY <1>1, <1>2, <1>3, <1>4, WakeupFrame

(* A broadcast leaves waiting only those who wait for something else. *)
LEMMA BroadcastWakeup ==
  ASSUME ServeInv, NoLostWakeup, CDB_broadcast PROVE NoLostWakeup'
<1>1. ASSUME NEW s \in StationId, rs'[s].busy
      PROVE  /\ rs[s].busy /\ rs'[s].ROB_idx = rs[s].ROB_idx /\ rs'[s].op = rs[s].op
             /\ rs'[s].Qj # NoTag => rs'[s].Qj = rs[s].Qj /\ StillAwaited(rs[s].Qj)
             /\ rs'[s].Qk # NoTag => rs'[s].Qk = rs[s].Qk /\ StillAwaited(rs[s].Qk)
  <2> DEFINE j == Capture(rs[s].Qj, rs[s].Vj)
             k == Capture(rs[s].Qk, rs[s].Vk)
  <2>1. rs[s] \in StationRecord
    BY DEF ServeInv, RingInv, TypeOK
  <2>2. rs'[s] = [rs[s] EXCEPT !.Qj = j.Q, !.Vj = j.V, !.Qk = k.Q, !.Vk = k.V]
    BY DEF CDB_broadcast
  <2>3. \A tag, V : Capture(tag, V).Q = IF Heard(tag) = {} THEN tag ELSE NoTag
    BY DEF Capture
  <2> HIDE DEF j, k
  <2>4. /\ rs'[s].busy = rs[s].busy /\ rs'[s].ROB_idx = rs[s].ROB_idx
        /\ rs'[s].op = rs[s].op /\ rs'[s].Qj = j.Q /\ rs'[s].Qk = k.Q
    BY <2>1, <2>2 DEF StationRecord
  <2> USE DEF j, k
  <2> QED BY <1>1, <2>3, <2>4 DEF StillAwaited
<1>2. ASSUME NEW t \in RobIdx, NEW e \in RobIdx, NEW kind \in Kind,
             StillAwaited(t), AwaitsAt(t, e, kind)
      PROVE  AwaitsAt(t, e, kind)'
  <2>1. rob[t].state # "EXECUTED"
    BY <1>2 DEF AwaitsAt, StillAwaited, CDB_broadcast
  <2> QED BY <1>2, <2>1 DEF AwaitsAt, CDB_broadcast, robVars, InFlight, Older, Age
<1> QED BY <1>1, <1>2, WakeupFrame

(* Steps that move no entry and touch no station, before the broadcast. *)
LEMMA IdleWakeup ==
  ASSUME ServeInv, NoLostWakeup, UNCHANGED <<rs, cdb_list, rob_head, rob_count>>,
         \A k \in RobIdx : InFlight(k) => rob'[k] = rob[k],
         stage # "broadcast",
         stage = "issue" => stage' \in {"issue", "broadcast"}
  PROVE  NoLostWakeup'
<1>1. ASSUME NEW t \in RobIdx, NEW e \in RobIdx, NEW kind \in Kind,
             AwaitsAt(t, e, kind)
      PROVE  AwaitsAt(t, e, kind)'
  <2>1. InFlight(t)' /\ Older(t, e)' /\ rob'[t] = rob[t] /\ Heard(t)' = Heard(t)
    BY <1>1 DEF AwaitsAt, InFlight, Older, Age, Heard
  <2> QED BY <1>1, <2>1 DEF AwaitsAt
<1>2. \A t : StillAwaited(t)
  BY DEF StillAwaited
<1> QED BY <1>1, <1>2, WakeupFrame
-----------------------------------------------------------------------------
(* The producer of an operand: an instruction in flight that writes it. *)
LEMMA OperandAwaits ==
  ASSUME RenameInv, RetryReadsOthers, stage = "issue", CanFetch, ~RobFull,
         NEW r \in Reg, r \in {Instr.src1, Instr.src2}, NEW V,
         Operand(r, V).Q # NoTag
  PROVE  /\ Operand(r, V).Q \in RobIdx /\ Writes(Operand(r, V).Q, r)
         /\ rob[Operand(r, V).Q].state # "EXECUTED"
<1>1. RingInv /\ r # NoReg /\ Named(r)
  BY DEF RenameInv, LsqInv, ServeInv, Reg, NoReg
<1>2. ~Retried(r)
  BY DEF RetryReadsOthers
<1>3. /\ Operand(r, V).Q = regs_status[r] /\ regs_status[r] # NoTag
      /\ RobWithNew(-1)[regs_status[r]].state # "EXECUTED"
  BY <1>1 DEF Operand
<1>4. Mapped(r)
  BY <1>1, <1>2, <1>3 DEF Named, Unmapped, Retrying
<1>5. PICK t \in RobIdx : t = regs_status[r] /\ Writes(t, r)
  BY <1>4 DEF Mapped
<1>6. RobWithNew(-1)[t] = rob[t]
  BY <1>1, <1>5, TailWritten DEF Writes
<1> QED BY <1>3, <1>5, <1>6

LEMMA EnterWakeup ==
  ASSUME RenameInv, NoLostWakeup, WellFormed, RetryReadsOthers,
         stage = "issue", CanFetch, ~RobFull, NEW q \in LsqIdx \cup {-1}, Enter(q)
  PROVE  NoLostWakeup'
<1>1. /\ RingInv /\ ServeInv /\ rob_head' = rob_head
      /\ stage' = "broadcast" /\ cdb_list' = cdb_list
  BY DEF Enter, Fetch, RenameInv, LsqInv, ServeInv
<1>2. PICK e \in RobIdx :
        /\ e = rob_tail /\ ~InFlight(e)
        /\ \A k \in RobIdx : InFlight(k)' <=> InFlight(k) \/ k = e
        /\ \A k \in RobIdx : k # e => rob'[k] = rob[k]
  BY <1>1, EnterRing DEF Enter, Fetch
<1>3. PICK s \in Free : rs' = [rs EXCEPT ![s] = Filled(s)]
  BY DEF Enter
<1>4. ASSUME NEW t \in RobIdx, NEW w \in RobIdx, NEW kind \in Kind,
             AwaitsAt(t, w, kind)
      PROVE  AwaitsAt(t, w, kind)'
  <2>1. InFlight(t) /\ t # e
    BY <1>2, <1>4 DEF AwaitsAt
  <2>2. InFlight(t)' /\ rob'[t] = rob[t]
    BY <1>2, <2>1
  <2>3. Older(t, w)' /\ Heard(t)' = Heard(t)
    BY <1>1, <1>4 DEF AwaitsAt, Older, Age, Heard
  <2> QED BY <1>1, <1>4, <2>2, <2>3 DEF AwaitsAt
<1>5. Age(e) = rob_count
  <2>1. /\ rob_count \in 0 .. ROB_SIZE-1 /\ rob_head \in RobIdx
        /\ e = (rob_head + rob_count) % ROB_SIZE
    BY <1>1, <1>2, TailIsFree DEF RingInv, TypeOK, RobIsARing
  <2> QED BY <2>1, AgeOfTail DEF Age
<1>6. ASSUME NEW r \in Reg, r \in {Instr.src1, Instr.src2}, NEW V,
             Operand(r, V).Q # NoTag
      PROVE  \E t \in RobIdx : t = Operand(r, V).Q /\ AwaitsAt(t, e, r[1])'
  <2>1. PICK t \in RobIdx : /\ t = Operand(r, V).Q /\ Writes(t, r)
                            /\ rob[t].state # "EXECUTED"
    BY <1>6, OperandAwaits
  <2>2. InFlight(t) /\ t # e /\ rob[t].dest = r
    BY <1>2, <2>1 DEF Writes
  <2>3. InFlight(t)' /\ rob'[t] = rob[t]
    BY <1>2, <2>2
  <2>4. Older(t, e)'
    BY <1>1, <1>5, <2>2 DEF Older, InFlight, Age
  <2> QED BY <2>1, <2>2, <2>3, <2>4 DEF AwaitsAt
<1>7. /\ s \in StationId /\ rs'[s] = Filled(s)
      /\ \A w \in StationId : w # s => rs'[w] = rs[w]
      /\ Instr \in Instruction
  BY <1>1, <1>3, FetchTypes DEF Free, RingInv, TypeOK
<1>8. Filled(s).ROB_idx = e /\ Filled(s).op = Instr.op
  BY <1>2 DEF Filled
<1>9. ASSUME Filled(s).Qj # NoTag
      PROVE  \E t \in RobIdx, kind \in Kind :
               /\ t = Filled(s).Qj /\ kind = operand_kind_1(Instr.op)
               /\ AwaitsAt(t, e, kind)'
  <2>1. Filled(s).Qj = Operand(Instr.src1, rs[s].Vj).Q
    BY DEF Filled
  <2>2. Instr.src1 # NoReg
    BY <1>9, <2>1 DEF Operand
  <2>3. /\ Instr.src1 \in Reg /\ Instr.src1[1] = operand_kind_1(Instr.op)
        /\ Instr.src1[1] \in Kind
    <3>1. Instr.op # "UNKNOWN"
      BY <1>3 DEF Free, StationId, RSType, Type, station_type, is_load_op,
                  is_store_op, is_alu_op, alu_ops, is_muldiv_op, muldiv_ops,
                  is_fp_add_op, is_fp_mul_op, is_fp_div_op
    <3> QED BY <1>1, <1>7, <2>2, <3>1, FetchedWellFormed DEF Instruction, Reg, Kind
  <2>4. PICK r \in Reg : r = Instr.src1
    BY <2>3
  <2>5. PICK V : V = rs[s].Vj
    OBVIOUS
  <2>6. Operand(r, V).Q # NoTag /\ Operand(r, V).Q = Filled(s).Qj
    BY <1>9, <2>1, <2>4, <2>5
  <2>7. PICK t \in RobIdx : t = Operand(r, V).Q /\ AwaitsAt(t, e, r[1])'
    BY <1>6, <2>4, <2>6
  <2>8. PICK kind \in Kind : kind = r[1]
    BY <2>3, <2>4
  <2> QED BY <2>3, <2>4, <2>6, <2>7, <2>8
<1>10. ASSUME Filled(s).Qk # NoTag
       PROVE  \E t \in RobIdx, kind \in {"int", "fp"} :
                t = Filled(s).Qk /\ AwaitsAt(t, e, kind)'
  <2>1. Filled(s).Qk = Operand(Instr.src2, rs[s].Vk).Q
    BY <1>10 DEF Filled
  <2>2. Instr.src2 # NoReg
    BY <1>10, <2>1 DEF Operand
  <2>3. PICK r \in Reg : r = Instr.src2 /\ r[1] \in {"int", "fp"}
    BY <1>7, <2>2 DEF Instruction, Reg
  <2>4. PICK V : V = rs[s].Vk
    OBVIOUS
  <2>5. Operand(r, V).Q # NoTag /\ Operand(r, V).Q = Filled(s).Qk
    BY <1>10, <2>1, <2>3, <2>4
  <2>6. PICK t \in RobIdx : t = Operand(r, V).Q /\ AwaitsAt(t, e, r[1])'
    BY <1>6, <2>3, <2>5
  <2>7. PICK kind \in {"int", "fp"} : kind = r[1]
    BY <2>3
  <2> QED BY <2>5, <2>6, <2>7
<1>11. ASSUME NEW w \in StationId, w # s, rs[w].busy, NEW t, NEW kind \in Kind,
              Awaits(w, t, kind)
       PROVE  Awaits(w, t, kind)'
  <2>1. PICK i \in RobIdx : i = rs[w].ROB_idx
    BY <1>1, <1>11 DEF ServeInv, StationsServeRob, Pending, InFlight
  <2>2. t \in RobIdx /\ AwaitsAt(t, i, kind)
    BY <1>11, <2>1 DEF Awaits, AwaitsAt, InFlight
  <2>3. AwaitsAt(t, i, kind)' /\ rs'[w].ROB_idx = i
    BY <1>4, <1>7, <1>11, <2>1, <2>2
  <2> QED BY <2>3 DEF AwaitsAt, Awaits, InFlight, Older, Age, Heard
<1>12. ASSUME NEW t \in RobIdx, NEW kind \in Kind, AwaitsAt(t, e, kind)'
       PROVE  Awaits(s, t, kind)'
  <2>1. rs'[s].ROB_idx = e
    BY <1>7, <1>8
  <2> QED BY <1>12, <2>1 DEF AwaitsAt, Awaits, InFlight, Older, Age, Heard
<1>13. ASSUME NEW w \in StationId, rs'[w].busy
       PROVE  /\ rs'[w].Qj # NoTag => Awaits(w, rs[w].Qj, operand_kind_1(rs[w].op))'
              /\ rs'[w].Qk # NoTag =>
                   Awaits(w, rs[w].Qk, "int")' \/ Awaits(w, rs[w].Qk, "fp")'
  <2>1. ASSUME rs'[w].Qj # NoTag
        PROVE  \E t \in RobIdx, kind \in Kind :
                 /\ t = rs'[w].Qj /\ kind = operand_kind_1(rs'[w].op)
                 /\ Awaits(w, t, kind)'
    <3>1. CASE w = s
      <4>1. PICK t \in RobIdx, kind \in Kind :
              /\ t = Filled(s).Qj /\ kind = operand_kind_1(Instr.op)
              /\ AwaitsAt(t, e, kind)'
        BY <1>7, <1>9, <2>1, <3>1
      <4>2. Awaits(w, t, kind)'
        BY <1>12, <3>1, <4>1
      <4> QED BY <1>7, <1>8, <3>1, <4>1, <4>2
    <3>2. CASE w # s
      <4>1. rs'[w] = rs[w] /\ rs[w].busy
        BY <1>7, <1>13, <3>2
      <4>2. PICK t : t = rs[w].Qj
        OBVIOUS
      <4>3. PICK kind \in Kind : kind = operand_kind_1(rs[w].op)
        BY DEF Kind, operand_kind_1
      <4>4. Awaits(w, t, kind) /\ t \in RobIdx
        BY <2>1, <4>1, <4>2, <4>3 DEF NoLostWakeup, Awaits, InFlight
      <4>5. Awaits(w, t, kind)'
        BY <1>11, <3>2, <4>1, <4>4
      <4> QED BY <4>1, <4>2, <4>3, <4>4, <4>5
    <3> QED BY <3>1, <3>2
  <2>2. ASSUME rs'[w].Qk # NoTag
        PROVE  \E t \in RobIdx, kind \in {"int", "fp"} :
                 t = rs'[w].Qk /\ Awaits(w, t, kind)'
    <3>1. CASE w = s
      <4>1. PICK t \in RobIdx, kind \in {"int", "fp"} :
              t = Filled(s).Qk /\ AwaitsAt(t, e, kind)'
        BY <1>7, <1>10, <2>2, <3>1
      <4>2. Awaits(w, t, kind)'
        BY <1>12, <3>1, <4>1 DEF Kind
      <4> QED BY <1>7, <3>1, <4>1, <4>2
    <3>2. CASE w # s
      <4>1. rs'[w] = rs[w] /\ rs[w].busy
        BY <1>7, <1>13, <3>2
      <4>2. PICK t : t = rs[w].Qk
        OBVIOUS
      <4>3. PICK kind \in {"int", "fp"} : Awaits(w, t, kind)
        BY <2>2, <4>1, <4>2 DEF NoLostWakeup
      <4>4. Awaits(w, t, kind)' /\ t \in RobIdx
        BY <1>11, <3>2, <4>1, <4>3 DEF Kind, Awaits, InFlight
      <4> QED BY <4>1, <4>2, <4>4
    <3> QED BY <3>1, <3>2
  <2>3. ASSUME rs'[w].Qj # NoTag
        PROVE  Awaits(w, rs[w].Qj, operand_kind_1(rs[w].op))'
    BY <2>1, <2>3 DEF Awaits, InFlight, Older, Age, Heard
  <2>4. ASSUME rs'[w].Qk # NoTag
        PROVE  Awaits(w, rs[w].Qk, "int")' \/ Awaits(w, rs[w].Qk, "fp")'
    BY <2>2, <2>4 DEF Awaits, InFlight, Older, Age, Heard
  <2> QED BY <2>3, <2>4
<1> QED BY <1>13 DEF NoLostWakeup, Awaits, InFlight, Older, Age, Heard
-----------------------------------------------------------------------------
LEMMA WakeupInductive ==
  /\ RenameInv /\ NoLostWakeup /\ WellFormed /\ RetryReadsOthers /\ [Next]_vars
  => NoLostWakeup'
<1> SUFFICES ASSUME RenameInv, NoLostWakeup, WellFormed, RetryReadsOthers,
                    [Next]_vars
             PROVE  NoLostWakeup'
  OBVIOUS
<1>1. LsqInv /\ ServeInv /\ RingInv
  BY DEF RenameInv, LsqInv, ServeInv
<1>2. CASE CommitStore \/ CommitRegister
  BY <1>1, <1>2, CommitWakeup
<1>3. CASE Launch
  BY <1>1, <1>3, LaunchWakeup
<1>4. CASE Advance
  BY <1>4, AdvanceWakeup
<1>5. CASE IssueArith \/ IssueMemory
  <2>1. lsq_tail \in LsqIdx
    BY <1>1 DEF RingInv, TypeOK
  <2>2. PICK q \in LsqIdx \cup {-1} :
          stage = "issue" /\ CanFetch /\ ~RobFull /\ Enter(q)
    BY <1>5, <2>1 DEF IssueArith, IssueMemory
  <2> QED BY <2>2, EnterWakeup
<1>6. CASE IssueNothing
  BY <1>1, <1>6, IdleWakeup DEF IssueNothing, Fetch
<1>7. CASE StallArith \/ StallMemory
  <2>1. /\ CanFetch /\ ~RobFull /\ rob' = RobWithNew(-1)
        /\ UNCHANGED <<rs, cdb_list, rob_head, rob_count>>
        /\ stage = "issue" /\ stage' = "broadcast"
    BY <1>7 DEF StallArith, StallMemory, Fetch
  <2>2. \A k \in RobIdx : InFlight(k) => rob'[k] = rob[k]
    BY <1>1, <2>1, TailWritten
  <2> QED BY <1>1, <2>1, <2>2, IdleWakeup
<1>8. CASE CDB_broadcast
  BY <1>1, <1>8, BroadcastWakeup
<1>9. CASE CommitNothing \/ CommitThrow \/ AdvanceThrow
  BY <1>1, <1>9, IdleWakeup DEF CommitNothing, CommitThrow, AdvanceThrow, robVars
<1>10. CASE UNCHANGED vars
  BY <1>10 DEF vars, robVars, NoLostWakeup, Awaits, InFlight, Older, Age, Heard
<1> QED BY <1>2, <1>3, <1>4, <1>5, <1>6, <1>7, <1>8, <1>9, <1>10
        DEF Next, Commit, Issue, Stopped

LEMMA WakeupStarted == Started => NoLostWakeup
BY DEF Started, NoLostWakeup, IdleStation

(* Nobody waits for a result that is not going to be broadcast: whoever    *)
(* reads an operand at issue after its producer's broadcast gets the       *)
(* value, and whoever reads it before gets the tag and then hears it.      *)
THEOREM WakeupCorrect ==
  Spec /\ [](WellFormed /\ RetryUndisturbed /\ RetryReadsOthers)
    => []NoLostWakeup
<1>1. Init => NoLostWakeup
  BY WakeupStarted DEF Init
<1> QED BY RenameInit, RenameInductive, WakeupInductive, <1>1, PTL DEF Spec
-----------------------------------------------------------------------------
(* The loop is left only with an empty ROB and nothing to fetch. *)
Ended == stage = "done" => ~Unfinished(next_fetch_branch, rob_count)

LEMMA EndedInductive == Ended /\ [Next]_vars => Ended'
<1> SUFFICES ASSUME Ended, [Next]_vars PROVE Ended'
  OBVIOUS
<1>1. CASE CDB_broadcast
  BY <1>1 DEF CDB_broadcast, Ended, Unfinished, InProgram, robVars
<1>2. CASE Stopped \/ UNCHANGED vars
  BY <1>2 DEF Stopped, Ended, Unfinished, InProgram, vars, robVars, fetchVars
<1>3. CASE Commit \/ Launch \/ Advance \/ AdvanceThrow \/ Issue
  <2>1. stage' # "done"
    BY <1>3 DEF Commit, CommitNothing, CommitStore, CommitRegister, CommitThrow,
       Launch, Advance, AdvanceThrow, Issue, IssueNothing, IssueArith, StallArith,
       IssueMemory, StallMemory, Enter, Fetch
  <2> QED BY <2>1 DEF Ended
<1> QED BY <1>1, <1>2, <1>3 DEF Next

LEMMA EndedStarted == Started => Ended
BY DEF Started, Ended, Unfinished, InProgram

LEMMA NothingLeft == RenameInv /\ Ended => QuiescentAtEnd
<1> SUFFICES ASSUME RenameInv, Ended, stage = "done"
             PROVE  /\ \A s \in StationId : ~rs[s].busy
                    /\ \A u \in UnitId : ~fus[u].busy
                    /\ lsq_count = 0
                    /\ \A r \in Reg : regs_status[r] = NoTag
  BY DEF QuiescentAtEnd
<1>1. /\ RingInv /\ ServeInv /\ LsqInv /\ LsqMatchesRob
      /\ rob_count = 0 /\ ~CanFetch
  BY SlotsMatch DEF RenameInv, LsqInv, ServeInv, RingInv, TypeOK, Ended, Unfinished,
                    CanFetch
<1>2. \A k \in RobIdx : ~InFlight(k)
  <2>1. rob_head \in RobIdx
    BY <1>1 DEF RingInv, TypeOK
  <2>2. \A k \in RobIdx : Age(k) \in 0 .. ROB_SIZE-1
    BY <2>1, AgeOfHead DEF Age
  <2> QED BY <1>1, <2>2, SizeAssumption DEF InFlight
<1>3. \A s \in StationId : ~rs[s].busy
  BY <1>1, <1>2 DEF ServeInv, StationsServeRob, Pending, InFlight
<1>4. \A u \in UnitId : ~fus[u].busy
  BY <1>1, <1>3 DEF ServeInv, UnitsServeStations
<1>5. lsq_count = 0
  <2>1. {k \in RobIdx : InFlight(k) /\ is_memory_op(rob[k].op)} = {}
    BY <1>2
  <2> QED BY <1>1, <2>1, FS_EmptySet DEF LsqMatchesRob
<1>6. ASSUME NEW r \in Reg PROVE regs_status[r] = NoTag
  BY <1>1, <1>2 DEF RenameInv, Named, Mapped, Writes, Retrying, Unmapped
<1> QED BY <1>3, <1>4, <1>5, <1>6

(* simulate() leaves nothing behind: what one instruction occupied it gave *)
(* back, in the stations, the units, the LSQ and the status table.         *)
THEOREM QuiescentCorrect ==
  Spec /\ [](WellFormed /\ RetryUndisturbed) => []QuiescentAtEnd
<1>1. Init => Ended
  BY EndedStarted DEF Init
<1> QED BY RenameInit, RenameInductive, EndedInductive, NothingLeft, <1>1, PTL DEF Spec
=============================================================================

---------------------------- MODULE InOrderProofs ----------------------------
(***************************************************************************)
(* That the committed state is that of the in-order machine ISA: for every *)
(* size and every program, what commit_head_of_rob does is one step of     *)
(* ISA and every other step of the simulator is invisible to it.           *)
(*                                                                         *)
(* The argument follows a value from its producer to its reader.  At any   *)
(* moment an instruction in flight sees, for a register, the result of the *)
(* youngest older instruction that writes it, or the committed value if    *)
(* there is none; what it sees does not change while others enter,         *)
(* complete and commit, and it is what stations, units and results hold.   *)
(* When the instruction is the head it sees the committed registers, which *)
(* are those of ISA.                                                       *)
(*                                                                         *)
(* From the same invariant: the machine never waits for itself.  Then      *)
(* programs for which the premises on the run hold of themselves, and at   *)
(* the end all of it for any number of calls of simulate() in one process, *)
(* as module Resimulation has them.                                        *)
(***************************************************************************)
EXTENDS RenameProofs, Resimulation, WellFoundedInduction

(* What an instruction in flight sees of a register. *)
Feeds(j, k, r) ==
  /\ Writes(j, r) /\ Older(j, k)
  /\ \A i \in RobIdx : Writes(i, r) /\ Older(i, k) => i = j \/ Older(i, j)
Sees(k, r, v) ==
  \/ v = regs[r] /\ \A j \in RobIdx : ~(Writes(j, r) /\ Older(j, k))
  \/ \E j \in RobIdx : Feeds(j, k, r) /\ rob[j].state = "EXECUTED" /\ v = rob[j].result

(* The instruction of entry k, and the operands that it is to have.        *)
Code(k) == instruction_queue[rob[k].instr + 1]
Literal(k) == <<"int", Code(k).imm % WORD>>
First(k, v) == \A r \in Reg : Code(k).src1 = r => Sees(k, r, v)
Second(k, v) == /\ Code(k).src2 = NoReg => v = Literal(k)
                /\ \A r \in Reg : Code(k).src2 = r => Sees(k, r, v)

(* A station has the value that its instruction sees, or the tag of the    *)
(* instruction that will produce it.                                       *)
Hears(k, r, Q, V) ==
  /\ \A j \in RobIdx : Q = j => Feeds(j, k, r)
  /\ Q = NoTag => \E v \in OperandValue : V = v /\ Sees(k, r, v)
HearsFirst(s, k) ==
  \A r \in Reg : Code(k).src1 = r => Hears(k, r, rs[s].Qj, rs[s].Vj)
HearsSecond(s, k) ==
  /\ Code(k).src2 = NoReg /\ ~is_memory_op(rob[k].op) =>
       rs[s].Qk = NoTag /\ rs[s].Vk = Literal(k)
  /\ \A r \in Reg : Code(k).src2 = r => Hears(k, r, rs[s].Qk, rs[s].Vk)
StationsHear ==
  \A s \in StationId, k \in RobIdx : rs[s].busy /\ rs[s].ROB_idx = k =>
    rs[s].A = Code(k).imm /\ HearsFirst(s, k) /\ HearsSecond(s, k)
UnitsHear ==
  \A u \in UnitId, k \in RobIdx : fus[u].busy /\ fus[u].rob_idx = k =>
    /\ fus[u].op = rob[k].op
    /\ \E v \in OperandValue : fus[u].v1 = v /\ First(k, v)
    /\ is_load_op(rob[k].op) \/ \E v \in OperandValue : fus[u].v2 = v /\ Second(k, v)

(* An entry that has executed has what its operands make of it. *)
MemoryAt(a) == IF a \in DOMAIN memory THEN memory[a] ELSE <<a[1], 0>>
Computed(k) ==
  \E v1, v2 \in OperandValue :
    /\ First(k, v1) /\ Second(k, v2)
    /\ rob[k].result = compute_result(rob[k].op, v1, v2)
    /\ rob[k].op \in {"BNE", "LUI"} => v2[1] = "int"
    /\ rob[k].op = "BNE" => v1[1] = "int"
Addressed(k) ==
  \E v \in OperandValue :
    First(k, v) /\ lsq[rob[k].lsq_idx].address = (v[2] + Code(k).imm) % WORD
Loaded(k) == rob[k].result = MemoryAt(LocationOf(k))
Stored(k) == \E v \in OperandValue : lsq[rob[k].lsq_idx].data = v /\ Second(k, v)
Right(k) ==
  /\ ~is_memory_op(rob[k].op) => Computed(k)
  /\ is_memory_op(rob[k].op) => Addressed(k)
  /\ is_load_op(rob[k].op) => Loaded(k)
  /\ is_store_op(rob[k].op) => Stored(k)
ExecutedRight ==
  \A k \in RobIdx : InFlight(k) /\ rob[k].state = "EXECUTED" => Right(k)
BusTellsResults ==
  stage \in {"issue", "broadcast"} =>
    \A c \in cdb_list :
      /\ InFlight(c.producer_id) /\ rob[c.producer_id].state = "EXECUTED"
      /\ rob[c.producer_id].result = c.value

(* The entries in flight, and the next fetch after them, follow the        *)
(* program: next_fetch_idx is ahead of next_fetch_branch between an issue  *)
(* and the end of the turn.                                                *)
EntriesHaveCode ==
  \A k \in RobIdx : InFlight(k) =>
    /\ InProgram(rob[k].instr)
    /\ rob[k].op = Code(k).op /\ rob[k].dest = Code(k).dest
    /\ station_type(rob[k].op) \in RSType
FetchNext == IF stage = "broadcast" THEN next_fetch_idx ELSE next_fetch_branch
Successor(k) ==
  IF NextRob(k) = rob_tail THEN FetchNext ELSE rob[NextRob(k)].instr
Taken(k) ==
  rob[k].op = "BNE" /\ rob[k].state = "EXECUTED" /\ rob[k].result[2] = 1
Follows(k) ==
  Successor(k) = IF Taken(k) THEN rob[k].instr + Code(k).imm \div 4
                 ELSE rob[k].instr + 1
EntriesFollow == \A k \in RobIdx : InFlight(k) => Follows(k)
FetchAgrees ==
  \/ rob_count > 0 /\ stage \in {"commit", "launch", "advance"}
  \/ rob_count = 0 /\ stage = "broadcast"
  => next_fetch_idx = next_fetch_branch

ValuesInv ==
  /\ EntriesHaveCode /\ StationsHear /\ UnitsHear /\ ExecutedRight
  /\ BusTellsResults /\ EntriesFollow /\ FetchAgrees
InOrderInv == RenameInv /\ NoLostWakeup /\ ValuesInv
-----------------------------------------------------------------------------
(* What an instruction sees does not change while it is in flight. *)
ViewKept(k) ==
  /\ \A r \in Reg, v \in OperandValue : Sees(k, r, v) => Sees(k, r, v)'
  /\ \A r \in Reg, j \in RobIdx : Feeds(j, k, r) /\ InFlight(j)' => Feeds(j, k, r)'

(* Nobody leaves, results stay, and whoever enters is younger. *)
LEMMA ViewSteady ==
  ASSUME UNCHANGED <<rob_head, regs>>,
         \A j \in RobIdx : InFlight(j) =>
           /\ InFlight(j)' /\ rob'[j].dest = rob[j].dest
           /\ rob[j].state = "EXECUTED" =>
                rob'[j].state = "EXECUTED" /\ rob'[j].result = rob[j].result,
         NEW k \in RobIdx,
         \A j \in RobIdx : InFlight(j)' /\ Older(j, k) => InFlight(j)
  PROVE  ViewKept(k)
<1>1. ASSUME NEW j \in RobIdx, NEW i \in RobIdx PROVE Older(j, i)' <=> Older(j, i)
  BY DEF Older, Age
<1>2. ASSUME NEW r \in Reg, NEW j \in RobIdx
      PROVE  (Writes(j, r) /\ Older(j, k))' <=> Writes(j, r) /\ Older(j, k)
  BY <1>1 DEF Writes
<1>3. ASSUME NEW r \in Reg, NEW j \in RobIdx, Feeds(j, k, r) PROVE Feeds(j, k, r)'
  BY <1>1, <1>2, <1>3 DEF Feeds
<1>4. ASSUME NEW r \in Reg, NEW v \in OperandValue, Sees(k, r, v)
      PROVE  Sees(k, r, v)'
  <2>1. CASE v = regs[r] /\ \A j \in RobIdx : ~(Writes(j, r) /\ Older(j, k))
    BY <1>2, <2>1 DEF Sees
  <2>2. ASSUME NEW j \in RobIdx,
               Feeds(j, k, r) /\ rob[j].state = "EXECUTED" /\ v = rob[j].result
        PROVE  Sees(k, r, v)'
    <3>1. Feeds(j, k, r)' /\ InFlight(j)
      BY <1>3, <2>2 DEF Feeds, Writes
    <3>2. rob'[j].state = "EXECUTED" /\ rob'[j].result = v
      BY <2>2, <3>1
    <3> QED BY <3>1, <3>2 DEF Sees
  <2> QED BY <1>4, <2>1, <2>2 DEF Sees
<1> QED BY <1>3, <1>4 DEF ViewKept

(* Nobody is older than the head. *)
LEMMA HeadIsOldest ==
  ASSUME RingInv, NEW k \in RobIdx
  PROVE  ~Older(k, rob_head) /\ (k # rob_head => Older(rob_head, k))
<1>1. rob_head \in RobIdx
  BY DEF RingInv, TypeOK
<1>2. Age(k) \in 0 .. ROB_SIZE-1 /\ Age(rob_head) = 0 /\ (Age(k) = 0 <=> k = rob_head)
  BY <1>1, AgeOfHead DEF Age
<1> QED BY <1>2, SizeAssumption DEF Older

(* What the head wrote moves to the registers, where everybody who saw it  *)
(* now looks.                                                              *)
LEMMA ViewAtCommit ==
  ASSUME RenameInv, CommitStore \/ CommitRegister,
         NEW k \in RobIdx, k # rob_head
  PROVE  ViewKept(k)
<1>1. /\ RingInv /\ rob_count > 0 /\ ReleaseRob
      /\ rob[rob_head].state = "EXECUTED" /\ InFlight(rob_head)
  BY HeadInFlight DEF RenameInv, LsqInv, ServeInv, CommitStore, CommitRegister,
     CanCommit, HeadEntry
<1>2. PICK h \in RobIdx :
        /\ h = rob_head /\ InFlight(h) /\ rob[h].state = "EXECUTED" /\ h # k
        /\ \A j \in RobIdx : InFlight(j)' <=> InFlight(j) /\ j # h
        /\ \A j \in RobIdx : j # h => rob'[j] = rob[j]
        /\ \A j \in RobIdx : ~Older(j, h) /\ (j # h => Older(h, j))
  BY <1>1, ReleaseRobKeepsRing, HeadIsOldest DEF RingInv, TypeOK
<1>3. ASSUME NEW j \in RobIdx, NEW i \in RobIdx, j # h, i # h
      PROVE  Older(j, i)' <=> Older(j, i)
  BY <1>1, <1>2, <1>3, OrderKept
<1>4. ASSUME NEW r \in Reg, NEW j \in RobIdx, j # h
      PROVE  (Writes(j, r) /\ Older(j, k))' <=> Writes(j, r) /\ Older(j, k)
  BY <1>2, <1>3, <1>4 DEF Writes
<1>5. ASSUME NEW r \in Reg PROVE ~Writes(h, r)'
  BY <1>2 DEF Writes
<1>6. ASSUME NEW r \in Reg
      PROVE  regs'[r] = IF Writes(h, r) THEN rob[h].result ELSE regs[r]
  <2>1. regs \in [Reg -> OperandValue] /\ r # NoReg
    BY <1>1 DEF RingInv, TypeOK, Reg, NoReg
  <2>2. CASE CommitStore
    <3>1. regs' = regs /\ rob[h].dest = NoReg
      BY <1>2, <2>2 DEF CommitStore, HeadEntry, RenameInv, StoresWriteNothing
    <3> QED BY <2>1, <3>1 DEF Writes
  <2>3. CASE CommitRegister
    <3>1. rob[h].result # NoValue
      BY <1>2, <2>3 DEF CommitRegister, HeadEntry, RenameInv, ResultsArrive
    <3>2. regs' = IF rob[h].dest # NoReg
                  THEN [regs EXCEPT ![rob[h].dest] = rob[h].result] ELSE regs
      BY <1>2, <2>3, <3>1 DEF CommitRegister, HeadEntry
    <3> QED BY <1>2, <2>1, <3>2 DEF Writes
  <2> QED BY <2>2, <2>3
<1>7. ASSUME NEW r \in Reg, NEW j \in RobIdx, Feeds(j, k, r), j # h
      PROVE  Feeds(j, k, r)'
  <2>1. (Writes(j, r) /\ Older(j, k))'
    BY <1>4, <1>7 DEF Feeds
  <2>2. ASSUME NEW i \in RobIdx, Writes(i, r)', Older(i, k)'
        PROVE  i = j \/ Older(i, j)'
    <3>1. i # h
      BY <1>5, <2>2
    <3>2. Writes(i, r) /\ Older(i, k)
      BY <1>4, <2>2, <3>1
    <3> QED BY <1>3, <1>7, <3>1, <3>2 DEF Feeds
  <2> QED BY <2>1, <2>2 DEF Feeds
<1>8. ASSUME NEW r \in Reg, NEW v \in OperandValue, Sees(k, r, v)
      PROVE  Sees(k, r, v)'
  <2>1. CASE v = regs[r] /\ \A j \in RobIdx : ~(Writes(j, r) /\ Older(j, k))
    <3>1. ~Writes(h, r)
      BY <1>2, <2>1
    <3>2. v = regs'[r]
      BY <1>6, <2>1, <3>1
    <3>3. ASSUME NEW j \in RobIdx PROVE ~(Writes(j, r)' /\ Older(j, k)')
      BY <1>4, <1>5, <2>1
    <3> QED BY <3>2, <3>3 DEF Sees
  <2>2. ASSUME NEW j \in RobIdx,
               Feeds(j, k, r) /\ rob[j].state = "EXECUTED" /\ v = rob[j].result
        PROVE  Sees(k, r, v)'
    <3>1. CASE j # h
      <4>1. Feeds(j, k, r)' /\ rob'[j] = rob[j]
        BY <1>2, <1>7, <2>2, <3>1
      <4> QED BY <2>2, <4>1 DEF Sees
    <3>2. CASE j = h
      <4>1. v = regs'[r]
        BY <1>6, <2>2, <3>2 DEF Feeds
      <4>2. ASSUME NEW i \in RobIdx PROVE ~(Writes(i, r)' /\ Older(i, k)')
        <5>1. i # h => ~(Writes(i, r) /\ Older(i, k))
          BY <1>2, <2>2, <3>2 DEF Feeds
        <5> QED BY <1>4, <1>5, <5>1
      <4> QED BY <4>1, <4>2 DEF Sees
    <3> QED BY <3>1, <3>2
  <2> QED BY <1>8, <2>1, <2>2 DEF Sees
<1>9. \A r \in Reg, j \in RobIdx : Feeds(j, k, r) /\ InFlight(j)' => Feeds(j, k, r)'
  BY <1>2, <1>7
<1> QED BY <1>8, <1>9 DEF ViewKept
-----------------------------------------------------------------------------
LEMMA ProgramStays == [Next]_vars => instruction_queue' = instruction_queue
BY DEF Next, Commit, CommitNothing, CommitStore, CommitRegister, CommitThrow,
   Launch, Advance, AdvanceThrow, Issue, IssueNothing, IssueArith, StallArith,
   IssueMemory, StallMemory, Enter, Fetch, CDB_broadcast, Stopped, fetchVars, vars

(* Steps other than a commit leave everybody in the ring. *)
Steady ==
  /\ UNCHANGED <<rob_head, regs>>
  /\ \A k \in RobIdx : InFlight(k) => InFlight(k)'
  /\ \A j, k \in RobIdx : InFlight(j)' /\ InFlight(k) /\ Older(j, k) => InFlight(j)

LEMMA EnterSteady ==
  ASSUME RingInv, CanFetch, ~RobFull, NEW q \in LsqIdx \cup {-1}, Enter(q)
  PROVE  Steady
<1>1. /\ UNCHANGED <<rob_head, regs>>
      /\ \A k \in RobIdx : InFlight(k)' <=> InFlight(k) \/ k = rob_tail
  BY EnterRing DEF Enter, Fetch
<1>2. rob_tail \in RobIdx /\ Age(rob_tail) = rob_count /\ rob_count \in Int
  <2>1. /\ rob_count \in 0 .. ROB_SIZE-1 /\ rob_head \in RobIdx /\ rob_tail \in RobIdx
        /\ rob_tail = (rob_head + rob_count) % ROB_SIZE
    BY TailIsFree DEF RingInv, TypeOK, RobIsARing
  <2>2. (((rob_head + rob_count) % ROB_SIZE) - rob_head) % ROB_SIZE = rob_count
    BY <2>1, AgeOfTail
  <2> QED BY <2>1, <2>2, SizeAssumption DEF Age
<1>3. \A k \in RobIdx : Age(k) \in Int
  BY AgeOfHead DEF Age, RingInv, TypeOK
<1>4. \A k \in RobIdx : InFlight(k) => ~Older(rob_tail, k)
  BY <1>2, <1>3 DEF InFlight, Older
<1> QED BY <1>1, <1>4 DEF Steady

LEMMA Steadily ==
  ASSUME RingInv, [Next]_vars PROVE CommitStore \/ CommitRegister \/ Steady
<1>1. CASE UNCHANGED <<rob_head, rob_count, regs>>
  BY <1>1 DEF Steady, InFlight, Age
<1>2. CASE IssueArith \/ IssueMemory
  <2>1. lsq_tail \in LsqIdx
    BY DEF RingInv, TypeOK
  <2>2. PICK q \in LsqIdx \cup {-1} : CanFetch /\ ~RobFull /\ Enter(q)
    BY <1>2, <2>1 DEF IssueArith, IssueMemory
  <2> QED BY <2>2, EnterSteady
<1> QED BY <1>1, <1>2
        DEF Next, Commit, CommitNothing, CommitThrow, Launch, Advance, AdvanceThrow,
            Issue, IssueNothing, StallArith, StallMemory, Fetch, CDB_broadcast,
            Stopped, vars, robVars

(* An entry that has executed does not change any more. *)
LEMMA ResultsStay ==
  ASSUME ServeInv, [Next]_vars, NEW k \in RobIdx,
         InFlight(k), InFlight(k)', rob[k].state = "EXECUTED"
  PROVE  rob'[k] = rob[k]
<1>1. RingInv
  BY DEF ServeInv
<1>2. CASE CommitStore \/ CommitRegister
  <2>1. rob_count > 0 /\ ReleaseRob
    BY <1>2 DEF CommitStore, CommitRegister, CanCommit
  <2> QED BY <1>1, <2>1, ReleaseRobKeepsRing
<1>3. CASE Launch
  <2>1. k \notin LaunchedEntries
    BY LaunchedWereIssued
  <2> QED BY <1>3, <2>1 DEF Launch
<1>4. CASE Advance
  <2>1. DeliveredTo(k) = {}
    BY <1>4, AfterAdvance DEF Running
  <2> QED BY <1>4, <2>1 DEF Advance
<1>5. CASE IssueArith \/ IssueMemory
  <2>1. lsq_tail \in LsqIdx
    BY <1>1 DEF RingInv, TypeOK
  <2>2. PICK q \in LsqIdx \cup {-1} : CanFetch /\ ~RobFull /\ Enter(q)
    BY <1>5, <2>1 DEF IssueArith, IssueMemory
  <2> QED BY <1>1, <2>2, EnterRing
<1>6. CASE StallArith \/ StallMemory
  BY <1>1, <1>6, TailWritten DEF StallArith, StallMemory
<1>7. CASE UNCHANGED rob
  BY <1>7
<1> QED BY <1>2, <1>3, <1>4, <1>5, <1>6, <1>7
        DEF Next, Commit, CommitNothing, CommitThrow, AdvanceThrow, Issue, IssueNothing,
            CDB_broadcast, Stopped, vars, robVars

Kept(k) ==
  /\ rob'[k].op = rob[k].op /\ rob'[k].dest = rob[k].dest
  /\ rob'[k].instr = rob[k].instr /\ rob'[k].lsq_idx = rob[k].lsq_idx
  /\ Code(k)' = Code(k)

LEMMA EntryKept ==
  ASSUME ServeInv, [Next]_vars, NEW k \in RobIdx, InFlight(k), InFlight(k)'
  PROVE  Kept(k)
<1>1. KeepsInstruction(k)
  BY StepProgresses DEF Progresses
<1>2. /\ rob'[k].op = rob[k].op /\ rob'[k].dest = rob[k].dest
      /\ rob'[k].instr = rob[k].instr /\ rob'[k].lsq_idx = rob[k].lsq_idx
  BY <1>1 DEF KeepsInstruction
<1> QED BY <1>2, ProgramStays DEF Kept, Code

(* Whatever the step, the view of an instruction that stays in flight is   *)
(* kept.                                                                   *)
LEMMA StepKeepsView ==
  ASSUME RenameInv, [Next]_vars, NEW k \in RobIdx, InFlight(k), InFlight(k)'
  PROVE  Kept(k) /\ ViewKept(k)
<1>1. ServeInv /\ RingInv
  BY DEF RenameInv, LsqInv, ServeInv
<1>2. Kept(k)
  BY <1>1, EntryKept
<1>3. CASE CommitStore \/ CommitRegister
  <2>1. rob_count > 0 /\ ReleaseRob
    BY <1>3 DEF CommitStore, CommitRegister, CanCommit
  <2>2. k # rob_head
    BY <1>1, <2>1, ReleaseRobKeepsRing
  <2> QED BY <1>2, <1>3, <2>2, ViewAtCommit
<1>4. CASE Steady
  <2>1. ASSUME NEW j \in RobIdx, InFlight(j)
        PROVE  /\ InFlight(j)' /\ rob'[j].dest = rob[j].dest
               /\ rob[j].state = "EXECUTED" =>
                    rob'[j].state = "EXECUTED" /\ rob'[j].result = rob[j].result
    <3>1. InFlight(j)'
      BY <1>4, <2>1 DEF Steady
    <3>2. Kept(j)
      BY <1>1, <2>1, <3>1, EntryKept
    <3>3. rob[j].state = "EXECUTED" => rob'[j] = rob[j]
      BY <1>1, <2>1, <3>1, ResultsStay
    <3> QED BY <3>1, <3>2, <3>3 DEF Kept
  <2> QED BY <1>2, <1>4, <2>1, ViewSteady DEF Steady
<1> QED BY <1>1, <1>3, <1>4, Steadily

LEMMA OperandsKept ==
  ASSUME NEW k \in RobIdx, Kept(k), ViewKept(k), NEW v \in OperandValue
  PROVE  /\ First(k, v) => First(k, v)'
         /\ Second(k, v) => Second(k, v)'
         /\ Literal(k)' = Literal(k)
<1>1. Code(k)' = Code(k)
  BY DEF Kept
<1>2. Literal(k)' = Literal(k)
  BY <1>1 DEF Literal
<1>3. First(k, v) => First(k, v)'
  BY <1>1 DEF First, ViewKept
<1>4. Second(k, v) => Second(k, v)'
  BY <1>1, <1>2 DEF Second, ViewKept
<1> QED BY <1>2, <1>3, <1>4
-----------------------------------------------------------------------------
(* Who enters is the instruction fetched. *)
LEMMA Entered ==
  ASSUME RingInv, [Next]_vars, NEW k \in RobIdx, ~InFlight(k), InFlight(k)'
  PROVE  \E q \in LsqIdx \cup {-1} :
           /\ stage = "issue" /\ CanFetch /\ ~RobFull /\ Enter(q)
           /\ k = rob_tail /\ rob'[k] = NewEntry(q)
<1>1. CASE IssueArith \/ IssueMemory
  <2>1. lsq_tail \in LsqIdx
    BY DEF RingInv, TypeOK
  <2>2. PICK q \in LsqIdx \cup {-1} :
          stage = "issue" /\ CanFetch /\ ~RobFull /\ Enter(q)
    BY <1>1, <2>1 DEF IssueArith, IssueMemory
  <2>3. k = rob_tail /\ rob'[rob_tail] = NewEntry(q)
    BY <2>2, EnterRing
  <2> QED BY <2>2, <2>3
<1>2. CASE CommitStore \/ CommitRegister
  <2>1. rob_count > 0 /\ ReleaseRob
    BY <1>2 DEF CommitStore, CommitRegister, CanCommit
  <2> QED BY <2>1, ReleaseRobKeepsRing
<1>3. CASE UNCHANGED <<rob_head, rob_count>>
  BY <1>3 DEF InFlight, Age
<1> QED BY <1>1, <1>2, <1>3
        DEF Next, Commit, CommitNothing, CommitThrow, Launch, Advance, AdvanceThrow,
            Issue, IssueNothing, StallArith, StallMemory, Fetch, CDB_broadcast,
            Stopped, vars, robVars

LEMMA FetchedSupported ==
  ASSUME AllSupported, CanFetch, RingInv PROVE Supported(Instr)
<1>1. next_fetch_branch + 1 \in 1 .. Len(instruction_queue)
  BY DEF CanFetch, InProgram, RingInv, TypeOK
<1> QED BY <1>1 DEF AllSupported, Supported, Instr

LEMMA CodeInductive ==
  ASSUME RenameInv, EntriesHaveCode, [Next]_vars PROVE EntriesHaveCode'
<1>1. RingInv /\ ServeInv /\ instruction_queue' = instruction_queue
  BY ProgramStays DEF RenameInv, LsqInv, ServeInv
<1>2. ASSUME NEW k \in RobIdx, InFlight(k)'
      PROVE  /\ InProgram(rob[k].instr)'
             /\ rob'[k].op = Code(k)'.op /\ rob'[k].dest = Code(k)'.dest
             /\ station_type(rob'[k].op) \in RSType
  <2>1. CASE InFlight(k)
    BY <1>1, <1>2, <2>1, EntryKept DEF EntriesHaveCode, Kept, InProgram
  <2>2. CASE ~InFlight(k)
    <3>1. PICK q \in LsqIdx \cup {-1} :
            CanFetch /\ Enter(q) /\ rob'[k] = NewEntry(q)
      BY <1>1, <1>2, <2>2, Entered
    <3>2. /\ rob'[k].instr = next_fetch_branch
          /\ rob'[k].op = Instr.op /\ rob'[k].dest = Instr.dest
      BY <3>1 DEF NewEntry
    <3>3. Code(k)' = Instr /\ InProgram(rob[k].instr)'
      BY <1>1, <3>1, <3>2 DEF Code, Instr, CanFetch, InProgram
    <3>4. PICK s \in Free : TRUE
      BY <3>1 DEF Enter
    <3>5. Type \in RSType
      BY <3>4, StationIdParts DEF Free
    <3> QED BY <3>2, <3>3, <3>5 DEF Type
  <2> QED BY <2>1, <2>2
<1> QED BY <1>2 DEF EntriesHaveCode
-----------------------------------------------------------------------------
(* A station whose fields stay hears what it heard. *)
LEMMA HearingKept ==
  ASSUME NEW k \in RobIdx, Kept(k), ViewKept(k), NEW s \in StationId,
         rs'[s].Qj = rs[s].Qj, rs'[s].Vj = rs[s].Vj,
         rs'[s].Qk = rs[s].Qk, rs'[s].Vk = rs[s].Vk,
         \A j \in RobIdx : InFlight(j) /\ (j = rs[s].Qj \/ j = rs[s].Qk) => InFlight(j)',
         HearsFirst(s, k), HearsSecond(s, k)
  PROVE  HearsFirst(s, k)' /\ HearsSecond(s, k)'
<1>1. Code(k)' = Code(k) /\ Literal(k)' = Literal(k) /\ rob'[k].op = rob[k].op
  BY DEF Kept, Literal
<1>2. ASSUME NEW r \in Reg, Hears(k, r, rs[s].Qj, rs[s].Vj)
      PROVE  Hears(k, r, rs[s].Qj, rs[s].Vj)'
  <2>1. ASSUME NEW j \in RobIdx, rs[s].Qj = j PROVE Feeds(j, k, r)'
    <3>1. Feeds(j, k, r)
      BY <1>2, <2>1 DEF Hears
    <3>2. InFlight(j)'
      BY <2>1, <3>1 DEF Feeds, Writes
    <3> QED BY <3>1, <3>2 DEF ViewKept
  <2> QED BY <1>2, <2>1 DEF Hears, ViewKept
<1>3. ASSUME NEW r \in Reg, Hears(k, r, rs[s].Qk, rs[s].Vk)
      PROVE  Hears(k, r, rs[s].Qk, rs[s].Vk)'
  <2>1. ASSUME NEW j \in RobIdx, rs[s].Qk = j PROVE Feeds(j, k, r)'
    <3>1. Feeds(j, k, r)
      BY <1>3, <2>1 DEF Hears
    <3>2. InFlight(j)'
      BY <2>1, <3>1 DEF Feeds, Writes
    <3> QED BY <3>1, <3>2 DEF ViewKept
  <2> QED BY <1>3, <2>1 DEF Hears, ViewKept
<1>4. HearsFirst(s, k)'
  <2>1. ASSUME NEW r \in Reg, Code(k)'.src1 = r
        PROVE  Hears(k, r, rs[s].Qj, rs[s].Vj)'
    BY <1>1, <1>2, <2>1 DEF HearsFirst
  <2> QED BY <2>1 DEF HearsFirst
<1>5. HearsSecond(s, k)'
  <2>1. ASSUME NEW r \in Reg, Code(k)'.src2 = r
        PROVE  Hears(k, r, rs[s].Qk, rs[s].Vk)'
    BY <1>1, <1>3, <2>1 DEF HearsSecond
  <2> QED BY <1>1, <2>1 DEF HearsSecond
<1> QED BY <1>4, <1>5

SameHearing(s) ==
  /\ rs[s].busy /\ rs'[s].ROB_idx = rs[s].ROB_idx /\ rs'[s].A = rs[s].A
  /\ rs'[s].Qj = rs[s].Qj /\ rs'[s].Vj = rs[s].Vj
  /\ rs'[s].Qk = rs[s].Qk /\ rs'[s].Vk = rs[s].Vk

LEMMA StationStillHears ==
  ASSUME RenameInv, NoLostWakeup, StationsHear, [Next]_vars,
         NEW s \in StationId, rs'[s].busy, SameHearing(s),
         NEW k \in RobIdx, rs'[s].ROB_idx = k
  PROVE  /\ rs'[s].A = Code(k)'.imm
         /\ HearsFirst(s, k)' /\ HearsSecond(s, k)'
<1>1. ServeInv /\ RingInv
  BY DEF RenameInv, LsqInv, ServeInv
<1>2. /\ rs[s].busy /\ rs[s].ROB_idx = k /\ rs[s].A = Code(k).imm
      /\ HearsFirst(s, k) /\ HearsSecond(s, k)
  BY DEF SameHearing, StationsHear
<1>3. InFlight(k)
  BY <1>1, <1>2 DEF ServeInv, StationsServeRob, Pending
<1>4. InFlight(k)'
  <2>1. ServeInv'
    BY <1>1, ServeInductive
  <2> QED BY <2>1 DEF ServeInv, StationsServeRob, Pending, InFlight, Age
<1>5. ASSUME NEW j \in RobIdx, InFlight(j), j = rs[s].Qj \/ j = rs[s].Qk
      PROVE  InFlight(j)'
  <2>1. CASE Steady
    BY <1>5, <2>1 DEF Steady
  <2>2. CASE CommitStore \/ CommitRegister
    <3>1. /\ rob_count > 0 /\ ReleaseRob /\ stage = "commit"
          /\ rob[rob_head].state = "EXECUTED"
      BY <2>2 DEF CommitStore, CommitRegister, CanCommit, HeadEntry
    <3>2. j # NoTag
      BY SizeAssumption DEF RobIdx, NoTag
    <3>3. rob[j].state # "EXECUTED"
      BY <1>2, <1>5, <3>1, <3>2 DEF NoLostWakeup, Awaits
    <3> QED BY <1>1, <1>5, <3>1, <3>3, ReleaseRobKeepsRing
  <2> QED BY <1>1, <2>1, <2>2, Steadily
<1>6. Kept(k) /\ ViewKept(k)
  BY <1>3, <1>4, StepKeepsView
<1>7. rs'[s].A = Code(k)'.imm
  BY <1>2, <1>6 DEF SameHearing, Kept
<1> QED BY <1>2, <1>5, <1>6, <1>7, HearingKept DEF SameHearing
-----------------------------------------------------------------------------
(* The operands read at issue. *)
LEMMA OperandHeard ==
  ASSUME RenameInv, RetryReadsOthers, stage = "issue", CanFetch, ~RobFull,
         NEW q \in LsqIdx \cup {-1}, Enter(q), NEW t \in RobIdx, t = rob_tail,
         NEW r \in Reg, r \in {Instr.src1, Instr.src2},
         NEW V
  PROVE  /\ \A j \in RobIdx : Operand(r, V).Q = j => Feeds(j, t, r)'
         /\ Operand(r, V).Q = NoTag =>
              \E v \in OperandValue : Operand(r, V).V = v /\ Sees(t, r, v)'
<1>1. RingInv /\ r # NoReg /\ Named(r) /\ ~Retried(r)
  BY DEF RenameInv, LsqInv, ServeInv, Reg, NoReg, RetryReadsOthers
<1>2. /\ UNCHANGED <<rob_head, regs>> /\ ~InFlight(t)
      /\ \A k \in RobIdx : InFlight(k)' <=> InFlight(k) \/ k = t
      /\ \A k \in RobIdx : k # t => rob'[k] = rob[k]
  BY <1>1, EnterRing DEF Enter, Fetch
<1>3. \A j, k \in RobIdx : Older(j, k)' <=> Older(j, k)
  BY <1>2 DEF Older, Age
<1>4. \A k \in RobIdx : InFlight(k) => Older(k, t)
  <2>1. Age(t) = rob_count
    <3>1. /\ rob_count \in 0 .. ROB_SIZE-1 /\ rob_head \in RobIdx
          /\ t = (rob_head + rob_count) % ROB_SIZE
      BY <1>1, TailIsFree DEF RingInv, TypeOK, RobIsARing
    <3> QED BY <3>1, AgeOfTail DEF Age
  <2> QED BY <2>1 DEF InFlight, Older
<1>5. ~Older(t, t)
  <2>1. Age(t) \in Int
    BY <1>1, AgeOfHead DEF Age, RingInv, TypeOK
  <2> QED BY <2>1 DEF Older
<1>6. ASSUME NEW k \in RobIdx
      PROVE  (Writes(k, r) /\ Older(k, t))' <=> Writes(k, r)
  <2>1. CASE k = t
    BY <1>2, <1>3, <1>5, <2>1 DEF Writes
  <2>2. CASE k # t
    BY <1>2, <1>3, <1>4, <2>2 DEF Writes
  <2> QED BY <2>1, <2>2
<1>7. CASE Unmapped(r)
  <2>1. Operand(r, V) = [Q |-> NoTag, V |-> regs[r]] /\ regs[r] \in OperandValue
    BY <1>1, <1>7 DEF Operand, Unmapped, RingInv, TypeOK
  <2>2. PICK v \in OperandValue : v = regs[r]
    BY <2>1
  <2>3. \A k \in RobIdx : ~(Writes(k, r)' /\ Older(k, t)')
    BY <1>6, <1>7 DEF Unmapped
  <2>4. Sees(t, r, v)'
    BY <1>2, <2>2, <2>3 DEF Sees
  <2>5. NoTag \notin RobIdx
    BY SizeAssumption DEF NoTag, RobIdx
  <2> QED BY <2>1, <2>2, <2>4, <2>5
<1>8. CASE Mapped(r)
  <2>1. PICK m \in RobIdx : m = regs_status[r] /\ Writes(m, r)
    BY <1>8 DEF Mapped
  <2>2. m # t /\ m # NoTag /\ rob'[m] = rob[m] /\ RobWithNew(-1)[m] = rob[m]
    <3>1. InFlight(m) /\ m # t /\ m # NoTag
      BY <1>2, <2>1, SizeAssumption DEF Writes, NoTag, RobIdx
    <3> QED BY <1>1, <1>2, <3>1, TailWritten
  <2>3. Feeds(m, t, r)'
    <3>1. (Writes(m, r) /\ Older(m, t))'
      BY <1>6, <2>1
    <3>2. ASSUME NEW i \in RobIdx, Writes(i, r)', Older(i, t)'
          PROVE  i = m \/ Older(i, m)'
      BY <1>3, <1>6, <1>8, <2>1, <3>2 DEF Mapped
    <3> QED BY <3>1, <3>2 DEF Feeds
  <2>4. CASE rob[m].state = "EXECUTED"
    <3>1. Operand(r, V) = [Q |-> NoTag, V |-> rob[m].result]
      BY <1>1, <2>1, <2>2, <2>4 DEF Operand
    <3>2. rob[m].result \in OperandValue
      <4>1. InFlight(m) /\ rob[m].dest = r /\ rob[m] \in EntryRecord
        BY <1>1, <2>1 DEF Writes, RingInv, TypeOK
      <4>2. rob[m].result # NoValue
        BY <1>1, <2>4, <4>1 DEF RenameInv, StoresWriteNothing, ResultsArrive
      <4> QED BY <4>1, <4>2 DEF EntryRecord
    <3>3. PICK v \in OperandValue : v = rob[m].result
      BY <3>2
    <3>4. Sees(t, r, v)'
      BY <2>2, <2>3, <2>4, <3>3 DEF Sees
    <3> QED BY <3>1, <3>3, <3>4, SizeAssumption DEF NoTag, RobIdx
  <2>5. CASE rob[m].state # "EXECUTED"
    <3>1. Operand(r, V) = [Q |-> m, V |-> V]
      BY <1>1, <2>1, <2>2, <2>5 DEF Operand
    <3> QED BY <2>2, <2>3, <3>1
  <2> QED BY <2>4, <2>5
<1> QED BY <1>1, <1>7, <1>8 DEF Named, Retrying

LEMMA EnteredHears ==
  ASSUME RenameInv, RetryReadsOthers, stage = "issue", CanFetch, ~RobFull,
         NEW q \in LsqIdx \cup {-1}, Enter(q), instruction_queue' = instruction_queue,
         NEW s \in StationId, rs'[s] = Filled(s), NEW t \in RobIdx, t = rob_tail
  PROVE  /\ rs'[s].A = Code(t)'.imm
         /\ HearsFirst(s, t)' /\ HearsSecond(s, t)'
<1>1. RingInv
  BY DEF RenameInv, LsqInv, ServeInv
<1>2. /\ rob'[t].op = Instr.op /\ rob'[t].instr = next_fetch_branch
  <2>1. rob'[t] = NewEntry(q)
    BY <1>1, EnterRing
  <2> QED BY <2>1 DEF NewEntry
<1>3. Code(t)' = Instr
  BY <1>2 DEF Code, Instr
<1>4. Literal(t)' = <<"int", Instr.imm % WORD>>
  BY <1>3 DEF Literal
<1>5. /\ rs'[s].A = Instr.imm
      /\ rs'[s].Qj = Operand(Instr.src1, rs[s].Vj).Q
      /\ rs'[s].Vj = Operand(Instr.src1, rs[s].Vj).V
  BY DEF Filled
<1>6. PICK V, W : V = rs[s].Vj /\ W = rs[s].Vk
  OBVIOUS
<1>7. HearsFirst(s, t)'
  <2>1. ASSUME NEW r \in Reg, Instr.src1 = r
        PROVE  Hears(t, r, rs[s].Qj, rs[s].Vj)'
    <3>1. rs'[s].Qj = Operand(r, V).Q /\ rs'[s].Vj = Operand(r, V).V
      BY <1>5, <1>6, <2>1
    <3>2. /\ \A j \in RobIdx : Operand(r, V).Q = j => Feeds(j, t, r)'
          /\ Operand(r, V).Q = NoTag =>
               \E v \in OperandValue : Operand(r, V).V = v /\ Sees(t, r, v)'
      BY <2>1, OperandHeard
    <3> QED BY <3>1, <3>2 DEF Hears
  <2> QED BY <1>3, <2>1 DEF HearsFirst
<1>8. HearsSecond(s, t)'
  <2>1. ASSUME NEW r \in Reg, Instr.src2 = r
        PROVE  Hears(t, r, rs[s].Qk, rs[s].Vk)'
    <3>1. r # NoReg
      BY DEF Reg, NoReg
    <3>2. rs'[s].Qk = Operand(r, W).Q /\ rs'[s].Vk = Operand(r, W).V
      BY <1>6, <2>1, <3>1 DEF Filled
    <3>3. /\ \A j \in RobIdx : Operand(r, W).Q = j => Feeds(j, t, r)'
          /\ Operand(r, W).Q = NoTag =>
               \E v \in OperandValue : Operand(r, W).V = v /\ Sees(t, r, v)'
      BY <2>1, OperandHeard
    <3> QED BY <3>2, <3>3 DEF Hears
  <2>2. Instr.src2 = NoReg /\ ~is_memory_op(Instr.op) =>
          rs'[s].Qk = NoTag /\ rs'[s].Vk = Literal(t)'
    BY <1>4 DEF Filled
  <2> QED BY <1>2, <1>3, <2>1, <2>2 DEF HearsSecond
<1> QED BY <1>3, <1>5, <1>7, <1>8

(* A station that captures what is broadcast has what it waited to see. *)
LEMMA CaptureHears ==
  ASSUME RingInv, BusTellsResults, stage = "broadcast",
         NEW k \in RobIdx, NEW r \in Reg, NEW Q, NEW V, Q \in Tag, Hears(k, r, Q, V)
  PROVE  Hears(k, r, Capture(Q, V).Q, Capture(Q, V).V)
<1>1. CASE Heard(Q) = {}
  BY <1>1 DEF Capture
<1>2. CASE Heard(Q) # {}
  <2>1. PICK c \in Heard(Q) : Capture(Q, V) = [Q |-> NoTag, V |-> c.value]
    BY <1>2 DEF Capture
  <2>2. c \in cdb_list /\ c.producer_id = Q /\ Q \in RobIdx /\ c.value \in OperandValue
    BY <2>1 DEF Heard, RingInv, TypeOK
  <2>3. rob[Q].state = "EXECUTED" /\ rob[Q].result = c.value
    BY <2>2 DEF BusTellsResults
  <2>4. Feeds(Q, k, r)
    BY <2>2 DEF Hears
  <2>5. Sees(k, r, c.value)
    BY <2>2, <2>3, <2>4 DEF Sees
  <2> QED BY <2>1, <2>2, <2>5, SizeAssumption DEF Hears, NoTag, RobIdx
<1> QED BY <1>1, <1>2
LEMMA BroadcastHears ==
  ASSUME RenameInv, ValuesInv, CDB_broadcast,
         NEW s \in StationId, rs'[s].busy, NEW k \in RobIdx, rs'[s].ROB_idx = k
  PROVE  /\ rs'[s].A = Code(k)'.imm
         /\ HearsFirst(s, k)' /\ HearsSecond(s, k)'
<1> DEFINE jj == Capture(rs[s].Qj, rs[s].Vj)
           kk == Capture(rs[s].Qk, rs[s].Vk)
<1>1. ServeInv /\ RingInv /\ [Next]_vars /\ stage = "broadcast" /\ UNCHANGED robVars
  BY DEF RenameInv, LsqInv, ServeInv, Next, CDB_broadcast
<1>2. rs[s] \in StationRecord
  BY <1>1 DEF RingInv, TypeOK
<1>3. rs'[s] = [rs[s] EXCEPT !.Qj = jj.Q, !.Vj = jj.V, !.Qk = kk.Q, !.Vk = kk.V]
  BY DEF CDB_broadcast
<1>4. PICK Qj, Vj, Qk, Vk :
        /\ Qj = rs[s].Qj /\ Vj = rs[s].Vj /\ Qk = rs[s].Qk /\ Vk = rs[s].Vk
  OBVIOUS
<1>5. jj = Capture(Qj, Vj) /\ kk = Capture(Qk, Vk) /\ Qj \in Tag /\ Qk \in Tag
  BY <1>2, <1>4 DEF StationRecord
<1> HIDE DEF jj, kk
<1>6. /\ rs[s].busy /\ rs[s].ROB_idx = k /\ rs'[s].A = rs[s].A
      /\ rs'[s].Qj = jj.Q /\ rs'[s].Vj = jj.V /\ rs'[s].Qk = kk.Q /\ rs'[s].Vk = kk.V
  BY <1>2, <1>3 DEF StationRecord
<1>7. rs[s].A = Code(k).imm /\ HearsFirst(s, k) /\ HearsSecond(s, k)
  BY <1>6 DEF ValuesInv, StationsHear
<1>8. InFlight(k) /\ \A j \in RobIdx : InFlight(j)' <=> InFlight(j)
  BY <1>1, <1>6 DEF ServeInv, StationsServeRob, Pending, robVars, InFlight, Age
<1>9. Kept(k) /\ ViewKept(k)
  BY <1>1, <1>8, StepKeepsView
<1>10. ASSUME NEW r \in Reg, NEW Q, NEW V, Hears(k, r, Q, V)
       PROVE  /\ \A j \in RobIdx : Q = j => Feeds(j, k, r)'
              /\ Q = NoTag => \E v \in OperandValue : V = v /\ Sees(k, r, v)'
  <2>1. ASSUME NEW j \in RobIdx, Q = j PROVE Feeds(j, k, r)'
    <3>1. Feeds(j, k, r)
      BY <1>10, <2>1 DEF Hears
    <3>2. InFlight(j)'
      BY <1>8, <3>1 DEF Feeds, Writes
    <3> QED BY <1>9, <3>1, <3>2 DEF ViewKept
  <2> QED BY <1>9, <1>10, <2>1 DEF Hears, ViewKept
<1>11. HearsFirst(s, k)'
  <2>1. ASSUME NEW r \in Reg, Code(k)'.src1 = r
        PROVE  Hears(k, r, rs[s].Qj, rs[s].Vj)'
    <3>1. Hears(k, r, Qj, Vj)
      <4>1. Hears(k, r, rs[s].Qj, rs[s].Vj)
        BY <1>7, <1>9, <2>1 DEF HearsFirst, Kept
      <4> QED BY <1>4, <4>1
    <3>2. PICK Q, V : Q = Capture(Qj, Vj).Q /\ V = Capture(Qj, Vj).V
      OBVIOUS
    <3>3. Hears(k, r, Q, V)
      BY <1>1, <1>5, <3>1, <3>2, CaptureHears DEF ValuesInv
    <3>4. rs'[s].Qj = Q /\ rs'[s].Vj = V
      BY <1>5, <1>6, <3>2
    <3> QED BY <1>10, <3>3, <3>4 DEF Hears
  <2> QED BY <2>1 DEF HearsFirst
<1>12. HearsSecond(s, k)'
  <2>1. ASSUME NEW r \in Reg, Code(k)'.src2 = r
        PROVE  Hears(k, r, rs[s].Qk, rs[s].Vk)'
    <3>1. Hears(k, r, Qk, Vk)
      <4>1. Hears(k, r, rs[s].Qk, rs[s].Vk)
        BY <1>7, <1>9, <2>1 DEF HearsSecond, Kept
      <4> QED BY <1>4, <4>1
    <3>2. PICK Q, V : Q = Capture(Qk, Vk).Q /\ V = Capture(Qk, Vk).V
      OBVIOUS
    <3>3. Hears(k, r, Q, V)
      BY <1>1, <1>5, <3>1, <3>2, CaptureHears DEF ValuesInv
    <3>4. rs'[s].Qk = Q /\ rs'[s].Vk = V
      BY <1>5, <1>6, <3>2
    <3> QED BY <1>10, <3>3, <3>4 DEF Hears
  <2>2. ASSUME Code(k)'.src2 = NoReg, ~is_memory_op(rob'[k].op)
        PROVE  rs'[s].Qk = NoTag /\ rs'[s].Vk = Literal(k)'
    <3>1. /\ Qk = NoTag /\ Vk = Literal(k)
          /\ Literal(k)' = Literal(k)
      BY <1>4, <1>7, <1>9, <2>2 DEF HearsSecond, Kept, Literal
    <3>2. Heard(Qk) = {}
      BY <1>1, <3>1, SizeAssumption DEF RingInv, TypeOK, Heard, NoTag, RobIdx
    <3> QED BY <1>5, <1>6, <3>1, <3>2 DEF Capture
  <2> QED BY <2>1, <2>2 DEF HearsSecond
<1> QED BY <1>6, <1>7, <1>9, <1>11, <1>12 DEF Kept

LEMMA StationsInductive ==
  ASSUME RenameInv, NoLostWakeup, ValuesInv, RetryReadsOthers, [Next]_vars
  PROVE  StationsHear'
<1>1. /\ RingInv /\ ServeInv /\ StationsHear
      /\ instruction_queue' = instruction_queue
  BY ProgramStays DEF RenameInv, LsqInv, ServeInv, ValuesInv
<1>2. ASSUME NEW s \in StationId, rs'[s].busy, NEW k \in RobIdx, rs'[s].ROB_idx = k
      PROVE  /\ rs'[s].A = Code(k)'.imm
             /\ HearsFirst(s, k)' /\ HearsSecond(s, k)'
  <2>1. CASE SameHearing(s)
    BY <1>1, <1>2, <2>1, StationStillHears
  <2>2. CASE rs'[s] = rs[s]
    BY <1>1, <1>2, <2>2, StationStillHears DEF SameHearing
  <2>3. CASE Advance
    <3>1. rs[s] \in StationRecord
      BY <1>1 DEF RingInv, TypeOK
    <3>2. rs'[s] = IF \E u \in Completed : StationOf(u) = s
                   THEN [rs[s] EXCEPT !.busy = FALSE] ELSE rs[s]
      BY <2>3 DEF Advance
    <3>3. rs'[s] = rs[s]
      BY <1>2, <3>1, <3>2 DEF StationRecord
    <3> QED BY <2>2, <3>3
  <2>4. CASE IssueArith \/ IssueMemory
    <3>1. lsq_tail \in LsqIdx
      BY <1>1 DEF RingInv, TypeOK
    <3>2. PICK q \in LsqIdx \cup {-1} :
            stage = "issue" /\ CanFetch /\ ~RobFull /\ Enter(q)
      BY <2>4, <3>1 DEF IssueArith, IssueMemory
    <3>3. PICK w \in Free : rs' = [rs EXCEPT ![w] = Filled(w)]
      BY <3>2 DEF Enter
    <3>4. w \in StationId /\ rs'[w] = Filled(w) /\ (w # s => rs'[s] = rs[s])
      BY <1>1, <3>3 DEF Free, RingInv, TypeOK
    <3>5. CASE w = s
      <4>1. k = rob_tail
        BY <1>2, <3>4, <3>5 DEF Filled
      <4> QED BY <1>1, <3>2, <3>4, <3>5, <4>1, EnteredHears
    <3> QED BY <2>2, <3>4, <3>5
  <2>5. CASE CDB_broadcast
    BY <1>2, <2>5, BroadcastHears
  <2>6. CASE UNCHANGED rs
    BY <2>2, <2>6
  <2> QED BY <2>3, <2>4, <2>5, <2>6
          DEF Next, Commit, CommitNothing, CommitStore, CommitRegister, CommitThrow,
              Launch, AdvanceThrow, Issue, IssueNothing, StallArith, StallMemory,
              Stopped, vars
<1> QED BY <1>2 DEF StationsHear
-----------------------------------------------------------------------------
LEMMA CodeSupported ==
  ASSUME RingInv, EntriesHaveCode, AllSupported, NEW k \in RobIdx, InFlight(k)
  PROVE  /\ Code(k) \in Instruction /\ Supported(Code(k))
         /\ rob[k].op = Code(k).op /\ rob[k].dest = Code(k).dest
<1>1. /\ InProgram(rob[k].instr) /\ rob[k].instr \in Int
      /\ rob[k].op = Code(k).op /\ rob[k].dest = Code(k).dest
  BY DEF EntriesHaveCode, InProgram
<1>2. rob[k].instr + 1 \in 1 .. Len(instruction_queue)
  BY <1>1 DEF InProgram, RingInv, TypeOK
<1>3. Code(k) \in Instruction
  BY <1>2 DEF Code, RingInv, TypeOK
<1> QED BY <1>1, <1>2, <1>3 DEF AllSupported, Supported, Code

LEMMA UnitStillHears ==
  ASSUME RenameInv, UnitsHear, [Next]_vars, NEW u \in UnitId, fus'[u].busy,
         fus[u].busy, fus'[u].rob_idx = fus[u].rob_idx, fus'[u].op = fus[u].op,
         fus'[u].v1 = fus[u].v1, fus'[u].v2 = fus[u].v2,
         NEW k \in RobIdx, fus'[u].rob_idx = k
  PROVE  /\ fus'[u].op = rob'[k].op
         /\ \E v \in OperandValue : fus'[u].v1 = v /\ First(k, v)'
         /\ \/ is_load_op(rob'[k].op)
            \/ \E v \in OperandValue : fus'[u].v2 = v /\ Second(k, v)'
<1>1. ServeInv /\ InFlight(k)
  BY BusyUnit DEF RenameInv, LsqInv, Running
<1>2. InFlight(k)'
  <2>1. ServeInv'
    BY <1>1, ServeInductive
  <2>2. Running(k)'
    BY <2>1 DEF ServeInv, UnitsServeStations, StationsServeRob, Pending, StationOf,
                Running, InFlight, Age
  <2> QED BY <2>2 DEF Running
<1>3. Kept(k) /\ ViewKept(k)
  BY <1>1, <1>2, StepKeepsView
<1>4. /\ fus[u].op = rob[k].op
      /\ \E v \in OperandValue : fus[u].v1 = v /\ First(k, v)
      /\ is_load_op(rob[k].op) \/ \E v \in OperandValue : fus[u].v2 = v /\ Second(k, v)
  BY DEF UnitsHear
<1> QED BY <1>3, <1>4, OperandsKept DEF Kept

(* A ready station has every operand that its operation reads. *)
LEMMA ReadyHasOperands ==
  ASSUME RenameInv, ValuesInv, AllSupported, NEW t \in RSType, NEW i \in Ready(t),
         <<t, i>> \in StationId
  PROVE  LET k == rs[<<t, i>>].ROB_idx IN
           /\ k \in RobIdx /\ InFlight(k) /\ rs[<<t, i>>].op = rob[k].op
           /\ t = "LOAD" <=> is_load_op(rob[k].op)
           /\ \E v \in OperandValue : Contents(rs[<<t, i>>].Vj) = v /\ First(k, v)
           /\ t # "LOAD" => \E v \in OperandValue : rs[<<t, i>>].Vk = v /\ Second(k, v)
<1>1. RingInv /\ ServeInv /\ StationsHear /\ EntriesHaveCode
  BY DEF RenameInv, LsqInv, ServeInv, ValuesInv
<1>2. PICK s \in StationId : s = <<t, i>>
  OBVIOUS
<1>3. /\ rs[s].busy /\ rs[s].Qj = NoTag /\ rs[s] \in StationRecord
      /\ t # "LOAD" => rs[s].Qk = NoTag /\ rs[s].Vk # NoValue
  BY <1>1, <1>2 DEF Ready, RingInv, TypeOK
<1>4. PICK k \in RobIdx :
        /\ k = rs[s].ROB_idx /\ InFlight(k) /\ rs[s].op = rob[k].op
        /\ t = station_type(rob[k].op)
  BY <1>1, <1>2, <1>3 DEF ServeInv, StationsServeRob, Pending, InFlight
<1>5. t = "LOAD" <=> is_load_op(rob[k].op)
  BY <1>4, AccessTypes DEF is_memory_op, is_load_op, is_store_op
<1>6. HearsFirst(s, k) /\ HearsSecond(s, k)
  BY <1>1, <1>3, <1>4 DEF StationsHear
<1>7. /\ Code(k) \in Instruction /\ rob[k].op = Code(k).op
      /\ is_store_op(rob[k].op) => Code(k).src2 # NoReg
  BY <1>1, <1>4, CodeSupported DEF Supported
<1>8. \E v \in OperandValue : Contents(rs[s].Vj) = v /\ First(k, v)
  <2>1. CASE Code(k).src1 = NoReg
    <3>1. PICK v \in OperandValue : v = Contents(rs[s].Vj)
      BY <1>3, Values DEF Contents, StationRecord
    <3>2. First(k, v)
      BY <2>1 DEF First, Reg, NoReg
    <3> QED BY <3>1, <3>2
  <2>2. CASE Code(k).src1 # NoReg
    <3>1. PICK r \in Reg : r = Code(k).src1
      BY <1>7, <2>2 DEF Instruction
    <3>2. PICK v \in OperandValue : rs[s].Vj = v /\ Sees(k, r, v)
      BY <1>3, <1>6, <3>1 DEF HearsFirst, Hears
    <3>3. First(k, v)
      BY <3>1, <3>2 DEF First
    <3> QED BY <3>2, <3>3, Values DEF Contents
  <2> QED BY <2>1, <2>2
<1>9. ASSUME t # "LOAD"
      PROVE  \E v \in OperandValue : rs[s].Vk = v /\ Second(k, v)
  <2>1. CASE Code(k).src2 = NoReg
    <3>1. rs[s].Vk = Literal(k)
      BY <1>5, <1>6, <1>7, <1>9, <2>1 DEF HearsSecond, is_memory_op
    <3>2. PICK v \in OperandValue : v = rs[s].Vk
      BY <1>3, <1>9 DEF StationRecord
    <3>3. Second(k, v)
      BY <2>1, <3>1, <3>2 DEF Second, Reg, NoReg
    <3> QED BY <3>2, <3>3
  <2>2. CASE Code(k).src2 # NoReg
    <3>1. PICK r \in Reg : r = Code(k).src2
      BY <1>7, <2>2 DEF Instruction
    <3>2. PICK v \in OperandValue : rs[s].Vk = v /\ Sees(k, r, v)
      BY <1>3, <1>6, <1>9, <3>1 DEF HearsSecond, Hears
    <3>3. Second(k, v)
      BY <2>2, <3>1, <3>2 DEF Second
    <3> QED BY <3>2, <3>3
  <2> QED BY <2>1, <2>2
<1> QED BY <1>2, <1>4, <1>5, <1>8, <1>9

LEMMA UnitsInductive ==
  ASSUME RenameInv, ValuesInv, AllSupported, [Next]_vars
  PROVE  UnitsHear'
<1>1. RingInv /\ ServeInv /\ UnitsHear
  BY DEF RenameInv, LsqInv, ServeInv, ValuesInv
<1>2. ASSUME NEW u \in UnitId, fus'[u].busy, NEW k \in RobIdx, fus'[u].rob_idx = k
      PROVE  /\ fus'[u].op = rob'[k].op
             /\ \E v \in OperandValue : fus'[u].v1 = v /\ First(k, v)'
             /\ \/ is_load_op(rob'[k].op)
                \/ \E v \in OperandValue : fus'[u].v2 = v /\ Second(k, v)'
  <2>1. CASE fus'[u] = fus[u]
    BY <1>1, <1>2, <2>1, UnitStillHears
  <2>2. CASE Advance
    <3>1. fus[u] \in UnitRecord
      BY <1>1 DEF RingInv, TypeOK
    <3>2. fus'[u] = IF fus[u].busy
                    THEN [fus[u] EXCEPT !.busy = u \notin Completed,
                                        !.remaining_cycles = @ - 1]
                    ELSE fus[u]
      BY <2>2 DEF Advance
    <3>3. /\ fus[u].busy /\ fus'[u].rob_idx = fus[u].rob_idx
          /\ fus'[u].op = fus[u].op /\ fus'[u].v1 = fus[u].v1
          /\ fus'[u].v2 = fus[u].v2
      BY <1>2, <3>1, <3>2 DEF UnitRecord
    <3> QED BY <1>1, <1>2, <3>3, UnitStillHears
  <2>3. CASE Launch /\ fus'[u] # fus[u]
    <3>1. PICK i \in Ready(u[1]) :
            Launches(u[1], i, u[2]) /\ fus'[u] = LaunchedUnit(u[1], i)
      BY <2>3 DEF Launch
    <3>2. PICK t \in RSType : t = u[1]
      BY UnitIdParts
    <3>3. <<t, i>> \in StationId
      BY <3>1, <3>2, UnitIdParts DEF Ready
    <3>4. rs[<<t, i>>].ROB_idx = k
      BY <1>2, <3>1, <3>2 DEF LaunchedUnit
    <3>5. /\ InFlight(k) /\ rs[<<t, i>>].op = rob[k].op
          /\ t = "LOAD" <=> is_load_op(rob[k].op)
          /\ \E v \in OperandValue : Contents(rs[<<t, i>>].Vj) = v /\ First(k, v)
          /\ t # "LOAD" => \E v \in OperandValue : rs[<<t, i>>].Vk = v /\ Second(k, v)
      BY <3>1, <3>2, <3>3, <3>4, ReadyHasOperands
    <3>6. InFlight(k)'
      BY <2>3, <3>5 DEF Launch, InFlight, Age
    <3>7. Kept(k) /\ ViewKept(k)
      BY <3>5, <3>6, StepKeepsView
    <3>8. /\ fus'[u].op = rs[<<t, i>>].op
          /\ fus'[u].v1 = Contents(rs[<<t, i>>].Vj)
          /\ t # "LOAD" => fus'[u].v2 = rs[<<t, i>>].Vk
      BY <3>1, <3>2 DEF LaunchedUnit
    <3> QED BY <3>5, <3>7, <3>8, OperandsKept DEF Kept
  <2> QED BY <2>1, <2>2, <2>3
          DEF Next, Commit, CommitNothing, CommitStore, CommitRegister, CommitThrow,
              AdvanceThrow, Issue, IssueNothing, IssueArith, StallArith, IssueMemory,
              StallMemory, Enter, Fetch, CDB_broadcast, Stopped, vars
<1> QED BY <1>2 DEF UnitsHear
-----------------------------------------------------------------------------
(* The LSQ slot of an access that has executed stays as it is. *)
LEMMA SlotStays ==
  ASSUME LsqInv, [Next]_vars, NEW k \in RobIdx, InFlight(k), InFlight(k)',
         rob[k].state = "EXECUTED", is_memory_op(rob[k].op)
  PROVE  LET q == rob[k].lsq_idx IN
           lsq'[q].address = lsq[q].address /\ lsq'[q].data = lsq[q].data
<1>1. ServeInv /\ RingInv /\ SlotsInv /\ k \in MemoryEntries
  BY DEF LsqInv, ServeInv, MemoryEntries
<1>2. PICK q \in LsqIdx : q = rob[k].lsq_idx /\ q \in ValidSlots /\ lsq[q] \in SlotRecord
  BY <1>1 DEF SlotsInv, EntriesHaveSlots, ValidSlots, RingInv, TypeOK
<1>3. CASE UNCHANGED lsq
  BY <1>2, <1>3
<1>4. CASE ReleaseLsq
  <2>1. lsq' = [lsq EXCEPT ![HeadEntry.lsq_idx].valid = FALSE] /\ DOMAIN lsq = LsqIdx
    BY <1>1, <1>4 DEF ReleaseLsq, RingInv, TypeOK
  <2> QED BY <1>2, <2>1 DEF SlotRecord
<1>5. CASE Advance
  <2>1. DeliveredTo(k) = {}
    BY <1>1, <1>5, AfterAdvance DEF Running
  <2>2. AddressedTo(q) = {}
    BY <1>1, <1>2, <2>1, AddressedWithEntry
  <2> QED BY <1>2, <1>5, <2>2 DEF Advance
<1>6. CASE IssueMemory
  <2>1. lsq_tail # q
    <3>1. lsq_count \in Int /\ lsq_count < LSQ_SIZE
      BY <1>1, <1>6, SizeAssumption DEF IssueMemory, LsqFull, RingInv, TypeOK
    <3> QED BY <1>1, <1>2, <3>1, LsqTailIsFree
  <2> QED BY <1>2, <1>6, <2>1 DEF IssueMemory, RingInv, TypeOK
<1> QED BY <1>3, <1>4, <1>5, <1>6
        DEF Next, Commit, CommitNothing, CommitStore, CommitRegister, CommitThrow,
            Launch, AdvanceThrow, Issue, IssueNothing, IssueArith, StallArith,
            StallMemory, CDB_broadcast, Stopped, vars, lsqVars

(* A store that commits does not write what a younger load has read. *)
LEMMA MemoryStays ==
  ASSUME RenameInv, LoadsInOrder, [Next]_vars, NEW k \in RobIdx, InFlight(k),
         rob[k].state = "EXECUTED", is_load_op(rob[k].op),
         NEW a, a = LocationOf(k)
  PROVE  MemoryAt(a)' = MemoryAt(a)
<1>1. CASE UNCHANGED memory
  BY <1>1 DEF MemoryAt
<1>2. CASE CommitStore
  <2>1. stage = "commit" /\ CanCommit /\ is_store_op(HeadEntry.op)
    BY <1>2 DEF CommitStore
  <2>2. PICK key : key = LocationOf(rob_head) /\ a # key
    BY <2>1 DEF LoadsInOrder
  <2>3. PICK v : memory' = [b \in DOMAIN memory \cup {key} |->
                              IF b = key THEN v ELSE memory[b]]
    BY <1>2, <2>2 DEF CommitStore, LocationOf, HeadEntry
  <2>4. a \in DOMAIN memory' <=> a \in DOMAIN memory
    BY <2>2, <2>3
  <2>5. a \in DOMAIN memory => memory'[a] = memory[a]
    BY <2>2, <2>3
  <2> QED BY <2>4, <2>5 DEF MemoryAt
<1> QED BY <1>1, <1>2
        DEF Next, Commit, CommitNothing, CommitRegister, CommitThrow, Launch, Advance,
            AdvanceThrow, Issue, IssueNothing, IssueArith, StallArith, IssueMemory,
            StallMemory, Enter, Fetch, CDB_broadcast, Stopped, vars

LEMMA RightStays ==
  ASSUME RenameInv, LoadsInOrder, [Next]_vars, NEW k \in RobIdx,
         InFlight(k), InFlight(k)', rob[k].state = "EXECUTED", Right(k)
  PROVE  Right(k)'
<1>1. LsqInv /\ ServeInv
  BY DEF RenameInv, LsqInv
<1>2. Kept(k) /\ ViewKept(k) /\ rob'[k] = rob[k] /\ Code(k)' = Code(k)
  BY <1>1, StepKeepsView, ResultsStay DEF Kept
<1>3. Computed(k) => Computed(k)'
  <2> SUFFICES ASSUME Computed(k) PROVE Computed(k)'
    OBVIOUS
  <2>1. PICK v1 \in OperandValue, v2 \in OperandValue :
          /\ First(k, v1) /\ Second(k, v2)
          /\ rob[k].result = compute_result(rob[k].op, v1, v2)
          /\ rob[k].op \in {"BNE", "LUI"} => v2[1] = "int"
          /\ rob[k].op = "BNE" => v1[1] = "int"
    BY DEF Computed
  <2>2. First(k, v1)' /\ Second(k, v2)'
    BY <1>2, <2>1, OperandsKept
  <2>3. rob'[k].result = compute_result(rob'[k].op, v1, v2)
    BY <1>2, <2>1
  <2> QED BY <1>2, <2>1, <2>2, <2>3 DEF Computed
<1>4. ASSUME is_memory_op(rob[k].op)
      PROVE  /\ lsq'[rob'[k].lsq_idx].address = lsq[rob[k].lsq_idx].address
             /\ lsq'[rob'[k].lsq_idx].data = lsq[rob[k].lsq_idx].data
  BY <1>1, <1>2, <1>4, SlotStays
<1>5. is_memory_op(rob[k].op) /\ Addressed(k) => Addressed(k)'
  BY <1>2, <1>4, OperandsKept DEF Addressed
<1>6. is_store_op(rob[k].op) /\ Stored(k) => Stored(k)'
  BY <1>2, <1>4, OperandsKept DEF Stored, is_memory_op
<1>7. is_load_op(rob[k].op) /\ Loaded(k) => Loaded(k)'
  <2> SUFFICES ASSUME is_load_op(rob[k].op), Loaded(k) PROVE Loaded(k)'
    OBVIOUS
  <2>1. PICK a : a = LocationOf(k)
    OBVIOUS
  <2>2. MemoryAt(a)' = MemoryAt(a)
    BY <2>1, MemoryStays
  <2>3. LocationOf(k)' = a
    BY <1>2, <1>4, <2>1 DEF LocationOf, is_memory_op
  <2>4. rob[k].result = MemoryAt(a)
    BY <2>1 DEF Loaded
  <2> QED BY <1>2, <2>2, <2>3, <2>4 DEF Loaded, MemoryAt
<1> QED BY <1>2, <1>3, <1>5, <1>6, <1>7 DEF Right

(* What a unit delivers is what the operands of its instruction make. *)
LEMMA DeliveredRight ==
  ASSUME RenameInv, ValuesInv, Advance, NEW k \in RobIdx, DeliveredTo(k) # {}
  PROVE  Right(k)'
<1>1. /\ LsqInv /\ ServeInv /\ RingInv /\ [Next]_vars
      /\ \A w \in Delivered : ~WrongKind(w)
      /\ memory' = memory
  BY DEF RenameInv, LsqInv, ServeInv, Next, Advance
<1>2. PICK u \in DeliveredTo(k) : rob'[k] = CompletedEntry(k, u)
  BY DEF Advance
<1>3. /\ u \in Delivered /\ u \in UnitId /\ fus[u].rob_idx = k /\ fus[u].busy
      /\ InFlight(k) /\ u[1] = station_type(rob[k].op) /\ ~WrongKind(u)
  BY <1>1, DeliveredAccess DEF DeliveredTo, Delivered, Completed
<1>4. PICK s \in StationId :
        /\ s = StationOf(u) /\ rs[s].busy /\ rs[s].ROB_idx = k
        /\ rs[s].op = rob[k].op /\ rs[s].A = Code(k).imm
  <2>1. StationOf(u) \in StationId /\ rs[StationOf(u)].busy
        /\ rs[StationOf(u)].ROB_idx = k
    BY <1>1, <1>3, BusyUnit
  <2> QED BY <1>1, <2>1 DEF ServeInv, StationsServeRob, ValuesInv, StationsHear
<1>5. InFlight(k)'
  BY <1>3 DEF Advance, InFlight, Age
<1>6. Kept(k) /\ ViewKept(k) /\ Code(k)' = Code(k) /\ rob'[k].op = rob[k].op
  BY <1>1, <1>3, <1>5, StepKeepsView DEF Kept
<1>7. /\ fus[u].op = rob[k].op
      /\ \E v \in OperandValue : fus[u].v1 = v /\ First(k, v)
      /\ is_load_op(rob[k].op) \/ \E v \in OperandValue : fus[u].v2 = v /\ Second(k, v)
  BY <1>3 DEF ValuesInv, UnitsHear
<1>8. PICK v1 \in OperandValue : fus[u].v1 = v1 /\ First(k, v1) /\ First(k, v1)'
  BY <1>6, <1>7, OperandsKept
<1>9. /\ u[1] = "STORE" <=> is_store_op(rob[k].op)
      /\ u[1] \in {"LOAD", "STORE"} <=> is_memory_op(rob[k].op)
      /\ u[1] = "LOAD" <=> is_load_op(rob[k].op)
  BY <1>3, AccessTypes DEF is_memory_op, is_load_op, is_store_op
<1>10. u[1] # "STORE" => rob'[k].result = Result(u)
  <2>1. rob[k] \in EntryRecord
    BY <1>1 DEF RingInv, TypeOK
  <2> QED BY <1>2, <2>1 DEF CompletedEntry, EntryRecord
<1>11. ASSUME ~is_memory_op(rob[k].op) PROVE Computed(k)'
  <2>1. PICK v2 \in OperandValue : fus[u].v2 = v2 /\ Second(k, v2) /\ Second(k, v2)'
    BY <1>6, <1>7, <1>11, OperandsKept DEF is_memory_op
  <2>2. Result(u) = compute_result(fus[u].op, fus[u].v1, fus[u].v2)
    BY <1>9, <1>11 DEF Result
  <2>3. rob'[k].result = compute_result(rob'[k].op, v1, v2)
    BY <1>6, <1>7, <1>8, <1>9, <1>10, <1>11, <2>1, <2>2
  <2>4. rob'[k].op \in {"BNE", "LUI"} => v1[1] = "int" /\ v2[1] = "int"
    <3>1. /\ v1[1] = operand_kind_1(rob[k].op)
          /\ operand_kind_2(rob[k].op) # "unread" => v2[1] = operand_kind_2(rob[k].op)
      BY <1>3, <1>7, <1>8, <2>1 DEF WrongKind
    <3>2. \A op \in {"BNE", "LUI"} :
            operand_kind_1(op) = "int" /\ operand_kind_2(op) = "int"
      BY DEF operand_kind_1, operand_kind_2, is_alu_op, alu_ops, is_fp_add_op
    <3> QED BY <1>6, <3>1, <3>2
  <2> QED BY <1>8, <2>1, <2>3, <2>4 DEF Computed
<1>12. ASSUME is_memory_op(rob[k].op)
       PROVE  /\ lsq'[rob'[k].lsq_idx].address = Address(u)
              /\ u[1] = "STORE" => lsq'[rob'[k].lsq_idx].data = fus[u].v2
  <2>1. k \in MemoryEntries
    BY <1>3, <1>12 DEF MemoryEntries
  <2>2. PICK q \in LsqIdx : q = rob[k].lsq_idx /\ lsq[q] \in SlotRecord
    BY <1>1, <2>1 DEF LsqInv, SlotsInv, EntriesHaveSlots, ValidSlots, RingInv, TypeOK
  <2>3. AddressedTo(q) = DeliveredTo(k)
    BY <1>1, <2>1, <2>2, AddressedWithEntry
  <2>4. PICK w \in DeliveredTo(k) : lsq'[q] = AddressedSlot(q, w)
    BY <1>2, <2>3 DEF Advance
  <2>5. w \in UnitId /\ fus[w].busy /\ fus[w].rob_idx = k
    BY <1>1, <2>4, DeliveredAccess DEF DeliveredTo, Delivered, Completed
  <2>6. w = u
    BY <1>1, <1>3, <2>5 DEF ServeInv, UnitsServeStations
  <2>7. rob'[k].lsq_idx = q
    BY <1>6, <2>2 DEF Kept
  <2>8. /\ AddressedSlot(q, u).address = Address(u)
        /\ u[1] = "STORE" => AddressedSlot(q, u).data = fus[u].v2
    BY <2>2 DEF AddressedSlot, SlotRecord
  <2> QED BY <2>4, <2>6, <2>7, <2>8
<1>13. Address(u) = (v1[2] + Code(k).imm) % WORD
  BY <1>4, <1>8 DEF Address
<1>14. is_memory_op(rob[k].op) => Addressed(k)'
  BY <1>6, <1>8, <1>12, <1>13 DEF Addressed
<1>15. ASSUME is_store_op(rob[k].op) PROVE Stored(k)'
  <2>1. PICK v2 \in OperandValue : fus[u].v2 = v2 /\ Second(k, v2)'
    BY <1>6, <1>7, <1>15, OperandsKept DEF is_store_op, is_load_op
  <2>2. lsq'[rob'[k].lsq_idx].data = v2
    BY <1>9, <1>12, <1>15, <2>1 DEF is_memory_op
  <2> QED BY <2>1, <2>2 DEF Stored
<1>16. ASSUME is_load_op(rob[k].op) PROVE Loaded(k)'
  <2>1. rob'[k].result = LoadValue(u)
    BY <1>9, <1>10, <1>16 DEF Result
  <2>2. LocationOf(k)' = <<memory_kind(rs[s].op), Address(u)>>
    BY <1>4, <1>6, <1>12, <1>16 DEF LocationOf, is_memory_op
  <2>3. LoadValue(u) = MemoryAt(<<memory_kind(rs[s].op), Address(u)>>)
    BY <1>4 DEF LoadValue, MemoryAt
  <2> QED BY <1>1, <2>1, <2>2, <2>3 DEF Loaded, MemoryAt
<1> QED BY <1>6, <1>11, <1>14, <1>15, <1>16 DEF Right
(* Results come from the functional units. *)
LEMMA ResultsAppear ==
  ASSUME ServeInv, [Next]_vars, NEW k \in RobIdx, InFlight(k), InFlight(k)',
         rob[k].state # "EXECUTED", rob'[k].state = "EXECUTED"
  PROVE  Advance /\ DeliveredTo(k) # {}
<1>1. RingInv
  BY DEF ServeInv
<1>2. CASE CommitStore \/ CommitRegister
  <2>1. rob_count > 0 /\ ReleaseRob
    BY <1>2 DEF CommitStore, CommitRegister, CanCommit
  <2> QED BY <1>1, <2>1, ReleaseRobKeepsRing
<1>3. CASE Launch
  <2>1. rob[k] \in EntryRecord
    BY <1>1 DEF RingInv, TypeOK
  <2>2. rob'[k] = IF k \in LaunchedEntries
                  THEN [rob[k] EXCEPT !.state = "EXECUTING"] ELSE rob[k]
    BY <1>3 DEF Launch
  <2> QED BY <2>1, <2>2 DEF EntryRecord
<1>4. CASE Advance
  BY <1>4, AfterAdvance
<1>5. CASE IssueArith \/ IssueMemory
  <2>1. lsq_tail \in LsqIdx
    BY <1>1 DEF RingInv, TypeOK
  <2>2. PICK q \in LsqIdx \cup {-1} : CanFetch /\ ~RobFull /\ Enter(q)
    BY <1>5, <2>1 DEF IssueArith, IssueMemory
  <2> QED BY <1>1, <2>2, EnterRing
<1>6. CASE StallArith \/ StallMemory
  BY <1>1, <1>6, TailWritten DEF StallArith, StallMemory
<1>7. CASE UNCHANGED rob
  BY <1>7
<1> QED BY <1>2, <1>3, <1>4, <1>5, <1>6, <1>7
        DEF Next, Commit, CommitNothing, CommitThrow, AdvanceThrow, Issue, IssueNothing,
            CDB_broadcast, Stopped, vars, robVars

LEMMA ExecutedInductive ==
  ASSUME RenameInv, ValuesInv, LoadsInOrder, [Next]_vars PROVE ExecutedRight'
<1>1. ServeInv /\ RingInv
  BY DEF RenameInv, LsqInv, ServeInv
<1>2. ASSUME NEW k \in RobIdx, InFlight(k)', rob'[k].state = "EXECUTED"
      PROVE  Right(k)'
  <2>1. CASE ~InFlight(k)
    <3>1. PICK q \in LsqIdx \cup {-1} : rob'[k] = NewEntry(q)
      BY <1>1, <1>2, <2>1, Entered
    <3> QED BY <1>2, <3>1 DEF NewEntry
  <2>2. CASE InFlight(k) /\ rob[k].state = "EXECUTED"
    BY <1>2, <2>2, RightStays DEF ValuesInv, ExecutedRight
  <2>3. CASE InFlight(k) /\ rob[k].state # "EXECUTED"
    BY <1>1, <1>2, <2>3, ResultsAppear, DeliveredRight
  <2> QED BY <2>1, <2>2, <2>3
<1> QED BY <1>2 DEF ExecutedRight

LEMMA BusInductive ==
  ASSUME RenameInv, ValuesInv, [Next]_vars PROVE BusTellsResults'
<1>1. LsqInv /\ ServeInv /\ RingInv
  BY DEF RenameInv, LsqInv, ServeInv
<1>2. ASSUME NEW c \in cdb_list', stage' \in {"issue", "broadcast"}
      PROVE  \E k \in RobIdx : /\ c.producer_id = k /\ InFlight(k)'
                               /\ rob'[k].state = "EXECUTED"
                               /\ rob'[k].result = c.value
  <2>1. CASE Advance
    <3>1. PICK u \in Delivered :
            c = [producer_id |-> fus[u].rob_idx, value |-> Result(u)] /\ u[1] # "STORE"
      BY <1>2, <2>1 DEF Advance
    <3>2. PICK k \in RobIdx : k = fus[u].rob_idx /\ InFlight(k) /\ u \in DeliveredTo(k)
      BY <1>1, <3>1, DeliveredAccess DEF DeliveredTo
    <3>3. InFlight(k)' /\ rob'[k].state = "EXECUTED"
      BY <1>1, <2>1, <3>2, AfterAdvance
    <3>4. PICK w \in DeliveredTo(k) : rob'[k] = CompletedEntry(k, w)
      BY <2>1, <3>2 DEF Advance
    <3>5. w = u
      BY <1>1, <3>2, <3>4 DEF ServeInv, UnitsServeStations, DeliveredTo, Delivered, Completed
    <3>6. rob'[k].result = Result(u)
      <4>1. rob[k] \in EntryRecord
        BY <1>1 DEF RingInv, TypeOK
      <4> QED BY <3>1, <3>4, <3>5, <4>1 DEF CompletedEntry, EntryRecord
    <3> QED BY <3>1, <3>2, <3>3, <3>6
  <2>2. CASE Issue \/ UNCHANGED vars
    <3>1. stage \in {"issue", "broadcast"} /\ cdb_list' = cdb_list
      BY <1>2, <2>2 DEF Issue, IssueNothing, IssueArith, StallArith, IssueMemory,
         StallMemory, Enter, Fetch, vars
    <3>2. PICK k \in RobIdx : /\ k = c.producer_id /\ InFlight(k)
                              /\ rob[k].state = "EXECUTED" /\ rob[k].result = c.value
      BY <1>1, <1>2, <3>1 DEF ValuesInv, BusTellsResults, RingInv, TypeOK
    <3>3. Steady
      <4>1. (~CommitStore /\ ~CommitRegister) \/ UNCHANGED vars
        BY <2>2 DEF Issue, IssueNothing, IssueArith, StallArith, IssueMemory,
           StallMemory, CommitStore, CommitRegister
      <4>2. UNCHANGED vars => Steady
        BY DEF vars, robVars, Steady, InFlight, Age
      <4> QED BY <1>1, <4>1, <4>2, Steadily
    <3>4. InFlight(k)'
      BY <3>2, <3>3 DEF Steady
    <3>5. rob'[k] = rob[k]
      BY <1>1, <3>2, <3>4, ResultsStay
    <3> QED BY <3>2, <3>4, <3>5
  <2>3. CASE Commit \/ Launch \/ AdvanceThrow \/ CDB_broadcast \/ Stopped
    <3>1. stage' \notin {"issue", "broadcast"}
      BY <2>3 DEF Commit, CommitNothing, CommitStore, CommitRegister, CommitThrow,
         Launch, AdvanceThrow, CDB_broadcast, Stopped, vars
    <3> QED BY <1>2, <3>1
  <2> QED BY <2>1, <2>2, <2>3 DEF Next
<1> QED BY <1>2 DEF BusTellsResults, InFlight, Age
-----------------------------------------------------------------------------
(* Neighbours in the ring. *)
LEMMA Neighbour ==
  ASSUME RingInv, NEW k \in RobIdx, InFlight(k)
  PROVE  /\ NextRob(k) \in RobIdx
         /\ NextRob(k) = rob_tail <=> Age(k) = rob_count - 1
         /\ NextRob(k) # rob_tail =>
              InFlight(NextRob(k)) /\ NextRob(k) # rob_head
<1>1. /\ ROB_SIZE \in Nat \ {0} /\ rob_head \in RobIdx
      /\ rob_count \in 1 .. ROB_SIZE /\ rob_tail = (rob_head + rob_count) % ROB_SIZE
  <2>1. Age(k) \in 0 .. ROB_SIZE-1 /\ Age(k) < rob_count /\ rob_head \in RobIdx
    BY AgeOfHead DEF InFlight, Age, RingInv, TypeOK
  <2> QED BY <2>1, SizeAssumption DEF RingInv, TypeOK, RobIsARing
<1>2. PICK h \in 0 .. ROB_SIZE-1, c \in 1 .. ROB_SIZE, a \in 0 .. ROB_SIZE-1 :
        h = rob_head /\ c = rob_count /\ a = Age(k) /\ a < c
  BY <1>1, AgeOfHead DEF InFlight, Age, RobIdx
<1>3. rob_tail = IF h + c < ROB_SIZE THEN h + c ELSE h + c - ROB_SIZE
  BY <1>1, <1>2, ModRob
<1>4. k = IF h + a < ROB_SIZE THEN h + a ELSE h + a - ROB_SIZE
  <2>1. a = IF k < h THEN k - h + ROB_SIZE ELSE k - h
    BY <1>1, <1>2, ModRob DEF Age, RobIdx
  <2> QED BY <1>1, <1>2, <2>1 DEF RobIdx
<1>5. NextRob(k) = IF k + 1 < ROB_SIZE THEN k + 1 ELSE k + 1 - ROB_SIZE
  BY <1>1, ModRob DEF NextRob, RobIdx
<1>6. NextRob(k) \in RobIdx /\ (NextRob(k) = rob_tail <=> a = c - 1)
  BY <1>1, <1>2, <1>3, <1>4, <1>5 DEF RobIdx
<1>7. ASSUME NextRob(k) # rob_tail PROVE InFlight(NextRob(k)) /\ NextRob(k) # rob_head
  <2>1. a < c - 1
    BY <1>2, <1>6, <1>7
  <2>2. PICK n \in RobIdx : n = NextRob(k)
    BY <1>6
  <2>3. n # h /\ Age(n) = a + 1
    <3>1. Age(n) = IF n < h THEN n - h + ROB_SIZE ELSE n - h
      BY <1>1, <1>2, ModRob DEF Age, RobIdx
    <3> QED BY <1>1, <1>2, <1>4, <1>5, <2>1, <2>2, <3>1 DEF RobIdx
  <2> QED BY <1>2, <2>1, <2>2, <2>3 DEF InFlight
<1> QED BY <1>2, <1>6, <1>7
LEMMA NextRobInjective ==
  ASSUME NEW j \in RobIdx, NEW k \in RobIdx, NextRob(j) = NextRob(k)
  PROVE  j = k
<1>1. ROB_SIZE \in Nat \ {0}
  BY SizeAssumption
<1>2. \A i \in RobIdx :
        NextRob(i) = IF i + 1 < ROB_SIZE THEN i + 1 ELSE i + 1 - ROB_SIZE
  BY <1>1, ModRob DEF NextRob, RobIdx
<1> QED BY <1>1, <1>2 DEF RobIdx

LEMMA WordsOfMultiple ==
  ASSUME NEW n \in Int, n % 4 = 0 PROVE Words(n) = n \div 4
BY DEF Words

(* The neighbour of an entry that stays in flight stays as well. *)
LEMMA NeighbourKept ==
  ASSUME ServeInv, [Next]_vars, NEW k \in RobIdx, InFlight(k),
         NEW n \in RobIdx, n = NextRob(k), n # rob_tail
  PROVE  rob'[n].instr = rob[n].instr
<1>1. RingInv
  BY DEF ServeInv
<1>2. InFlight(n) /\ n # rob_head
  BY <1>1, Neighbour
<1>3. InFlight(n)'
  <2>1. CASE Steady
    BY <1>2, <2>1 DEF Steady
  <2>2. CASE CommitStore \/ CommitRegister
    <3>1. rob_count > 0 /\ ReleaseRob
      BY <2>2 DEF CommitStore, CommitRegister, CanCommit
    <3> QED BY <1>1, <1>2, <3>1, ReleaseRobKeepsRing
  <2> QED BY <1>1, <2>1, <2>2, Steadily
<1> QED BY <1>2, <1>3, EntryKept DEF Kept

LEMMA StillFollows ==
  ASSUME ServeInv, EntriesFollow, [Next]_vars, ~Advance,
         rob_tail' = rob_tail, FetchNext' = FetchNext,
         NEW k \in RobIdx, InFlight(k), InFlight(k)'
  PROVE  Follows(k)'
<1>1. RingInv /\ Follows(k) /\ Kept(k)
  BY EntryKept DEF ServeInv, EntriesFollow
<1>2. Taken(k)' <=> Taken(k)
  <2>1. rob[k].state = "EXECUTED" => rob'[k] = rob[k]
    BY ResultsStay
  <2>2. rob'[k].state = "EXECUTED" => rob[k].state = "EXECUTED"
    BY ResultsAppear
  <2> QED BY <2>1, <2>2 DEF Taken
<1>3. PICK n \in RobIdx : n = NextRob(k)
  BY <1>1, Neighbour
<1>4. n # rob_tail => rob'[n].instr = rob[n].instr
  BY <1>3, NeighbourKept
<1>5. Successor(k)' = Successor(k)
  BY <1>3, <1>4 DEF Successor
<1> QED BY <1>1, <1>2, <1>5 DEF Follows, Kept

LEMMA EnterFollows ==
  ASSUME ServeInv, EntriesFollow, [Next]_vars, stage = "issue", CanFetch, ~RobFull,
         NEW q \in LsqIdx \cup {-1}, Enter(q),
         NEW k \in RobIdx, InFlight(k)'
  PROVE  Follows(k)'
<1>1. /\ RingInv /\ rob_tail' = NextRob(rob_tail) /\ stage' = "broadcast"
      /\ next_fetch_idx' = next_fetch_branch + 1
  BY DEF ServeInv, Enter, Fetch
<1>2. PICK t \in RobIdx :
        /\ t = rob_tail /\ ~InFlight(t) /\ rob'[t] = NewEntry(q)
        /\ \A i \in RobIdx : InFlight(i)' <=> InFlight(i) \/ i = t
        /\ \A i \in RobIdx : i # t => rob'[i] = rob[i]
  BY <1>1, EnterRing
<1>3. rob'[t].instr = next_fetch_branch /\ rob'[t].state = "ISSUED"
  BY <1>2 DEF NewEntry
<1>4. CASE k = t
  <2>1. Successor(k)' = next_fetch_branch + 1
    BY <1>1, <1>2, <1>4 DEF Successor, FetchNext
  <2>2. ~Taken(k)'
    BY <1>3, <1>4 DEF Taken
  <2> QED BY <1>3, <1>4, <2>1, <2>2 DEF Follows
<1>5. CASE k # t
  <2>1. InFlight(k) /\ rob'[k] = rob[k] /\ Follows(k) /\ Kept(k)
    BY <1>2, <1>5, EntryKept DEF EntriesFollow
  <2>2. PICK n \in RobIdx : n = NextRob(k)
    BY <1>1, <2>1, Neighbour
  <2>3. n # rob_tail'
    BY <1>1, <1>2, <1>5, <2>2, NextRobInjective
  <2>4. Successor(k)' = rob'[n].instr
    BY <2>2, <2>3 DEF Successor
  <2>5. Successor(k) = rob'[n].instr
    BY <1>2, <1>3, <2>2 DEF Successor, FetchNext
  <2> QED BY <2>1, <2>4, <2>5 DEF Follows, Kept, Taken
<1> QED BY <1>4, <1>5

(* A branch that is taken sends the fetch after itself to its target, and  *)
(* nothing has been fetched there yet.                                     *)
LEMMA AdvanceFollows ==
  ASSUME RenameInv, ValuesInv, AllSupported, BranchesInTime, Advance,
         NEW k \in RobIdx, InFlight(k)
  PROVE  Follows(k)'
<1>1. /\ LsqInv /\ ServeInv /\ RingInv /\ [Next]_vars /\ Follows(k)
      /\ stage = "advance" /\ stage' = "issue" /\ rob_tail' = rob_tail
      /\ next_fetch_branch \in Int
  BY DEF RenameInv, LsqInv, ServeInv, Next, Advance, ValuesInv, EntriesFollow,
         RingInv, TypeOK
<1>2. InFlight(k)' /\ Kept(k)
  <2>1. InFlight(k)'
    BY DEF Advance, InFlight, Age
  <2> QED BY <1>1, <2>1, EntryKept
<1>3. PICK n \in RobIdx : n = NextRob(k) /\ (n # rob_tail => rob'[n].instr = rob[n].instr)
  BY <1>1, Neighbour, NeighbourKept
<1>4. ASSUME NEW u \in Redirecting
      PROVE  \E j \in RobIdx :
               /\ fus[u].rob_idx = j /\ InFlight(j) /\ NextRob(j) = rob_tail
               /\ ~Taken(j) /\ Taken(j)'
               /\ Target(u) = next_fetch_idx - 1 + Words(Code(j).imm)
  <2>1. PICK j \in RobIdx : j = fus[u].rob_idx /\ InFlight(j) /\ u \in DeliveredTo(j)
                            /\ u \in UnitId /\ fus[u].busy
    BY <1>1, <1>4, DeliveredAccess DEF Redirecting, DeliveredTo, Delivered, Completed
  <2>2. PICK s \in StationId :
          /\ s = StationOf(u) /\ rs[s].A = Code(j).imm /\ rs[s].op = rob[j].op
    <3>1. StationOf(u) \in StationId /\ rs[StationOf(u)].busy
          /\ rs[StationOf(u)].ROB_idx = j
      BY <1>1, <2>1, BusyUnit
    <3> QED BY <1>1, <2>1, <3>1 DEF ServeInv, StationsServeRob, ValuesInv, StationsHear
  <2>3. rob[j].op # "JALR"
    BY <1>1, <2>1, CodeSupported DEF ValuesInv, Supported
  <2>4. rob[j].op = "BNE" /\ Result(u)[2] = 1
    BY <1>4, <2>2, <2>3 DEF Redirecting
  <2>5. PICK w \in DeliveredTo(j) : rob'[j] = CompletedEntry(j, w)
    BY <2>1 DEF Advance
  <2>6. w = u
    BY <1>1, <2>1, <2>5 DEF ServeInv, UnitsServeStations, DeliveredTo, Delivered, Completed
  <2>7. u[1] # "STORE"
    BY <1>1, <1>4, <2>1, <2>4, DeliveredAccess, AccessTypes DEF Redirecting, is_store_op
  <2>8. rob'[j].op = "BNE" /\ rob'[j].state = "EXECUTED" /\ rob'[j].result = Result(u)
    <3>1. rob[j] \in EntryRecord
      BY <1>1 DEF RingInv, TypeOK
    <3> QED BY <2>4, <2>5, <2>6, <2>7, <3>1 DEF CompletedEntry, EntryRecord
  <2>9. rob[j].state = "EXECUTING"
    BY <1>1, <2>1 DEF ServeInv, UnitsServeStations
  <2>10. Target(u) = next_fetch_idx - 1 + Words(Code(j).imm)
    BY <2>2, <2>4 DEF Target
  <2>11. NextRob(j) = rob_tail
    BY <1>1, <1>4, <2>1 DEF BranchesInTime
  <2> QED BY <2>1, <2>4, <2>8, <2>9, <2>10, <2>11 DEF Taken
<1>5. ASSUME Taken(k)', ~Taken(k) PROVE Redirecting # {} /\ n = rob_tail
  <2>1. rob[k].state # "EXECUTED"
    BY <1>1, <1>2, <1>5, ResultsStay DEF Taken
  <2>2. DeliveredTo(k) # {}
    BY <1>1, <1>2, <1>5, <2>1, ResultsAppear DEF Taken
  <2>3. PICK u \in DeliveredTo(k) : rob'[k] = CompletedEntry(k, u)
    BY <2>2 DEF Advance
  <2>4. u \in Delivered /\ u \in UnitId /\ fus[u].busy /\ fus[u].rob_idx = k
    BY <1>1, <2>3, DeliveredAccess DEF DeliveredTo, Delivered, Completed
  <2>5. rob[k].op = "BNE"
    BY <1>2, <1>5 DEF Taken, Kept
  <2>6. rs[StationOf(u)].op = "BNE"
    BY <1>1, <2>4, <2>5, BusyUnit DEF ServeInv, StationsServeRob
  <2>7. u[1] # "STORE"
    BY <1>1, <2>4, <2>5, DeliveredAccess, AccessTypes DEF is_store_op
  <2>8. rob'[k].result = Result(u)
    <3>1. rob[k] \in EntryRecord
      BY <1>1 DEF RingInv, TypeOK
    <3> QED BY <2>3, <2>7, <3>1 DEF CompletedEntry, EntryRecord
  <2>9. u \in Redirecting
    BY <1>5, <2>4, <2>6, <2>8 DEF Redirecting, Taken
  <2> QED BY <1>1, <1>3, <2>4, <2>9 DEF BranchesInTime
<1>6. Taken(k) => Taken(k)'
  BY <1>1, <1>2, ResultsStay DEF Taken
<1>7. CASE n # rob_tail
  <2>1. Successor(k)' = Successor(k)
    BY <1>1, <1>3, <1>7 DEF Successor
  <2>2. Taken(k)' <=> Taken(k)
    BY <1>5, <1>6, <1>7
  <2> QED BY <1>1, <1>2, <2>1, <2>2 DEF Follows, Kept
<1>8. CASE n = rob_tail /\ Redirecting = {}
  <2>1. next_fetch_branch' = next_fetch_branch
    BY <1>8 DEF Advance, Redirect
  <2>2. Successor(k)' = Successor(k)
    BY <1>1, <1>3, <1>8, <2>1 DEF Successor, FetchNext
  <2>3. Taken(k)' <=> Taken(k)
    BY <1>5, <1>6, <1>8
  <2> QED BY <1>1, <1>2, <2>2, <2>3 DEF Follows, Kept
<1>9. CASE n = rob_tail /\ Redirecting # {}
  <2>1. PICK u \in Redirecting : next_fetch_branch' = Target(u)
    BY <1>9 DEF Advance, Redirect
  <2>2. /\ ~Taken(k) /\ Taken(k)'
        /\ Target(u) = next_fetch_idx - 1 + Words(Code(k).imm)
    BY <1>3, <1>4, <1>9, <2>1, NextRobInjective
  <2>3. rob_count > 0
    <3>1. Age(k) \in 0 .. ROB_SIZE-1 /\ rob_count \in Int
      BY <1>1, AgeOfHead DEF Age, RingInv, TypeOK
    <3> QED BY <3>1, SizeAssumption DEF InFlight
  <2>4. next_fetch_idx = next_fetch_branch
    BY <1>1, <2>3 DEF ValuesInv, FetchAgrees
  <2>5. next_fetch_branch = rob[k].instr + 1 /\ rob[k].instr \in Int
    BY <1>1, <1>3, <1>9, <2>2 DEF Follows, Successor, FetchNext, RingInv, TypeOK, EntryRecord
  <2>6. Code(k).imm \in Int /\ Words(Code(k).imm) = Code(k).imm \div 4
    <3>1. Code(k) \in Instruction /\ Code(k).op = rob[k].op /\ Supported(Code(k))
      BY <1>1, CodeSupported DEF ValuesInv
    <3>2. Code(k).imm \in Int /\ Code(k).imm % 4 = 0
      BY <1>2, <2>2, <3>1 DEF Taken, Kept, Supported, Instruction
    <3> QED BY <3>2, WordsOfMultiple
  <2>7. Successor(k)' = next_fetch_branch'
    BY <1>1, <1>3, <1>9 DEF Successor, FetchNext
  <2>8. Successor(k)' = rob[k].instr + Code(k).imm \div 4
    BY <2>1, <2>2, <2>4, <2>5, <2>6, <2>7
  <2> QED BY <1>2, <2>2, <2>8 DEF Follows, Kept
<1> QED BY <1>7, <1>8, <1>9
LEMMA FetchInductive ==
  ASSUME RingInv, FetchAgrees, [Next]_vars PROVE FetchAgrees'
<1>1. rob_count \in Int /\ next_fetch_branch \in Int
  BY SizeAssumption DEF RingInv, TypeOK
<1>2. CASE CommitStore \/ CommitRegister
  BY <1>2, <1>1 DEF FetchAgrees, CommitStore, CommitRegister, CanCommit, ReleaseRob, fetchVars
<1>3. CASE CommitNothing \/ CommitThrow \/ Launch
  BY <1>3 DEF FetchAgrees, CommitNothing, CommitThrow, Launch, robVars, fetchVars
<1>4. CASE Advance \/ AdvanceThrow
  BY <1>4 DEF FetchAgrees, Advance, AdvanceThrow
<1>5. CASE IssueNothing \/ StallArith \/ StallMemory
  BY <1>1, <1>5 DEF FetchAgrees, IssueNothing, StallArith, StallMemory, Fetch
<1>6. CASE IssueArith \/ IssueMemory
  <2>1. stage' = "broadcast" /\ rob_count' = rob_count + 1 /\ rob_count >= 0
    BY <1>6, SizeAssumption DEF IssueArith, IssueMemory, Enter, Fetch, RingInv, TypeOK
  <2> QED BY <1>1, <2>1 DEF FetchAgrees
<1>7. CASE CDB_broadcast
  BY <1>7 DEF FetchAgrees, CDB_broadcast
<1>8. CASE Stopped \/ UNCHANGED vars
  BY <1>8 DEF FetchAgrees, Stopped, vars, robVars, fetchVars
<1> QED BY <1>2, <1>3, <1>4, <1>5, <1>6, <1>7, <1>8 DEF Next, Commit, Issue

(* Where the fetch goes on changes only when an instruction enters and     *)
(* when a branch is taken.                                                 *)
LEMMA FetchStays ==
  ASSUME RingInv, [Next]_vars
  PROVE  \/ IssueArith \/ IssueMemory \/ Advance
         \/ ~Advance /\ rob_tail' = rob_tail /\ FetchNext' = FetchNext
<1>1. next_fetch_branch \in Int
  BY DEF RingInv, TypeOK
<1>2. CASE Commit \/ Launch \/ AdvanceThrow
  <2>1. /\ stage \in {"commit", "launch", "advance"}
        /\ stage' \in {"launch", "advance", "threw"}
    BY <1>2 DEF Commit, CommitNothing, CommitStore, CommitRegister, CommitThrow,
       Launch, AdvanceThrow
  <2>2. rob_tail' = rob_tail
    BY <1>2 DEF Commit, CommitNothing, CommitStore, CommitRegister, CommitThrow,
       Launch, AdvanceThrow, ReleaseRob, robVars
  <2>3. next_fetch_branch' = next_fetch_branch
    BY <1>2 DEF Commit, CommitNothing, CommitStore, CommitRegister, CommitThrow,
       Launch, AdvanceThrow, fetchVars
  <2> QED BY <2>1, <2>2, <2>3 DEF FetchNext, Advance
<1>3. CASE IssueNothing \/ StallArith \/ StallMemory
  <2>1. stage = "issue" /\ stage' = "broadcast" /\ rob_tail' = rob_tail
    BY <1>3 DEF IssueNothing, StallArith, StallMemory, Fetch
  <2>2. next_fetch_idx' = next_fetch_branch + 0
    BY <1>3 DEF IssueNothing, StallArith, StallMemory, Fetch
  <2> QED BY <1>1, <2>1, <2>2 DEF FetchNext, Advance
<1>4. CASE CDB_broadcast
  BY <1>4 DEF CDB_broadcast, robVars, FetchNext, Advance
<1>5. CASE Stopped \/ UNCHANGED vars
  BY <1>5 DEF Stopped, vars, robVars, fetchVars, FetchNext, Advance
<1> QED BY <1>2, <1>3, <1>4, <1>5 DEF Next, Issue

LEMMA FollowInductive ==
  ASSUME RenameInv, ValuesInv, AllSupported, BranchesInTime, [Next]_vars
  PROVE  EntriesFollow'
<1>1. ServeInv /\ RingInv /\ EntriesFollow
  BY DEF RenameInv, LsqInv, ServeInv, ValuesInv
<1>2. ASSUME NEW k \in RobIdx, InFlight(k)' PROVE Follows(k)'
  <2>1. CASE Advance
    <3>1. InFlight(k)
      BY <1>2, <2>1 DEF Advance, InFlight, Age
    <3> QED BY <2>1, <3>1, AdvanceFollows
  <2>2. CASE IssueArith \/ IssueMemory
    <3>1. lsq_tail \in LsqIdx
      BY <1>1 DEF RingInv, TypeOK
    <3>2. PICK q \in LsqIdx \cup {-1} :
            stage = "issue" /\ CanFetch /\ ~RobFull /\ Enter(q)
      BY <2>2, <3>1 DEF IssueArith, IssueMemory
    <3> QED BY <1>1, <1>2, <3>2, EnterFollows
  <2>3. CASE ~Advance /\ rob_tail' = rob_tail /\ FetchNext' = FetchNext
    <3>1. InFlight(k)
      <4>1. ASSUME ~InFlight(k) PROVE FALSE
        <5>1. PICK q \in LsqIdx \cup {-1} : stage = "issue" /\ Enter(q)
          BY <1>1, <1>2, <4>1, Entered
        <5>2. FetchNext = next_fetch_branch /\ FetchNext' = next_fetch_branch + 1
          BY <5>1 DEF FetchNext, Enter, Fetch
        <5> QED BY <1>1, <2>3, <5>2 DEF RingInv, TypeOK
      <4> QED BY <4>1
    <3> QED BY <1>1, <1>2, <2>3, <3>1, StillFollows
  <2> QED BY <1>1, <2>1, <2>2, <2>3, FetchStays
<1> QED BY <1>2 DEF EntriesFollow

LEMMA ValuesInductive ==
  RenameInv /\ NoLostWakeup /\ ValuesInv /\ Ordered /\ [Next]_vars => ValuesInv'
<1> SUFFICES ASSUME RenameInv, NoLostWakeup, ValuesInv, Ordered, [Next]_vars
             PROVE  ValuesInv'
  OBVIOUS
<1>1. RingInv /\ EntriesHaveCode /\ FetchAgrees
  BY DEF RenameInv, LsqInv, ServeInv, ValuesInv
<1>2. EntriesHaveCode'
  BY <1>1, CodeInductive
<1>3. StationsHear' /\ UnitsHear'
  BY StationsInductive, UnitsInductive DEF Ordered
<1>4. ExecutedRight' /\ BusTellsResults'
  BY ExecutedInductive, BusInductive DEF Ordered
<1>5. EntriesFollow' /\ FetchAgrees'
  BY <1>1, FollowInductive, FetchInductive DEF Ordered
<1> QED BY <1>2, <1>3, <1>4, <1>5 DEF ValuesInv

LEMMA InOrderInductive == InOrderInv /\ Ordered /\ [Next]_vars => InOrderInv'
<1>1. Ordered => WellFormed /\ RetryUndisturbed /\ RetryReadsOthers
  BY DEF Ordered
<1> QED BY <1>1, RenameInductive, WakeupInductive, ValuesInductive DEF InOrderInv

LEMMA InOrderStarted == Started /\ LeftOver => InOrderInv
<1> SUFFICES ASSUME Started, LeftOver PROVE ValuesInv
  BY RenameStarted, WakeupStarted DEF InOrderInv
<1>1. \A k \in RobIdx : ~InFlight(k)
  BY ModRob, SizeAssumption DEF Started, InFlight, Age, RobIdx
<1>2. EntriesHaveCode /\ ExecutedRight /\ EntriesFollow
  BY <1>1 DEF EntriesHaveCode, ExecutedRight, EntriesFollow
<1>3. StationsHear /\ UnitsHear
  BY DEF Started, StationsHear, UnitsHear, IdleStation, IdleUnit
<1>4. BusTellsResults /\ FetchAgrees
  BY DEF Started, BusTellsResults, FetchAgrees
<1> QED BY <1>2, <1>3, <1>4 DEF ValuesInv

LEMMA InOrderInit == Init => InOrderInv
BY InOrderStarted, SizeAssumption DEF Init, LeftOver
-----------------------------------------------------------------------------
(* ISA has the vocabulary of Instructions for its own. *)
LEMMA IsaVocabulary ==
  /\ InOrder!NoReg = NoReg
  /\ \A op : /\ InOrder!is_load_op(op) = is_load_op(op)
             /\ InOrder!is_store_op(op) = is_store_op(op)
             /\ InOrder!is_memory_op(op) = is_memory_op(op)
             /\ InOrder!memory_kind(op) = memory_kind(op)
BY DEF InOrder!NoReg, NoReg, InOrder!is_load_op, is_load_op, InOrder!is_store_op,
   is_store_op, InOrder!is_memory_op, is_memory_op, InOrder!memory_kind, memory_kind

(* The head sees the committed registers. *)
LEMMA HeadSees ==
  ASSUME RingInv, NEW h \in RobIdx, h = rob_head, NEW r, NEW v, Sees(h, r, v)
  PROVE  v = regs[r]
<1>1. \A j \in RobIdx : ~Older(j, h)
  BY HeadIsOldest
<1> QED BY <1>1 DEF Sees, Feeds

(* With nothing in flight the next instruction is the one to fetch. *)
FetchesNext == CommittedPC = FetchNext
LEMMA EmptyFetchesNext == FetchAgrees /\ rob_count = 0 => FetchesNext
BY DEF FetchesNext, FetchAgrees, CommittedPC, FetchNext

(* Until the head commits, the program counter of ISA stands at it. *)
LEMMA ProgramCounterStays ==
  ASSUME ServeInv, FetchAgrees, FetchAgrees', [Next]_vars,
         ~CommitStore, ~CommitRegister
  PROVE  CommittedPC' = CommittedPC
<1>1. RingInv
  BY DEF ServeInv
<1>2. Steady
  BY <1>1, Steadily
<1>3. CASE rob_count > 0
  <2>1. PICK h \in RobIdx : h = rob_head /\ InFlight(h)
    BY <1>1, <1>3, HeadInFlight DEF RingInv, TypeOK
  <2>2. rob_head' = h /\ InFlight(h)'
    BY <1>2, <2>1 DEF Steady
  <2>3. rob_count' > 0
    <3>1. Age(h)' \in 0 .. ROB_SIZE-1 /\ Age(h)' < rob_count'
      BY <2>2, AgeOfHead DEF InFlight, Age
    <3>2. rob_count' = rob_count \/ rob_count' = rob_count + 1
      BY DEF Next, Commit, CommitNothing, CommitThrow, Launch, Advance, AdvanceThrow,
         Issue, IssueNothing, IssueArith, StallArith, IssueMemory, StallMemory, Enter,
         CDB_broadcast, Stopped, vars, robVars
    <3> QED BY <1>1, <1>3, <3>2 DEF RingInv, TypeOK
  <2>4. rob'[h].instr = rob[h].instr
    <3>1. Progresses(h)
      BY <1>1, StepProgresses
    <3> QED BY <2>1, <2>2, <3>1 DEF Progresses, KeepsInstruction
  <2> QED BY <1>3, <2>1, <2>2, <2>3, <2>4 DEF CommittedPC, HeadEntry
<1>4. CASE rob_count = 0
  <2>1. CASE IssueArith \/ IssueMemory
    <3>1. lsq_tail \in LsqIdx
      BY <1>1 DEF RingInv, TypeOK
    <3>2. PICK q \in LsqIdx \cup {-1} :
            stage = "issue" /\ CanFetch /\ ~RobFull /\ Enter(q)
      BY <2>1, <3>1 DEF IssueArith, IssueMemory
    <3>3. rob_tail = rob_head /\ rob_head \in RobIdx
      <4>1. /\ rob_head \in 0 .. ROB_SIZE-1 /\ ROB_SIZE \in Nat
            /\ rob_tail = (rob_head + rob_count) % ROB_SIZE
        BY <1>1, SizeAssumption DEF RingInv, TypeOK, RobIsARing, RobIdx
      <4>2. rob_head % ROB_SIZE = rob_head /\ rob_head + rob_count = rob_head
        BY <1>4, <4>1, ModRob
      <4> QED BY <4>1, <4>2 DEF RobIdx
    <3>4. rob'[rob_head].instr = next_fetch_branch
      <4>1. rob'[rob_tail] = NewEntry(q)
        BY <1>1, <3>2, EnterRing
      <4> QED BY <3>3, <4>1 DEF NewEntry
    <3>5. rob_head' = rob_head /\ rob_count' = 1
      BY <1>4, <3>2 DEF Enter, Fetch
    <3> QED BY <1>4, <3>4, <3>5 DEF CommittedPC, HeadEntry
  <2>2. CASE Advance
    <3>1. Redirecting = {}
      <4>1. ASSUME NEW u \in UnitId, fus[u].busy PROVE FALSE
        <5>1. PICK k \in RobIdx : InFlight(k)
          BY <4>1, BusyUnit DEF ServeInv, StationsServeRob, Pending, InFlight
        <5> QED BY <1>1, <1>4, <5>1, AgeOfHead DEF InFlight, Age, RingInv, TypeOK
      <4> QED BY <4>1 DEF Redirecting, Delivered, Completed
    <3>2. next_fetch_branch' = next_fetch_branch /\ rob_count' = rob_count
      BY <2>2, <3>1 DEF Advance, Redirect
    <3> QED BY <1>4, <3>2 DEF CommittedPC
  <2>3. CASE ~IssueArith /\ ~IssueMemory /\ ~Advance
    <3>1. FetchNext' = FetchNext
      BY <1>1, <2>3, FetchStays
    <3>2. rob_count' = 0
      BY <1>4, <2>3
         DEF Next, Commit, CommitNothing, CommitThrow, Launch, AdvanceThrow, Issue,
             IssueNothing, StallArith, StallMemory, CDB_broadcast, Stopped, vars, robVars
    <3>3. FetchesNext'
      <4>1. FetchAgrees' /\ (rob_count = 0)'
        BY <3>2
      <4> QED BY <4>1, EmptyFetchesNext, PTL
    <3> QED BY <1>4, <3>1, <3>3, EmptyFetchesNext DEF FetchesNext
  <2> QED BY <2>1, <2>2, <2>3
<1> QED BY <1>1, <1>3, <1>4 DEF RingInv, TypeOK

(* What is known of the head when it commits: its instruction, the next    *)
(* one, and that what it sees is what ISA reads.                           *)
CommitsAsISA(h, i) ==
  /\ i \in Instruction /\ Supported(i) /\ i = InOrder!Current
  /\ InFlight(h) /\ h = rob_head /\ rob[h].state = "EXECUTED"
  /\ rob[h].op = i.op /\ rob[h].dest = i.dest /\ Code(h) = i
  /\ station_type(i.op) \in RSType
  /\ CommittedPC \in Int /\ InOrder!InsideProgram /\ Right(h)
  /\ \A v \in OperandValue : First(h, v) /\ i.src1 # NoReg => v = regs[i.src1]
  /\ \A v \in OperandValue : Second(h, v) => v = InOrder!Src2
  /\ CommittedPC' = IF Taken(h) THEN CommittedPC + i.imm \div 4 ELSE CommittedPC + 1

LEMMA HeadCommits ==
  ASSUME InOrderInv, Ordered, CommitStore \/ CommitRegister
  PROVE  \E h \in RobIdx, i \in Instruction : CommitsAsISA(h, i)
<1>1. RingInv /\ EntriesHaveCode /\ ExecutedRight /\ EntriesFollow
  BY DEF InOrderInv, RenameInv, LsqInv, ServeInv, ValuesInv
<1>2. /\ stage = "commit" /\ stage' = "launch" /\ rob_count > 0
      /\ rob[rob_head].state = "EXECUTED" /\ ReleaseRob
      /\ UNCHANGED <<instruction_queue, next_fetch_branch>>
  BY DEF CommitStore, CommitRegister, CanCommit, HeadEntry, fetchVars
<1>3. PICK h \in RobIdx : h = rob_head /\ InFlight(h)
  BY <1>1, <1>2, HeadInFlight DEF RingInv, TypeOK
<1>4. PICK i \in Instruction :
        /\ i = Code(h) /\ Supported(i) /\ rob[h].op = i.op /\ rob[h].dest = i.dest
  BY <1>1, <1>3, CodeSupported DEF Ordered
<1>5. /\ station_type(i.op) \in RSType /\ InProgram(rob[h].instr)
      /\ CommittedPC = rob[h].instr
  BY <1>1, <1>2, <1>3, <1>4 DEF EntriesHaveCode, CommittedPC, HeadEntry
<1>6. CommittedPC \in Int /\ InOrder!InsideProgram /\ i = InOrder!Current
  BY <1>4, <1>5 DEF InProgram, InOrder!InsideProgram, InOrder!Current, Code
<1>7. ASSUME NEW v \in OperandValue, First(h, v), i.src1 # NoReg
      PROVE  v = regs[i.src1]
  <2>1. i.src1 \in Reg /\ Sees(h, i.src1, v)
    BY <1>4, <1>7 DEF Instruction, First
  <2> QED BY <1>1, <1>3, <2>1, HeadSees
<1>8. ASSUME NEW v \in OperandValue, Second(h, v) PROVE v = InOrder!Src2
  <2>1. CASE i.src2 = NoReg
    BY <1>4, <1>6, <1>8, <2>1, IsaVocabulary
       DEF Second, Literal, InOrder!Src2, InOrder!Immediate
  <2>2. CASE i.src2 # NoReg
    <3>1. i.src2 \in Reg /\ Sees(h, i.src2, v)
      BY <1>4, <1>8, <2>2 DEF Instruction, Second
    <3>2. v = regs[i.src2]
      BY <1>1, <1>3, <3>1, HeadSees
    <3> QED BY <1>6, <2>2, <3>2, IsaVocabulary DEF InOrder!Src2
  <2> QED BY <2>1, <2>2
<1>9. CommittedPC' = Successor(h)
  <2>1. Age(h) = 0 /\ rob_count \in Int /\ rob_count > 0
    BY <1>1, <1>2, <1>3, AgeOfHead DEF Age, RingInv, TypeOK
  <2>2. PICK n \in RobIdx : n = NextRob(h)
    BY <1>1, <1>3, Neighbour
  <2>3. rob_head' = n /\ rob_count' = rob_count - 1
    BY <1>2, <1>3, <2>2 DEF ReleaseRob
  <2>4. CASE n = rob_tail
    <3>1. rob_count' = 0
      BY <1>1, <1>3, <2>1, <2>2, <2>3, <2>4, Neighbour
    <3> QED BY <1>2, <2>2, <2>4, <3>1 DEF CommittedPC, Successor, FetchNext
  <2>5. CASE n # rob_tail
    <3>1. n # rob_head /\ rob_count' > 0
      BY <1>1, <1>3, <2>1, <2>2, <2>3, <2>5, Neighbour
    <3>2. rob'[n].instr = rob[n].instr
      BY <1>1, <1>2, <3>1, ReleaseRobKeepsRing
    <3> QED BY <2>2, <2>3, <2>5, <3>1, <3>2 DEF CommittedPC, HeadEntry, Successor
  <2> QED BY <2>4, <2>5
<1>10. CommittedPC' = IF Taken(h) THEN CommittedPC + i.imm \div 4 ELSE CommittedPC + 1
  BY <1>1, <1>3, <1>4, <1>5, <1>9 DEF EntriesFollow, Follows
<1>11. Right(h)
  BY <1>1, <1>2, <1>3 DEF ExecutedRight
<1> QED BY <1>2, <1>3, <1>4, <1>5, <1>6, <1>7, <1>8, <1>10, <1>11 DEF CommitsAsISA

(* An address is that of the in-order machine. *)
LEMMA AddressAgrees ==
  ASSUME NEW h \in RobIdx, NEW i \in Instruction, CommitsAsISA(h, i), is_memory_op(i.op)
  PROVE  LocationOf(h) = InOrder!Location
<1>1. Addressed(h) /\ i.src1 # NoReg /\ i = InOrder!Current
  BY DEF CommitsAsISA, Right, Supported, is_memory_op, is_load_op, is_store_op
<1>2. PICK v \in OperandValue :
        First(h, v) /\ lsq[rob[h].lsq_idx].address = (v[2] + i.imm) % WORD
  BY <1>1 DEF Addressed, CommitsAsISA
<1>3. v = InOrder!Src1
  BY <1>1, <1>2 DEF CommitsAsISA, InOrder!Src1
<1> QED BY <1>1, <1>2, <1>3, IsaVocabulary DEF LocationOf, CommitsAsISA, InOrder!Location

LEMMA StoreInOrder ==
  ASSUME InOrderInv, Ordered, CommitStore PROVE InOrder!Step
<1>1. PICK h \in RobIdx, i \in Instruction : CommitsAsISA(h, i)
  BY HeadCommits
<1>2. is_store_op(i.op) /\ is_memory_op(i.op) /\ i.op # "BNE"
  BY <1>1 DEF CommitsAsISA, CommitStore, HeadEntry, is_memory_op, is_store_op
<1>3. lsq[rob[h].lsq_idx].data = InOrder!Src2
  BY <1>1, <1>2 DEF CommitsAsISA, Right, Stored
<1>4. LocationOf(h) = InOrder!Location
  BY <1>1, <1>2, AddressAgrees
<1>5. memory' = [a \in DOMAIN memory \cup {InOrder!Location} |->
                   IF a = InOrder!Location THEN InOrder!Src2 ELSE memory[a]]
  BY <1>1, <1>3, <1>4 DEF CommitStore, HeadEntry, CommitsAsISA, LocationOf
<1>6. InOrder!InsideProgram /\ i = InOrder!Current /\ CommittedPC' = CommittedPC + 1
  BY <1>1, <1>2 DEF CommitsAsISA, Taken
<1>7. UNCHANGED <<instruction_queue, regs>>
  BY DEF CommitStore, fetchVars
<1> QED BY <1>2, <1>5, <1>6, <1>7, IsaVocabulary DEF InOrder!Step, InOrder!ExecuteStore

(* Any other instruction writes its result to its destination. *)
LEMMA RegisterWritten ==
  ASSUME InOrderInv, CommitRegister, NEW h \in RobIdx, NEW i \in Instruction,
         CommitsAsISA(h, i)
  PROVE  InOrder!Write(i.dest, rob[h].result) /\ UNCHANGED <<instruction_queue, memory>>
<1>1. HeadEntry = rob[h] /\ rob[h].dest = i.dest /\ i.dest # <<"int", 0>>
  BY DEF CommitsAsISA, HeadEntry, Supported
<1>2. rob[h].result # NoValue
  BY <1>1 DEF CommitsAsISA, CommitRegister, InOrderInv, RenameInv, ResultsArrive
<1> QED BY <1>1, <1>2, IsaVocabulary DEF CommitRegister, InOrder!Write, fetchVars

LEMMA RegisterInOrder ==
  ASSUME InOrderInv, Ordered, CommitRegister PROVE InOrder!Step
<1>1. PICK h \in RobIdx, i \in Instruction : CommitsAsISA(h, i)
  BY HeadCommits
<1>2. InOrder!Write(i.dest, rob[h].result) /\ UNCHANGED <<instruction_queue, memory>>
  BY <1>1, RegisterWritten
<1>3. /\ InOrder!InsideProgram /\ i = InOrder!Current /\ Supported(i)
      /\ i.op \notin {"JALR", "AUIPC"} /\ i.op \notin {"EBREAK", "UNKNOWN"}
  <2>1. station_type(i.op) \in RSType /\ Supported(i)
    BY <1>1 DEF CommitsAsISA
  <2>2. i.op \notin {"EBREAK", "UNKNOWN"}
    BY <2>1 DEF station_type, RSType, is_load_op, is_store_op, is_alu_op, is_muldiv_op,
       is_fp_add_op, is_fp_mul_op, is_fp_div_op, alu_ops, muldiv_ops
  <2> QED BY <1>1, <2>1, <2>2 DEF CommitsAsISA, Supported
<1>4. ~is_store_op(i.op)
  BY <1>1 DEF CommitsAsISA, CommitRegister, HeadEntry
<1>5. CASE is_load_op(i.op)
  <2>1. rob[h].result = MemoryAt(InOrder!Location)
    BY <1>1, <1>5, AddressAgrees DEF CommitsAsISA, Right, Loaded, is_memory_op
  <2>2. CommittedPC' = CommittedPC + 1
    BY <1>1, <1>5 DEF CommitsAsISA, Taken, is_load_op
  <2> QED BY <1>2, <1>3, <1>5, <2>1, <2>2, IsaVocabulary
          DEF InOrder!Step, InOrder!ExecuteLoad, MemoryAt
<1>6. CASE ~is_memory_op(i.op)
  <2>1. PICK v1, v2 \in OperandValue :
          /\ i.src1 # NoReg => v1 = InOrder!Src1
          /\ v2 = InOrder!Src2
          /\ rob[h].result = compute_result(i.op, v1, v2)
          /\ i.op \in {"BNE", "LUI"} => v2[1] = "int"
          /\ i.op = "BNE" => v1[1] = "int"
    BY <1>1, <1>6 DEF CommitsAsISA, Right, Computed, InOrder!Src1
  <2>2. i.op # "LUI" => i.src1 # NoReg
    BY <1>3 DEF Supported
  <2>3. CASE i.op \notin {"BNE", "LUI"}
    <3>1. rob[h].result = compute_result(i.op, InOrder!Src1, InOrder!Src2)
      BY <2>1, <2>2, <2>3
    <3>2. CommittedPC' = CommittedPC + 1
      BY <1>1, <2>3 DEF CommitsAsISA, Taken
    <3> QED BY <1>2, <1>3, <1>6, <2>3, <3>1, <3>2, IsaVocabulary
            DEF InOrder!Step, InOrder!ExecuteRegister
  <2>4. CASE i.op = "LUI"
    <3>1. rob[h].result = InOrder!Immediate
      BY <1>3, <2>1, <2>4, ControlAssumption, IsaVocabulary DEF Supported, InOrder!Src2
    <3>2. CommittedPC' = CommittedPC + 1
      BY <1>1, <2>4 DEF CommitsAsISA, Taken
    <3> QED BY <1>2, <1>3, <2>4, <3>1, <3>2 DEF InOrder!Step, InOrder!ExecuteUpper
  <2>5. CASE i.op = "BNE"
    <3>1. Taken(h) <=> InOrder!Src1 # InOrder!Src2
      BY <1>1, <2>1, <2>2, <2>5, ControlAssumption DEF CommitsAsISA, Taken
    <3>2. UNCHANGED regs
      BY <1>2, <1>3, <2>5, IsaVocabulary DEF Supported, InOrder!Write
    <3>3. CommittedPC' = IF InOrder!Src1 # InOrder!Src2
                         THEN CommittedPC + i.imm \div 4 ELSE CommittedPC + 1
      BY <1>1, <3>1 DEF CommitsAsISA
    <3> QED BY <1>2, <1>3, <2>5, <3>2, <3>3 DEF InOrder!Step, InOrder!ExecuteBranch
  <2> QED BY <2>3, <2>4, <2>5
<1> QED BY <1>4, <1>5, <1>6 DEF is_memory_op

(* One step of the simulator is one step of ISA, or none. *)
LEMMA StepInOrder ==
  InOrderInv /\ InOrderInv' /\ Ordered /\ [Next]_vars
    => [InOrder!Step]_(InOrder!isaVars)
<1> SUFFICES ASSUME InOrderInv, InOrderInv', Ordered, [Next]_vars,
                    ~CommitStore, ~CommitRegister
             PROVE  UNCHANGED InOrder!isaVars
  BY StoreInOrder, RegisterInOrder
<1>1. CommittedPC' = CommittedPC
  <2>1. ServeInv /\ FetchAgrees /\ FetchAgrees'
    BY DEF InOrderInv, RenameInv, LsqInv, ValuesInv
  <2> QED BY <2>1, ProgramCounterStays
<1>2. instruction_queue' = instruction_queue
  BY ProgramStays
<1>3. UNCHANGED <<regs, memory>>
  BY DEF Next, Commit, CommitNothing, CommitThrow, Launch, Advance, AdvanceThrow,
     Issue, IssueNothing, IssueArith, StallArith, IssueMemory, StallMemory, Enter,
     Fetch, CDB_broadcast, Stopped, vars
<1> QED BY <1>1, <1>2, <1>3 DEF InOrder!isaVars

LEMMA StartsInOrder == Init => InOrder!ISAInit
BY DEF Init, Started, InOrder!ISAInit, CommittedPC

(* The registers and the memory change as the in-order machine changes     *)
(* them, one instruction at a time along its path, whatever executes       *)
(* behind the head, in every run that meets the premises: no instruction   *)
(* has an effect early, twice or out of order, or computes from a value    *)
(* that is not the one of program order.                                   *)
THEOREM CommitsInOrder == Spec /\ []Ordered => ExecutesInOrder
BY InOrderInit, InOrderInductive, StepInOrder, StartsInOrder, PTL
   DEF Spec, ExecutesInOrder
-----------------------------------------------------------------------------
(* That the simulator never waits for itself.                              *)
LEMMA HeadReady ==
  ASSUME InOrderInv, Ordered, rob_count > 0, HeadEntry.state = "ISSUED"
  PROVE  \E s \in StationId : rs[s].ROB_idx = rob_head /\ s[2] \in Ready(s[1])
<1>1. RingInv /\ ServeInv /\ rob_head \in RobIdx /\ InFlight(rob_head)
  BY HeadInFlight DEF InOrderInv, RenameInv, LsqInv, ServeInv, RingInv, TypeOK
<1>2. PICK s \in StationId : rs[s].busy /\ rs[s].ROB_idx = rob_head
  BY <1>1 DEF ServeInv, StationsServeRob, Pending, HeadEntry
<1>3. ~Awaits(s, rs[s].Qj, operand_kind_1(rs[s].op))
  BY <1>1, <1>2, HeadIsOldest DEF Awaits, InFlight
<1>4. \A kind \in Kind : ~Awaits(s, rs[s].Qk, kind)
  BY <1>1, <1>2, HeadIsOldest DEF Awaits, InFlight
<1>5. rs[s].Qj = NoTag /\ rs[s].Qk = NoTag
  BY <1>2, <1>3, <1>4 DEF InOrderInv, NoLostWakeup, Kind
<1>6. s[1] = station_type(rob[rob_head].op)
  BY <1>1, <1>2 DEF ServeInv, StationsServeRob
<1>7. s[1] # "LOAD" => rs[s].Vk # NoValue
  <2>1. HearsSecond(s, rob_head)
    BY <1>1, <1>2 DEF InOrderInv, ValuesInv, StationsHear
  <2>2. SUFFICES ASSUME s[1] # "LOAD" PROVE rs[s].Vk \in OperandValue
    BY ValueAssumption
  <2>3. ~is_load_op(rob[rob_head].op)
    <3>1. \A op : is_load_op(op) => station_type(op) = "LOAD"
      BY DEF station_type, is_load_op, is_store_op, is_alu_op, is_muldiv_op,
             is_fp_add_op, is_fp_mul_op, is_fp_div_op, alu_ops, muldiv_ops
    <3> QED BY <1>6, <2>2, <3>1
  <2>4. rob[rob_head].op = Code(rob_head).op /\ Supported(Code(rob_head))
    BY <1>1, CodeSupported DEF InOrderInv, ValuesInv, Ordered
  <2>5. CASE Code(rob_head).src2 = NoReg
    <3>1. Literal(rob_head) \in OperandValue
      BY <1>1, CodeSupported, SizeAssumption
         DEF InOrderInv, ValuesInv, Ordered, Literal, Instruction, OperandValue
    <3>2. rs[s].Vk = Literal(rob_head)
      BY <2>1, <2>3, <2>4, <2>5 DEF HearsSecond, Supported, is_memory_op
    <3> QED BY <3>1, <3>2
  <2>6. CASE Code(rob_head).src2 \in Reg
    BY <1>5, <2>1, <2>6 DEF HearsSecond, Hears
  <2>7. Code(rob_head).src2 \in Reg \cup {NoReg}
    BY <1>1, CodeSupported DEF InOrderInv, ValuesInv, Ordered, Instruction
  <2> QED BY <2>5, <2>6, <2>7
<1>8. s = <<s[1], s[2]>> /\ s[2] \in 0 .. NUM_RS[s[1]]-1
  BY StationIdParts
<1>9. s[2] \in Ready(s[1])
  BY <1>2, <1>5, <1>7, <1>8 DEF Ready, HeadEntry
<1> QED BY <1>2, <1>9

(* A head that has executed is not kept: a store has its address and data. *)
LEMMA HeadCanCommit ==
  ASSUME InOrderInv, Ordered, rob_count > 0, HeadEntry.state = "EXECUTED"
  PROVE  CanCommit
<1>1. /\ LsqReadyWhenExecuted /\ rob_head \in RobIdx /\ InFlight(rob_head)
  BY HeadInFlight DEF InOrderInv, RenameInv, LsqInv, ServeInv, RingInv, TypeOK
<1>2. ASSUME is_store_op(HeadEntry.op)
      PROVE  lsq[HeadEntry.lsq_idx].addr_ready /\ lsq[HeadEntry.lsq_idx].data # NoValue
  BY <1>1, <1>2 DEF LsqReadyWhenExecuted, HeadEntry, is_memory_op
<1> QED BY <1>2 DEF CanCommit

(* In an empty ROB nobody holds a station or an LSQ slot. *)
LEMMA EmptyHasRoom ==
  ASSUME InOrderInv, rob_count = 0, Type \in RSType
  PROVE  ~RobFull /\ ~LsqFull /\ ~NoStation
<1>1. ServeInv /\ LsqMatchesRob
  BY SlotsMatch DEF InOrderInv, RenameInv, LsqInv
<1>2. \A k : ~InFlight(k)
  BY <1>1, AgeOfHead DEF InFlight, Age, ServeInv, RingInv, TypeOK
<1>3. {k \in RobIdx : InFlight(k) /\ is_memory_op(rob[k].op)} = {}
  BY <1>2
<1>4. lsq_count = 0
  BY <1>1, <1>3, FS_EmptySet DEF LsqMatchesRob
<1>5. <<Type, 0>> \in StationId
  BY SizeAssumption DEF StationId
<1>6. ~rs[<<Type, 0>>].busy
  BY <1>1, <1>2, <1>5 DEF ServeInv, StationsServeRob, Pending
<1>7. <<Type, 0>> \in Free
  BY <1>5, <1>6 DEF Free
<1> QED BY <1>4, <1>7, SizeAssumption DEF RobFull, LsqFull, NoStation

LEMMA LeastIndex ==
  ASSUME NEW S, S \subseteq Nat, S # {}
  PROVE  \E n \in S : \A m \in S : n <= m
<1> DEFINE R == OpToRel(<, Nat)
<1>1. IsWellFoundedOn(R, Nat)
  BY NatLessThanWellFounded, Zenon
<1>2. PICK n \in S : \A m \in S : ~(<<m, n>> \in R)
  <2> HIDE DEF R
  <2> QED BY <1>1, WFMin
<1>3. \A m \in S : m \in Nat /\ n \in Nat /\ ~(m < n)
  BY <1>2, Zenon DEF OpToRel
<1> QED BY <1>3

(* If every unit is idle and a station is ready, a unit is given work. *)
LEMMA IdleUnitsLaunch ==
  ASSUME ServeInv, Launch, \A u \in UnitId : ~fus[u].busy,
         NEW t \in RSType, Ready(t) # {}
  PROVE  \E u \in UnitId : fus'[u].busy
<1>1. NUM_RS[t] \in Nat \ {0} /\ NUM_FU[t] \in Nat \ {0}
  BY SizeAssumption
<1>2. Ready(t) \subseteq Nat
  BY <1>1 DEF Ready
<1>3. PICK i \in Ready(t) : \A y \in Ready(t) : i <= y
  BY <1>2, LeastIndex
<1>4. {y \in Ready(t) : y < i} = {}
  BY <1>2, <1>3
<1>5. <<t, 0>> \in UnitId
  BY <1>1 DEF UnitId
<1>6. 0 \in Idle(t) /\ Idle(t) \subseteq Nat
  BY <1>1, <1>5 DEF Idle
<1>7. {y \in Idle(t) : y < 0} = {}
  BY <1>6
<1>8. Launches(t, i, 0)
  BY <1>3, <1>4, <1>6, <1>7 DEF Launches, Rank
<1>9. PICK u \in UnitId : u = <<t, 0>> /\ u[1] = t /\ u[2] = 0
  BY <1>5
<1>10. Launches(u[1], i, u[2])
  BY <1>8, <1>9
<1>11. fus'[u].busy
  BY <1>10, UnitAfterLaunch
<1> QED BY <1>11

(* After Launch the head has executed, or some unit has work. *)
HeadWorks ==
  stage = "advance" /\ rob_count > 0 =>
    HeadEntry.state = "EXECUTED" \/ \E u \in UnitId : fus[u].busy

LEMMA LaunchWorks == InOrderInv /\ Ordered /\ Launch => HeadWorks'
<1> SUFFICES ASSUME InOrderInv, Ordered, Launch, rob_count > 0
             PROVE  HeadEntry'.state = "EXECUTED" \/ \E u \in UnitId : fus'[u].busy
  BY DEF HeadWorks, Launch
<1>1. ServeInv /\ rob_head \in RobIdx /\ InFlight(rob_head)
      /\ HeadEntry \in EntryRecord /\ HeadEntry.state # "COMMITTED"
  BY HeadInFlight
     DEF InOrderInv, RenameInv, LsqInv, ServeInv, RingInv, TypeOK, RobIsARing, HeadEntry
<1>2. ASSUME NEW u \in UnitId, fus[u].busy PROVE fus'[u].busy
  BY <1>1, <1>2, UnitAfterLaunch
<1>3. CASE HeadEntry.state = "EXECUTED"
  <2>1. rob_head \notin LaunchedEntries
    BY <1>1, <1>3, LaunchedWereIssued DEF HeadEntry
  <2> QED BY <1>1, <1>3, <2>1 DEF Launch, HeadEntry
<1>4. CASE HeadEntry.state = "EXECUTING"
  BY <1>1, <1>2, <1>4 DEF ServeInv, UnitsServeStations, HeadEntry
<1>5. CASE HeadEntry.state = "ISSUED"
  <2>1. PICK s \in StationId : s[2] \in Ready(s[1])
    BY <1>5, HeadReady
  <2>2. s[1] \in RSType /\ Ready(s[1]) # {}
    BY <2>1, StationIdParts
  <2> QED BY <1>1, <1>2, <2>2, IdleUnitsLaunch
<1> QED BY <1>1, <1>3, <1>4, <1>5 DEF EntryRecord

LEMMA WorksInductive ==
  InOrderInv /\ Ordered /\ HeadWorks /\ [Next]_vars => HeadWorks'
<1>1. UNCHANGED vars /\ HeadWorks => HeadWorks'
  BY DEF HeadWorks, HeadEntry, vars, robVars
<1>2. Next => Launch \/ UNCHANGED vars \/ stage' # "advance"
  BY DEF Next, Commit, CommitNothing, CommitStore, CommitRegister, CommitThrow,
     Advance, AdvanceThrow, Issue, IssueNothing, IssueArith, StallArith,
     IssueMemory, StallMemory, Enter, Fetch, CDB_broadcast, Stopped
<1>3. stage' # "advance" => HeadWorks'
  BY DEF HeadWorks
<1> QED BY <1>1, <1>2, <1>3, LaunchWorks

LEMMA WorksStarted == Started => HeadWorks
BY DEF Started, HeadWorks

LEMMA WorksIsNeverStuck == InOrderInv /\ Ordered /\ HeadWorks => NeverStuck
BY HeadReady, HeadCanCommit, EmptyHasRoom DEF HeadWorks, NeverStuck

(* What makes simulate() return, short of the counting down itself: in     *)
(* every turn of its loop the oldest instruction is committed, or a unit   *)
(* works, or the next instruction is issued.  No two parts of the machine  *)
(* ever wait for each other.                                               *)
THEOREM NeverStuckCorrect == Spec /\ []Ordered => []NeverStuck
<1>1. Init => HeadWorks
  BY WorksStarted DEF Init
<1> QED BY InOrderInit, InOrderInductive, WorksInductive, WorksIsNeverStuck, <1>1, PTL
        DEF Spec
-----------------------------------------------------------------------------
(* A program that meets the premises on retries however it runs: it has no *)
(* jump, and an instruction that reads the register it writes always finds *)
(* a station, because fewer than there are of its class can be in flight;  *)
(* or it accesses memory, for then a failed attempt renames nothing.       *)
ClassOf(n) == station_type(instruction_queue[n].op)
Rivals(n) == {m \in 1 .. n-1 : n - m < ROB_SIZE /\ ClassOf(m) = ClassOf(n)}
RenamesOnlyIssued(n) ==
  \/ is_memory_op(instruction_queue[n].op)
  \/ ClassOf(n) \in RSType /\ Cardinality(Rivals(n)) < NUM_RS[ClassOf(n)]
StraightLine ==
  \A n \in 1 .. Len(instruction_queue) :
    LET i == instruction_queue[n] IN
      /\ i.op \notin {"BNE", "JALR"}
      /\ RenamesOnlyIssued(n) \/ \A r \in Reg \cap {i.src1, i.src2} : i.dest # r

(* Then the entries in flight are those just before the next fetch, and    *)
(* only an instruction that may have to wait for a station is retried.     *)
NoJumpInFlight ==
  \A k \in RobIdx : InFlight(k) => rob[k].op \notin {"BNE", "JALR"}
InARow ==
  \A k \in RobIdx : InFlight(k) => rob[k].instr = FetchNext - rob_count + Age(k)
RetriesWait ==
  \A r \in Reg : Retried(r) => ~RenamesOnlyIssued(next_fetch_branch + 1)
StraightInv ==
  /\ WellFormed /\ StraightLine /\ NoJumpInFlight
  /\ EntriesHaveCode /\ InARow /\ RetriesWait

LEMMA FetchedStraight ==
  ASSUME StraightLine, CanFetch, RingInv
  PROVE  /\ Instr.op \notin {"BNE", "JALR"}
         /\ \/ RenamesOnlyIssued(next_fetch_branch + 1)
            \/ \A r \in Reg \cap {Instr.src1, Instr.src2} : Instr.dest # r
<1>1. next_fetch_branch + 1 \in 1 .. Len(instruction_queue)
  BY DEF CanFetch, InProgram, RingInv, TypeOK
<1> QED BY <1>1 DEF StraightLine, Instr

LEMMA StraightNeverRedirects ==
  ASSUME ServeInv, NoJumpInFlight PROVE Redirecting = {}
<1>1. ASSUME NEW u \in UnitId, fus[u].busy
      PROVE  rs[StationOf(u)].op \notin {"BNE", "JALR"}
  <2>1. PICK s \in StationId : s = StationOf(u) /\ rs[s].busy
    BY <1>1, BusyUnit DEF ServeInv
  <2>2. PICK k \in RobIdx : InFlight(k) /\ rs[s].op = rob[k].op
    BY <2>1 DEF ServeInv, StationsServeRob, Pending, InFlight
  <2> QED BY <2>1, <2>2 DEF NoJumpInFlight
<1> QED BY <1>1 DEF Redirecting, Delivered, Completed

(* Without a redirect the fetch only moves forward, one by one. *)
LEMMA FetchKept ==
  ASSUME RingInv, Redirecting = {}, [Next]_vars
  PROVE  IssueArith \/ IssueMemory \/ FetchNext' = FetchNext
<1>1. CASE Advance
  BY <1>1 DEF Advance, Redirect, FetchNext
<1> QED BY <1>1, FetchStays

LEMMA InARowInductive ==
  ASSUME ServeInv, Redirecting = {}, InARow, [Next]_vars PROVE InARow'
<1>1. /\ RingInv /\ rob_head \in RobIdx /\ rob_count \in Int
      /\ FetchNext \in Int
  BY DEF ServeInv, RingInv, TypeOK, FetchNext
<1>2. ASSUME NEW k \in RobIdx PROVE Age(k) \in Int
  BY <1>1, AgeOfHead DEF Age
<1>3. ASSUME NEW k \in RobIdx, InFlight(k), InFlight(k)'
      PROVE  rob'[k].instr = rob[k].instr /\ rob[k].instr \in Int
  <2>1. Progresses(k)
    BY <1>1, StepProgresses
  <2> QED BY <1>1, <1>3, <2>1 DEF Progresses, KeepsInstruction, RingInv, TypeOK, EntryRecord
<1>4. ASSUME NEW k \in RobIdx, InFlight(k)'
      PROVE  rob'[k].instr = FetchNext' - rob_count' + Age(k)'
  <2>1. CASE CommitStore \/ CommitRegister
    <3>1. rob_count > 0 /\ ReleaseRob
      BY <2>1 DEF CommitStore, CommitRegister, CanCommit
    <3>2. InFlight(k) /\ k # rob_head
      BY <1>1, <1>4, <3>1, ReleaseRobKeepsRing
    <3>3. rob_count' = rob_count - 1 /\ rob_head' = NextRob(rob_head)
      BY <3>1 DEF ReleaseRob
    <3>4. Age(k)' = Age(k) - 1
      BY <1>1, <3>2, <3>3, AgeOfHead DEF Age
    <3>5. FetchNext' = FetchNext
      BY <2>1 DEF CommitStore, CommitRegister, FetchNext, fetchVars
    <3>6. rob[k].instr = FetchNext - rob_count + Age(k)
      BY <3>2 DEF InARow
    <3> QED BY <1>1, <1>2, <1>3, <1>4, <3>2, <3>3, <3>4, <3>5, <3>6
  <2>2. CASE IssueArith \/ IssueMemory
    <3>1. lsq_tail \in LsqIdx
      BY <1>1 DEF RingInv, TypeOK
    <3>2. PICK q \in LsqIdx \cup {-1} :
            stage = "issue" /\ CanFetch /\ ~RobFull /\ Enter(q)
      BY <2>2, <3>1 DEF IssueArith, IssueMemory
    <3>3. /\ rob_head' = rob_head /\ rob_count' = rob_count + 1
          /\ FetchNext = next_fetch_branch /\ FetchNext' = FetchNext + 1
      BY <3>2 DEF Enter, Fetch, FetchNext
    <3>4. Age(k)' = Age(k)
      BY <3>3 DEF Age
    <3>5. CASE k = rob_tail
      <4>1. rob'[k].instr = FetchNext
        <5>1. rob'[rob_tail] = NewEntry(q)
          BY <1>1, <3>2, EnterRing
        <5> QED BY <3>3, <3>5, <5>1 DEF NewEntry
      <4>2. Age(k) = rob_count
        <5>1. /\ rob_count \in 0 .. ROB_SIZE-1
              /\ rob_tail = (rob_head + rob_count) % ROB_SIZE
          BY <1>1, <3>2, TailIsFree DEF RingInv, RobIsARing
        <5> QED BY <1>1, <3>5, <5>1, AgeOfTail DEF Age
      <4> QED BY <1>1, <3>3, <3>4, <4>1, <4>2
    <3>6. CASE k # rob_tail
      <4>1. InFlight(k)
        BY <1>1, <1>4, <3>2, <3>6, EnterRing
      <4>2. rob[k].instr = FetchNext - rob_count + Age(k)
        BY <4>1 DEF InARow
      <4> QED BY <1>1, <1>2, <1>3, <1>4, <3>3, <3>4, <4>1, <4>2
    <3> QED BY <3>5, <3>6
  <2>3. CASE UNCHANGED <<rob_head, rob_count>> /\ ~IssueArith /\ ~IssueMemory
    <3>1. InFlight(k) /\ Age(k)' = Age(k)
      BY <1>4, <2>3 DEF InFlight, Age
    <3> QED BY <1>1, <1>3, <1>4, <2>3, <3>1, FetchKept DEF InARow
  <2> QED BY <2>1, <2>2, <2>3
        DEF Next, Commit, CommitNothing, CommitThrow, Launch, Advance, AdvanceThrow,
            Issue, IssueNothing, StallArith, StallMemory, Fetch, CDB_broadcast,
            Stopped, vars, robVars
<1> QED BY <1>4 DEF InARow

LEMMA AgesDiffer ==
  ASSUME rob_head \in RobIdx, NEW j \in RobIdx, NEW k \in RobIdx, Age(j) = Age(k)
  PROVE  j = k
<1>1. ASSUME NEW i \in RobIdx
      PROVE  Age(i) = IF i < rob_head THEN i - rob_head + ROB_SIZE ELSE i - rob_head
  <2>1. ROB_SIZE \in Nat \ {0} /\ i \in 0 .. ROB_SIZE-1 /\ rob_head \in 0 .. ROB_SIZE-1
    BY SizeAssumption DEF RobIdx
  <2> QED BY <2>1, ModRob DEF Age
<1>2. /\ ROB_SIZE \in Int /\ rob_head \in 0 .. ROB_SIZE-1
      /\ j \in 0 .. ROB_SIZE-1 /\ k \in 0 .. ROB_SIZE-1
  BY SizeAssumption DEF RobIdx
<1> QED BY <1>1, <1>2

(* If all stations of its class are taken, each by an instruction of its   *)
(* own among those just before, the next instruction has as many rivals.   *)
LEMMA StationsHaveRivals ==
  ASSUME ServeInv, EntriesHaveCode, InARow, stage = "issue", CanFetch, ~RobFull,
         NoStation, Type \in RSType
  PROVE  ~(Cardinality(Rivals(next_fetch_branch + 1)) < NUM_RS[Type])
<1> DEFINE n == next_fetch_branch + 1
           At(i) == rs[<<Type, i>>].ROB_idx
           f == [i \in 0 .. NUM_RS[Type]-1 |-> rob[At(i)].instr + 1]
<1>1. /\ RingInv /\ NUM_RS[Type] \in Nat \ {0} /\ rob_count \in Int
      /\ rob_count < ROB_SIZE /\ ROB_SIZE \in Int /\ rob_head \in RobIdx
      /\ next_fetch_branch \in Int /\ FetchNext = next_fetch_branch
  BY SizeAssumption DEF ServeInv, RingInv, TypeOK, RobFull, FetchNext
<1>2. ASSUME NEW i \in 0 .. NUM_RS[Type]-1
      PROVE  /\ <<Type, i>> \in StationId /\ rs[<<Type, i>>].busy
             /\ At(i) \in RobIdx /\ InFlight(At(i))
             /\ station_type(rob[At(i)].op) = Type
  <2>0. <<Type, i>> \in StationId
    BY DEF StationId
  <2>1. PICK s \in StationId : s = <<Type, i>> /\ s[1] = Type
    BY <2>0
  <2>2. rs[s].busy
    BY <2>1 DEF NoStation, Free
  <2>3. Pending(rs[s].ROB_idx) /\ s[1] = station_type(rob[rs[s].ROB_idx].op)
    BY <2>2 DEF ServeInv, StationsServeRob
  <2> QED BY <2>1, <2>2, <2>3 DEF Pending, InFlight
<1>3. ASSUME NEW k \in RobIdx, InFlight(k)
      PROVE  /\ Age(k) \in 0 .. rob_count-1
             /\ rob[k].instr = next_fetch_branch - rob_count + Age(k)
             /\ rob[k].instr \in 0 .. Len(instruction_queue)-1
             /\ station_type(rob[k].op) = ClassOf(rob[k].instr + 1)
  <2>1. Age(k) \in 0 .. rob_count-1
    BY <1>1, <1>3, AgeOfHead DEF InFlight, Age
  <2> QED BY <1>1, <1>3, <2>1 DEF InARow, EntriesHaveCode, Code, InProgram, ClassOf
<1>4. ClassOf(n) = Type
  BY DEF ClassOf, Type, Instr
<1>5. ASSUME NEW k \in RobIdx, InFlight(k), station_type(rob[k].op) = Type
      PROVE  rob[k].instr + 1 \in Rivals(n)
  <2>1. PICK a \in 0 .. rob_count-1 : rob[k].instr = next_fetch_branch - rob_count + a
    BY <1>3, <1>5
  <2>2. /\ rob[k].instr + 1 \in 1 .. n-1 /\ n - (rob[k].instr + 1) < ROB_SIZE
    BY <1>1, <1>3, <1>5, <2>1
  <2> QED BY <1>3, <1>4, <1>5, <2>2 DEF Rivals
<1>6. ASSUME NEW j \in RobIdx, NEW k \in RobIdx, InFlight(j), InFlight(k),
             rob[j].instr + 1 = rob[k].instr + 1
      PROVE  j = k
  <2>1. Age(j) = Age(k)
    <3>1. PICK a \in Int : a = Age(j) /\ rob[j].instr = next_fetch_branch - rob_count + a
      BY <1>3, <1>6
    <3>2. PICK b \in Int : b = Age(k) /\ rob[k].instr = next_fetch_branch - rob_count + b
      BY <1>3, <1>6
    <3> QED BY <1>1, <1>6, <3>1, <3>2
  <2> QED BY <1>1, <2>1, AgesDiffer
<1>7. f \in Injection(0 .. NUM_RS[Type]-1, Rivals(n))
  <2>1. f \in [0 .. NUM_RS[Type]-1 -> Rivals(n)]
    BY <1>2, <1>5
  <2>2. ASSUME NEW a \in 0 .. NUM_RS[Type]-1, NEW b \in 0 .. NUM_RS[Type]-1, f[a] = f[b]
        PROVE  a = b
    <3>1. At(a) = At(b)
      <4>1. rob[At(a)].instr + 1 = rob[At(b)].instr + 1
        BY <2>2
      <4> HIDE DEF At
      <4> QED BY <1>2, <1>6, <4>1
    <3>2. <<Type, a>> = <<Type, b>>
      BY <1>2, <3>1 DEF ServeInv, StationsServeRob
    <3> QED BY <3>2
  <2> HIDE DEF f
  <2> QED BY <2>1, <2>2 DEF Injection, IsInjective
<1>8. IsFiniteSet(Rivals(n)) /\ Cardinality(Rivals(n)) \in Nat
  <2>1. 1 \in Int /\ n - 1 \in Int
    BY <1>1
  <2>2. IsFiniteSet(1 .. n-1)
    BY <2>1, FS_Interval
  <2>3. Rivals(n) \subseteq 1 .. n-1
    BY DEF Rivals
  <2> HIDE DEF n
  <2> QED BY <2>2, <2>3, FS_Subset, FS_CardinalityType
<1>9. Cardinality(0 .. NUM_RS[Type]-1) = NUM_RS[Type]
  <2>1. 0 \in Int /\ NUM_RS[Type] - 1 \in Int /\ ~(0 > NUM_RS[Type] - 1)
    BY <1>1
  <2> QED BY <1>1, <2>1, FS_Interval
<1>10. Cardinality(0 .. NUM_RS[Type]-1) <= Cardinality(Rivals(n))
  <2> HIDE DEF f, n
  <2> QED BY <1>7, <1>8, FS_Injection
<1> QED BY <1>1, <1>8, <1>9, <1>10

LEMMA RetriesWaitInductive ==
  ASSUME RenameInv, RenameInv', StraightInv, Redirecting = {}, [Next]_vars
  PROVE  RetriesWait'
<1>1. /\ ServeInv /\ RingInv /\ instruction_queue' = instruction_queue
  BY ProgramStays DEF RenameInv, LsqInv, ServeInv
<1>2. SUFFICES ASSUME NEW r \in Reg, Retried(r)'
               PROVE  ~RenamesOnlyIssued(next_fetch_branch + 1)'
  BY DEF RetriesWait
<1>3. ASSUME Retried(r), next_fetch_branch' = next_fetch_branch
      PROVE  ~RenamesOnlyIssued(next_fetch_branch + 1)'
  BY <1>1, <1>3 DEF StraightInv, RetriesWait, RenamesOnlyIssued, Rivals, ClassOf
<1>4. CASE CommitStore \/ CommitRegister
  <2>1. /\ rob_count > 0 /\ ReleaseRob /\ rob_head \in RobIdx /\ InFlight(rob_head)
        /\ rob[rob_head].state = "EXECUTED" /\ rob_tail' = rob_tail
        /\ next_fetch_branch' = next_fetch_branch
    BY <1>1, <1>4, HeadInFlight
       DEF RingInv, TypeOK, CommitStore, CommitRegister, CanCommit, HeadEntry,
           ReleaseRob, fetchVars
  <2>2. rob_tail \in RobIdx /\ rob_tail # NoTag
    BY <1>1, SizeAssumption DEF RingInv, TypeOK, RobIdx, NoTag
  <2>3. regs_status[r] = rob_tail
    BY <1>2, <1>1, <1>4, <2>1, <2>2
       DEF Retried, CommitStore, CommitRegister, ReleaseStatus, RingInv, TypeOK
  <2>4. CASE rob_count < ROB_SIZE
    BY <1>3, <2>1, <2>3, <2>4 DEF Retried
  <2>5. CASE ~(rob_count < ROB_SIZE)
    <3>1. rob_tail = rob_head
      <4>1. rob_count = ROB_SIZE /\ rob_tail = (rob_head + ROB_SIZE) % ROB_SIZE
        BY <1>1, <2>5, SizeAssumption DEF RingInv, TypeOK, RobIsARing
      <4>2. (rob_head + ROB_SIZE) % ROB_SIZE = rob_head
        BY <2>1, ModRob, SizeAssumption DEF RobIdx
      <4> QED BY <4>1, <4>2
    <3>2. Mapped(r)
      BY <2>2, <2>3, <2>5 DEF RenameInv, Named, Unmapped, Retrying, Retried
    <3>3. rob[rob_head].dest = r
      BY <2>3, <3>1, <3>2 DEF Mapped, Writes
    <3>4. r # NoReg
      BY DEF Reg, NoReg, Kind
    <3>5. ~is_store_op(HeadEntry.op) /\ HeadEntry.result # NoValue
      BY <2>1, <3>3, <3>4 DEF RenameInv, StoresWriteNothing, ResultsArrive, HeadEntry
    <3>6. regs_status'[r] = NoTag
      BY <1>1, <1>4, <2>3, <3>1, <3>3, <3>4, <3>5
         DEF CommitStore, CommitRegister, ReleaseStatus, HeadEntry, RingInv, TypeOK
    <3> QED BY <1>2, <2>1, <2>2, <3>6 DEF Retried
  <2> QED BY <2>4, <2>5
<1>5. CASE IssueArith \/ IssueMemory
  <2>1. /\ stage' = "broadcast" /\ next_fetch_idx' = next_fetch_branch + 1
        /\ next_fetch_branch' = next_fetch_branch /\ next_fetch_branch \in Int
    BY <1>1, <1>5 DEF IssueArith, IssueMemory, Enter, Fetch, RingInv, TypeOK
  <2> QED BY <1>2, <2>1 DEF RenameInv, RetryFollows
<1>6. CASE StallArith
  <2>1. /\ stage = "issue" /\ CanFetch /\ ~RobFull /\ NoStation
        /\ ~is_memory_op(Instr.op) /\ next_fetch_branch' = next_fetch_branch
    BY <1>6 DEF StallArith, Fetch
  <2>2. ~RenamesOnlyIssued(next_fetch_branch + 1)
    BY <1>1, <2>1, StationsHaveRivals
       DEF StraightInv, RenamesOnlyIssued, ClassOf, Type, Instr
  <2> QED BY <1>1, <2>1, <2>2 DEF RenamesOnlyIssued, Rivals, ClassOf
<1>7. CASE CDB_broadcast
  <2>1. Retried(r) /\ stage = "broadcast" /\ next_fetch_branch' = next_fetch_idx
    BY <1>2, <1>7 DEF CDB_broadcast, Retried, robVars
  <2>2. next_fetch_idx = next_fetch_branch
    BY <2>1 DEF RenameInv, RetryFollows
  <2> QED BY <1>3, <2>1, <2>2
<1>8. CASE Advance
  BY <1>2, <1>3, <1>8 DEF Advance, Redirect, Retried
<1>9. CASE UNCHANGED <<regs_status, rob_tail, rob_count, next_fetch_branch>>
  BY <1>2, <1>3, <1>9 DEF Retried
<1> QED BY <1>4, <1>5, <1>6, <1>7, <1>8, <1>9
        DEF Next, Commit, CommitNothing, CommitThrow, Launch, AdvanceThrow,
            Issue, IssueNothing, StallMemory, Fetch, Stopped, vars, robVars, fetchVars

LEMMA StraightPremises ==
  RenameInv /\ StraightInv => RetryUndisturbed /\ RetryReadsOthers
<1> SUFFICES ASSUME RenameInv, StraightInv
             PROVE  RetryUndisturbed /\ RetryReadsOthers
  OBVIOUS
<1>1. ServeInv /\ RingInv
  BY DEF RenameInv, LsqInv, ServeInv
<1>2. Redirecting = {}
  BY <1>1, StraightNeverRedirects DEF StraightInv
<1>3. ASSUME stage = "issue", CanFetch,
             NEW r \in Reg \cap {Instr.src1, Instr.src2}, Retried(r)
      PROVE  FALSE
  <2>1. rob_tail \in RobIdx /\ ~InFlight(rob_tail) /\ rob_tail # NoTag
    <3>1. ~RobFull
      BY <1>1, <1>3, SizeAssumption DEF Retried, RobFull, RingInv, TypeOK
    <3>2. rob_tail \in RobIdx /\ ~InFlight(rob_tail)
      BY <1>1, <3>1, TailIsFree
    <3> QED BY <3>2, SizeAssumption DEF RobIdx, NoTag
  <2>2. ~Unmapped(r) /\ ~Mapped(r)
    BY <1>3, <2>1 DEF Retried, Unmapped, Mapped, Writes
  <2>3. Instr.dest = r
    BY <2>2 DEF RenameInv, Named, Retrying
  <2> QED BY <1>1, <1>3, <2>3, FetchedStraight DEF StraightInv, RetriesWait
<1> QED BY <1>2, <1>3 DEF RetryUndisturbed, RetryReadsOthers

LEMMA StraightInductive == RenameInv /\ StraightInv /\ [Next]_vars => StraightInv'
<1> SUFFICES ASSUME RenameInv, StraightInv, [Next]_vars PROVE StraightInv'
  OBVIOUS
<1>1. ServeInv /\ RingInv
  BY DEF RenameInv, LsqInv, ServeInv
<1>2. instruction_queue' = instruction_queue /\ Redirecting = {}
  BY <1>1, ProgramStays, StraightNeverRedirects DEF StraightInv
<1>3. WellFormed' /\ StraightLine'
  BY <1>2 DEF StraightInv, WellFormed, StraightLine, RenamesOnlyIssued, Rivals, ClassOf
<1>4. ASSUME NEW k \in RobIdx, InFlight(k)'
      PROVE  rob'[k].op \notin {"BNE", "JALR"}
  <2>1. CASE InFlight(k)
    <3>1. Progresses(k)
      BY <1>1, StepProgresses
    <3>2. rob'[k].op = rob[k].op
      BY <1>4, <2>1, <3>1 DEF Progresses, KeepsInstruction
    <3> QED BY <2>1, <3>2 DEF StraightInv, NoJumpInFlight
  <2>2. CASE ~InFlight(k)
    <3>1. CASE IssueArith \/ IssueMemory
      <4>1. lsq_tail \in LsqIdx
        BY <1>1 DEF RingInv, TypeOK
      <4>2. PICK q \in LsqIdx \cup {-1} : CanFetch /\ ~RobFull /\ Enter(q)
        BY <3>1, <4>1 DEF IssueArith, IssueMemory
      <4>3. /\ InFlight(k)' => k = rob_tail
            /\ rob'[rob_tail] = NewEntry(q)
        BY <1>1, <2>2, <4>2, EnterRing
      <4>4. rob'[k].op = Instr.op
        BY <1>4, <4>3 DEF NewEntry
      <4> QED BY <1>1, <4>2, <4>4, FetchedStraight DEF StraightInv
    <3>2. CASE CommitStore \/ CommitRegister
      <4>1. rob_count > 0 /\ ReleaseRob
        BY <3>2 DEF CommitStore, CommitRegister, CanCommit
      <4> QED BY <1>1, <1>4, <2>2, <4>1, ReleaseRobKeepsRing
    <3>3. CASE UNCHANGED <<rob_head, rob_count>>
      BY <1>4, <2>2, <3>3 DEF InFlight, Age
    <3> QED BY <3>1, <3>2, <3>3
          DEF Next, Commit, CommitNothing, CommitThrow, Launch, Advance, AdvanceThrow,
              Issue, IssueNothing, StallArith, StallMemory, Fetch, CDB_broadcast,
              Stopped, vars, robVars
  <2> QED BY <2>1, <2>2
<1>5. EntriesHaveCode' /\ InARow'
  BY <1>1, <1>2, CodeInductive, InARowInductive DEF StraightInv
<1>6. RetriesWait'
  <2>1. RenameInv'
    BY RenameInductive, StraightPremises DEF StraightInv
  <2> QED BY <1>2, <2>1, RetriesWaitInductive
<1> QED BY <1>3, <1>4, <1>5, <1>6 DEF StraightInv, NoJumpInFlight

LEMMA StraightStarts == Init /\ WellFormed /\ StraightLine => StraightInv
<1>1. Init => \A k \in RobIdx : ~InFlight(k)
  BY ModRob, SizeAssumption DEF Init, Started, InFlight, Age, RobIdx
<1>2. Init => \A r \in Reg : ~Retried(r)
  BY SizeAssumption DEF Init, Started, Retried, NoTag
<1> QED BY <1>1, <1>2
        DEF StraightInv, NoJumpInFlight, EntriesHaveCode, InARow, RetriesWait

(* Such a program never meets the defects of a failed attempt to issue,    *)
(* however few stations and slots there are.                               *)
THEOREM StraightLineCorrect ==
  Spec /\ WellFormed /\ StraightLine
    => [](RenameTable /\ NoLostWakeup /\ QuiescentAtEnd)
<1>1. Init => NoLostWakeup /\ Ended
  BY WakeupStarted, EndedStarted DEF Init
<1>2. RenameInv => RenameTable
  BY NamedIsRenameTable DEF RenameInv
<1>3. StraightInv => WellFormed
  BY DEF StraightInv
<1> QED BY RenameInit, RenameInductive, WakeupInductive, EndedInductive, NothingLeft,
           StraightPremises, StraightInductive, StraightStarts,
           <1>1, <1>2, <1>3, PTL DEF Spec
-----------------------------------------------------------------------------
(* A program that meets every premise however it runs: besides being       *)
(* straight-line, no load of it follows a store to its location.  A load   *)
(* behind a store to the same memory has another address, which is known   *)
(* from the start because no instruction writes the two base registers.    *)
Settled(r) ==
  r \in Reg /\ \A n \in 1 .. Len(instruction_queue) : instruction_queue[n].dest # r
AddressOf(i) == (regs[i.src1][2] + i.imm) % WORD
LoadsApart ==
  \A m, n \in 1 .. Len(instruction_queue) :
    LET i == instruction_queue[m]
        l == instruction_queue[n]
    IN /\ m < n /\ is_store_op(i.op) /\ is_load_op(l.op)
       /\ memory_kind(i.op) = memory_kind(l.op)
       => Settled(i.src1) /\ Settled(l.src1) /\ AddressOf(i) # AddressOf(l)
StraightOrderInv ==
  InOrderInv /\ StraightInv /\ AllSupported /\ LoadsApart

(* Who reads a settled register sees what it always held. *)
LEMMA SettledSeen ==
  ASSUME RingInv, EntriesHaveCode, NEW k \in RobIdx, NEW r, Settled(r),
         NEW v \in OperandValue, Sees(k, r, v)
  PROVE  v = regs[r]
<1>1. ASSUME NEW c \in RobIdx, Writes(c, r) PROVE FALSE
  <2>1. InFlight(c) /\ rob[c].dest = r
    BY <1>1 DEF Writes
  <2>2. InProgram(rob[c].instr) /\ instruction_queue[rob[c].instr + 1].dest = r
    BY <2>1 DEF EntriesHaveCode, Code
  <2>3. rob[c].instr + 1 \in 1 .. Len(instruction_queue)
    BY <2>2 DEF InProgram, RingInv, TypeOK
  <2> QED BY <2>2, <2>3 DEF Settled
<1> QED BY <1>1 DEF Sees, Feeds

LEMMA SettledStays ==
  ASSUME ServeInv, EntriesHaveCode, [Next]_vars, NEW r, Settled(r)
  PROVE  Settled(r)' /\ regs'[r] = regs[r]
<1>1. Settled(r)'
  BY ProgramStays DEF Settled
<1>2. CASE CommitRegister
  <2>1. PICK h \in RobIdx : h = rob_head /\ InFlight(h)
    BY <1>2, HeadInFlight DEF CommitRegister, CanCommit, ServeInv, RingInv, TypeOK
  <2>2. InProgram(rob[h].instr) /\ rob[h].dest = instruction_queue[rob[h].instr + 1].dest
    BY <2>1 DEF EntriesHaveCode, Code
  <2>3. rob[h].instr + 1 \in 1 .. Len(instruction_queue)
    BY <2>2 DEF InProgram, ServeInv, RingInv, TypeOK
  <2>4. HeadEntry.dest # r
    BY <2>1, <2>2, <2>3 DEF Settled, HeadEntry
  <2>5. r \in Reg /\ regs \in [Reg -> OperandValue]
    BY DEF Settled, ServeInv, RingInv, TypeOK
  <2> QED BY <1>1, <1>2, <2>4, <2>5 DEF CommitRegister
<1>3. CASE CommitStore \/ Steady
  BY <1>1, <1>3 DEF CommitStore, Steady
<1> QED BY <1>2, <1>3, Steadily DEF ServeInv

LEMMA ApartStays ==
  ASSUME ServeInv, EntriesHaveCode, [Next]_vars, LoadsApart PROVE LoadsApart'
<1>1. instruction_queue' = instruction_queue
  BY ProgramStays
<1>2. \A n \in 1 .. Len(instruction_queue) :
        LET i == instruction_queue[n]
        IN Settled(i.src1) => Settled(i.src1)' /\ AddressOf(i)' = AddressOf(i)
  BY <1>1, SettledStays DEF AddressOf
<1> QED BY <1>1, <1>2 DEF LoadsApart

(* An access that has executed has the address its settled base gives it.  *)
LEMMA AddressSettled ==
  ASSUME InOrderInv, NEW k \in RobIdx, InFlight(k), rob[k].state = "EXECUTED",
         is_memory_op(rob[k].op), Settled(Code(k).src1)
  PROVE  lsq[rob[k].lsq_idx].address = AddressOf(Code(k))
<1>1. RingInv /\ EntriesHaveCode /\ Addressed(k)
  BY DEF InOrderInv, RenameInv, LsqInv, ServeInv, ValuesInv, ExecutedRight, Right
<1>2. PICK v \in OperandValue :
        First(k, v) /\ lsq[rob[k].lsq_idx].address = (v[2] + Code(k).imm) % WORD
  BY <1>1 DEF Addressed
<1>3. Sees(k, Code(k).src1, v)
  BY <1>2 DEF First, Settled
<1>4. v = regs[Code(k).src1]
  BY <1>1, <1>3, SettledSeen
<1> QED BY <1>2, <1>4 DEF AddressOf

LEMMA StraightOrdered == StraightOrderInv => Ordered
<1> SUFFICES ASSUME StraightOrderInv PROVE Ordered
  OBVIOUS
<1>1. /\ InOrderInv /\ RenameInv /\ ServeInv /\ RingInv /\ EntriesHaveCode
      /\ StraightInv /\ LoadsApart /\ InARow
  BY DEF StraightOrderInv, StraightInv, InOrderInv, RenameInv, LsqInv, ServeInv, ValuesInv
<1>2. BranchesInTime
  BY <1>1, StraightNeverRedirects DEF BranchesInTime, StraightInv
<1>3. ASSUME CanCommit, is_store_op(HeadEntry.op), NEW k \in RobIdx,
             InFlight(k), is_load_op(rob[k].op), rob[k].state = "EXECUTED"
      PROVE  LocationOf(k) # LocationOf(rob_head)
  <2>1. PICK h \in RobIdx : h = rob_head /\ InFlight(h)
    BY <1>1, <1>3, HeadInFlight DEF CanCommit, RingInv, TypeOK
  <2>2. /\ is_store_op(rob[h].op) /\ k # h /\ rob[h].state = "EXECUTED"
        /\ is_memory_op(rob[h].op) /\ is_memory_op(rob[k].op)
    BY <1>3, <2>1 DEF HeadEntry, CanCommit, is_memory_op, is_store_op, is_load_op
  <2>3. rob[h].instr < rob[k].instr
    <3>0. Older(h, k)
      BY <1>1, <1>3, <2>1, <2>2, HeadIsOldest
    <3>1. Age(h) \in Int /\ Age(k) \in Int
      BY <1>1, AgeOfHead DEF Age, RingInv, TypeOK
    <3>2. rob_count \in Int /\ FetchNext \in Int
      BY <1>1 DEF RingInv, TypeOK, FetchNext
    <3> QED BY <1>1, <1>3, <2>1, <3>0, <3>1, <3>2 DEF InARow, Older
  <2>4. /\ InProgram(rob[h].instr) /\ rob[h].op = Code(h).op
        /\ InProgram(rob[k].instr) /\ rob[k].op = Code(k).op
    BY <1>1, <1>3, <2>1 DEF EntriesHaveCode
  <2>5. /\ rob[h].instr + 1 \in 1 .. Len(instruction_queue)
        /\ rob[k].instr + 1 \in 1 .. Len(instruction_queue)
        /\ rob[h].instr + 1 < rob[k].instr + 1
    BY <1>1, <2>3, <2>4 DEF InProgram, RingInv, TypeOK
  <2>6. CASE memory_kind(rob[h].op) # memory_kind(rob[k].op)
    BY <2>1, <2>6 DEF LocationOf
  <2>7. CASE memory_kind(rob[h].op) = memory_kind(rob[k].op)
    <3>1. /\ Settled(Code(h).src1) /\ Settled(Code(k).src1)
          /\ AddressOf(Code(h)) # AddressOf(Code(k))
      BY <1>1, <1>3, <2>2, <2>4, <2>5, <2>7 DEF LoadsApart, Code
    <3>2. /\ lsq[rob[h].lsq_idx].address = AddressOf(Code(h))
          /\ lsq[rob[k].lsq_idx].address = AddressOf(Code(k))
      BY <1>1, <1>3, <2>1, <2>2, <3>1, AddressSettled
    <3> QED BY <2>1, <3>1, <3>2 DEF LocationOf
  <2> QED BY <2>6, <2>7
<1>4. LoadsInOrder
  BY <1>3 DEF LoadsInOrder
<1> QED BY <1>1, <1>2, <1>4, StraightPremises DEF Ordered, StraightOrderInv, StraightInv

LEMMA StraightOrderInductive ==
  StraightOrderInv /\ [Next]_vars => StraightOrderInv'
<1> SUFFICES ASSUME StraightOrderInv, [Next]_vars PROVE StraightOrderInv'
  OBVIOUS
<1>1. InOrderInv /\ RenameInv /\ ServeInv /\ StraightInv /\ Ordered
  BY StraightOrdered DEF StraightOrderInv, InOrderInv, RenameInv, LsqInv
<1>2. InOrderInv' /\ StraightInv'
  BY <1>1, InOrderInductive, StraightInductive
<1>3. AllSupported' /\ LoadsApart'
  BY <1>1, ProgramStays, ApartStays DEF StraightOrderInv, InOrderInv, ValuesInv, AllSupported
<1> QED BY <1>2, <1>3 DEF StraightOrderInv

LEMMA StraightOrderInit ==
  Init /\ WellFormed /\ AllSupported /\ StraightLine /\ LoadsApart => StraightOrderInv
BY InOrderInit, StraightStarts DEF StraightOrderInv

(* No instruction of a straight-line program whose loads keep apart from   *)
(* the stores before them overtakes an older one in a way that changes     *)
(* what is computed: the retries of issue_instruction harm nobody, and no  *)
(* load of executeFU reads a location that an older store has yet to       *)
(* write.                                                                  *)
THEOREM StraightLineOrdered ==
  Spec /\ WellFormed /\ AllSupported /\ StraightLine /\ LoadsApart => []Ordered
BY StraightOrderInit, StraightOrderInductive, StraightOrdered, PTL DEF Spec

(* Such a program commits as the in-order machine executes it, whatever    *)
(* the sizes of the buffers and whatever order its instructions complete   *)
(* in.                                                                     *)
THEOREM StraightLineInOrder ==
  Spec /\ WellFormed /\ AllSupported /\ StraightLine /\ LoadsApart => ExecutesInOrder
<1>1. StraightOrderInv => InOrderInv
  BY DEF StraightOrderInv
<1> QED BY <1>1, StraightOrderInit, StraightOrderInductive, StraightOrdered, StepInOrder,
           StartsInOrder, PTL DEF Spec, ExecutesInOrder
-----------------------------------------------------------------------------
(* Several calls of simulate(): the invariants of one call are those of    *)
(* any number of calls.                                                    *)

(* A call leaves every variable as the first one finds it, but for the two *)
(* of LeftOver, which have their type.                                     *)
LEMMA CallStarts ==
  ASSUME LsqInv, CallAgain PROVE Started' /\ LeftOver'
<1>1. Started'
  BY DEF CallAgain, GlobalsCleared, InputsLoaded, Started, Unfinished, InProgram
<1>2. LeftOver'
  BY DEF CallAgain, LeftOver, LsqInv, ServeInv, RingInv, TypeOK
<1> QED BY <1>1, <1>2

LEMMA CallsInductive == LsqInv /\ [Next \/ CallAgain]_vars => LsqInv'
<1>1. LsqInv /\ [Next]_vars => LsqInv'
  BY LsqInductive
<1>2. LsqInv /\ CallAgain => Started' /\ LeftOver'
  BY CallStarts
<1>3. Started' /\ LeftOver' => LsqInv'
  BY LsqStarted, PTL
<1> QED BY <1>1, <1>2, <1>3

(* The ROB is a ring in every call, whatever the calls before it were.     *)
THEOREM CallsKeepTheRing == CallsSpec => []RobIsARing
<1>1. LsqInv => RobIsARing
  BY DEF LsqInv, ServeInv, RingInv
<1> QED BY LsqInit, CallsInductive, <1>1, PTL DEF CallsSpec

(* Stations, units and LSQ slots serve the entries of the present call     *)
(* only.                                                                   *)
THEOREM CallsKeepServing ==
  CallsSpec => [](StationsServeRob /\ UnitsServeStations
                  /\ LsqMatchesRob /\ LsqReadyWhenExecuted)
<1>1. LsqInv => StationsServeRob /\ UnitsServeStations
                /\ LsqMatchesRob /\ LsqReadyWhenExecuted
  BY SlotsMatch DEF LsqInv, ServeInv
<1> QED BY LsqInit, CallsInductive, <1>1, PTL DEF CallsSpec
-----------------------------------------------------------------------------
LEMMA CallsRename ==
  RenameInv /\ WellFormed /\ RetryUndisturbed /\ [Next \/ CallAgain]_vars => RenameInv'
<1>1. RenameInv /\ CallAgain => Started' /\ LeftOver'
  BY CallStarts DEF RenameInv
<1>2. Started' /\ LeftOver' => RenameInv'
  BY RenameStarted, PTL
<1> QED BY RenameInductive, <1>1, <1>2

LEMMA CallsWakeup ==
  /\ RenameInv /\ NoLostWakeup /\ WellFormed /\ RetryReadsOthers
  /\ [Next \/ CallAgain]_vars
  => NoLostWakeup'
<1>1. RenameInv /\ CallAgain => Started'
  BY CallStarts DEF RenameInv
<1>2. Started' => NoLostWakeup'
  BY WakeupStarted, PTL
<1> QED BY WakeupInductive, <1>1, <1>2

LEMMA CallsEnded == RenameInv /\ Ended /\ [Next \/ CallAgain]_vars => Ended'
<1>1. RenameInv /\ CallAgain => Started'
  BY CallStarts DEF RenameInv
<1>2. Started' => Ended'
  BY EndedStarted, PTL
<1> QED BY EndedInductive, <1>1, <1>2

(* No call names a register by an entry of an earlier one or waits for a   *)
(* broadcast of one, although cdb_list outlives the call, and each leaves  *)
(* nothing behind.                                                         *)
THEOREM CallsLeaveNothing ==
  CallsSpec /\ [](WellFormed /\ RetryUndisturbed /\ RetryReadsOthers)
    => [](RenameTable /\ NoLostWakeup /\ QuiescentAtEnd)
<1>1. Init => NoLostWakeup /\ Ended
  BY WakeupStarted, EndedStarted DEF Init
<1>2. RenameInv => RenameTable
  BY NamedIsRenameTable DEF RenameInv
<1> QED BY RenameInit, CallsRename, CallsWakeup, CallsEnded, NothingLeft, <1>1, <1>2, PTL
           DEF CallsSpec
-----------------------------------------------------------------------------
LEMMA CallsOrder == InOrderInv /\ Ordered /\ [Next \/ CallAgain]_vars => InOrderInv'
<1>1. InOrderInv /\ CallAgain => Started' /\ LeftOver'
  BY CallStarts DEF InOrderInv, RenameInv
<1>2. Started' /\ LeftOver' => InOrderInv'
  BY InOrderStarted, PTL
<1> QED BY InOrderInductive, <1>1, <1>2

LEMMA CallsStep ==
  InOrderInv /\ InOrderInv' /\ Ordered /\ Ended /\ [Next \/ CallAgain]_vars
    => [\/ InOrder!Step
        \/ /\ stage = "done" /\ CommittedPC' = CommittedPC
           /\ instruction_queue' \in Programs
           /\ regs' \in InitRegs /\ memory' \in InitMemory]_(InOrder!isaVars)
<1>1. Ended /\ CallAgain => CommittedPC' = CommittedPC
  BY DEF Ended, CallAgain, GlobalsCleared, Unfinished, CommittedPC
<1> QED BY <1>1, StepInOrder DEF CallAgain, InputsLoaded

LEMMA CallsOrderEnded ==
  InOrderInv /\ Ended /\ [Next \/ CallAgain]_vars => Ended'
BY CallsEnded DEF InOrderInv

(* Each call commits as the in-order machine does from the registers and   *)
(* the memory it is given and from where the call before it stopped: the   *)
(* bus, which an earlier call leaves behind as well, changes nothing.      *)
THEOREM CallsCommitInOrder == CallsSpec /\ []Ordered => EachCallInOrder
<1>1. Init => Ended
  BY EndedStarted DEF Init
<1> QED BY InOrderInit, CallsOrder, CallsOrderEnded, CallsStep, <1>1, PTL
           DEF CallsSpec, EachCallInOrder

LEMMA CallsWork ==
  InOrderInv /\ Ordered /\ HeadWorks /\ [Next \/ CallAgain]_vars => HeadWorks'
<1>1. InOrderInv /\ CallAgain => Started'
  BY CallStarts DEF InOrderInv, RenameInv
<1>2. Started' => HeadWorks'
  BY WorksStarted, PTL
<1> QED BY WorksInductive, <1>1, <1>2

(* No call waits for itself, wherever in its program it begins and with    *)
(* whatever an earlier call left on the bus.                               *)
THEOREM CallsNeverStuck == CallsSpec /\ []Ordered => []NeverStuck
<1>1. Init => HeadWorks
  BY WorksStarted DEF Init
<1> QED BY InOrderInit, CallsOrder, CallsWork, WorksIsNeverStuck, <1>1, PTL DEF CallsSpec
=============================================================================

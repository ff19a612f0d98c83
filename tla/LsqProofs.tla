------------------------------ MODULE LsqProofs ------------------------------
(***************************************************************************)
(* That the load-store queue holds exactly the loads and stores in flight, *)
(* in program order, each with its address and data when it has executed,  *)
(* for every size and every program.                                       *)
(***************************************************************************)
EXTENDS StationProofs

MemoryEntries == {k \in RobIdx : InFlight(k) /\ is_memory_op(rob[k].op)}
YoungerMemory(k) ==
  {i \in RobIdx : InFlight(i) /\ Older(k, i) /\ is_memory_op(rob[i].op)}
ValidSlots == {q \in LsqIdx : lsq[q].valid}
(* How many slots were taken after slot q. *)
SlotAge(q) == (lsq_tail - q - 1) % LSQ_SIZE

EntriesHaveSlots ==
  \A k \in MemoryEntries :
    /\ rob[k].lsq_idx \in ValidSlots /\ lsq[rob[k].lsq_idx].rob_idx = k
    /\ SlotAge(rob[k].lsq_idx) = Cardinality(YoungerMemory(k))
SlotsHaveEntries ==
  \A q \in ValidSlots :
    lsq[q].rob_idx \in MemoryEntries /\ rob[lsq[q].rob_idx].lsq_idx = q
SlotsCounted ==
  lsq_count = Cardinality(MemoryEntries) /\ lsq_count = Cardinality(ValidSlots)

(* LsqMatchesRob says nothing of a slot that no entry names; an inductive  *)
(* argument needs that there is none.                                      *)
SlotsInv == EntriesHaveSlots /\ SlotsHaveEntries /\ SlotsCounted
LsqInv == ServeInv /\ SlotsInv /\ LsqReadyWhenExecuted
-----------------------------------------------------------------------------
(* Ages in the ring and in the queue. *)
LEMMA AgeOfHead ==
  ASSUME NEW h \in RobIdx, NEW k \in RobIdx
  PROVE  /\ (k - h) % ROB_SIZE \in 0 .. ROB_SIZE-1
         /\ (k - h) % ROB_SIZE = 0 <=> k = h
         /\ k # h => (k - NextRob(h)) % ROB_SIZE = ((k - h) % ROB_SIZE) - 1
<1>1. ROB_SIZE \in Nat \ {0}
  BY SizeAssumption
<1>2. NextRob(h) = IF h + 1 = ROB_SIZE THEN 0 ELSE h + 1
  BY <1>1, ModRob DEF NextRob, RobIdx
<1>3. (k - h) % ROB_SIZE = IF k < h THEN k - h + ROB_SIZE ELSE k - h
  BY <1>1, ModRob DEF RobIdx
<1>4. NextRob(h) \in RobIdx
  BY <1>1, <1>2 DEF RobIdx
<1>5. (k - NextRob(h)) % ROB_SIZE =
        IF k < NextRob(h) THEN k - NextRob(h) + ROB_SIZE ELSE k - NextRob(h)
  BY <1>1, <1>4, ModRob DEF RobIdx
<1> QED BY <1>1, <1>2, <1>3, <1>5 DEF RobIdx

LEMMA ModLsqRange ==
  ASSUME NEW a \in Int, -LSQ_SIZE <= a, a < LSQ_SIZE
  PROVE  a % LSQ_SIZE = IF a < 0 THEN a + LSQ_SIZE ELSE a
<1>1. CASE a < 0
  BY <1>1, SizeAssumption
<1>2. CASE a >= 0
  BY <1>2, SizeAssumption
<1> QED BY <1>1, <1>2

LEMMA SlotsRecede ==
  ASSUME NEW t \in LsqIdx, NEW q \in LsqIdx
  PROVE  /\ NextLsq(t) \in LsqIdx
         /\ (t - t - 1) % LSQ_SIZE = LSQ_SIZE - 1
         /\ (NextLsq(t) - t - 1) % LSQ_SIZE = 0
         /\ q # t => (NextLsq(t) - q - 1) % LSQ_SIZE = ((t - q - 1) % LSQ_SIZE) + 1
<1>1. LSQ_SIZE \in Nat \ {0}
  BY SizeAssumption
<1>2. NextLsq(t) = IF t + 1 = LSQ_SIZE THEN 0 ELSE t + 1
  <2>1. CASE t + 1 = LSQ_SIZE
    BY <1>1, <2>1 DEF NextLsq, LsqIdx
  <2>2. CASE t + 1 < LSQ_SIZE
    BY <1>1, <2>2, ModLsqRange DEF NextLsq, LsqIdx
  <2> QED BY <1>1, <2>1, <2>2 DEF LsqIdx
<1>3. NextLsq(t) \in LsqIdx
  BY <1>1, <1>2 DEF LsqIdx
<1>4. ASSUME NEW a \in LsqIdx, NEW b \in LsqIdx
      PROVE  (a - b - 1) % LSQ_SIZE =
               IF a - b - 1 < 0 THEN a - b - 1 + LSQ_SIZE ELSE a - b - 1
  BY <1>1, ModLsqRange DEF LsqIdx
<1>5. (t - t - 1) % LSQ_SIZE = LSQ_SIZE - 1
  BY <1>1, <1>4 DEF LsqIdx
<1>6. (NextLsq(t) - t - 1) % LSQ_SIZE = 0
  BY <1>1, <1>2, <1>3, <1>4 DEF LsqIdx
<1>7. q # t => (NextLsq(t) - q - 1) % LSQ_SIZE = ((t - q - 1) % LSQ_SIZE) + 1
  BY <1>1, <1>2, <1>3, <1>4 DEF LsqIdx
<1> QED BY <1>3, <1>5, <1>6, <1>7

LEMMA FiniteIndices ==
  /\ \A S \in SUBSET RobIdx : IsFiniteSet(S) /\ Cardinality(S) \in Nat
  /\ \A S \in SUBSET LsqIdx : IsFiniteSet(S) /\ Cardinality(S) \in Nat
<1>1. ROB_SIZE - 1 \in Int /\ LSQ_SIZE - 1 \in Int /\ 0 \in Int
  BY SizeAssumption
<1>2. IsFiniteSet(RobIdx) /\ IsFiniteSet(LsqIdx)
  BY <1>1, FS_Interval DEF RobIdx, LsqIdx
<1>3. ASSUME NEW T, IsFiniteSet(T), NEW S \in SUBSET T
      PROVE  IsFiniteSet(S) /\ Cardinality(S) \in Nat
  BY <1>3, FS_Subset, FS_CardinalityType
<1> QED BY <1>2, <1>3
-----------------------------------------------------------------------------
(* Steps that neither take nor give back a slot: the loads and stores in   *)
(* flight, their order and their slots stay as they are.                   *)
SameMemory ==
  /\ MemoryEntries' = MemoryEntries
  /\ \A k \in MemoryEntries : /\ YoungerMemory(k)' = YoungerMemory(k)
                              /\ rob'[k].lsq_idx = rob[k].lsq_idx
SameSlots ==
  /\ UNCHANGED <<lsq_tail, lsq_count>>
  /\ \A q \in LsqIdx : /\ lsq'[q].valid = lsq[q].valid
                       /\ lsq'[q].rob_idx = lsq[q].rob_idx

LEMMA SlotsFrame ==
  ASSUME SlotsInv, SameMemory, SameSlots PROVE SlotsInv'
<1>1. ValidSlots' = ValidSlots
  BY DEF SameSlots, ValidSlots
<1>2. ASSUME NEW k \in MemoryEntries
      PROVE  /\ rob'[k].lsq_idx \in ValidSlots' /\ lsq'[rob'[k].lsq_idx].rob_idx = k
             /\ SlotAge(rob[k].lsq_idx)' = SlotAge(rob[k].lsq_idx)
  <2>1. rob'[k].lsq_idx = rob[k].lsq_idx /\ rob[k].lsq_idx \in ValidSlots
        /\ lsq[rob[k].lsq_idx].rob_idx = k
    BY DEF SlotsInv, EntriesHaveSlots, SameMemory
  <2>2. lsq'[rob[k].lsq_idx].rob_idx = k
    BY <2>1 DEF SameSlots, ValidSlots
  <2>3. (lsq_tail' - rob'[k].lsq_idx - 1) % LSQ_SIZE
          = (lsq_tail - rob[k].lsq_idx - 1) % LSQ_SIZE
    BY <2>1 DEF SameSlots
  <2> QED BY <1>1, <2>1, <2>2, <2>3 DEF SlotAge
<1>3. EntriesHaveSlots'
  <2>1. \A k \in MemoryEntries : YoungerMemory(k)' = YoungerMemory(k)
    BY DEF SameMemory
  <2>2. \A k \in MemoryEntries :
          SlotAge(rob[k].lsq_idx) = Cardinality(YoungerMemory(k))
    BY DEF SlotsInv, EntriesHaveSlots
  <2>3. MemoryEntries' = MemoryEntries
    BY DEF SameMemory
  <2> QED BY <1>2, <2>1, <2>2, <2>3 DEF EntriesHaveSlots
<1>4. SlotsHaveEntries'
  <2>1. ASSUME NEW q \in ValidSlots
        PROVE  lsq'[q].rob_idx \in MemoryEntries' /\ rob'[lsq'[q].rob_idx].lsq_idx = q
    <3>1. lsq[q].rob_idx \in MemoryEntries /\ rob[lsq[q].rob_idx].lsq_idx = q
      BY DEF SlotsInv, SlotsHaveEntries
    <3>2. lsq'[q].rob_idx = lsq[q].rob_idx
      BY DEF SameSlots, ValidSlots
    <3> QED BY <3>1, <3>2 DEF SameMemory
  <2> QED BY <1>1, <2>1 DEF SlotsHaveEntries
<1>5. SlotsCounted'
  BY <1>1 DEF SlotsInv, SlotsCounted, SameMemory, SameSlots
<1> QED BY <1>3, <1>4, <1>5 DEF SlotsInv

(* No entry enters or leaves. *)
LEMMA SameFlight ==
  ASSUME UNCHANGED rob_head,
         \A k \in RobIdx : InFlight(k)' <=> InFlight(k),
         \A k \in RobIdx : InFlight(k) =>
           rob'[k].op = rob[k].op /\ rob'[k].lsq_idx = rob[k].lsq_idx
  PROVE  SameMemory
<1>1. \A k \in RobIdx : Age(k)' = Age(k)
  BY DEF Age
<1>2. \A i, k \in RobIdx : Older(k, i)' <=> Older(k, i)
  BY <1>1 DEF Older
<1>3. MemoryEntries' = MemoryEntries
  BY DEF MemoryEntries
<1>4. \A k \in MemoryEntries : YoungerMemory(k)' = YoungerMemory(k)
  BY <1>2 DEF YoungerMemory, MemoryEntries
<1> QED BY <1>3, <1>4 DEF SameMemory, MemoryEntries

(* What the LSQ and the stations of an executing access hold. *)
LEMMA ReadyFrame ==
  ASSUME LsqReadyWhenExecuted, MemoryEntries' \subseteq MemoryEntries,
         \A k \in MemoryEntries :
           /\ rob'[k].op = rob[k].op /\ rob'[k].lsq_idx = rob[k].lsq_idx
           /\ rob'[k].state = "EXECUTED" <=> rob[k].state = "EXECUTED"
           /\ lsq'[rob[k].lsq_idx].addr_ready = lsq[rob[k].lsq_idx].addr_ready
           /\ lsq'[rob[k].lsq_idx].data = lsq[rob[k].lsq_idx].data
  PROVE  LsqReadyWhenExecuted'
BY DEF LsqReadyWhenExecuted, MemoryEntries
-----------------------------------------------------------------------------
(* What is left when the head leaves the ROB. *)
LEMMA HeadLeaves ==
  ASSUME RingInv, rob_count > 0, ReleaseRob
  PROVE  /\ MemoryEntries' = MemoryEntries \ {rob_head}
         /\ \A k \in MemoryEntries' : YoungerMemory(k)' = YoungerMemory(k)
         /\ \A k \in RobIdx : k # rob_head => rob'[k] = rob[k]
<1>1. /\ rob_head \in RobIdx /\ rob_head' = NextRob(rob_head)
      /\ \A k \in RobIdx : InFlight(k)' <=> InFlight(k) /\ k # rob_head
      /\ \A k \in RobIdx : k # rob_head => rob'[k] = rob[k]
  BY ReleaseRobKeepsRing DEF RingInv, TypeOK, ReleaseRob
<1>2. MemoryEntries' = MemoryEntries \ {rob_head}
  BY <1>1 DEF MemoryEntries
<1>3. ASSUME NEW i \in RobIdx, NEW k \in RobIdx, k # rob_head
      PROVE  Older(k, i) <=> i # rob_head /\ Older(k, i)'
  <2>1. /\ Age(k) \in Int /\ Age(i) \in Int /\ Age(k) > 0
        /\ i = rob_head => Age(i) = 0
    BY <1>1, <1>3, AgeOfHead DEF Age
  <2>2. /\ Age(k)' = Age(k) - 1
        /\ i # rob_head => Age(i)' = Age(i) - 1
    BY <1>1, <1>3, AgeOfHead DEF Age
  <2> QED BY <2>1, <2>2 DEF Older
<1>4. ASSUME NEW k \in MemoryEntries' PROVE YoungerMemory(k)' = YoungerMemory(k)
  <2>1. k \in RobIdx /\ k # rob_head
    BY <1>1, <1>2, <1>4 DEF MemoryEntries
  <2>2. \A i \in RobIdx : (InFlight(i) /\ Older(k, i) /\ is_memory_op(rob[i].op))'
                            <=> InFlight(i) /\ Older(k, i) /\ is_memory_op(rob[i].op)
    BY <1>1, <1>3, <2>1
  <2> QED BY <2>2 DEF YoungerMemory
<1> QED BY <1>1, <1>2, <1>4

(* A load or store that commits gives back its own slot and no other. *)
LEMMA SlotsRelease ==
  ASSUME ServeInv, SlotsInv, rob_count > 0, is_memory_op(HeadEntry.op),
         ReleaseRob, ReleaseLsq
  PROVE  SlotsInv'
<1> DEFINE s == HeadEntry.lsq_idx
<1>1. rob_head \in MemoryEntries /\ s = rob[rob_head].lsq_idx
  BY HeadInFlight DEF ServeInv, RingInv, TypeOK, HeadEntry, MemoryEntries
<1>2. s \in ValidSlots /\ lsq[s].rob_idx = rob_head
  BY <1>1 DEF SlotsInv, EntriesHaveSlots
<1>3. /\ MemoryEntries' = MemoryEntries \ {rob_head}
      /\ \A k \in MemoryEntries' : YoungerMemory(k)' = YoungerMemory(k)
      /\ \A k \in MemoryEntries' : rob'[k] = rob[k]
  <2>1. MemoryEntries \subseteq RobIdx
    BY DEF MemoryEntries
  <2> QED BY <2>1, HeadLeaves DEF ServeInv
<1>4. lsq \in [LsqIdx -> SlotRecord] /\ s \in LsqIdx
  BY <1>2 DEF ServeInv, RingInv, TypeOK, ValidSlots
<1>5. \A q \in LsqIdx : /\ lsq'[q].rob_idx = lsq[q].rob_idx
                        /\ lsq'[q].valid <=> lsq[q].valid /\ q # s
  BY <1>4 DEF ReleaseLsq, SlotRecord
<1> HIDE DEF s
<1>6. ValidSlots' = ValidSlots \ {s}
  BY <1>5 DEF ValidSlots
<1>7. ASSUME NEW k \in MemoryEntries'
      PROVE  /\ rob'[k].lsq_idx \in ValidSlots' /\ lsq'[rob'[k].lsq_idx].rob_idx = k
             /\ SlotAge(rob[k].lsq_idx)' = Cardinality(YoungerMemory(k)')
  <2>1. k \in MemoryEntries /\ k # rob_head /\ rob'[k] = rob[k]
        /\ YoungerMemory(k)' = YoungerMemory(k)
    BY <1>3, <1>7
  <2>2. rob[k].lsq_idx \in ValidSlots /\ lsq[rob[k].lsq_idx].rob_idx = k
        /\ SlotAge(rob[k].lsq_idx) = Cardinality(YoungerMemory(k))
    BY <2>1 DEF SlotsInv, EntriesHaveSlots
  <2>3. rob[k].lsq_idx # s
    BY <1>2, <2>1, <2>2
  <2>4. rob'[k].lsq_idx \in ValidSlots' /\ lsq'[rob'[k].lsq_idx].rob_idx = k
    BY <1>5, <1>6, <2>1, <2>2, <2>3 DEF ValidSlots
  <2>5. (lsq_tail' - rob'[k].lsq_idx - 1) % LSQ_SIZE
          = (lsq_tail - rob[k].lsq_idx - 1) % LSQ_SIZE
    BY <2>1 DEF ReleaseLsq
  <2> QED BY <2>1, <2>2, <2>4, <2>5 DEF SlotAge
<1>8. EntriesHaveSlots'
  BY <1>7 DEF EntriesHaveSlots
<1>9. SlotsHaveEntries'
  <2>1. ASSUME NEW q \in ValidSlots, q # s
        PROVE  lsq'[q].rob_idx \in MemoryEntries' /\ rob'[lsq'[q].rob_idx].lsq_idx = q
    <3>1. lsq[q].rob_idx \in MemoryEntries /\ rob[lsq[q].rob_idx].lsq_idx = q
          /\ lsq'[q].rob_idx = lsq[q].rob_idx
      BY <1>5 DEF SlotsInv, SlotsHaveEntries, ValidSlots
    <3>2. lsq[q].rob_idx # rob_head
      BY <1>1, <2>1, <3>1 DEF s
    <3> QED BY <1>3, <3>1, <3>2
  <2> QED BY <1>6, <2>1 DEF SlotsHaveEntries
<1>10. SlotsCounted'
  <2>1. IsFiniteSet(MemoryEntries) /\ IsFiniteSet(ValidSlots)
    BY FiniteIndices DEF MemoryEntries, ValidSlots
  <2>2. Cardinality(MemoryEntries') = Cardinality(MemoryEntries) - 1
    BY <1>1, <1>3, <2>1, FS_RemoveElement
  <2>3. Cardinality(ValidSlots') = Cardinality(ValidSlots) - 1
    BY <1>2, <1>6, <2>1, FS_RemoveElement
  <2> QED BY <2>2, <2>3 DEF SlotsInv, SlotsCounted, ReleaseLsq
<1> QED BY <1>8, <1>9, <1>10 DEF SlotsInv

(* commit_head_of_rob keeps the queue and the ROB matched. *)
LEMMA CommitSlots ==
  ASSUME LsqInv, Commit PROVE SlotsInv' /\ LsqReadyWhenExecuted'
<1>1. CASE CommitNothing \/ CommitThrow
  <2>1. UNCHANGED <<robVars, lsqVars>>
    BY <1>1 DEF CommitNothing, CommitThrow
  <2>2. SameMemory
    BY <2>1, SameFlight DEF robVars, InFlight, Age
  <2>3. SameSlots
    BY <2>1 DEF lsqVars, SameSlots
  <2>4. SlotsInv'
    BY <2>2, <2>3, SlotsFrame DEF LsqInv
  <2>5. LsqReadyWhenExecuted'
    BY <2>1, <2>2, ReadyFrame DEF LsqInv, robVars, lsqVars, SameMemory
  <2> QED BY <2>4, <2>5
<1>2. CASE CommitStore \/ CommitRegister
  <2>1. ServeInv /\ RingInv /\ SlotsInv /\ LsqReadyWhenExecuted
        /\ rob_count > 0 /\ ReleaseRob
    BY <1>2 DEF LsqInv, ServeInv, CommitStore, CommitRegister, CanCommit
  <2>2. /\ MemoryEntries' = MemoryEntries \ {rob_head}
        /\ \A k \in MemoryEntries' : YoungerMemory(k)' = YoungerMemory(k)
        /\ \A k \in RobIdx : k # rob_head => rob'[k] = rob[k]
    BY <2>1, HeadLeaves
  <2>3. MemoryEntries \subseteq RobIdx
    BY DEF MemoryEntries
  <2>4. CASE is_memory_op(HeadEntry.op)
    <3>1. ReleaseLsq
      BY <1>2, <2>4 DEF CommitStore, CommitRegister, is_memory_op
    <3>2. SlotsInv'
      BY <2>1, <2>4, <3>1, SlotsRelease
    <3>3. \A q \in LsqIdx : /\ lsq'[q].addr_ready = lsq[q].addr_ready
                            /\ lsq'[q].data = lsq[q].data
      <4>1. lsq \in [LsqIdx -> SlotRecord]
        BY <2>1 DEF RingInv, TypeOK
      <4> QED BY <3>1, <4>1 DEF ReleaseLsq, SlotRecord
    <3>4. \A k \in MemoryEntries : rob[k].lsq_idx \in LsqIdx
      BY <2>1 DEF SlotsInv, EntriesHaveSlots, ValidSlots
    <3>5. LsqReadyWhenExecuted'
      <4>1. ASSUME NEW k \in RobIdx, k \in MemoryEntries'
            PROVE  /\ rob'[k] = rob[k] /\ k \in MemoryEntries
                   /\ lsq'[rob[k].lsq_idx].addr_ready = lsq[rob[k].lsq_idx].addr_ready
                   /\ lsq'[rob[k].lsq_idx].data = lsq[rob[k].lsq_idx].data
        BY <2>2, <3>3, <3>4, <4>1
      <4> QED BY <2>1, <4>1 DEF LsqReadyWhenExecuted, MemoryEntries
    <3> QED BY <3>2, <3>5
  <2>5. CASE ~is_memory_op(HeadEntry.op)
    <3>1. UNCHANGED lsqVars
      BY <1>2, <2>5 DEF CommitStore, CommitRegister, is_memory_op
    <3>2. rob_head \notin MemoryEntries
      BY <2>5 DEF MemoryEntries, HeadEntry
    <3>3. SameMemory
      BY <2>2, <2>3, <3>2 DEF SameMemory
    <3>4. SlotsInv'
      BY <2>1, <3>1, <3>3, SlotsFrame DEF SameSlots, lsqVars
    <3>5. LsqReadyWhenExecuted'
      BY <2>1, <2>2, <2>3, <3>1, <3>2, ReadyFrame DEF lsqVars
    <3> QED BY <3>4, <3>5
  <2> QED BY <2>4, <2>5
<1> QED BY <1>1, <1>2 DEF Commit
-----------------------------------------------------------------------------
(* What is in flight when an instruction enters at the tail t. *)
LEMMA TailEnters ==
  ASSUME RingInv, CanFetch, ~RobFull, NEW q \in LsqIdx \cup {-1}, Enter(q),
         NEW t \in RobIdx, t = rob_tail
  PROVE  /\ t \notin MemoryEntries
         /\ \A k \in RobIdx : k # t => rob'[k] = rob[k]
         /\ rob'[t] = NewEntry(q)
         /\ MemoryEntries' = IF is_memory_op(Instr.op)
                             THEN MemoryEntries \cup {t} ELSE MemoryEntries
         /\ \A k \in MemoryEntries :
              /\ t \notin YoungerMemory(k)
              /\ YoungerMemory(k)' = IF is_memory_op(Instr.op)
                                     THEN YoungerMemory(k) \cup {t}
                                     ELSE YoungerMemory(k)
         /\ YoungerMemory(t)' = {}
<1>1. /\ ~InFlight(t)
      /\ \A k \in RobIdx : InFlight(k)' <=> InFlight(k) \/ k = t
      /\ \A k \in RobIdx : k # t => rob'[k] = rob[k]
      /\ rob'[t] = NewEntry(q) /\ rob'[t].op = Instr.op
  BY EnterRing DEF NewEntry
<1>2. \A k \in RobIdx : Age(k)' = Age(k) /\ Age(k) \in Int
  BY AgeOfHead DEF Enter, Fetch, Age, RingInv, TypeOK
<1>3. \A k \in RobIdx : InFlight(k) => Age(k) < Age(t)
  <2>1. rob_count \in Int
    BY DEF RingInv, TypeOK
  <2> QED BY <1>1, <1>2, <2>1 DEF InFlight
<1>4. MemoryEntries' = IF is_memory_op(Instr.op)
                       THEN MemoryEntries \cup {t} ELSE MemoryEntries
  BY <1>1 DEF MemoryEntries
<1>5. \A i, k \in RobIdx : Older(k, i)' <=> Age(k) < Age(i)
  BY <1>2 DEF Older
<1>6. ASSUME NEW k \in MemoryEntries
      PROVE  /\ t \notin YoungerMemory(k)
             /\ YoungerMemory(k)' = IF is_memory_op(Instr.op)
                                    THEN YoungerMemory(k) \cup {t}
                                    ELSE YoungerMemory(k)
  <2>1. k \in RobIdx /\ InFlight(k) /\ k # t
    BY <1>1 DEF MemoryEntries
  <2>2. Older(k, t)' /\ \A i \in RobIdx : Older(k, i)' <=> Older(k, i)
    BY <1>3, <1>5, <2>1 DEF Older
  <2>3. \A i \in RobIdx : (InFlight(i) /\ Older(k, i) /\ is_memory_op(rob[i].op))'
                            <=> \/ InFlight(i) /\ Older(k, i) /\ is_memory_op(rob[i].op)
                                \/ i = t /\ is_memory_op(Instr.op)
    BY <1>1, <2>1, <2>2
  <2> QED BY <1>1, <2>3 DEF YoungerMemory
<1>7. YoungerMemory(t)' = {}
  <2>1. ASSUME NEW i \in RobIdx PROVE ~(InFlight(i) /\ Older(t, i))'
    <3>1. CASE i = t
      BY <1>2, <1>5, <3>1
    <3>2. CASE i # t
      BY <1>1, <1>2, <1>3, <1>5, <3>2
    <3> QED BY <3>1, <3>2
  <2> QED BY <2>1 DEF YoungerMemory
<1> QED BY <1>1, <1>4, <1>6, <1>7 DEF MemoryEntries

(* The slot at lsq_tail is free when the queue has room: its entry would   *)
(* have LSQ_SIZE - 1 younger loads and stores.                             *)
LEMMA LsqTailIsFree ==
  ASSUME RingInv, SlotsInv, lsq_count < LSQ_SIZE PROVE lsq_tail \notin ValidSlots
<1> SUFFICES ASSUME lsq_tail \in ValidSlots PROVE FALSE
  OBVIOUS
<1>1. PICK k \in MemoryEntries : rob[k].lsq_idx = lsq_tail
  BY DEF SlotsInv, SlotsHaveEntries
<1>2. Cardinality(YoungerMemory(k)) = LSQ_SIZE - 1
  BY <1>1, SlotsRecede DEF SlotsInv, EntriesHaveSlots, SlotAge, RingInv, TypeOK
<1>3. k \notin YoungerMemory(k) /\ YoungerMemory(k) \cup {k} \in SUBSET MemoryEntries
  <2>1. k \in RobIdx /\ Age(k) \in Int
    BY AgeOfHead DEF MemoryEntries, Age, RingInv, TypeOK
  <2>2. ~Older(k, k)
    BY <2>1 DEF Older
  <2> QED BY <2>2 DEF YoungerMemory, MemoryEntries
<1>4. IsFiniteSet(MemoryEntries) /\ IsFiniteSet(YoungerMemory(k))
  BY FiniteIndices DEF MemoryEntries, YoungerMemory
<1>5. Cardinality(YoungerMemory(k) \cup {k}) = Cardinality(YoungerMemory(k)) + 1
  BY <1>3, <1>4, FS_AddElement
<1>6. Cardinality(YoungerMemory(k) \cup {k}) <= Cardinality(MemoryEntries)
  BY <1>3, <1>4, FS_Subset
<1>7. /\ LSQ_SIZE \in Nat /\ lsq_count = Cardinality(MemoryEntries)
      /\ Cardinality(MemoryEntries) \in Nat
  BY SizeAssumption, FiniteIndices DEF SlotsInv, SlotsCounted, MemoryEntries
<1> QED BY <1>2, <1>5, <1>6, <1>7

(* A load or store that issues takes the slot at lsq_tail. *)
LEMMA SlotsTake ==
  ASSUME LsqInv, IssueMemory PROVE SlotsInv' /\ LsqReadyWhenExecuted'
<1>1. /\ RingInv /\ SlotsInv /\ LsqReadyWhenExecuted
      /\ CanFetch /\ ~RobFull /\ is_memory_op(Instr.op) /\ Enter(lsq_tail)
  BY DEF LsqInv, ServeInv, IssueMemory
<1>2. PICK t \in RobIdx : t = rob_tail
  BY <1>1 DEF RingInv, TypeOK
<1>3. PICK z \in LsqIdx : z = lsq_tail
  BY <1>1 DEF RingInv, TypeOK
<1>4. /\ t \notin MemoryEntries
      /\ MemoryEntries' = MemoryEntries \cup {t}
      /\ \A k \in RobIdx : k # t => rob'[k] = rob[k]
      /\ rob'[t] = NewEntry(z)
      /\ \A k \in MemoryEntries :
           t \notin YoungerMemory(k) /\ YoungerMemory(k)' = YoungerMemory(k) \cup {t}
      /\ YoungerMemory(t)' = {}
  BY <1>1, <1>2, <1>3, TailEnters
<1>5. rob'[t].lsq_idx = z /\ rob'[t].state = "ISSUED"
  BY <1>4 DEF NewEntry
<1>6. MemoryEntries \subseteq RobIdx /\ \A k \in MemoryEntries : rob'[k] = rob[k]
  BY <1>4 DEF MemoryEntries
<1>7. z \notin ValidSlots
  <2>1. lsq_count < LSQ_SIZE
    BY <1>1, SizeAssumption DEF IssueMemory, LsqFull, RingInv, TypeOK
  <2> QED BY <1>1, <1>3, <2>1, LsqTailIsFree
<1>8. /\ lsq_tail' = NextLsq(z) /\ lsq_count' = lsq_count + 1
      /\ \A q \in LsqIdx : q # z => lsq'[q] = lsq[q]
      /\ lsq'[z].valid /\ lsq'[z].rob_idx = t
      /\ ~lsq'[z].addr_ready /\ lsq'[z].data = NoValue
  BY <1>1, <1>2, <1>3 DEF IssueMemory, EmptySlot, RingInv, TypeOK
<1>9. ValidSlots' = ValidSlots \cup {z}
  BY <1>8 DEF ValidSlots
<1>10. EntriesHaveSlots'
  <2>1. ASSUME NEW k \in MemoryEntries
        PROVE  /\ rob'[k].lsq_idx \in ValidSlots' /\ lsq'[rob'[k].lsq_idx].rob_idx = k
               /\ SlotAge(rob[k].lsq_idx)' = Cardinality(YoungerMemory(k)')
    <3>1. PICK q \in ValidSlots : q = rob[k].lsq_idx
      BY <1>1 DEF SlotsInv, EntriesHaveSlots
    <3>2. /\ q \in LsqIdx /\ q # z /\ rob'[k].lsq_idx = q /\ lsq[q].rob_idx = k
          /\ (z - q - 1) % LSQ_SIZE = Cardinality(YoungerMemory(k))
      BY <1>1, <1>3, <1>6, <1>7, <3>1
         DEF SlotsInv, EntriesHaveSlots, ValidSlots, SlotAge
    <3>3. (lsq_tail' - rob'[k].lsq_idx - 1) % LSQ_SIZE
            = Cardinality(YoungerMemory(k)) + 1
      BY <1>8, <3>2, SlotsRecede
    <3>4. Cardinality(YoungerMemory(k) \cup {t}) = Cardinality(YoungerMemory(k)) + 1
      <4>1. IsFiniteSet(YoungerMemory(k))
        BY FiniteIndices DEF YoungerMemory
      <4> QED BY <1>4, <4>1, FS_AddElement
    <3> QED BY <1>4, <1>8, <1>9, <3>2, <3>3, <3>4 DEF SlotAge
  <2>2. /\ rob'[t].lsq_idx \in ValidSlots' /\ lsq'[rob'[t].lsq_idx].rob_idx = t
        /\ SlotAge(rob[t].lsq_idx)' = Cardinality(YoungerMemory(t)')
    <3>1. (lsq_tail' - rob'[t].lsq_idx - 1) % LSQ_SIZE = 0
      BY <1>5, <1>8, SlotsRecede
    <3>2. Cardinality(YoungerMemory(t)') = 0
      BY <1>4, FS_EmptySet
    <3> QED BY <1>5, <1>8, <1>9, <3>1, <3>2 DEF SlotAge
  <2> QED BY <1>4, <2>1, <2>2 DEF EntriesHaveSlots
<1>11. SlotsHaveEntries'
  <2>1. ASSUME NEW q \in ValidSlots
        PROVE  lsq'[q].rob_idx \in MemoryEntries' /\ rob'[lsq'[q].rob_idx].lsq_idx = q
    <3>1. lsq[q].rob_idx \in MemoryEntries /\ rob[lsq[q].rob_idx].lsq_idx = q
      BY <1>1 DEF SlotsInv, SlotsHaveEntries
    <3>2. lsq'[q] = lsq[q]
      BY <1>7, <1>8 DEF ValidSlots
    <3> QED BY <1>4, <1>6, <3>1, <3>2
  <2>2. lsq'[z].rob_idx \in MemoryEntries' /\ rob'[lsq'[z].rob_idx].lsq_idx = z
    BY <1>4, <1>5, <1>8
  <2> QED BY <1>9, <2>1, <2>2 DEF SlotsHaveEntries
<1>12. SlotsCounted'
  <2>1. IsFiniteSet(MemoryEntries) /\ IsFiniteSet(ValidSlots)
    BY FiniteIndices DEF MemoryEntries, ValidSlots
  <2>2. Cardinality(MemoryEntries') = Cardinality(MemoryEntries) + 1
    BY <1>4, <2>1, FS_AddElement
  <2>3. Cardinality(ValidSlots') = Cardinality(ValidSlots) + 1
    BY <1>7, <1>9, <2>1, FS_AddElement
  <2> QED BY <1>1, <1>8, <2>2, <2>3 DEF SlotsInv, SlotsCounted
<1>13. LsqReadyWhenExecuted'
  <2>1. ASSUME NEW k \in MemoryEntries
        PROVE  rob'[k] = rob[k] /\ lsq'[rob[k].lsq_idx] = lsq[rob[k].lsq_idx]
    <3>1. rob[k].lsq_idx \in ValidSlots
      BY <1>1 DEF SlotsInv, EntriesHaveSlots
    <3> QED BY <1>6, <1>7, <1>8, <3>1 DEF ValidSlots
  <2>2. ASSUME NEW k \in RobIdx, k \in MemoryEntries'
        PROVE  /\ lsq'[rob'[k].lsq_idx].addr_ready <=> rob'[k].state = "EXECUTED"
               /\ is_store_op(rob'[k].op) =>
                    (lsq'[rob'[k].lsq_idx].data # NoValue
                       <=> lsq'[rob'[k].lsq_idx].addr_ready)
    <3>1. CASE k = t
      BY <1>5, <1>8, <3>1
    <3>2. CASE k # t
      <4>1. k \in MemoryEntries
        BY <1>4, <2>2, <3>2
      <4> QED BY <1>1, <2>1, <4>1 DEF LsqReadyWhenExecuted, MemoryEntries
    <3> QED BY <3>1, <3>2
  <2> QED BY <2>2 DEF LsqReadyWhenExecuted, MemoryEntries
<1> QED BY <1>10, <1>11, <1>12, <1>13 DEF SlotsInv

(* issue_instruction keeps the queue and the ROB matched. *)
LEMMA IssueSlots ==
  ASSUME LsqInv, Issue PROVE SlotsInv' /\ LsqReadyWhenExecuted'
<1>1. CASE IssueMemory
  BY <1>1, SlotsTake
<1>2. CASE IssueNothing \/ StallArith \/ StallMemory
  <2>1. UNCHANGED <<rob_head, rob_count, lsq, lsq_tail, lsq_count>>
    BY <1>2 DEF IssueNothing, StallArith, StallMemory, Fetch, lsqVars
  <2>2. \A k \in RobIdx : InFlight(k) => rob'[k] = rob[k]
    BY <1>2, TailWritten
       DEF IssueNothing, StallArith, StallMemory, LsqInv, ServeInv
  <2>3. SameMemory
    BY <2>1, <2>2, SameFlight DEF InFlight, Age
  <2>4. SlotsInv'
    BY <2>1, <2>3, SlotsFrame DEF LsqInv, SameSlots
  <2>5. LsqReadyWhenExecuted'
    BY <2>1, <2>2, <2>3, ReadyFrame DEF LsqInv, SameMemory, MemoryEntries
  <2> QED BY <2>4, <2>5
<1>3. CASE IssueArith
  <2>1. /\ RingInv /\ CanFetch /\ ~RobFull /\ ~is_memory_op(Instr.op) /\ Enter(-1)
        /\ UNCHANGED lsqVars
    BY <1>3 DEF IssueArith, LsqInv, ServeInv
  <2>2. PICK t \in RobIdx : t = rob_tail
    BY <2>1 DEF RingInv, TypeOK
  <2>3. /\ t \notin MemoryEntries /\ MemoryEntries' = MemoryEntries
        /\ \A k \in RobIdx : k # t => rob'[k] = rob[k]
        /\ \A k \in MemoryEntries : YoungerMemory(k)' = YoungerMemory(k)
    BY <2>1, <2>2, TailEnters
  <2>4. \A k \in MemoryEntries : rob'[k] = rob[k]
    BY <2>3 DEF MemoryEntries
  <2>5. SlotsInv'
    BY <2>1, <2>3, <2>4, SlotsFrame DEF LsqInv, SameMemory, SameSlots, lsqVars
  <2>6. LsqReadyWhenExecuted'
    BY <2>1, <2>3, <2>4, ReadyFrame DEF LsqInv, lsqVars
  <2> QED BY <2>5, <2>6
<1> QED BY <1>1, <1>2, <1>3 DEF Issue
-----------------------------------------------------------------------------
(* try_launch_to_fu touches neither the queue nor what it is matched with. *)
LEMMA LaunchSlots ==
  ASSUME LsqInv, Launch PROVE SlotsInv' /\ LsqReadyWhenExecuted'
<1>1. UNCHANGED <<rob_head, rob_count, lsq, lsq_tail, lsq_count>>
  BY DEF Launch, lsqVars
<1>2. ASSUME NEW k \in RobIdx
      PROVE  /\ rob'[k].op = rob[k].op /\ rob'[k].lsq_idx = rob[k].lsq_idx
             /\ rob'[k].state = "EXECUTED" <=> rob[k].state = "EXECUTED"
  <2>1. rob[k] \in EntryRecord
    BY DEF LsqInv, ServeInv, RingInv, TypeOK
  <2>2. rob'[k] = rob[k] \/ rob'[k] = [rob[k] EXCEPT !.state = "EXECUTING"]
    BY DEF Launch
  <2>3. rob'[k].state # rob[k].state =>
          rob[k].state = "ISSUED" /\ rob'[k].state = "EXECUTING"
    <3>1. k \in LaunchedEntries => rob[k].state = "ISSUED"
      BY LaunchedWereIssued DEF LsqInv
    <3> QED BY <2>1, <3>1 DEF Launch, EntryRecord
  <2> QED BY <2>1, <2>2, <2>3 DEF EntryRecord
<1>3. SameMemory
  BY <1>1, <1>2, SameFlight DEF InFlight, Age
<1>4. SlotsInv'
  BY <1>1, <1>3, SlotsFrame DEF LsqInv, SameSlots
<1>5. LsqReadyWhenExecuted'
  BY <1>1, <1>2, <1>3, ReadyFrame DEF LsqInv, SameMemory, MemoryEntries
<1> QED BY <1>4, <1>5

(* A unit that completes for a load or a store is one of the array its     *)
(* operation belongs to, and writes the slot of its own entry.             *)
LEMMA DeliveredAccess ==
  ASSUME LsqInv, NEW u \in Delivered
  PROVE  /\ u \in UnitId /\ fus[u].rob_idx \in RobIdx /\ InFlight(fus[u].rob_idx)
         /\ u[1] = station_type(rob[fus[u].rob_idx].op)
<1>1. u \in UnitId /\ fus[u].busy
  BY DEF Delivered, Completed
<1>2. /\ StationOf(u) \in StationId /\ rs[StationOf(u)].busy
      /\ rs[StationOf(u)].ROB_idx = fus[u].rob_idx
      /\ fus[u].rob_idx \in RobIdx /\ InFlight(fus[u].rob_idx)
  BY <1>1, BusyUnit DEF LsqInv, Running
<1>3. StationOf(u)[1] = u[1]
  BY DEF StationOf
<1>4. StationOf(u)[1] = station_type(rob[fus[u].rob_idx].op)
  BY <1>2 DEF LsqInv, ServeInv, StationsServeRob
<1> QED BY <1>1, <1>2, <1>3, <1>4

LEMMA AccessTypes ==
  ASSUME NEW op
  PROVE  /\ station_type(op) \in {"LOAD", "STORE"} <=> is_memory_op(op)
         /\ station_type(op) = "STORE" <=> is_store_op(op)
<1> USE DEF is_memory_op, is_load_op, is_store_op, station_type
<1>1. CASE is_load_op(op) \/ is_store_op(op)
  BY <1>1 DEF is_alu_op, is_muldiv_op, is_fp_add_op, is_fp_mul_op, is_fp_div_op,
     alu_ops, muldiv_ops
<1>2. CASE ~is_load_op(op) /\ ~is_store_op(op)
  BY <1>2 DEF is_alu_op, is_muldiv_op, is_fp_add_op, is_fp_mul_op, is_fp_div_op,
     alu_ops, muldiv_ops
<1> QED BY <1>1, <1>2

(* process_fu_array writes the slot of a load or store exactly when it     *)
(* completes the entry.                                                    *)
LEMMA AddressedWithEntry ==
  ASSUME LsqInv, NEW k \in MemoryEntries
  PROVE  AddressedTo(rob[k].lsq_idx) = DeliveredTo(k)
<1>1. k \in RobIdx /\ is_memory_op(rob[k].op)
  BY DEF MemoryEntries
<1>2. ASSUME NEW u \in DeliveredTo(k) PROVE u \in AddressedTo(rob[k].lsq_idx)
  BY <1>1, DeliveredAccess, AccessTypes DEF DeliveredTo, AddressedTo
<1>3. ASSUME NEW u \in AddressedTo(rob[k].lsq_idx) PROVE u \in DeliveredTo(k)
  <2>1. /\ u \in Delivered /\ u[1] \in {"LOAD", "STORE"}
        /\ rob[fus[u].rob_idx].lsq_idx = rob[k].lsq_idx
    BY DEF AddressedTo
  <2>2. fus[u].rob_idx \in MemoryEntries
    BY <2>1, DeliveredAccess, AccessTypes DEF MemoryEntries
  <2>3. fus[u].rob_idx = k
    BY <2>1, <2>2 DEF LsqInv, SlotsInv, EntriesHaveSlots
  <2> QED BY <2>1, <2>3 DEF DeliveredTo
<1> QED BY <1>2, <1>3

LEMMA AdvanceSlots ==
  ASSUME LsqInv, Advance PROVE SlotsInv' /\ LsqReadyWhenExecuted'
<1>1. /\ ServeInv /\ RingInv /\ SlotsInv /\ LsqReadyWhenExecuted
      /\ UNCHANGED <<rob_head, rob_count, lsq_tail, lsq_count>>
  BY DEF LsqInv, ServeInv, Advance
<1>2. ASSUME NEW q \in LsqIdx
      PROVE  /\ lsq'[q] = IF AddressedTo(q) = {} THEN lsq[q]
                          ELSE AddressedSlot(q, CHOOSE u \in AddressedTo(q) : TRUE)
             /\ lsq[q] \in SlotRecord
  BY <1>1 DEF Advance, RingInv, TypeOK
<1>3. ASSUME NEW q \in LsqIdx, NEW u
      PROVE  /\ AddressedSlot(q, u).valid = lsq[q].valid
             /\ AddressedSlot(q, u).rob_idx = lsq[q].rob_idx
             /\ AddressedSlot(q, u).addr_ready = TRUE
             /\ u[1] = "STORE" => AddressedSlot(q, u).data = fus[u].v2
  BY <1>2 DEF AddressedSlot, SlotRecord
<1>4. SameSlots
  BY <1>1, <1>2, <1>3 DEF SameSlots
<1>5. ASSUME NEW k \in RobIdx
      PROVE  /\ rob'[k].op = rob[k].op /\ rob'[k].lsq_idx = rob[k].lsq_idx
             /\ InFlight(k)' <=> InFlight(k)
             /\ rob'[k].state = IF DeliveredTo(k) = {} THEN rob[k].state
                                ELSE "EXECUTED"
  <2>1. rob[k] \in EntryRecord
    BY <1>1 DEF RingInv, TypeOK
  <2>2. \A u : CompletedEntry(k, u).lsq_idx = rob[k].lsq_idx
    BY <2>1 DEF CompletedEntry, EntryRecord
  <2>3. rob'[k].lsq_idx = rob[k].lsq_idx
    BY <2>2 DEF Advance
  <2> QED BY <1>1, <2>3, AfterAdvance
<1>6. SameMemory
  BY <1>1, <1>5, SameFlight
<1>7. SlotsInv'
  BY <1>1, <1>4, <1>6, SlotsFrame
<1>8. ASSUME NEW k \in MemoryEntries
      PROVE  /\ lsq'[rob'[k].lsq_idx].addr_ready <=> rob'[k].state = "EXECUTED"
             /\ is_store_op(rob'[k].op) =>
                  (lsq'[rob'[k].lsq_idx].data # NoValue
                     <=> lsq'[rob'[k].lsq_idx].addr_ready)
  <2>1. k \in RobIdx /\ rob[k].lsq_idx \in LsqIdx
    BY <1>1 DEF MemoryEntries, SlotsInv, EntriesHaveSlots, ValidSlots
  <2>2. AddressedTo(rob[k].lsq_idx) = DeliveredTo(k)
    BY AddressedWithEntry
  <2>3. CASE DeliveredTo(k) = {}
    <3>1. lsq'[rob[k].lsq_idx] = lsq[rob[k].lsq_idx] /\ rob'[k].state = rob[k].state
      BY <1>2, <1>5, <2>1, <2>2, <2>3
    <3> QED BY <1>1, <1>5, <2>1, <3>1 DEF LsqReadyWhenExecuted, MemoryEntries
  <2>4. CASE DeliveredTo(k) # {}
    <3>1. PICK u \in DeliveredTo(k) :
            lsq'[rob[k].lsq_idx] = AddressedSlot(rob[k].lsq_idx, u)
      BY <1>2, <2>1, <2>2, <2>4
    <3>2. /\ u \in Delivered /\ u \in UnitId
          /\ is_store_op(rob[k].op) => u[1] = "STORE"
      BY DeliveredAccess, AccessTypes DEF DeliveredTo
    <3>3. fus[u].v2 # NoValue
      BY <1>1, <3>2, Values DEF RingInv, TypeOK, UnitRecord
    <3>4. /\ lsq'[rob[k].lsq_idx].addr_ready = TRUE
          /\ u[1] = "STORE" => lsq'[rob[k].lsq_idx].data = fus[u].v2
      BY <1>3, <2>1, <3>1
    <3>5. /\ rob'[k].op = rob[k].op /\ rob'[k].lsq_idx = rob[k].lsq_idx
          /\ rob'[k].state = "EXECUTED"
      BY <1>5, <2>1, <2>4
    <3> QED BY <3>2, <3>3, <3>4, <3>5
  <2> QED BY <2>3, <2>4
<1>9. LsqReadyWhenExecuted'
  <2>1. MemoryEntries' = MemoryEntries
    BY <1>6 DEF SameMemory
  <2> QED BY <1>8, <2>1 DEF LsqReadyWhenExecuted, MemoryEntries
<1> QED BY <1>7, <1>9
-----------------------------------------------------------------------------
(* LsqInv is inductive. *)
LEMMA LsqInductive == LsqInv /\ [Next]_vars => LsqInv'
<1> SUFFICES ASSUME LsqInv, [Next]_vars
             PROVE  SlotsInv' /\ LsqReadyWhenExecuted'
  BY ServeInductive DEF LsqInv
<1>1. CASE Commit
  BY <1>1, CommitSlots
<1>2. CASE Launch
  BY <1>2, LaunchSlots
<1>3. CASE Advance
  BY <1>3, AdvanceSlots
<1>4. CASE Issue
  BY <1>4, IssueSlots
<1>5. CASE CDB_broadcast \/ AdvanceThrow \/ Stopped \/ UNCHANGED vars
  <2>1. UNCHANGED <<robVars, lsqVars>>
    BY <1>5 DEF CDB_broadcast, AdvanceThrow, Stopped, vars
  <2>2. SameMemory
    BY <2>1, SameFlight DEF robVars, InFlight, Age
  <2>3. SlotsInv'
    BY <2>1, <2>2, SlotsFrame DEF LsqInv, SameSlots, lsqVars
  <2>4. LsqReadyWhenExecuted'
    BY <2>1, <2>2, ReadyFrame DEF LsqInv, robVars, lsqVars, SameMemory
  <2> QED BY <2>3, <2>4
<1> QED BY <1>1, <1>2, <1>3, <1>4, <1>5 DEF Next

LEMMA LsqStarted == Started /\ LeftOver => LsqInv
<1> SUFFICES ASSUME Started, LeftOver PROVE LsqInv
  OBVIOUS
<1>1. MemoryEntries = {}
  BY ModRob, SizeAssumption DEF Started, MemoryEntries, InFlight, Age, RobIdx
<1>2. ValidSlots = {}
  BY DEF Started, ValidSlots, EmptySlot
<1>3. SlotsInv
  BY <1>1, <1>2, FS_EmptySet
     DEF SlotsInv, EntriesHaveSlots, SlotsHaveEntries, SlotsCounted, Started
<1>4. LsqReadyWhenExecuted
  BY <1>1 DEF LsqReadyWhenExecuted, MemoryEntries
<1> QED BY <1>3, <1>4, ServeStarted DEF LsqInv
LEMMA LsqInit == Init => LsqInv
BY LsqStarted DEF Init, LeftOver

LEMMA SlotsMatch == SlotsInv => LsqMatchesRob
BY DEF SlotsInv, EntriesHaveSlots, SlotsCounted, LsqMatchesRob, MemoryEntries,
   ValidSlots, YoungerMemory, SlotAge

(* The LSQ holds exactly the loads and stores in flight, in program order: *)
(* no slot is overwritten, leaked or given back twice, for any LSQ size,   *)
(* although only a tail and a count are kept and the head is found through *)
(* the ROB.                                                                *)
THEOREM LsqCorrect == Spec => []LsqMatchesRob
<1>1. LsqInv => LsqMatchesRob
  BY SlotsMatch DEF LsqInv
<1> QED BY LsqInit, LsqInductive, <1>1, PTL DEF Spec

(* A load or store has its address, and a store its data, in its slot      *)
(* exactly when it has executed: what "in theory ready after execute" in   *)
(* commit_head_of_rob relies on.                                           *)
THEOREM LsqReady == Spec => []LsqReadyWhenExecuted
<1>1. LsqInv => LsqReadyWhenExecuted
  BY DEF LsqInv
<1> QED BY LsqInit, LsqInductive, <1>1, PTL DEF Spec
==============================================================================

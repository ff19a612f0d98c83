---------------------------- MODULE WindowProofs ----------------------------
(***************************************************************************)
(* That the simulator core implements InstructionWindow for every size and *)
(* every program: the ROB between its head and its tail is the window, and *)
(* the window never holds more than the structures have room for.          *)
(***************************************************************************)
EXTENDS LsqProofs, SequenceTheorems

WindowEntry == [instr : Int, op : OpType,
                state : {"ISSUED", "EXECUTING", "EXECUTED", "COMMITTED"}]
View(k) == [instr |-> rob[k].instr, op |-> rob[k].op, state |-> rob[k].state]

(* The operators that InstructionWindow takes from other modules. *)
LEMMA WindowVocabulary ==
  /\ OutOfOrder!RSType = RSType
  /\ \A op : OutOfOrder!is_memory_op(op) = is_memory_op(op)
  /\ \A op : OutOfOrder!station_type(op) = station_type(op)
  /\ \A S : OutOfOrder!Cardinality(S) = Cardinality(S)
<1>1. OutOfOrder!RSType = RSType
  BY DEF OutOfOrder!RSType, RSType
<1>2. \A op : OutOfOrder!is_memory_op(op) = is_memory_op(op)
  BY DEF OutOfOrder!is_memory_op, OutOfOrder!is_load_op, OutOfOrder!is_store_op,
     is_memory_op, is_load_op, is_store_op
<1>3. \A op : OutOfOrder!station_type(op) = station_type(op)
  BY DEF OutOfOrder!station_type, OutOfOrder!is_load_op, OutOfOrder!is_store_op,
     OutOfOrder!is_alu_op, OutOfOrder!is_muldiv_op, OutOfOrder!is_fp_add_op,
     OutOfOrder!is_fp_mul_op, OutOfOrder!is_fp_div_op, OutOfOrder!alu_ops,
     OutOfOrder!muldiv_ops, station_type, is_load_op, is_store_op, is_alu_op,
     is_muldiv_op, is_fp_add_op, is_fp_mul_op, is_fp_div_op, alu_ops, muldiv_ops
<1>4. \A S : OutOfOrder!Cardinality(S) = Cardinality(S)
  BY DEF OutOfOrder!Cardinality, Cardinality
<1> QED BY <1>1, <1>2, <1>3, <1>4
-----------------------------------------------------------------------------
(* The positions of the window and the indices of the ring. *)
LEMMA SlotsInRing ==
  ASSUME NEW h \in RobIdx, NEW c \in 0 .. ROB_SIZE, NEW n \in 1 .. c, NEW m \in 1 .. c
  PROVE  /\ (h + n - 1) % ROB_SIZE \in RobIdx
         /\ (((h + n - 1) % ROB_SIZE) - h) % ROB_SIZE = n - 1
         /\ (h + n - 1) % ROB_SIZE = (h + m - 1) % ROB_SIZE => n = m
<1>1. ROB_SIZE \in Nat \ {0}
  BY SizeAssumption
<1>2. (h + n - 1) % ROB_SIZE =
        IF h + n - 1 < ROB_SIZE THEN h + n - 1 ELSE h + n - 1 - ROB_SIZE
  BY <1>1, ModRob DEF RobIdx
<1>3. (h + m - 1) % ROB_SIZE =
        IF h + m - 1 < ROB_SIZE THEN h + m - 1 ELSE h + m - 1 - ROB_SIZE
  BY <1>1, ModRob DEF RobIdx
<1>4. (h + n - 1) % ROB_SIZE \in RobIdx
  BY <1>1, <1>2 DEF RobIdx
<1>5. ASSUME NEW k \in RobIdx
      PROVE  (k - h) % ROB_SIZE = IF k < h THEN k - h + ROB_SIZE ELSE k - h
  BY <1>1, ModRob DEF RobIdx
<1>6. (((h + n - 1) % ROB_SIZE) - h) % ROB_SIZE = n - 1
  BY <1>1, <1>2, <1>4, <1>5 DEF RobIdx
<1> QED BY <1>1, <1>2, <1>3, <1>4, <1>6 DEF RobIdx

LEMMA WindowSlots ==
  ASSUME RingInv, NEW n \in 1 .. rob_count
  PROVE  /\ SlotAt(n) \in RobIdx /\ InFlight(SlotAt(n))
         /\ Age(SlotAt(n)) = n - 1
         /\ \A m \in 1 .. rob_count : SlotAt(m) = SlotAt(n) => m = n
<1>1. rob_head \in RobIdx /\ rob_count \in 0 .. ROB_SIZE
  BY DEF RingInv, TypeOK
<1>2. SlotAt(n) \in RobIdx /\ Age(SlotAt(n)) = n - 1
  BY <1>1, SlotsInRing DEF SlotAt, Age
<1>3. n - 1 < rob_count
  BY <1>1, SizeAssumption
<1>4. \A m \in 1 .. rob_count : SlotAt(m) = SlotAt(n) => m = n
  BY <1>1, SlotsInRing DEF SlotAt
<1> QED BY <1>2, <1>3, <1>4 DEF InFlight

IsSequence ==
  /\ Window \in Seq(WindowEntry) /\ Len(Window) = rob_count
  /\ DOMAIN Window = 1 .. rob_count
  /\ \A n \in 1 .. rob_count : Window[n] = View(SlotAt(n))

LEMMA WindowIsSequence == RingInv => IsSequence
<1> SUFFICES ASSUME RingInv PROVE IsSequence
  OBVIOUS
<1>1. rob_count \in Nat
  BY SizeAssumption DEF RingInv, TypeOK
<1>2. \A n \in 1 .. rob_count : Window[n] = View(SlotAt(n))
  BY DEF Window, View
<1>3. DOMAIN Window = 1 .. rob_count
  BY DEF Window
<1>4. ASSUME NEW n \in 1 .. rob_count PROVE Window[n] \in WindowEntry
  <2>1. rob[SlotAt(n)] \in EntryRecord
    BY WindowSlots DEF RingInv, TypeOK
  <2>2. View(SlotAt(n)) \in WindowEntry
    BY <2>1 DEF View, EntryRecord, WindowEntry
  <2> QED BY <1>2, <2>2
<1>5. Window \in [1 .. rob_count -> WindowEntry]
  BY <1>4 DEF Window
<1>6. Window \in Seq(WindowEntry)
  BY <1>1, <1>5, SeqDef
<1>7. Len(Window) = rob_count
  BY <1>1, <1>3, <1>6
<1> QED BY <1>2, <1>3, <1>6, <1>7 DEF IsSequence
-----------------------------------------------------------------------------
(* No more instructions in the window than the structures have room for:   *)
(* each needs a slot or a station or a unit of its own.                    *)
LEMMA AtMost ==
  ASSUME NEW S, NEW c \in Nat \ {0}, NEW f \in [S -> 0 .. c-1],
         \A a, b \in S : f[a] = f[b] => a = b
  PROVE  Cardinality(S) <= c
<1>1. f \in Injection(S, 0 .. c-1)
  BY DEF Injection, IsInjective
<1>2. c - 1 \in Int /\ ~(0 > c - 1)
  OBVIOUS
<1>3. IsFiniteSet(0 .. c-1) /\ Cardinality(0 .. c-1) = c
  BY <1>2, FS_Interval
<1> QED BY <1>1, <1>3, FS_Injection

LEMMA AccessesFit ==
  ASSUME LsqInv PROVE Cardinality(OutOfOrder!Accesses) <= LSQ_SIZE
<1> DEFINE S == OutOfOrder!Accesses
           f == [n \in S |-> rob[SlotAt(n)].lsq_idx]
<1>0. RingInv
  BY DEF LsqInv, ServeInv
<1>1. ASSUME NEW n \in S PROVE n \in 1 .. rob_count /\ SlotAt(n) \in MemoryEntries
  <2>1. n \in 1 .. rob_count /\ is_memory_op(View(SlotAt(n)).op)
    BY <1>0, WindowIsSequence, WindowVocabulary DEF IsSequence, OutOfOrder!Accesses
  <2> QED BY <1>0, <2>1, WindowSlots DEF MemoryEntries, View
<1>2. ASSUME NEW n \in S
      PROVE  f[n] \in 0 .. LSQ_SIZE-1 /\ lsq[f[n]].rob_idx = SlotAt(n)
  BY <1>1 DEF LsqInv, SlotsInv, EntriesHaveSlots, ValidSlots, LsqIdx
<1>3. ASSUME NEW a \in S, NEW b \in S, f[a] = f[b] PROVE a = b
  <2>1. SlotAt(a) = SlotAt(b)
    BY <1>2, <1>3
  <2> QED BY <1>0, <1>1, <2>1, WindowSlots
<1>4. f \in [S -> 0 .. LSQ_SIZE-1]
  BY <1>2
<1> HIDE DEF S, f
<1>5. Cardinality(S) <= LSQ_SIZE
  BY <1>3, <1>4, AtMost, SizeAssumption
<1> QED BY <1>5 DEF S

PendingOf(t) == OutOfOrder!OfClass(t) \cap OutOfOrder!InState({"ISSUED", "EXECUTING"})
RunningOf(t) == OutOfOrder!OfClass(t) \cap OutOfOrder!InState({"EXECUTING"})

LEMMA PendingOfClass ==
  ASSUME RingInv, NEW t \in RSType, NEW n \in PendingOf(t)
  PROVE  /\ n \in 1 .. rob_count /\ Pending(SlotAt(n))
         /\ station_type(rob[SlotAt(n)].op) = t
         /\ n \in RunningOf(t) => Running(SlotAt(n))
<1>1. /\ n \in 1 .. rob_count /\ station_type(View(SlotAt(n)).op) = t
      /\ View(SlotAt(n)).state \in {"ISSUED", "EXECUTING"}
      /\ n \in RunningOf(t) => View(SlotAt(n)).state = "EXECUTING"
  BY WindowIsSequence, WindowVocabulary
     DEF IsSequence, PendingOf, RunningOf, OutOfOrder!OfClass, OutOfOrder!InState
<1> QED BY <1>1, WindowSlots DEF View, Pending, Running

LEMMA StationsFit ==
  ASSUME LsqInv, NEW t \in RSType PROVE Cardinality(PendingOf(t)) <= NUM_RS[t]
<1> DEFINE Serves(i, n) == i \in 0 .. NUM_RS[t]-1 /\ rs[<<t, i>>].busy
                           /\ rs[<<t, i>>].ROB_idx = SlotAt(n)
           f == [n \in PendingOf(t) |-> CHOOSE i : Serves(i, n)]
<1>0. RingInv
  BY DEF LsqInv, ServeInv
<1>1. ASSUME NEW n \in PendingOf(t) PROVE \E i : Serves(i, n)
  <2>1. /\ Pending(SlotAt(n)) /\ SlotAt(n) \in RobIdx
        /\ station_type(rob[SlotAt(n)].op) = t
    BY <1>0, PendingOfClass DEF Pending, InFlight
  <2>2. PICK s \in StationId : rs[s].busy /\ rs[s].ROB_idx = SlotAt(n)
    BY <2>1 DEF LsqInv, ServeInv, StationsServeRob
  <2>3. s[1] = t
    BY <2>1, <2>2 DEF LsqInv, ServeInv, StationsServeRob
  <2>4. s = <<t, s[2]>> /\ s[2] \in 0 .. NUM_RS[t]-1
    BY <2>3 DEF StationId
  <2> QED BY <2>2, <2>4
<1>2. ASSUME NEW n \in PendingOf(t) PROVE Serves(f[n], n)
  BY <1>1
<1>3. ASSUME NEW a \in PendingOf(t), NEW b \in PendingOf(t), f[a] = f[b]
      PROVE  a = b
  <2>1. SlotAt(a) = SlotAt(b)
    BY <1>2, <1>3
  <2> QED BY <1>0, <2>1, PendingOfClass, WindowSlots
<1>4. f \in [PendingOf(t) -> 0 .. NUM_RS[t]-1]
  BY <1>2
<1>5. NUM_RS[t] \in Nat \ {0}
  BY SizeAssumption
<1> HIDE DEF f
<1> QED BY <1>3, <1>4, <1>5, AtMost

LEMMA UnitsFit ==
  ASSUME LsqInv, NEW t \in RSType PROVE Cardinality(RunningOf(t)) <= NUM_FU[t]
<1> DEFINE Works(j, n) == j \in 0 .. NUM_FU[t]-1 /\ fus[<<t, j>>].busy
                          /\ fus[<<t, j>>].rob_idx = SlotAt(n)
           f == [n \in RunningOf(t) |-> CHOOSE j : Works(j, n)]
<1>0. RingInv /\ ServeInv
  BY DEF LsqInv, ServeInv
<1>1. ASSUME NEW n \in RunningOf(t)
      PROVE  /\ n \in 1 .. rob_count /\ Running(SlotAt(n)) /\ SlotAt(n) \in RobIdx
             /\ station_type(rob[SlotAt(n)].op) = t
  <2>1. n \in PendingOf(t)
    BY DEF RunningOf, PendingOf, OutOfOrder!InState
  <2> QED BY <1>0, <2>1, PendingOfClass DEF Running, InFlight
<1>2. ASSUME NEW n \in RunningOf(t) PROVE \E j : Works(j, n)
  <2>1. PICK u \in UnitId : fus[u].busy /\ fus[u].rob_idx = SlotAt(n)
    BY <1>0, <1>1 DEF ServeInv, UnitsServeStations, Running
  <2>2. /\ StationOf(u) \in StationId /\ rs[StationOf(u)].busy
        /\ rs[StationOf(u)].ROB_idx = SlotAt(n) /\ StationOf(u)[1] = u[1]
    BY <1>0, <2>1, BusyUnit DEF StationOf
  <2>3. u[1] = t
    BY <1>0, <1>1, <2>2 DEF ServeInv, StationsServeRob
  <2>4. u = <<t, u[2]>> /\ u[2] \in 0 .. NUM_FU[t]-1
    BY <2>3 DEF UnitId
  <2> QED BY <2>1, <2>4
<1>3. ASSUME NEW n \in RunningOf(t) PROVE Works(f[n], n)
  BY <1>2
<1>4. ASSUME NEW a \in RunningOf(t), NEW b \in RunningOf(t), f[a] = f[b]
      PROVE  a = b
  <2>1. SlotAt(a) = SlotAt(b)
    BY <1>3, <1>4
  <2> QED BY <1>0, <1>1, <2>1, WindowSlots
<1>5. f \in [RunningOf(t) -> 0 .. NUM_FU[t]-1]
  BY <1>3
<1>6. NUM_FU[t] \in Nat \ {0}
  BY SizeAssumption
<1> HIDE DEF f
<1> QED BY <1>4, <1>5, <1>6, AtMost

LEMMA WindowFits == LsqInv => OutOfOrder!Fits
<1> SUFFICES ASSUME LsqInv PROVE OutOfOrder!Fits
  OBVIOUS
<1>1. RingInv
  BY DEF LsqInv, ServeInv
<1>2. Len(Window) <= ROB_SIZE
  BY <1>1, WindowIsSequence, SizeAssumption DEF IsSequence, RingInv, TypeOK
<1> QED BY <1>2, AccessesFit, StationsFit, UnitsFit, WindowVocabulary
        DEF OutOfOrder!Fits, PendingOf, RunningOf
-----------------------------------------------------------------------------
(* What the steps of the loop do to the window. *)
Kept(k) == rob'[k].instr = rob[k].instr /\ rob'[k].op = rob[k].op

LEMMA ViewsMatch ==
  ASSUME RingInv, RingInv', rob_count' = rob_count,
         NEW W \in Seq(WindowEntry), Len(W) = rob_count,
         \A n \in 1 .. rob_count : View(SlotAt(n))' = W[n]
  PROVE  Window' = W
<1>1. /\ Window' \in Seq(WindowEntry) /\ Len(Window') = rob_count
      /\ \A n \in 1 .. rob_count : Window'[n] = View(SlotAt(n))'
  <2>1. IsSequence'
    BY WindowIsSequence, PTL
  <2> QED BY <2>1 DEF IsSequence
<1>2. \A n \in 1 .. rob_count : Window'[n] = W[n]
  BY <1>1
<1> HIDE DEF Window
<1> QED BY <1>1, <1>2, SeqEqual

(* A step that moves no entry but those of T, and these to state s. *)
LEMMA WindowMoves ==
  ASSUME RingInv, RingInv', UNCHANGED <<rob_head, rob_count>>,
         NEW T, NEW s \in {"ISSUED", "EXECUTING", "EXECUTED", "COMMITTED"},
         \A k \in RobIdx : InFlight(k) =>
           Kept(k) /\ rob'[k].state = IF k \in T THEN s ELSE rob[k].state
  PROVE  Window' = OutOfOrder!Moved({n \in 1 .. rob_count : SlotAt(n) \in T}, s)
<1> DEFINE S == {n \in 1 .. rob_count : SlotAt(n) \in T}
           W == OutOfOrder!Moved(S, s)
<1>1. /\ Window \in Seq(WindowEntry) /\ Len(Window) = rob_count
      /\ DOMAIN Window = 1 .. rob_count
      /\ \A n \in 1 .. rob_count : Window[n] = View(SlotAt(n))
  BY WindowIsSequence DEF IsSequence
<1>2. W = [n \in 1 .. rob_count |->
             IF n \in S THEN [Window[n] EXCEPT !.state = s] ELSE Window[n]]
  BY <1>1 DEF OutOfOrder!Moved
<1>3. ASSUME NEW n \in 1 .. rob_count
      PROVE  W[n] \in WindowEntry /\ View(SlotAt(n))' = W[n]
  <2>1. /\ W[n] = IF n \in S THEN [Window[n] EXCEPT !.state = s] ELSE Window[n]
        /\ Window[n] \in WindowEntry /\ Window[n] = View(SlotAt(n))
    BY <1>1, <1>2
  <2>2. PICK k \in RobIdx : k = SlotAt(n) /\ InFlight(k)
    BY WindowSlots
  <2>3. SlotAt(n)' = k
    BY <2>2 DEF SlotAt
  <2>4. View(SlotAt(n))' = [instr |-> rob'[k].instr, op |-> rob'[k].op,
                            state |-> rob'[k].state]
    BY <2>3 DEF View, SlotAt
  <2>5. Kept(k) /\ rob'[k].state = IF k \in T THEN s ELSE rob[k].state
    BY <2>2
  <2>6. n \in S <=> k \in T
    BY <2>2
  <2> HIDE DEF S, W
  <2>7. CASE k \in T
    BY <2>1, <2>2, <2>4, <2>5, <2>6, <2>7 DEF View, Kept, WindowEntry
  <2>8. CASE k \notin T
    BY <2>1, <2>2, <2>4, <2>5, <2>6, <2>8 DEF View, Kept
  <2> QED BY <2>7, <2>8
<1>4. W \in [1 .. rob_count -> WindowEntry] /\ rob_count \in Nat
  <2>1. rob_count \in Nat
    BY SizeAssumption DEF RingInv, TypeOK
  <2>2. W = [n \in 1 .. rob_count |-> W[n]]
    BY <1>2
  <2>3. \A n \in 1 .. rob_count : W[n] \in WindowEntry
    BY <1>3
  <2> HIDE DEF W
  <2> QED BY <2>1, <2>2, <2>3
<1>5. W \in Seq(WindowEntry) /\ Len(W) = rob_count
  <2> HIDE DEF W
  <2> QED BY <1>4, SeqDef
<1> HIDE DEF W
<1>6. Window' = W
  BY <1>3, <1>5, ViewsMatch
<1> QED BY <1>6 DEF W, S

LEMMA WindowStays ==
  ASSUME RingInv, RingInv', UNCHANGED <<rob_head, rob_count>>,
         \A k \in RobIdx : InFlight(k) => rob'[k] = rob[k]
  PROVE  Window' = Window
<1>1. /\ Window \in Seq(WindowEntry) /\ Len(Window) = rob_count
      /\ \A n \in 1 .. rob_count : Window[n] = View(SlotAt(n))
  BY WindowIsSequence DEF IsSequence
<1>2. ASSUME NEW n \in 1 .. rob_count PROVE View(SlotAt(n))' = Window[n]
  <2>1. PICK k \in RobIdx : k = SlotAt(n) /\ InFlight(k)
    BY WindowSlots
  <2>2. SlotAt(n)' = k /\ rob'[k] = rob[k]
    BY <2>1 DEF SlotAt
  <2>3. View(SlotAt(n))' = [instr |-> rob'[k].instr, op |-> rob'[k].op,
                            state |-> rob'[k].state]
    BY <2>2 DEF View, SlotAt
  <2> QED BY <1>1, <2>1, <2>2, <2>3 DEF View
<1> HIDE DEF Window
<1> QED BY <1>1, <1>2, ViewsMatch

(* Committing the head takes the first instruction out of the window. *)
LEMMA CommitLeaves ==
  ASSUME RingInv, RingInv', rob_count > 0, ReleaseRob,
         rob[rob_head].state = "EXECUTED"
  PROVE  OutOfOrder!LeaveWindow
<1>1. /\ Window \in Seq(WindowEntry) /\ Len(Window) = rob_count
      /\ \A n \in 1 .. rob_count : Window[n] = View(SlotAt(n))
  BY WindowIsSequence DEF IsSequence
<1>2. /\ rob_head \in RobIdx /\ rob_count \in 1 .. ROB_SIZE
      /\ rob_head' = NextRob(rob_head) /\ rob_count' = rob_count - 1
  BY SizeAssumption DEF RingInv, TypeOK, ReleaseRob
<1>3. SlotAt(1) = rob_head
  BY <1>2, ModRob, SizeAssumption DEF SlotAt, RobIdx
<1>4. Window # <<>> /\ Head(Window) = View(rob_head)
  <2>1. Window # <<>> /\ Head(Window) = Window[1] /\ 1 \in 1 .. rob_count
    BY <1>1, <1>2
  <2> QED BY <1>1, <1>3, <2>1
<1>5. /\ Tail(Window) \in Seq(WindowEntry) /\ Len(Tail(Window)) = rob_count'
      /\ \A n \in 1 .. rob_count' : Tail(Window)[n] = Window[n + 1]
  <2> HIDE DEF Window
  <2> QED BY <1>1, <1>2, <1>4, HeadTailProperties
<1>6. ASSUME NEW n \in 1 .. rob_count'
      PROVE  Window'[n] = Tail(Window)[n]
  <2>1. n + 1 \in 1 .. rob_count
    BY <1>2
  <2>2. PICK k \in RobIdx : k = SlotAt(n + 1) /\ Age(k) = n + 1 - 1
    BY <2>1, WindowSlots
  <2>3. k # rob_head
    BY <1>2, <2>2, ModRob, SizeAssumption DEF Age, RobIdx
  <2>4. SlotAt(n)' = k
    <3>1. (NextRob(rob_head) + n - 1) % ROB_SIZE = (rob_head + (n + 1) - 1) % ROB_SIZE
      <4>1. NextRob(rob_head) = IF rob_head + 1 = ROB_SIZE THEN 0 ELSE rob_head + 1
        BY <1>2, ModRob, SizeAssumption DEF NextRob, RobIdx
      <4>2. n \in 1 .. ROB_SIZE - 1
        BY <1>2, SizeAssumption
      <4>3. CASE rob_head + 1 = ROB_SIZE
        BY <1>2, <4>1, <4>2, <4>3, ModRob, SizeAssumption DEF RobIdx
      <4>4. CASE rob_head + 1 # ROB_SIZE
        <5>1. NextRob(rob_head) + n - 1 = rob_head + (n + 1) - 1
          BY <1>2, <4>1, <4>2, <4>4, SizeAssumption DEF RobIdx
        <5> QED BY <5>1
      <4> QED BY <4>3, <4>4
    <3> QED BY <1>2, <2>2, <3>1 DEF SlotAt
  <2>5. rob'[k] = rob[k]
    BY <2>3, ReleaseRobKeepsRing
  <2>6. View(SlotAt(n))' = [instr |-> rob'[k].instr, op |-> rob'[k].op,
                            state |-> rob'[k].state]
    BY <2>4 DEF View, SlotAt
  <2>7. View(SlotAt(n))' = View(k)
    BY <2>5, <2>6 DEF View
  <2>8. Window'[n] = View(SlotAt(n))'
    BY DEF Window, View
  <2> QED BY <1>1, <1>5, <2>1, <2>2, <2>7, <2>8
<1>7. Window' \in Seq(WindowEntry) /\ Len(Window') = rob_count'
  <2>1. IsSequence'
    BY WindowIsSequence, PTL
  <2> QED BY <2>1 DEF IsSequence
<1>8. Window' = Tail(Window)
  <2> HIDE DEF Window
  <2> QED BY <1>5, <1>6, <1>7, SeqEqual
<1>9. Head(Window).state = "EXECUTED"
  BY <1>4 DEF View
<1> QED BY <1>4, <1>8, <1>9 DEF OutOfOrder!LeaveWindow

(* Issuing puts the instruction behind the youngest in the window. *)
LEMMA IssueEnters ==
  ASSUME RingInv, RingInv', CanFetch, ~RobFull, Free # {},
         NEW q \in LsqIdx \cup {-1}, Enter(q)
  PROVE  OutOfOrder!EnterWindow
<1> DEFINE e == [instr |-> next_fetch_branch, op |-> Instr.op, state |-> "ISSUED"]
           W == Append(Window, e)
<1>1. /\ Window \in Seq(WindowEntry) /\ Len(Window) = rob_count
      /\ \A n \in 1 .. rob_count : Window[n] = View(SlotAt(n))
  BY WindowIsSequence DEF IsSequence
<1>2. /\ rob_head \in RobIdx /\ rob_count \in 0 .. ROB_SIZE-1
      /\ rob_head' = rob_head /\ rob_count' = rob_count + 1
      /\ rob_tail = (rob_head + rob_count) % ROB_SIZE
  BY TailIsFree DEF RingInv, TypeOK, RobIsARing, Enter, Fetch
<1>3. Instr \in Instruction /\ next_fetch_branch \in 0 .. Len(instruction_queue)-1
      /\ next_fetch_branch \in Int
  BY FetchTypes DEF CanFetch, InProgram, RingInv, TypeOK
<1>4. e \in WindowEntry
  BY <1>3 DEF WindowEntry, Instruction
<1>5. /\ W \in Seq(WindowEntry) /\ Len(W) = rob_count'
      /\ W[rob_count + 1] = e /\ \A n \in 1 .. rob_count : W[n] = Window[n]
  <2> HIDE DEF Window, e
  <2> QED BY <1>1, <1>2, <1>4, AppendProperties
<1>6. ASSUME NEW n \in 1 .. rob_count' PROVE Window'[n] = W[n]
  <2>1. Window'[n] = View(SlotAt(n))' /\ SlotAt(n)' = SlotAt(n)
    BY <1>2 DEF Window, View, SlotAt
  <2>2. CASE n = rob_count + 1
    <3>1. SlotAt(n) = rob_tail
      BY <1>2, <2>2 DEF SlotAt
    <3>2. View(SlotAt(n))' = [instr |-> rob'[SlotAt(n)].instr,
             op |-> rob'[SlotAt(n)].op, state |-> rob'[SlotAt(n)].state]
      BY <2>1 DEF View, SlotAt
    <3>3. rob'[rob_tail] = NewEntry(q)
      BY EnterRing
    <3> QED BY <1>5, <2>1, <2>2, <3>1, <3>2, <3>3 DEF NewEntry
  <2>3. CASE n # rob_count + 1
    <3>1. n \in 1 .. rob_count
      BY <1>2, <2>3
    <3>2. PICK k \in RobIdx : k = SlotAt(n) /\ InFlight(k)
      BY <3>1, WindowSlots
    <3>3. rob'[k] = rob[k]
      BY <3>2, EnterRing
    <3>4. View(SlotAt(n))' = [instr |-> rob'[k].instr, op |-> rob'[k].op,
                              state |-> rob'[k].state]
      BY <2>1, <3>2 DEF View, SlotAt
    <3> QED BY <1>1, <1>5, <2>1, <3>1, <3>2, <3>3, <3>4 DEF View
  <2> QED BY <2>2, <2>3
<1>7. Window' \in Seq(WindowEntry) /\ Len(Window') = rob_count'
  <2>1. IsSequence'
    BY WindowIsSequence, PTL
  <2> QED BY <2>1 DEF IsSequence
<1>8. Window' = W
  <2> HIDE DEF Window, W
  <2> QED BY <1>5, <1>6, <1>7, SeqEqual
<1>9. station_type(instruction_queue[next_fetch_branch + 1].op) \in RSType
  BY DEF Free, StationId, Type, Instr
<1>10. W = Append(Window, [instr |-> next_fetch_branch,
                           op |-> instruction_queue[next_fetch_branch + 1].op,
                           state |-> "ISSUED"])
  BY DEF Instr
<1> QED BY <1>3, <1>8, <1>9, <1>10, WindowVocabulary DEF OutOfOrder!EnterWindow
-----------------------------------------------------------------------------
LEMMA WindowStep ==
  LsqInv /\ LsqInv' /\ [Next]_vars => [OutOfOrder!WindowNext]_(OutOfOrder!windowVars)
<1> SUFFICES ASSUME LsqInv, LsqInv', [Next]_vars
             PROVE  [OutOfOrder!WindowNext]_(OutOfOrder!windowVars)
  OBVIOUS
<1>1. RingInv /\ RingInv' /\ ServeInv
  BY DEF LsqInv, ServeInv
<1>2. OutOfOrder!Fits'
  BY WindowFits, PTL
<1>3. UNCHANGED instruction_queue
  BY DEF Next, Commit, CommitNothing, CommitStore, CommitRegister, CommitThrow,
         Launch, Advance, AdvanceThrow, Issue, IssueNothing, IssueArith, StallArith,
         IssueMemory, StallMemory, Enter, Fetch, CDB_broadcast, Stopped, vars, fetchVars
<1>4. \/ Window' = Window
      \/ OutOfOrder!EnterWindow \/ OutOfOrder!Begin \/ OutOfOrder!Complete
      \/ OutOfOrder!LeaveWindow
  <2>1. CASE UNCHANGED robVars
    BY <1>1, <2>1, WindowStays DEF robVars
  <2>2. CASE CommitStore \/ CommitRegister
    <3>1. rob_count > 0 /\ ReleaseRob /\ rob[rob_head].state = "EXECUTED"
      BY <2>2 DEF CommitStore, CommitRegister, CanCommit, HeadEntry
    <3> QED BY <1>1, <3>1, CommitLeaves
  <2>3. CASE Launch
    <3> DEFINE S == {n \in 1 .. rob_count : SlotAt(n) \in LaunchedEntries}
    <3>1. ASSUME NEW k \in RobIdx
          PROVE  Kept(k) /\ rob'[k].state = IF k \in LaunchedEntries THEN "EXECUTING"
                                            ELSE rob[k].state
      <4>1. rob[k] \in EntryRecord
        BY <1>1 DEF RingInv, TypeOK
      <4>2. rob'[k] = IF k \in LaunchedEntries
                      THEN [rob[k] EXCEPT !.state = "EXECUTING"] ELSE rob[k]
        BY <2>3 DEF Launch
      <4> QED BY <4>1, <4>2 DEF Kept, EntryRecord
    <3>2. UNCHANGED <<rob_head, rob_count>>
      BY <2>3 DEF Launch
    <3>3. Window' = OutOfOrder!Moved(S, "EXECUTING")
      BY <1>1, <3>1, <3>2, WindowMoves
    <3>4. S \in SUBSET OutOfOrder!InState({"ISSUED"})
      BY <1>1, LaunchedWereIssued, WindowIsSequence
         DEF IsSequence, View, OutOfOrder!InState
    <3> QED BY <3>3, <3>4 DEF OutOfOrder!Begin
  <2>4. CASE Advance
    <3> DEFINE T == {k \in RobIdx : DeliveredTo(k) # {}}
               S == {n \in 1 .. rob_count : SlotAt(n) \in T}
    <3>1. ASSUME NEW k \in RobIdx
          PROVE  Kept(k) /\ rob'[k].state = IF k \in T THEN "EXECUTED"
                                            ELSE rob[k].state
      <4>1. rob[k] \in EntryRecord
        BY <1>1 DEF RingInv, TypeOK
      <4>2. rob'[k] = IF DeliveredTo(k) = {} THEN rob[k]
                      ELSE CompletedEntry(k, CHOOSE u \in DeliveredTo(k) : TRUE)
        BY <2>4 DEF Advance
      <4>3. \A u : CompletedEntry(k, u).instr = rob[k].instr
                   /\ CompletedEntry(k, u).op = rob[k].op
        BY <4>1 DEF CompletedEntry, EntryRecord
      <4>4. Kept(k)
        BY <4>2, <4>3 DEF Kept
      <4> QED BY <1>1, <2>4, <4>4, AfterAdvance
    <3>2. UNCHANGED <<rob_head, rob_count>>
      BY <2>4 DEF Advance
    <3>3. Window' = OutOfOrder!Moved(S, "EXECUTED")
      BY <1>1, <3>1, <3>2, WindowMoves
    <3>4. \A k \in T : rob[k].state = "EXECUTING"
      BY <1>1, <2>4, AfterAdvance DEF Running
    <3>5. S \in SUBSET OutOfOrder!InState({"EXECUTING"})
      BY <1>1, <3>4, WindowIsSequence DEF IsSequence, View, OutOfOrder!InState
    <3> QED BY <3>3, <3>5 DEF OutOfOrder!Complete
  <2>5. CASE StallArith \/ StallMemory
    <3>1. /\ UNCHANGED <<rob_head, rob_count>> /\ CanFetch /\ ~RobFull
          /\ rob' = RobWithNew(-1)
      BY <2>5 DEF StallArith, StallMemory, Fetch
    <3>2. \A k \in RobIdx : InFlight(k) => rob'[k] = rob[k]
      BY <1>1, <3>1, TailWritten
    <3> QED BY <1>1, <3>1, <3>2, WindowStays
  <2>6. CASE IssueArith \/ IssueMemory
    <3>1. lsq_tail \in LsqIdx
      BY <1>1 DEF RingInv, TypeOK
    <3>2. PICK q \in LsqIdx \cup {-1} :
            CanFetch /\ ~RobFull /\ Free # {} /\ Enter(q)
      BY <2>6, <3>1 DEF IssueArith, IssueMemory, NoStation
    <3> QED BY <1>1, <3>2, IssueEnters
  <2> QED BY <2>1, <2>2, <2>3, <2>4, <2>5, <2>6
          DEF Next, Commit, Issue, CommitNothing, CommitThrow, AdvanceThrow,
              IssueNothing, CDB_broadcast, Stopped, vars, robVars, Fetch
<1> HIDE DEF Window
<1> QED BY <1>2, <1>3, <1>4 DEF OutOfOrder!WindowNext, OutOfOrder!windowVars

LEMMA WindowStarts == Init => OutOfOrder!WindowInit
<1> SUFFICES ASSUME Init PROVE OutOfOrder!WindowInit
  OBVIOUS
<1>1. rob_count = 0 /\ instruction_queue \in Programs
  BY DEF Init, Started
<1>2. Window \in Seq(WindowEntry) /\ Len(Window) = 0
  BY <1>1, LsqInit, WindowIsSequence DEF LsqInv, ServeInv, IsSequence
<1>3. Window = <<>>
  <2> HIDE DEF Window
  <2> QED BY <1>2, EmptySeq
<1> QED BY <1>1, <1>3 DEF OutOfOrder!WindowInit

(* The simulator core implements the window: whatever the program, its     *)
(* branches and the sizes, instructions enter in the order of fetch,       *)
(* leave, executed, in that order, and in between begin and complete one   *)
(* time each; never more than there is room for.                           *)
THEOREM WindowRefined == Spec => RefinesWindow
BY WindowStarts, WindowStep, LsqInit, LsqInductive, PTL
   DEF Spec, RefinesWindow, OutOfOrder!WindowSpec
=============================================================================

---------------------------- MODULE StationProofs ----------------------------
(***************************************************************************)
(* That every pending ROB entry is served by one reservation station and,  *)
(* while it executes, by one functional unit, for every size and every     *)
(* program; and from it that the entries of the ROB only progress.         *)
(***************************************************************************)
EXTENDS TomasuloProofs, FiniteSetTheorems

(* The inductive invariant: a station can only be matched with an entry    *)
(* whose index is one, in a ring.                                          *)
ServeInv == RingInv /\ StationsServeRob /\ UnitsServeStations

Running(k) == InFlight(k) /\ rob[k].state = "EXECUTING"

(* What a station says about the entry it works for. *)
SameStation(s) == /\ rs'[s].busy = rs[s].busy /\ rs'[s].op = rs[s].op
                  /\ rs'[s].ROB_idx = rs[s].ROB_idx

(* A busy unit and its station work for an entry that is executing. *)
LEMMA BusyUnit ==
  ASSUME ServeInv, NEW u \in UnitId, fus[u].busy
  PROVE  /\ StationOf(u) \in StationId /\ rs[StationOf(u)].busy
         /\ rs[StationOf(u)].ROB_idx = fus[u].rob_idx
         /\ fus[u].rob_idx \in RobIdx /\ Running(fus[u].rob_idx)
BY DEF ServeInv, StationsServeRob, UnitsServeStations, Pending, InFlight, Running

(* Steps that keep the stations and what they wait to serve. *)
LEMMA StationsFrame ==
  ASSUME ServeInv,
         \A s \in StationId : SameStation(s),
         \A k \in RobIdx : Pending(k)' <=> Pending(k),
         \A k \in RobIdx : Pending(k) => rob'[k].op = rob[k].op
  PROVE  StationsServeRob'
<1>1. \A k : Pending(k) => k \in RobIdx
  BY DEF Pending, InFlight
<1>2. ASSUME NEW s \in StationId, rs'[s].busy
      PROVE  /\ Pending(rs[s].ROB_idx)'
             /\ s[1] = station_type(rob'[rs'[s].ROB_idx].op)
             /\ rs'[s].op = rob'[rs'[s].ROB_idx].op
  <2>1. PICK k \in RobIdx : k = rs[s].ROB_idx /\ Pending(k)
    BY <1>1, <1>2 DEF ServeInv, StationsServeRob, SameStation
  <2>2. rs'[s].ROB_idx = k /\ Pending(k)' /\ rob'[k].op = rob[k].op
    BY <2>1 DEF SameStation
  <2>3. Pending(rs[s].ROB_idx)'
    BY <2>2 DEF Pending, InFlight, Age
  <2> QED BY <1>2, <2>1, <2>2, <2>3 DEF ServeInv, StationsServeRob, SameStation
<1>3. ASSUME NEW s \in StationId, NEW w \in StationId, rs'[s].busy,
             rs'[w].busy, rs'[s].ROB_idx = rs'[w].ROB_idx
      PROVE  s = w
  BY <1>3 DEF ServeInv, StationsServeRob, SameStation
<1>4. ASSUME NEW k \in RobIdx, Pending(k)'
      PROVE  \E s \in StationId : rs'[s].busy /\ rs'[s].ROB_idx = k
  BY <1>4 DEF ServeInv, StationsServeRob, SameStation
<1> QED BY <1>2, <1>3, <1>4 DEF StationsServeRob

(* Steps that keep the units, their stations and what executes. *)
LEMMA UnitsFrame ==
  ASSUME ServeInv, UNCHANGED fus,
         \A s \in StationId : rs[s].busy => SameStation(s),
         \A k \in RobIdx : Running(k)' <=> Running(k)
  PROVE  UnitsServeStations'
<1>1. ASSUME NEW u \in UnitId, fus[u].busy
      PROVE  /\ StationOf(u)' = StationOf(u) /\ StationOf(u) \in StationId
             /\ rs'[StationOf(u)].busy
             /\ rs'[StationOf(u)].ROB_idx = fus[u].rob_idx
             /\ rob'[fus[u].rob_idx].state = "EXECUTING"
  BY <1>1, BusyUnit DEF SameStation, Running, StationOf
<1>2. ASSUME NEW k \in RobIdx, Running(k)'
      PROVE  \E u \in UnitId : fus[u].busy /\ fus[u].rob_idx = k
  BY <1>2 DEF ServeInv, UnitsServeStations, Running
<1> QED BY <1>1, <1>2 DEF ServeInv, UnitsServeStations, Running
-----------------------------------------------------------------------------
(* The head that commits has no station left. *)
LEMMA CommitServe ==
  ASSUME ServeInv, Commit PROVE StationsServeRob' /\ UnitsServeStations'
<1>1. CASE CommitNothing \/ CommitThrow
  BY <1>1, StationsFrame, UnitsFrame DEF CommitNothing, CommitThrow, robVars, SameStation,
     Pending, Running, InFlight, Age
<1>2. CASE CommitStore \/ CommitRegister
  <2>1. /\ rob_count > 0 /\ ReleaseRob /\ rob[rob_head].state = "EXECUTED"
        /\ UNCHANGED <<rs, fus>>
    BY <1>2 DEF CommitStore, CommitRegister, CanCommit, HeadEntry
  <2>2. \A k \in RobIdx : InFlight(k)' <=> InFlight(k) /\ k # rob_head
    BY <2>1, ReleaseRobKeepsRing DEF ServeInv
  <2>3. \A k \in RobIdx : k # rob_head => rob'[k] = rob[k]
    BY <2>1, ReleaseRobKeepsRing DEF ServeInv
  <2>4. \A k \in RobIdx : /\ Pending(k)' <=> Pending(k)
                          /\ Running(k)' <=> Running(k)
    BY <2>1, <2>2, <2>3 DEF Pending, Running
  <2>5. \A k \in RobIdx : Pending(k) => rob'[k].op = rob[k].op
    BY <2>1, <2>3 DEF Pending
  <2> QED BY <2>1, <2>4, <2>5, StationsFrame, UnitsFrame DEF SameStation
<1> QED BY <1>1, <1>2 DEF Commit
-----------------------------------------------------------------------------
(* No two members of a set of indices have the same rank. *)
LEMMA RankInjective ==
  ASSUME NEW n \in Nat, NEW S \in SUBSET (0 .. n), NEW x \in S, NEW y \in S,
         Rank(x, S) = Rank(y, S)
  PROVE  x = y
<1>1. IsFiniteSet(S) /\ S \subseteq Int
  <2>1. IsFiniteSet(0 .. n)
    BY FS_Interval
  <2>2. IsFiniteSet(S)
    BY <2>1, FS_Subset
  <2>3. S \subseteq Int
    OBVIOUS
  <2> QED BY <2>2, <2>3
<1>2. ASSUME NEW a \in S, NEW b \in S, a < b PROVE Rank(a, S) # Rank(b, S)
  <2> DEFINE below(c) == {d \in S : d < c}
  <2>1. IsFiniteSet(below(b))
    <3>1. below(b) \in SUBSET S
      OBVIOUS
    <3> QED BY <1>1, <3>1, FS_Subset
  <2>2. below(a) \in SUBSET below(b)
    <3>1. \A d \in S : d < a => d < b
      BY <1>1, <1>2
    <3> QED BY <3>1
  <2>4. a \in below(b) /\ a \notin below(a)
    BY <1>1, <1>2
  <2>3. Rank(a, S) = Cardinality(below(a)) /\ Rank(b, S) = Cardinality(below(b))
    BY DEF Rank
  <2> HIDE DEF below
  <2> QED BY <2>1, <2>2, <2>3, <2>4, FS_Subset
<1>3. x < y \/ y < x \/ x = y
  BY <1>1
<1> QED BY <1>2, <1>3

(* A launch pairs stations and units one to one. *)
LEMMA LaunchesOneToOne ==
  ASSUME NEW t \in RSType, NEW i, NEW j, NEW i2, NEW j2,
         Launches(t, i, j), Launches(t, i2, j2)
  PROVE  i = i2 <=> j = j2
<1>1. NUM_RS[t] \in Nat /\ NUM_FU[t] \in Nat /\ NUM_RS[t] > 0 /\ NUM_FU[t] > 0
  BY SizeAssumption
<1>2. /\ Ready(t) \in SUBSET (0 .. NUM_RS[t]-1) /\ NUM_RS[t]-1 \in Nat
      /\ Idle(t) \in SUBSET (0 .. NUM_FU[t]-1) /\ NUM_FU[t]-1 \in Nat
  BY <1>1 DEF Ready, Idle
<1>3. i = i2 => j = j2
  BY <1>2, RankInjective DEF Launches
<1>4. j = j2 => i = i2
  BY <1>2, RankInjective DEF Launches
<1> QED BY <1>3, <1>4

(* What a launch does to one unit: nothing, or it gives an idle unit one   *)
(* ready station.                                                          *)
LEMMA UnitAfterLaunch ==
  ASSUME ServeInv, Launch, NEW u \in UnitId
  PROVE  \/ fus'[u] = fus[u] /\ \A i : ~Launches(u[1], i, u[2])
         \/ \E i : /\ Launches(u[1], i, u[2]) /\ ~fus[u].busy
                   /\ <<u[1], i>> \in StationId /\ rs[<<u[1], i>>].busy
                   /\ fus'[u].busy /\ fus'[u].rs_idx = i
                   /\ fus'[u].rob_idx = rs[<<u[1], i>>].ROB_idx
                   /\ fus'[u].rob_idx \in LaunchedEntries
                   /\ fus'[u].remaining_cycles > 0
<1>1. u[1] \in RSType /\ u = <<u[1], u[2]>>
  BY DEF UnitId
<1>2. CASE \A i : ~Launches(u[1], i, u[2])
  BY <1>2 DEF Launch
<1>3. CASE \E i : Launches(u[1], i, u[2])
  <2>1. \E i \in Ready(u[1]) : Launches(u[1], i, u[2])
    BY <1>3 DEF Launches
  <2>2. PICK i \in Ready(u[1]) : /\ Launches(u[1], i, u[2])
                                 /\ fus'[u] = LaunchedUnit(u[1], i)
    BY <2>1 DEF Launch
  <2>3. i \in 0 .. NUM_RS[u[1]]-1 /\ rs[<<u[1], i>>].busy
    BY DEF Ready
  <2>4. <<u[1], i>> \in StationId
    BY <1>1, <2>3, UnitIdParts
  <2>5. ~fus[u].busy
    BY <1>1, <2>2 DEF Launches, Idle
  <2>6. u[2] \in Idle(u[1])
    BY <2>2 DEF Launches
  <2>7. rs[<<u[1], i>>].ROB_idx \in LaunchedEntries
    BY <2>2, <2>4, <2>6 DEF LaunchedEntries
  <2>8. get_latency(rs[<<u[1], i>>].op) > 0
    BY DEF get_latency
  <2>9. /\ fus'[u].busy /\ fus'[u].rs_idx = i
        /\ fus'[u].rob_idx = rs[<<u[1], i>>].ROB_idx
        /\ fus'[u].remaining_cycles = get_latency(rs[<<u[1], i>>].op)
    BY <2>2 DEF LaunchedUnit
  <2> QED BY <2>2, <2>3, <2>4, <2>5, <2>7, <2>8, <2>9
<1> QED BY <1>2, <1>3

(* What is launched was pending and not yet executing. *)
LEMMA LaunchedWereIssued ==
  ASSUME ServeInv, NEW k \in LaunchedEntries
  PROVE  /\ k \in RobIdx /\ Pending(k) /\ rob[k].state = "ISSUED"
<1>1. PICK s \in StationId :
        (\E j \in Idle(s[1]) : Launches(s[1], s[2], j)) /\ k = rs[s].ROB_idx
  BY DEF LaunchedEntries
<1>2. s = <<s[1], s[2]>>
  BY StationIdParts
<1>3. rs[s].busy /\ rob[k].state = "ISSUED"
  BY <1>1, <1>2 DEF Launches, Ready
<1> QED BY <1>1, <1>3 DEF ServeInv, StationsServeRob, Pending, InFlight

(* try_launch_to_fu keeps the matching. *)
LEMMA LaunchServe ==
  ASSUME ServeInv, Launch PROVE StationsServeRob' /\ UnitsServeStations'
<1>1. /\ UNCHANGED <<rs, rob_head, rob_count>>
      /\ \A k \in RobIdx : /\ rob'[k].op = rob[k].op
                            /\ rob'[k].state = IF k \in LaunchedEntries
                                               THEN "EXECUTING" ELSE rob[k].state
  BY DEF Launch, ServeInv, RingInv, TypeOK, EntryRecord
<1>2. ASSUME NEW k \in RobIdx
      PROVE  /\ Pending(k)' <=> Pending(k)
             /\ Running(k)' <=> Running(k) \/ k \in LaunchedEntries
  <2>1. InFlight(k)' <=> InFlight(k)
    BY <1>1 DEF InFlight, Age
  <2>2. k \in LaunchedEntries => InFlight(k) /\ rob[k].state = "ISSUED"
    BY LaunchedWereIssued DEF Pending
  <2> QED BY <1>1, <2>1, <2>2 DEF Pending, Running
<1>3. StationsServeRob'
  <2>1. \A s \in StationId : SameStation(s)
    BY <1>1 DEF SameStation
  <2>2. \A k \in RobIdx : Pending(k)' <=> Pending(k)
    BY <1>2
  <2>3. \A k \in RobIdx : Pending(k) => rob'[k].op = rob[k].op
    BY <1>1
  <2> QED BY <2>1, <2>2, <2>3, StationsFrame
<1>4. ASSUME NEW u \in UnitId, fus'[u].busy, fus'[u] = fus[u]
      PROVE  fus[u].busy /\ Running(fus[u].rob_idx)
             /\ fus[u].rob_idx \in RobIdx /\ fus[u].rob_idx \notin LaunchedEntries
  BY <1>4, BusyUnit, LaunchedWereIssued DEF Running
<1>5. ASSUME NEW u \in UnitId, fus'[u].busy
      PROVE  /\ StationOf(u)' \in StationId /\ rs'[StationOf(u)'].busy
             /\ rs'[StationOf(u)'].ROB_idx = fus'[u].rob_idx
             /\ rob'[fus'[u].rob_idx].state = "EXECUTING"
             /\ fus'[u].remaining_cycles > 0
  <2>1. CASE fus'[u] = fus[u]
    <3>1. StationOf(u)' = StationOf(u)
      BY <2>1 DEF StationOf
    <3>2. /\ fus[u].busy /\ fus[u].rob_idx \in RobIdx
          /\ rob[fus[u].rob_idx].state = "EXECUTING"
      BY <1>4, <1>5, <2>1 DEF Running
    <3>3. rob'[fus[u].rob_idx].state = "EXECUTING"
      BY <1>1, <3>2
    <3> QED BY <1>1, <2>1, <3>1, <3>2, <3>3, BusyUnit
            DEF ServeInv, UnitsServeStations
  <2>2. CASE fus'[u] # fus[u]
    <3>1. PICK i : /\ <<u[1], i>> \in StationId /\ rs[<<u[1], i>>].busy
                   /\ fus'[u].rs_idx = i
                   /\ fus'[u].rob_idx = rs[<<u[1], i>>].ROB_idx
                   /\ fus'[u].rob_idx \in LaunchedEntries
                   /\ fus'[u].remaining_cycles > 0
      BY <2>2, UnitAfterLaunch
    <3>2. StationOf(u)' = <<u[1], i>>
      BY <3>1 DEF StationOf
    <3>3. fus'[u].rob_idx \in RobIdx
      BY <3>1, LaunchedWereIssued
    <3>4. rob'[fus'[u].rob_idx].state = "EXECUTING"
      BY <1>1, <3>1, <3>3
    <3> QED BY <1>1, <3>1, <3>2, <3>4
  <2> QED BY <2>1, <2>2
<1>6. ASSUME NEW u \in UnitId, NEW w \in UnitId, fus'[u].busy, fus'[w].busy,
             fus'[u].rob_idx = fus'[w].rob_idx
      PROVE  u = w
  <2>1. CASE fus'[u] = fus[u] /\ fus'[w] = fus[w]
    <3>1. fus[u].busy /\ fus[w].busy /\ fus[u].rob_idx = fus[w].rob_idx
      BY <1>6, <2>1
    <3> QED BY <3>1 DEF ServeInv, UnitsServeStations
  <2>2. CASE fus'[u] = fus[u] /\ fus'[w] # fus[w]
    BY <1>4, <1>6, <2>2, UnitAfterLaunch
  <2>4. CASE fus'[u] # fus[u] /\ fus'[w] = fus[w]
    BY <1>4, <1>6, <2>4, UnitAfterLaunch
  <2>3. CASE fus'[u] # fus[u] /\ fus'[w] # fus[w]
    <3>1. PICK i : /\ <<u[1], i>> \in StationId /\ rs[<<u[1], i>>].busy
                   /\ fus'[u].rob_idx = rs[<<u[1], i>>].ROB_idx
                   /\ Launches(u[1], i, u[2])
      BY <2>3, UnitAfterLaunch
    <3>2. PICK h : /\ <<w[1], h>> \in StationId /\ rs[<<w[1], h>>].busy
                   /\ fus'[w].rob_idx = rs[<<w[1], h>>].ROB_idx
                   /\ Launches(w[1], h, w[2])
      BY <2>3, UnitAfterLaunch
    <3>3. <<u[1], i>> = <<w[1], h>>
      <4>1. \A s, v \in StationId : rs[s].busy /\ rs[v].busy
              /\ rs[s].ROB_idx = rs[v].ROB_idx => s = v
        BY DEF ServeInv, StationsServeRob
      <4> QED BY <1>6, <3>1, <3>2, <4>1
    <3>4. u[1] = w[1] /\ i = h /\ u[1] \in RSType
      BY <3>3, UnitIdParts
    <3>5. u[2] = w[2]
      BY <3>1, <3>2, <3>4, LaunchesOneToOne
    <3> QED BY <3>4, <3>5 DEF UnitId
  <2> QED BY <2>1, <2>2, <2>3, <2>4
<1>7. ASSUME NEW k \in RobIdx, Running(k)'
      PROVE  \E u \in UnitId : fus'[u].busy /\ fus'[u].rob_idx = k
  <2>1. CASE Running(k)
    <3>1. PICK u \in UnitId : fus[u].busy /\ fus[u].rob_idx = k
      BY <2>1 DEF ServeInv, UnitsServeStations, Running
    <3> QED BY <3>1, UnitAfterLaunch
  <2>2. CASE k \in LaunchedEntries
    <3>1. PICK s \in StationId :
            (\E j \in Idle(s[1]) : Launches(s[1], s[2], j)) /\ k = rs[s].ROB_idx
      BY <2>2 DEF LaunchedEntries
    <3>2. PICK j \in Idle(s[1]) : Launches(s[1], s[2], j)
      BY <3>1
    <3>3. s = <<s[1], s[2]>> /\ s[1] \in RSType
      BY StationIdParts
    <3> DEFINE u == <<s[1], j>>
    <3>4. u \in UnitId /\ u[1] = s[1] /\ u[2] = j
      BY <3>3 DEF UnitId, Idle
    <3> HIDE DEF u
    <3>5. Launches(u[1], s[2], u[2])
      BY <3>2, <3>4
    <3>6. PICK i : /\ Launches(u[1], i, u[2]) /\ fus'[u].busy
                   /\ fus'[u].rob_idx = rs[<<u[1], i>>].ROB_idx
      BY <3>4, <3>5, UnitAfterLaunch
    <3>7. /\ Launches(s[1], i, j) /\ fus'[u].busy
          /\ fus'[u].rob_idx = rs[<<s[1], i>>].ROB_idx
      BY <3>4, <3>6
    <3>8. i = s[2]
      BY <3>2, <3>3, <3>7, LaunchesOneToOne
    <3> QED BY <3>1, <3>3, <3>4, <3>7, <3>8
  <2> QED BY <1>2, <1>7, <2>1, <2>2
<1>8. UnitsServeStations'
  BY <1>5, <1>6, <1>7 DEF UnitsServeStations, Running
<1> QED BY <1>3, <1>8
-----------------------------------------------------------------------------
(* What process_fu_array does, given that every busy unit has a busy       *)
(* station: the units that complete take their entries and their stations  *)
(* with them.                                                              *)
LEMMA AfterAdvance ==
  ASSUME ServeInv, Advance
  PROVE  /\ \A k \in RobIdx :
              /\ rob'[k].op = rob[k].op
              /\ InFlight(k)' <=> InFlight(k)
              /\ rob'[k].state = IF DeliveredTo(k) = {} THEN rob[k].state
                                 ELSE "EXECUTED"
              /\ DeliveredTo(k) # {} => Running(k)
         /\ \A s \in StationId :
              /\ rs'[s].op = rs[s].op /\ rs'[s].ROB_idx = rs[s].ROB_idx
              /\ rs'[s].busy <=> rs[s].busy /\ DeliveredTo(rs[s].ROB_idx) = {}
         /\ \A u \in UnitId :
              /\ fus'[u].rob_idx = fus[u].rob_idx /\ fus'[u].rs_idx = fus[u].rs_idx
              /\ fus'[u].busy <=> fus[u].busy /\ DeliveredTo(fus[u].rob_idx) = {}
              /\ fus'[u].busy => fus'[u].remaining_cycles > 0
<1>1. \A u \in Completed : u \in UnitId /\ fus[u].busy /\ u \in Delivered
  BY BusyUnit DEF Completed, Delivered
<1>2. \A u \in Delivered : u \in Completed
  BY DEF Delivered
<1>3. ASSUME NEW k \in RobIdx
      PROVE  /\ rob'[k].op = rob[k].op
             /\ InFlight(k)' <=> InFlight(k)
             /\ rob'[k].state = IF DeliveredTo(k) = {} THEN rob[k].state
                                ELSE "EXECUTED"
             /\ DeliveredTo(k) # {} => Running(k)
  <2>1. InFlight(k)' <=> InFlight(k)
    BY DEF Advance, InFlight, Age
  <2>2. DeliveredTo(k) # {} => Running(k)
    BY <1>1, <1>2, BusyUnit DEF DeliveredTo
  <2>3. rob[k] \in EntryRecord
    BY DEF ServeInv, RingInv, TypeOK
  <2>4. \A u : CompletedEntry(k, u).op = rob[k].op
               /\ CompletedEntry(k, u).state = "EXECUTED"
    BY <2>3 DEF CompletedEntry, EntryRecord
  <2>5. rob'[k] = IF DeliveredTo(k) = {} THEN rob[k]
                  ELSE CompletedEntry(k, CHOOSE u \in DeliveredTo(k) : TRUE)
    BY DEF Advance
  <2> QED BY <2>1, <2>2, <2>4, <2>5
<1>4. ASSUME NEW s \in StationId
      PROVE  /\ rs'[s].op = rs[s].op /\ rs'[s].ROB_idx = rs[s].ROB_idx
             /\ rs'[s].busy <=> rs[s].busy /\ DeliveredTo(rs[s].ROB_idx) = {}
  <2>1. rs[s] \in StationRecord
    BY DEF ServeInv, RingInv, TypeOK
  <2>2. rs'[s] = IF \E u \in Completed : StationOf(u) = s
                 THEN [rs[s] EXCEPT !.busy = FALSE] ELSE rs[s]
    BY DEF Advance
  <2>3. ASSUME NEW u \in Completed, StationOf(u) = s
        PROVE  DeliveredTo(rs[s].ROB_idx) # {}
    BY <1>1, <2>3, BusyUnit DEF DeliveredTo
  <2>4. ASSUME NEW u \in DeliveredTo(rs[s].ROB_idx), rs[s].busy
        PROVE  u \in Completed /\ StationOf(u) = s
    <3>1. u \in Completed /\ u \in UnitId /\ fus[u].busy
          /\ fus[u].rob_idx = rs[s].ROB_idx
      BY <1>1, <1>2 DEF DeliveredTo
    <3>2. /\ StationOf(u) \in StationId /\ rs[StationOf(u)].busy
          /\ rs[StationOf(u)].ROB_idx = rs[s].ROB_idx
      BY <3>1, BusyUnit
    <3> QED BY <2>4, <3>1, <3>2 DEF ServeInv, StationsServeRob
  <2> QED BY <2>1, <2>2, <2>3, <2>4 DEF StationRecord
<1>5. ASSUME NEW u \in UnitId
      PROVE  /\ fus'[u].rob_idx = fus[u].rob_idx /\ fus'[u].rs_idx = fus[u].rs_idx
             /\ fus'[u].busy <=> fus[u].busy /\ DeliveredTo(fus[u].rob_idx) = {}
             /\ fus'[u].busy => fus'[u].remaining_cycles > 0
  <2>1. fus[u] \in UnitRecord /\ fus[u].remaining_cycles \in Int
    BY DEF ServeInv, RingInv, TypeOK, UnitRecord
  <2>2. u \in Completed => DeliveredTo(fus[u].rob_idx) # {}
    BY <1>1 DEF DeliveredTo
  <2>3. ASSUME NEW w \in DeliveredTo(fus[u].rob_idx), fus[u].busy
        PROVE  u \in Completed
    <3>1. w \in Completed /\ w \in UnitId /\ fus[w].busy
          /\ fus[w].rob_idx = fus[u].rob_idx
      BY <1>1, <1>2 DEF DeliveredTo
    <3> QED BY <2>3, <3>1 DEF ServeInv, UnitsServeStations
  <2>4. CASE ~fus[u].busy
    BY <2>4 DEF Advance
  <2>5. CASE fus[u].busy /\ u \in Completed
    <3>1. fus'[u] = [fus[u] EXCEPT !.busy = FALSE, !.remaining_cycles = @ - 1]
      BY <2>5 DEF Advance
    <3> QED BY <2>1, <2>2, <2>5, <3>1, UnitCounts
  <2>6. CASE fus[u].busy /\ u \notin Completed
    <3>1. fus'[u] = [fus[u] EXCEPT !.busy = TRUE, !.remaining_cycles = @ - 1]
      BY <2>6 DEF Advance
    <3>2. fus'[u].remaining_cycles = fus[u].remaining_cycles - 1
      BY <2>1, <3>1 DEF UnitRecord
    <3>3. fus[u].remaining_cycles > 0 /\ fus[u].remaining_cycles # 1
      BY <2>6 DEF ServeInv, UnitsServeStations, Completed
    <3>4. fus'[u].remaining_cycles > 0
      BY <2>1, <3>2, <3>3
    <3> QED BY <2>1, <2>3, <2>6, <3>1, <3>4, UnitCounts
  <2> QED BY <2>4, <2>5, <2>6
<1> QED BY <1>3, <1>4, <1>5

(* process_fu_array keeps the matching. *)
LEMMA AdvanceServe ==
  ASSUME ServeInv, Advance PROVE StationsServeRob' /\ UnitsServeStations'
<1>1. ASSUME NEW k \in RobIdx
      PROVE  /\ Pending(k)' <=> Pending(k) /\ DeliveredTo(k) = {}
             /\ Running(k)' <=> Running(k) /\ DeliveredTo(k) = {}
  BY AfterAdvance DEF Pending, Running
<1>2. ASSUME NEW s \in StationId, rs'[s].busy
      PROVE  /\ rs[s].busy /\ rs[s].ROB_idx \in RobIdx
             /\ Pending(rs[s].ROB_idx)'
             /\ s[1] = station_type(rob'[rs'[s].ROB_idx].op)
             /\ rs'[s].op = rob'[rs'[s].ROB_idx].op
  <2>1. rs[s].busy /\ DeliveredTo(rs[s].ROB_idx) = {}
        /\ rs'[s].ROB_idx = rs[s].ROB_idx /\ rs'[s].op = rs[s].op
    BY <1>2, AfterAdvance
  <2>2. PICK k \in RobIdx : k = rs[s].ROB_idx /\ Pending(k)
    BY <2>1 DEF ServeInv, StationsServeRob, Pending, InFlight
  <2>3. Pending(k)' /\ rob'[k].op = rob[k].op
    BY <1>1, <2>1, <2>2, AfterAdvance
  <2>4. Pending(rs[s].ROB_idx)'
    BY <2>1, <2>2, <2>3 DEF Pending, InFlight, Age
  <2> QED BY <2>1, <2>2, <2>3, <2>4 DEF ServeInv, StationsServeRob
<1>3. ASSUME NEW k \in RobIdx, Pending(k)'
      PROVE  \E s \in StationId : rs'[s].busy /\ rs'[s].ROB_idx = k
  <2>1. Pending(k) /\ DeliveredTo(k) = {}
    BY <1>1, <1>3
  <2>2. PICK s \in StationId : rs[s].busy /\ rs[s].ROB_idx = k
    BY <2>1 DEF ServeInv, StationsServeRob
  <2> QED BY <2>1, <2>2, AfterAdvance
<1>4. StationsServeRob'
  <2>1. ASSUME NEW s \in StationId, NEW w \in StationId, rs'[s].busy,
               rs'[w].busy, rs'[s].ROB_idx = rs'[w].ROB_idx
        PROVE  s = w
    <3>1. rs[s].busy /\ rs[w].busy /\ rs[s].ROB_idx = rs[w].ROB_idx
      BY <2>1, AfterAdvance
    <3> QED BY <3>1 DEF ServeInv, StationsServeRob
  <2> QED BY <1>2, <1>3, <2>1 DEF StationsServeRob
<1>5. ASSUME NEW u \in UnitId, fus'[u].busy
      PROVE  /\ StationOf(u)' \in StationId /\ rs'[StationOf(u)'].busy
             /\ rs'[StationOf(u)'].ROB_idx = fus'[u].rob_idx
             /\ rob'[fus'[u].rob_idx].state = "EXECUTING"
             /\ fus'[u].remaining_cycles > 0
  <2>1. /\ fus[u].busy /\ DeliveredTo(fus[u].rob_idx) = {}
        /\ fus'[u].rob_idx = fus[u].rob_idx /\ fus'[u].rs_idx = fus[u].rs_idx
        /\ fus'[u].remaining_cycles > 0
    BY <1>5, AfterAdvance
  <2>2. /\ StationOf(u) \in StationId /\ rs[StationOf(u)].busy
        /\ rs[StationOf(u)].ROB_idx = fus[u].rob_idx
        /\ fus[u].rob_idx \in RobIdx /\ rob[fus[u].rob_idx].state = "EXECUTING"
    BY <2>1, BusyUnit DEF Running
  <2>3. StationOf(u)' = StationOf(u)
    BY <2>1 DEF StationOf
  <2> QED BY <2>1, <2>2, <2>3, AfterAdvance
<1>6. ASSUME NEW u \in UnitId, NEW w \in UnitId, fus'[u].busy, fus'[w].busy,
             fus'[u].rob_idx = fus'[w].rob_idx
      PROVE  u = w
  <2>1. fus[u].busy /\ fus[w].busy /\ fus[u].rob_idx = fus[w].rob_idx
    BY <1>6, AfterAdvance
  <2> QED BY <2>1 DEF ServeInv, UnitsServeStations
<1>7. ASSUME NEW k \in RobIdx, Running(k)'
      PROVE  \E u \in UnitId : fus'[u].busy /\ fus'[u].rob_idx = k
  <2>1. Running(k) /\ DeliveredTo(k) = {}
    BY <1>1, <1>7
  <2>2. PICK u \in UnitId : fus[u].busy /\ fus[u].rob_idx = k
    BY <2>1 DEF ServeInv, UnitsServeStations, Running
  <2> QED BY <2>1, <2>2, AfterAdvance
<1> QED BY <1>4, <1>5, <1>6, <1>7 DEF UnitsServeStations, Running
-----------------------------------------------------------------------------
(* What an instruction that is issued adds to the ROB: the tail. *)
LEMMA EnterRing ==
  ASSUME RingInv, CanFetch, ~RobFull, NEW q \in LsqIdx \cup {-1}, Enter(q)
  PROVE  /\ rob_tail \in RobIdx /\ ~InFlight(rob_tail)
         /\ \A k \in RobIdx : InFlight(k)' <=> InFlight(k) \/ k = rob_tail
         /\ \A k \in RobIdx : k # rob_tail => rob'[k] = rob[k]
         /\ rob'[rob_tail] = NewEntry(q)
<1>1. rob_tail \in RobIdx /\ ~InFlight(rob_tail) /\ rob_count \in 0 .. ROB_SIZE-1
  BY TailIsFree
<1>2. rob_head \in RobIdx /\ rob_tail = (rob_head + rob_count) % ROB_SIZE
  BY DEF RingInv, TypeOK, RobIsARing
<1>3. /\ rob' = RobWithNew(q) /\ rob_count' = rob_count + 1
      /\ rob_head' = rob_head
  BY DEF Enter, Fetch
<1>4. \A k \in RobIdx : InFlight(k)' <=> InFlight(k) \/ k = rob_tail
  BY <1>1, <1>2, <1>3, RingGrows DEF InFlight, Age
<1> QED BY <1>1, <1>3, <1>4, TailWritten

(* An instruction that is issued gets the station it is matched with. *)
LEMMA EnterServe ==
  ASSUME ServeInv, CanFetch, ~RobFull, NEW q \in LsqIdx \cup {-1}, Enter(q)
  PROVE  StationsServeRob' /\ UnitsServeStations'
<1>1. /\ rob_tail \in RobIdx /\ ~InFlight(rob_tail)
      /\ \A k \in RobIdx : InFlight(k)' <=> InFlight(k) \/ k = rob_tail
      /\ \A k \in RobIdx : k # rob_tail => rob'[k] = rob[k]
      /\ rob'[rob_tail].state = "ISSUED" /\ rob'[rob_tail].op = Instr.op
  <2>1. NewEntry(q).state = "ISSUED" /\ NewEntry(q).op = Instr.op
    BY DEF NewEntry
  <2> QED BY <2>1, EnterRing DEF ServeInv
<1>2. \A k \in RobIdx : /\ Pending(k)' <=> Pending(k) \/ k = rob_tail
                        /\ Running(k)' <=> Running(k)
  BY <1>1 DEF Pending, Running
<1>3. UNCHANGED fus
  BY DEF Enter, Fetch
<1>4. PICK s \in StationId : /\ s[1] = Type /\ ~rs[s].busy
                            /\ rs' = [rs EXCEPT ![s] = Filled(s)]
  BY DEF Enter, Free
<1>5. /\ rs'[s].busy /\ rs'[s].op = Instr.op /\ rs'[s].ROB_idx = rob_tail
      /\ \A w \in StationId : w # s => rs'[w] = rs[w]
  BY <1>4 DEF Filled, ServeInv, RingInv, TypeOK
<1>6. ASSUME NEW w \in StationId, w # s, rs'[w].busy
      PROVE  /\ rs[w].busy /\ rs'[w].ROB_idx = rs[w].ROB_idx
             /\ rs'[w].op = rs[w].op
             /\ rs[w].ROB_idx \in RobIdx /\ rs[w].ROB_idx # rob_tail
             /\ Pending(rs[w].ROB_idx)
  BY <1>1, <1>5, <1>6 DEF ServeInv, StationsServeRob, Pending, InFlight
<1>7. ASSUME NEW w \in StationId, rs'[w].busy
      PROVE  /\ Pending(rs[w].ROB_idx)'
             /\ w[1] = station_type(rob'[rs'[w].ROB_idx].op)
             /\ rs'[w].op = rob'[rs'[w].ROB_idx].op
  <2>1. PICK k \in RobIdx : k = rs'[w].ROB_idx /\ Pending(k)'
    <3>1. CASE w = s
      BY <1>1, <1>2, <1>5, <3>1
    <3>2. CASE w # s
      BY <1>2, <1>6, <1>7, <3>2
    <3> QED BY <3>1, <3>2
  <2>2. Pending(rs[w].ROB_idx)'
    BY <2>1 DEF Pending, InFlight, Age
  <2>3. w[1] = station_type(rob'[k].op) /\ rs'[w].op = rob'[k].op
    <3>1. CASE w = s
      BY <1>1, <1>4, <1>5, <2>1, <3>1 DEF Type
    <3>2. CASE w # s
      <4>1. k = rs[w].ROB_idx /\ rob'[k] = rob[k] /\ rs'[w].op = rs[w].op
        BY <1>1, <1>6, <1>7, <2>1, <3>2
      <4> QED BY <1>6, <1>7, <3>2, <4>1 DEF ServeInv, StationsServeRob
    <3> QED BY <3>1, <3>2
  <2> QED BY <2>1, <2>2, <2>3
<1>8. ASSUME NEW v \in StationId, NEW w \in StationId, rs'[v].busy, rs'[w].busy,
             rs'[v].ROB_idx = rs'[w].ROB_idx
      PROVE  v = w
  <2>1. CASE v = s \/ w = s
    BY <1>5, <1>6, <1>8, <2>1
  <2>2. CASE v # s /\ w # s
    <3>1. rs[v].busy /\ rs[w].busy /\ rs[v].ROB_idx = rs[w].ROB_idx
      BY <1>6, <1>8, <2>2
    <3> QED BY <3>1 DEF ServeInv, StationsServeRob
  <2> QED BY <2>1, <2>2
<1>9. ASSUME NEW k \in RobIdx, Pending(k)'
      PROVE  \E w \in StationId : rs'[w].busy /\ rs'[w].ROB_idx = k
  <2>1. CASE k = rob_tail
    BY <1>5, <2>1
  <2>2. CASE k # rob_tail
    <3>1. PICK w \in StationId : rs[w].busy /\ rs[w].ROB_idx = k
      BY <1>2, <1>9, <2>2 DEF ServeInv, StationsServeRob
    <3> QED BY <1>4, <1>5, <3>1
  <2> QED BY <2>1, <2>2
<1>10. StationsServeRob'
  BY <1>7, <1>8, <1>9 DEF StationsServeRob
<1>11. \A w \in StationId : rs[w].busy => SameStation(w)
  BY <1>4, <1>5 DEF SameStation
<1>12. UnitsServeStations'
  BY <1>2, <1>3, <1>11, UnitsFrame
<1> QED BY <1>10, <1>12

(* issue_instruction keeps the matching. *)
LEMMA IssueServe ==
  ASSUME ServeInv, Issue PROVE StationsServeRob' /\ UnitsServeStations'
<1>1. CASE IssueNothing \/ StallArith \/ StallMemory
  <2>1. UNCHANGED <<rs, fus, rob_head, rob_count>>
    BY <1>1 DEF IssueNothing, StallArith, StallMemory, Fetch
  <2>2. \A k \in RobIdx : InFlight(k)' <=> InFlight(k)
    BY <2>1 DEF InFlight, Age
  <2>3. \A k \in RobIdx : InFlight(k) => rob'[k] = rob[k]
    BY <1>1, TailWritten
       DEF IssueNothing, StallArith, StallMemory, ServeInv
  <2>4. /\ \A k \in RobIdx : Pending(k)' <=> Pending(k)
        /\ \A k \in RobIdx : Running(k)' <=> Running(k)
        /\ \A k \in RobIdx : Pending(k) => rob'[k].op = rob[k].op
    BY <2>2, <2>3 DEF Pending, Running
  <2>5. \A s \in StationId : SameStation(s)
    BY <2>1 DEF SameStation
  <2> QED BY <2>1, <2>4, <2>5, StationsFrame, UnitsFrame
<1>2. CASE IssueArith
  BY <1>2, EnterServe DEF IssueArith
<1>3. CASE IssueMemory
  <2>1. lsq_tail \in LsqIdx
    BY DEF ServeInv, RingInv, TypeOK
  <2> QED BY <1>3, <2>1, EnterServe DEF IssueMemory
<1> QED BY <1>1, <1>2, <1>3 DEF Issue

(* Steps that leave the ROB and the units alone keep the matching. *)
LEMMA IdleServe ==
  ASSUME ServeInv, UNCHANGED <<robVars, fus>>,
         \A s \in StationId : SameStation(s)
  PROVE  StationsServeRob' /\ UnitsServeStations'
<1>1. /\ \A k \in RobIdx : Pending(k)' <=> Pending(k)
      /\ \A k \in RobIdx : Running(k)' <=> Running(k)
      /\ \A k \in RobIdx : Pending(k) => rob'[k].op = rob[k].op
  BY DEF robVars, Pending, Running, InFlight, Age
<1> QED BY <1>1, StationsFrame, UnitsFrame
-----------------------------------------------------------------------------
(* ServeInv is inductive. *)
LEMMA ServeInductive == ServeInv /\ [Next]_vars => ServeInv'
<1> SUFFICES ASSUME ServeInv, [Next]_vars
             PROVE  StationsServeRob' /\ UnitsServeStations'
  BY NextInv DEF ServeInv
<1>1. CASE Commit
  BY <1>1, CommitServe
<1>2. CASE Launch
  BY <1>2, LaunchServe
<1>3. CASE Advance
  BY <1>3, AdvanceServe
<1>4. CASE Issue
  BY <1>4, IssueServe
<1>5. CASE CDB_broadcast
  <2>1. \A s \in StationId : SameStation(s)
    BY <1>5 DEF CDB_broadcast, SameStation, ServeInv, RingInv, TypeOK, StationRecord
  <2> QED BY <1>5, <2>1, IdleServe DEF CDB_broadcast
<1>6. CASE AdvanceThrow \/ Stopped \/ UNCHANGED vars
  <2>1. \A s \in StationId : SameStation(s)
    BY <1>6 DEF AdvanceThrow, Stopped, vars, SameStation
  <2> QED BY <1>6, <2>1, IdleServe DEF AdvanceThrow, Stopped, vars
<1> QED BY <1>1, <1>2, <1>3, <1>4, <1>5, <1>6 DEF Next

(* It holds before the first turn of the loop, in any call of simulate():  *)
(* nothing is busy and nothing in flight.                                  *)
LEMMA ServeStarted == Started /\ LeftOver => ServeInv
<1> SUFFICES ASSUME Started, LeftOver PROVE ServeInv
  OBVIOUS
<1>1. RingInv
  BY StartedInv
<1>2. \A k : ~InFlight(k)
  BY ModRob, SizeAssumption DEF Started, InFlight, Age, RobIdx
<1>3. /\ \A s \in StationId : ~rs[s].busy
      /\ \A u \in UnitId : ~fus[u].busy
  BY DEF Started, IdleStation, IdleUnit
<1> QED BY <1>1, <1>2, <1>3
        DEF ServeInv, StationsServeRob, UnitsServeStations, Pending
LEMMA ServeInit == Init => ServeInv
BY ServeStarted DEF Init, LeftOver

(* Every pending entry has exactly one reservation station, of its array   *)
(* and with its operation, and a busy station has exactly one pending      *)
(* entry: issue_instruction, process_fu_array and commit_head_of_rob never *)
(* lose or reuse one without the other.                                    *)
THEOREM StationsCorrect == Spec => []StationsServeRob
<1>1. ServeInv => StationsServeRob
  BY DEF ServeInv
<1> QED BY ServeInit, ServeInductive, <1>1, PTL DEF Spec

(* A functional unit reads A, op and busy from its station when it         *)
(* completes; they are still those of the instruction it was launched      *)
(* with, and no instruction is launched twice.                             *)
THEOREM UnitsCorrect == Spec => []UnitsServeStations
<1>1. ServeInv => UnitsServeStations
  BY DEF ServeInv
<1> QED BY ServeInit, ServeInductive, <1>1, PTL DEF Spec
-----------------------------------------------------------------------------
(* What EntriesProgress says of one entry. *)
KeepsInstruction(k) ==
  \A field \in {"instr", "op", "dest", "lsq_idx"} : rob'[k][field] = rob[k][field]
Progresses(k) ==
  /\ InFlight(k) /\ InFlight(k)' =>
       KeepsInstruction(k) /\ Phase(k)' \in {Phase(k), Phase(k) + 1}
  /\ InFlight(k) /\ ~InFlight(k)' => k = rob_head /\ Phase(k) = 2
  /\ ~InFlight(k) /\ InFlight(k)' => k = rob_tail /\ Phase(k)' = 0

(* An entry that keeps its place and everything but, perhaps, its result. *)
LEMMA SameEntry ==
  ASSUME NEW k \in RobIdx, InFlight(k)' <=> InFlight(k),
         InFlight(k) => rob'[k] = rob[k]
  PROVE  Progresses(k)
<1>1. InFlight(k) => Phase(k)' = Phase(k) /\ KeepsInstruction(k)
  BY DEF Phase, KeepsInstruction
<1> QED BY <1>1 DEF Progresses

(* An entry that is launched or completed. *)
LEMMA NextPhase ==
  ASSUME NEW k \in RobIdx, InFlight(k)' <=> InFlight(k), KeepsInstruction(k),
         \/ rob'[k].state = rob[k].state
         \/ rob[k].state = "ISSUED" /\ rob'[k].state = "EXECUTING"
         \/ rob[k].state = "EXECUTING" /\ rob'[k].state = "EXECUTED"
  PROVE  Progresses(k)
<1>1. Phase(k)' \in {Phase(k), Phase(k) + 1}
  BY DEF Phase
<1> QED BY <1>1 DEF Progresses

(* Every step lets every entry progress. *)
LEMMA StepProgresses ==
  ASSUME ServeInv, [Next]_vars, NEW k \in RobIdx PROVE Progresses(k)
<1>1. CASE UNCHANGED robVars
  BY <1>1, SameEntry DEF robVars, InFlight, Age
<1>2. CASE CommitStore \/ CommitRegister
  <2>1. rob_count > 0 /\ ReleaseRob /\ rob[rob_head].state = "EXECUTED"
    BY <1>2 DEF CommitStore, CommitRegister, CanCommit, HeadEntry
  <2>2. /\ InFlight(k)' <=> InFlight(k) /\ k # rob_head
        /\ k # rob_head => rob'[k] = rob[k]
    BY <2>1, ReleaseRobKeepsRing DEF ServeInv
  <2>3. CASE k = rob_head
    BY <2>1, <2>2, <2>3 DEF Progresses, Phase
  <2> QED BY <2>2, <2>3, SameEntry
<1>3. CASE Launch
  <2>1. InFlight(k)' <=> InFlight(k)
    BY <1>3 DEF Launch, InFlight, Age
  <2>2. rob[k] \in EntryRecord
    BY DEF ServeInv, RingInv, TypeOK
  <2>3. rob'[k] = IF k \in LaunchedEntries
                  THEN [rob[k] EXCEPT !.state = "EXECUTING"] ELSE rob[k]
    BY <1>3 DEF Launch
  <2>4. KeepsInstruction(k)
    BY <2>2, <2>3 DEF KeepsInstruction, EntryRecord
  <2>5. \/ rob'[k].state = rob[k].state
        \/ rob[k].state = "ISSUED" /\ rob'[k].state = "EXECUTING"
    BY <2>2, <2>3, LaunchedWereIssued DEF EntryRecord
  <2> QED BY <2>1, <2>4, <2>5, NextPhase
<1>4. CASE Advance
  <2>1. InFlight(k)' <=> InFlight(k)
    BY <1>4 DEF Advance, InFlight, Age
  <2>2. rob[k] \in EntryRecord
    BY DEF ServeInv, RingInv, TypeOK
  <2>3. rob'[k] = IF DeliveredTo(k) = {} THEN rob[k]
                  ELSE CompletedEntry(k, CHOOSE u \in DeliveredTo(k) : TRUE)
    BY <1>4 DEF Advance
  <2>4. \A u : \A field \in {"instr", "op", "dest", "lsq_idx"} :
          CompletedEntry(k, u)[field] = rob[k][field]
    BY <2>2 DEF CompletedEntry, EntryRecord
  <2>5. KeepsInstruction(k)
    BY <2>3, <2>4 DEF KeepsInstruction
  <2>6. \/ rob'[k].state = rob[k].state
        \/ rob[k].state = "EXECUTING" /\ rob'[k].state = "EXECUTED"
    BY <1>4, AfterAdvance DEF Running
  <2> QED BY <2>1, <2>5, <2>6, NextPhase
<1>5. CASE StallArith \/ StallMemory
  <2>1. InFlight(k)' <=> InFlight(k)
    BY <1>5 DEF StallArith, StallMemory, Fetch, InFlight, Age
  <2>2. InFlight(k) => rob'[k] = rob[k]
    BY <1>5, TailWritten DEF StallArith, StallMemory, ServeInv
  <2> QED BY <2>1, <2>2, SameEntry
<1>6. CASE IssueArith \/ IssueMemory
  <2>1. lsq_tail \in LsqIdx
    BY DEF ServeInv, RingInv, TypeOK
  <2>2. PICK q \in LsqIdx \cup {-1} : CanFetch /\ ~RobFull /\ Enter(q)
    BY <1>6, <2>1 DEF IssueArith, IssueMemory
  <2>3. /\ InFlight(k)' <=> InFlight(k) \/ k = rob_tail
        /\ ~InFlight(rob_tail)
        /\ k # rob_tail => rob'[k] = rob[k]
        /\ rob'[rob_tail] = NewEntry(q)
    BY <2>2, EnterRing DEF ServeInv
  <2>4. CASE k = rob_tail
    <3>1. rob'[k].state = "ISSUED"
      BY <2>3, <2>4 DEF NewEntry
    <3> QED BY <2>3, <2>4, <3>1 DEF Progresses, Phase
  <2> QED BY <2>3, <2>4, SameEntry
<1> QED BY <1>1, <1>2, <1>3, <1>4, <1>5, <1>6
        DEF Next, Commit, Issue, CommitNothing, CommitThrow, AdvanceThrow,
            IssueNothing, CDB_broadcast, Stopped, vars, robVars, Fetch

(* Between issue and commit a ROB entry keeps its instruction and its      *)
(* state moves forward one phase at a time; it enters at the tail and      *)
(* leaves, executed, from the head: commits are in program order.          *)
THEOREM EntriesCorrect == Spec => EntriesProgress
<1>1. ServeInv /\ [Next]_vars =>
        [\A k \in RobIdx :
          /\ InFlight(k) /\ InFlight(k)' =>
               /\ \A field \in {"instr", "op", "dest", "lsq_idx"} :
                    rob'[k][field] = rob[k][field]
               /\ Phase(k)' \in {Phase(k), Phase(k) + 1}
          /\ InFlight(k) /\ ~InFlight(k)' => k = rob_head /\ Phase(k) = 2
          /\ ~InFlight(k) /\ InFlight(k)' => k = rob_tail /\ Phase(k)' = 0]_vars
  BY StepProgresses DEF Progresses, KeepsInstruction
<1> QED BY ServeInit, ServeInductive, <1>1, PTL DEF Spec, EntriesProgress
==============================================================================

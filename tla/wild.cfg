\* Any program, with jumps, late branches, illegal instructions and stalls.
SPECIFICATION Spec
CONSTANTS
  NoValue = NoValue
  ROB_SIZE = 4
  LSQ_SIZE = 2
  NUM_RS <- WildRS
  NUM_FU <- WildFU
  IntRegs = {0, 1, 2}
  FpRegs = {0, 1}
  WIDTH = 5
  MaxLen = 4
  WORD <- MCWord
  F64 <- MCF64
  compute_result <- MCCompute
  Programs <- WildPrograms
  InitRegs <- MCInitRegs
  InitMemory <- MCEmptyMemory
INVARIANTS
  TypeOK
  RobIsARing
  LsqMatchesRob
  LsqReadyWhenExecuted
  StationsServeRob
  UnitsServeStations
PROPERTIES
  EntriesProgress
  RefinesWindow

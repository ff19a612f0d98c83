\* Straight-line loads and stores, no load after a store to its word.
SPECIFICATION FairSpec
CONSTANTS
  NoValue = NoValue
  ROB_SIZE = 3
  LSQ_SIZE = 2
  NUM_RS <- MemoryRS
  NUM_FU <- SmallFU
  IntRegs = {1, 2, 3}
  FpRegs = {1}
  WIDTH = 4
  MaxLen = 4
  WORD <- MCWord
  F64 <- MCF64
  compute_result <- MCCompute
  Programs <- MemoryPrograms
  InitRegs <- MemoryRegs
  InitMemory <- MemoryWords
INVARIANTS
  Ordered
  LsqMatchesRob
  LsqReadyWhenExecuted
  QuiescentAtEnd
  NeverStuck
PROPERTIES
  RefinesISA
  Termination

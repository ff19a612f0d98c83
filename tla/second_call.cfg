\* A second call of simulate() with the same program.
SPECIFICATION CallsSpec
CONSTANTS
  NoValue = NoValue
  ROB_SIZE = 3
  LSQ_SIZE = 2
  NUM_RS <- MemoryRS
  NUM_FU <- SmallFU
  IntRegs = {1, 2, 3}
  FpRegs = {1}
  WIDTH = 4
  MaxLen = 0
  WORD <- MCWord
  F64 <- MCF64
  compute_result <- MCCompute
  Programs <- OneProgram
  InitRegs <- MemoryRegs
  InitMemory <- MemoryWords
PROPERTY CallsStartAtFirst

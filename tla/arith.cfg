\* Register programs, loops and skips: renaming, wake-up, in-order results.
SPECIFICATION FairSpec
CONSTANTS
  NoValue = NoValue
  ROB_SIZE = 4
  LSQ_SIZE = 2
  NUM_RS <- SmallRS
  NUM_FU <- SmallFU
  IntRegs = {0, 1, 2, 3, 4}
  FpRegs = {0, 1}
  WIDTH = 4
  MaxLen = 4
  WORD <- MCWord
  F64 <- MCF64
  compute_result <- MCCompute
  Programs <- InOrderPrograms
  InitRegs <- MCInitRegs
  InitMemory <- MCEmptyMemory
INVARIANTS
  Ordered
  RenameTable
  NoLostWakeup
  QuiescentAtEnd
  NeverStuck
PROPERTIES
  ExecutesInOrder
  Termination

\* A load behind a store to the same word that waits for its data.
SPECIFICATION Spec
CONSTANTS
  NoValue = NoValue
  ROB_SIZE = 32
  LSQ_SIZE = 16
  NUM_RS <- HeaderRS
  NUM_FU <- HeaderFU
  IntRegs = {0, 1, 2}
  FpRegs = {0}
  WIDTH = 5
  MaxLen = 0
  WORD <- MCWord
  F64 <- MCF64
  compute_result <- MCCompute
  Programs <- StoreThenLoad
  InitRegs <- MCInitRegs
  InitMemory <- MCEmptyMemory
INVARIANT LoadsSeeOlderStores

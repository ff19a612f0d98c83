\* The loop of Readme.md with the sizes of tomasulo_sim.h.
SPECIFICATION SimpleSpec
CONSTANTS
  NoValue = NoValue
  ROB_SIZE = 32
  LSQ_SIZE = 16
  NUM_RS <- HeaderRS
  NUM_FU <- HeaderFU
  IntRegs = {0, 5, 6}
  FpRegs = {0, 2, 4}
  WIDTH = 7
  MaxLen = 0
  WORD <- MCWord
  F64 <- MCF64
  compute_result <- MCCompute
  Programs <- SimpleTest
  InitRegs <- MainRegs
  InitMemory <- MainMemory
INVARIANTS
  Ordered
  ReadmeResults
PROPERTY RefinesISA

\* The shipped build: one tensor of two chunks, written, then read.
SPECIFICATION Spec
CONSTANTS
  ChunkSize = 2
  MaxBlocks = 4
  PartsPerBlock = 2
  Lbas = 7
  Requests <- OneTensor
  MaxCalls = 2
  Builds = {"bounce"}
  Outcomes <- AnyOutcome
INVARIANT
  ReadBack

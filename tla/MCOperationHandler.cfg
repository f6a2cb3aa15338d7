\* Both builds, tensors that do and do not fill their chunks.
SPECIFICATION FairSpec
CONSTANTS
  ChunkSize = 2
  MaxBlocks = 4
  PartsPerBlock = 2
  Lbas = 7
  Requests <- SomeRequests
  MaxCalls = 3
  Builds = {"bounce", "inline"}
  Outcomes <- AnyOutcome
INVARIANTS
  TypeOK
  NoTaskWithoutBuffer
  ReadBackInline
  WholeChunksFit
PROPERTIES
  StaysInRequest
  CallReturns
  RefinesBlockTransfer

\* Both builds, both devices, five blocks in chunks of two, two rounds.
SPECIFICATION FairSpec
CONSTANTS
  NBlocks = 5
  BufBlocks = 10
  EachSubmitBlocks = 2
  BufPages = 1
  TestRound = 2
  Builds = {TRUE, FALSE}
  HugePageStrategy = TRUE
  Devices <- BothDevices
  OpenMayFail = TRUE
  SpawnMayFail = TRUE
INVARIANTS
  TypeOK
  NoUseAfterFree
  ChunksPartition
  PassMeansOnDevice
PROPERTIES
  Termination
  RefinesBlockTransfer

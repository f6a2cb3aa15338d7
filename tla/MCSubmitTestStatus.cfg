\* The shipped build; a command may complete with a status.
SPECIFICATION Spec
CONSTANTS
  NBlocks = 5
  BufBlocks = 10
  EachSubmitBlocks = 2
  BufPages = 1
  TestRound = 2
  Builds = {TRUE}
  HugePageStrategy = TRUE
  Devices <- BothDevices
  OpenMayFail = TRUE
  SpawnMayFail = TRUE
INVARIANT
  SubmitIoReportsFailure

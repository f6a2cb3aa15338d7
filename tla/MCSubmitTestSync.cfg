\* The build with ASYNC_IOCTL 0.
SPECIFICATION Spec
CONSTANTS
  NBlocks = 5
  BufBlocks = 10
  EachSubmitBlocks = 2
  BufPages = 1
  TestRound = 2
  Builds = {FALSE}
  HugePageStrategy = TRUE
  Devices <- ErrnoDevice
  OpenMayFail = TRUE
  SpawnMayFail = TRUE
INVARIANT
  WriteLoopWrites

\* Both programs, three rounds, a buffer of a full and a shorter command.
SPECIFICATION FairSpec
CONSTANTS
  NBlocks = 3
  MAX_BLOCK_NUM = 2
  TestRounds = 3
  Programs <- BothPrograms
  Outcomes <- AnyOutcome
INVARIANTS
  TypeOK
  NvmeIoOutlivesThreads
  MatchIsReal
  MismatchMeansFailure
PROPERTY
  Termination

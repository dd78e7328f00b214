SPECIFICATION FairSpec
CONSTANTS
  NULL = NULL
  EnumProcs = {"find", "print"}
  NumBlocks <- MCNumBlocks
  PoolBlockSize <- MCPoolBlockSize
  HeaderSize <- MCHeaderSize
  MaxBlockSize <- MCMaxBlockSize
INVARIANTS TypeOK HeaderInPage CleanWalkTilesPage
PROPERTIES Progress ImplementsLookup Termination

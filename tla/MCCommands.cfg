SPECIFICATION FairSpec
CONSTANTS
  NULL = NULL
  Lines <- MCLines
  Numbers <- MCNumbers
  Contexts <- MCContexts
  DwordLimit = 64
  StaticBuf = 2
INVARIANTS TypeOK BlockSuffices WordsAreTheLine FilesKeepOrder ParseIsLeftToRight ShuffleFits
INVARIANTS WalkStaysInside DoesWhatWasTyped
PROPERTY CommandReturns

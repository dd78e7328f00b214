SPECIFICATION FairSpec
CONSTANTS
  NULL = NULL
  Lines <- MCLines
  Numbers <- MCNumbers
  Contexts <- MCContexts
  DwordLimit = 64
  StaticBuf = 2
INVARIANT OverrideIsUsed

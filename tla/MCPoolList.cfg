SPECIFICATION Spec
CONSTANTS
  NULL = NULL
  MaxProcs <- MCMaxProcs
  DwordLimit <- MCDwordLimit
INVARIANTS TypeOK ListingIsExact NothingDangles ListsAreFreed

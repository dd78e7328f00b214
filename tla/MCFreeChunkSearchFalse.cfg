SPECIFICATION Spec
CONSTANTS
  NULL = NULL
  Junk = Junk
  All = All
  Nowhere = Nowhere
  p1 = p1
  p2 = p2
  l1 = l1
  l2 = l2
  e1 = e1
  e2 = e2
  Descs <- MCDescs
  Entries <- MCEntries
  Indexes <- MCIndexes
  Links <- MCLinks
  Faults <- MCFaults
  Holders <- MCHolders
  PoolLists <- MCPoolLists
  LookasideLists <- MCLookasideLists
  ListHeadsBuckets = 2
  LookasideBuckets <- MCLookasideBuckets
  MaxCount = 4
INVARIANT FalseMeansFound

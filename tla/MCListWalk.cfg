SPECIFICATION WalkFairSpec
CONSTANTS
  NULL = NULL
  Junk = Junk
  All = All
  d = d
  e1 = e1
  e2 = e2
  Descs <- MCDescs
  Entries <- MCEntries
  Indexes <- MCIndexes
  ListHeadsBuckets = 2
  LookasideBuckets <- MCLookasideBuckets
  Links <- MCLinks
  Faults <- MCFaults
  Holders <- MCHolders
  MaxCount = 5
INVARIANTS WalkTypeOK FoundIsThere NoneIsPassed ShowsEveryEntry
PROPERTIES ImplementsEnumeration WalkEnds

CONSTANTS
  KeyCount = 6
  Group <- Folders
  Marker = 1
  Limit = 2
  ReadAhead = 1
  Batch = 2
  PageSize = 2
  MaxWrites = 2
  None = None
SPECIFICATION FairSpec
INVARIANTS NothingMissed KeysAscend PagesWithinLimit PrefixesOnce
PROPERTIES WalkEnds

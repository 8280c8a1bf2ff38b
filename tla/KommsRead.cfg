\* `read tx`: pages of two blocks, three of them, on a list of up to five blocks.
\* `read index`: rows of three record versions, some damaged, under nine filters.
SPECIFICATION ReadSpec
CONSTANTS
  MaxPasses = 3
  PageSize = 2
  MaxBlocks = 6
  MaxMoves = 2
  MaxFaults = 1
  k1 = k1
  k2 = k2
  short = short
  sid = sid
  cid = cid
  addr = addr
  noid = noid
  BadIds <- NoIds
  Keys <- TheKeys
  BadKeys <- ShortKey
  Records <- FourRecords
  Filters <- SomeFilters
INVARIANTS
  MissedOnlyIfMoved
  HintFinds
  ListsWhatWasRecorded
  AllOrNothing
PROPERTY EveryReadEnds
\* A command ends.
CHECK_DEADLOCK FALSE

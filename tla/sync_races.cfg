SPECIFICATION FairSpec
CONSTANTS
  Consumers = {c1,c2}
  Idx = {1}
  Names = {x}
  Phys = {nophys}
  NoName = noname
  NoPhys = nophys
  RowIds = {r1,r2}
  RemoveAfterMisses = 3
  UniqueNames = TRUE
  LockLapses = FALSE
  MaxResults = 2
  MaxFaults = 1
  MaxEdits = 2
  NoOne = noone
CHECK_DEADLOCK FALSE
INVARIANT DiffFresh
PROPERTIES StatusIsTheOperators ResultsOfDevicesSettle

SPECIFICATION FairSpec
CONSTANTS
  Consumers = {c1}
  Idx = {1}
  Names = {x}
  Phys = {nophys}
  NoName = noname
  NoPhys = nophys
  RowIds = {r1}
  RemoveAfterMisses = 3
  UniqueNames = TRUE
  LockLapses = FALSE
  MaxResults = 1
  MaxFaults = 0
  MaxEdits = 2
  NoOne = noone
CHECK_DEADLOCK FALSE
PROPERTY ResultsSettle

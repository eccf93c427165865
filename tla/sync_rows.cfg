SPECIFICATION Spec
CONSTANTS
  Consumers = {c1}
  Idx = {1,2}
  Names = {x,y}
  Phys = {nophys}
  NoName = noname
  NoPhys = nophys
  RowIds = {r1,r2,r3,r4}
  RemoveAfterMisses = 3
  UniqueNames = TRUE
  LockLapses = FALSE
  MaxResults = 4
  MaxFaults = 1
  MaxEdits = 0
  NoOne = noone
CHECK_DEADLOCK FALSE
INVARIANTS MirrorsSnapshot NeverWedges RemovedAfterMisses
PROPERTY RowFollowsName

SPECIFICATION FairSpec
CONSTANTS
  Samples = {s1,s2}
  Workers = {w1,w2}
  Main = main
  FlushSize = 2
  BufferCap = 1
  MaxFaults = 2
CHECK_DEADLOCK FALSE
INVARIANT NothingVanishes
PROPERTY EventuallyStored

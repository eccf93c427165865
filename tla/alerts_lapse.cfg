SPECIFICATION LapseSpec
CONSTANTS
  Evaluators = {e1,e2}
  Series = {s1}
  Ids = {i1,i2}
  None = None
  FlapWindow = 1
  FlapThreshold = 1
  LeaseLapses = TRUE
  MaxClock = 2
  MaxFlips = 2
  MaxUserOps = 2
  MaxFaults = 1
INVARIANT OneLive
PROPERTY AlertFollowsCondition

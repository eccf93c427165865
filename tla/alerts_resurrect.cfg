SPECIFICATION Spec
CONSTANTS
  Evaluators = {e1,e2}
  Series = {s1}
  Ids = {i1,i2}
  None = None
  FlapWindow = 1
  FlapThreshold = 1
  LeaseLapses = TRUE
  MaxClock = 1
  MaxFlips = 4
  MaxUserOps = 0
  MaxFaults = 0
SYMMETRY AlertSymmetry
PROPERTY ResolvedIsFinal

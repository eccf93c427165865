SPECIFICATION Spec
CONSTANTS
  Samples = {s1}
  Workers = {w1}
  Main = main
  FlushSize = 1
  BufferCap = 2
  MaxFaults = 1
INVARIANT AtLeastOnce

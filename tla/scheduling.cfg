SPECIFICATION SchedulingSpec
CONSTANTS
  Replicas = {r1,r2,r3}
  Free = Free
  Orphan = Orphan
  TTL = 4
  Interval = 2
  CycleMax = 3
  MaxFaults = 3
  c1 = c1
  c2 = c2
  x1 = x1
  x2 = x2
  Schedulers <- MCSchedulers
  Sites <- MCSites
  Devices = {d1}
  PollInterval = 3
  Jitter = 1
  JobTTL = 1
  MaxClock = 3
  MaxMoves = 2
  Supervisors = {1,2,3}
  MaxBreaks = 1
CHECK_DEADLOCK FALSE
INVARIANT NotDoubleBooked
PROPERTIES LeaseIsKept LeaseLeaderReturns MovingJobsAreDone ImplementsLoop

SPECIFICATION AlertsSpec
CONSTANTS
  Evaluators = {e1,e2}
  Series = {s1}
  Ids = {i1,i2,i3}
  None = None
  FlapWindow = 1
  FlapThreshold = 1
  LeaseLapses = FALSE
  MaxClock = 3
  MaxFlips = 5
  MaxUserOps = 2
  MaxFaults = 1
  AlertPorts = {1,2,3}
  IfNames <- MCIfNames
  Exporter = Exporter
  Claimants = {"gw"}
  Scopes <- MCScopes
  NoAlertRule = NoAlertRule
  NoInfo = NoInfo
  NoNews = NoNews
  MaxEdits = 2
SYMMETRY AlertSymmetry
INVARIANTS NoticesOnce FlapChain HiddenHasCause SilenceHolds
PROPERTY ResolvedIsFinal

SPECIFICATION FlowsSpec
CONSTANTS
  s1 = s1
  s2 = s2
  p1 = p1
  p2 = p2
  p3 = p3
  Servers <- MCServers
  Datagrams <- MCDatagrams
  Allow = {"e1", "e2"}
  MaxTemplates = 2
  TTL = 0
  MaxNow = 1
  Base = 4
  Wrap = 4
  FlowPackets <- MCFlowPackets
  TopN = 2
  MaxKeys = 6
  Services = {3, 5}
  Subnet = 2
  MaxPackets = 4
  MaxDrains = 2
  RawPackets <- MCRawPackets
  RowsOf <- MCRowsOf
  MaxQueued = 4
  BatchRows = 2
  Window = 3
  MaxRawFaults = 2
  StoredFlows <- MCStoredFlows
  BookDevices = {1, 2}
  HomeAddr <- MCHomeAddr
  HomeSite <- MCHomeSite
  ClaimTexts <- MCClaimTexts
  Questions <- MCQuestions
  HourLen = 2
  SecondLen = 2
  RawKeep = 2
  RollupKeep = 4
  LongWindow = 3
  EphemeralPort = 8
  DefaultTop = 2
  MaxTop = 2
  ChartSteps <- MCChartSteps
  ChartPoints = 2
  SampleInterval = 2
  MaxPoints = 2
  MaxRange = 4
  MaxFlowTime = 4
  MaxBookEdits = 1
CHECK_DEADLOCK FALSE
INVARIANTS LayoutIsOwn ReadAsExported TotalsStayHonest RowsAccounted StoredOnce AnswersAreWhole
PROPERTIES RowsLand

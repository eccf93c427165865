SPECIFICATION ManagementSpec
CONSTANTS
  k1 = k1
  k2 = k2
  MapDevices = {1,2,3}
  PortRows = {"p1","p2","p3"}
  PortDevice <- MCPortDevice
  Indexes = {1,2}
  Adjacencies <- MCAdjacencies
  DeviceNames <- MCDeviceNames
  PortText <- MCPortText
  WordLength <- MCWordLength
  Drawings <- MCDrawings
  MapCalls <- MCMapCalls
  NoPort = NoPort
  NoPeer = NoPeer
  MaxMapCalls = 5
  s1 = s1
  a1 = a1
  q1 = q1
  q2 = q2
  u1 = u1
  u2 = u2
  c1 = c1
  c2 = c2
  o1 = o1
  o2 = o2
  DevIds = {1,2,3}
  Addrs = {a1,a2}
  SysNames = {h1}
  NoName = NoName
  CatSites = {s1,s2}
  CatCreds = {m1}
  Profiles = {"pp_default","pp_icmp"}
  FamiliesOn <- MCFamiliesOn
  Paces = {1,5}
  Requests <- MCRequests
  MaxRequests = 3
  PageSize = 1
  Ports = {1,2}
  PortName <- MCPortName
  Aliases <- MCAliases
  Descrs <- MCDescrs
  Customers <- MCCustomers
  Conditions <- MCConditions
  Also <- MCAlso
  MaxConditions = 8
  MaxWrites = 2
  Users = {u1,u2}
  Admin = u1
  Roles = {"admin","viewer"}
  AdminRole = "admin"
  Permissions <- MCPermissions
  UsersWrite = "uw"
  Threshold = 1
  CallSlots <- MCCallSlots
  RefreshIds = {1,2}
  TokenIds = {1}
  MaxCalls = 3
  Sockets <- MCSockets
  Sources = {x1}
  Agents = {noaddr,x2}
  NoAddr = noaddr
  TrapDevices = {d1}
  NoDevice = NoDevice
  Labels = {"linkDown"}
  Burst = 2
  Slack = 1
  Lag = 1
  QueueCap = 1
  FlushAt = 2
  MaxLabels = 1
  MaxTime = 6
  MaxTraps = 6
  Notices <- MCNotices
  Channels = {"mail","slack"}
  Mails = {"mail"}
  MaxAttempts = 2
  MaxBreaks = 3
  Cadences = {1,5}
  LinkShapes <- MCLinkShapes
  Uplinks <- MCUplinks
  Speeds = {0}
  Horizon = 31
  Nowhere = Nowhere
  NoView = NoView
  PollerIds = {1}
  Hosts = {g1,g2}
  Registrations = {j1,j2}
  NoOneHere = NoOneHere
  MaxMinted = 2
  MaxStops = 3
CHECK_DEADLOCK FALSE
SYMMETRY Symmetric
INVARIANTS InServiceIsPolled PagesMissNone SelectsWhatWasTyped WithinRights AttemptsBounded SourceIsLimited DrainedAtStop GoneIsTried GeneratedIsReported FiguresAreHonest HeardIsSaved
PROPERTY PublishedImmutable

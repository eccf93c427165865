SPECIFICATION MapsOnly
CONSTANTS
  k1 = k1
  k2 = k2
  MapDevices = {1,2,3}
  PortRows = {"p1","p2","p3"}
  PortDevice <- MCPortDevice
  Indexes = {1,2}
  Adjacencies <- MCAdjacencies
  DeviceNames <- MCDeviceNames
  PortText <- MCPortText
  WordLength <- MCWordLength
  Drawings <- MCDrawings
  MapCalls <- MCMapCalls
  NoPort = NoPort
  NoPeer = NoPeer
  MaxMapCalls = 5
CHECK_DEADLOCK FALSE
INVARIANT LinksAreThePublished

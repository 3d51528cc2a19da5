\* Two crawlers share the database: c1 with a state file, c2 with a history file.
CONSTANTS
  p = p  self = self
  Peer = {p}
  Own = self
  Crawler = {c1, c2}
  StateFile = {c1}
  HistoryFile = {c2}
  Geolocating = {c1}
  RpcPeer = {p}
  DepthZero = {p}
  Links <- OwnLink
  MaxAge = 1
  HistoryWindow = 1
  KeepAge = 1
  MaxClock = 3
  MaxCycles = 2
SPECIFICATION Spec
INVARIANTS TypeOK ServedPeersAnswered PopulationAnswered
PROPERTIES OnlyHistoryDemotes StoreAccumulates

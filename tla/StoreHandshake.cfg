\* One crawler with a history file, one without: the documented rule that a
\* failed probe cannot overwrite another crawler's handshake.
CONSTANTS
  p = p  self = self
  Peer = {p}
  Own = self
  Crawler = {c1, c2}
  StateFile = {c1}
  HistoryFile = {c2}
  Geolocating = {c1}
  RpcPeer = {p}
  DepthZero = {p}
  Links <- OwnLink
  MaxAge = 1
  HistoryWindow = 1
  KeepAge = 1
  MaxClock = 3
  MaxCycles = 3
SPECIFICATION Spec
PROPERTY HandshakenRowsStayOnline

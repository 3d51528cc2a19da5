\* A node cap of two and one edge per reply; one periodic save in each of two
\* runs, the process killed at any moment in between, one worker of each pool.
CONSTANTS
  a = a  b = b  c = c  o = o
  Peer = {a, b, c, o}
  OnionPeer = {o}
  TorProxy = TRUE
  ClearnetWorker = {w1}
  OnionWorker = {t1}
  Gossip <- GossipChain
  Seeds <- OneSeed
  MaxNodes = 2
  MaxDepth = 0
  Retries = 0
  EdgesPerNode = 1
  MaxRuns = 2
  MaxSaves = 1
  LoadMayFail = FALSE
SPECIFICATION Spec
INVARIANTS NodeCapOvershoot QueuedPeersSaved
PROPERTY SavedRecordsKept

\* Progress under fair scheduling: two clearnet workers and one onion worker,
\* no node cap; the process may be restarted once and may fail to read its
\* state file.
CONSTANTS
  a = a  b = b  c = c  o = o
  Peer = {a, b, c, o}
  OnionPeer = {o}
  TorProxy = TRUE
  ClearnetWorker = {w1, w2}
  OnionWorker = {t1}
  Gossip <- GossipChain
  Seeds <- RepeatedSeed
  MaxNodes = 0
  MaxDepth = 3
  Retries = 1
  EdgesPerNode = 0
  MaxRuns = 2
  MaxSaves = 0
  LoadMayFail = TRUE
SPECIFICATION FairSpec
INVARIANTS TypeOK NoLostWakeup ExitOnlyWhenFinished EverySeenPeerRecorded
PROPERTIES HandedOutOnce ImplementsCrawlSpec CrawlTerminates QueuedPeerRecorded

\* Four honest peers and a stray one, reorganisations as deep as the reference
\* lag, one real split, one crawl without a state file.
CONSTANTS
  Peer = {p1, p2, p3, p4, s}
  Stray = {s}
  StartLag = 2
  RefLag = 1
  MinCluster = 2
  Recency = 2
  Resume = FALSE
  FirstBlocks = 4
  MaxReorg = 1
  MaxBlocks = 7
  MaxCycles = 1
  MaxFailures = 1
SPECIFICATION Spec
INVARIANTS NoFalseAlarm ViewsAgree RealSplitReported
SYMMETRY PeerSymmetry
CHECK_DEADLOCK FALSE

\* The same instance with a state file, asked what the documentation says of
\* the verdict.
CONSTANTS
  Peer = {p1, p2, p3, p4, s}
  Stray = {s}
  StartLag = 2
  RefLag = 1
  MinCluster = 2
  Recency = 2
  Resume = TRUE
  FirstBlocks = 4
  MaxReorg = 1
  MaxBlocks = 7
  MaxCycles = 2
  MaxFailures = 0
SPECIFICATION Spec
INVARIANT NoFalseAlarm
CHECK_DEADLOCK FALSE

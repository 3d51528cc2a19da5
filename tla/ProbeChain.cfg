\* The constants of the code; forks on both sides of every locator entry that
\* matters; peers behind, at and beyond the reference height.
CONSTANTS
  OurTip = 20000
  Forks = {100, 3000, 17931, 17932, 18955, 18956, 18957, 19978, 19988, 19993, 19994, 20000}
  PeerTips = {19990, 19993, 19994, 20003}
  Retries = 1
  HandshakeMessages = 20
  AddrEnough = 1000
  AddrSizes = {0, 1000}
  MaxAddrs = 2000
  HeadersPerReply = 2000
  LocatorLength = 24
  LocatorStartLag = 12
  ChainRefLag = 6
  Reach = 1044
SPECIFICATION FairSpec
INVARIANTS ChainHashIsPeers RecentForkPlaced
PROPERTIES ProbeEnds

\* Two crawlers with two addresses, one address per request, one crash.
CONSTANTS
  i = i  j = j  c1 = c1  c2 = c2
  Ip = {i, j}
  Crawler = {c1, c2}
  Reachable <- Peers
  OwnIp <- Selves
  BatchSize = 1
  MaxCrashes = 1
SPECIFICATION FairSpec
INVARIANTS NeverAskedAgain CacheIntact
PROPERTY EveryoneLocated

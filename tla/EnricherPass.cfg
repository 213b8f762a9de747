SPECIFICATION FairSpec
CONSTANTS
  u1 = u1
  u2 = u2
  u3 = u3
  w1 = w1
  w2 = w2
  NoUrl = NoUrl
  Urls <- TwoUrls
  Workers <- TwoWorkers
  Delay = 1
  Cooldowns = {1}
  TTL = 0
  MaxTime = 2
  MaxLocations = 1
PROPERTIES
  ImplementsPass

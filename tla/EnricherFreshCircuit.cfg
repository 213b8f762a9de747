SPECIFICATION FairSpec
CONSTANTS
  u1 = u1
  u2 = u2
  u3 = u3
  w1 = w1
  w2 = w2
  NoUrl = NoUrl
  Urls <- TwoUrls
  Workers <- OneWorker
  Delay = 0
  Cooldowns = {1, 2}
  TTL = 0
  MaxTime = 3
  MaxLocations = 2
PROPERTIES
  LaterLocationAsks

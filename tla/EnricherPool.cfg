SPECIFICATION Spec
CONSTANTS
  u1 = u1
  u2 = u2
  u3 = u3
  w1 = w1
  w2 = w2
  NoUrl = NoUrl
  Urls <- TwoUrls
  Workers <- TwoWorkers
  Delay = 1
  Cooldowns = {1, 2}
  TTL = 2
  MaxTime = 3
  MaxLocations = 2
SYMMETRY Symmetric
INVARIANTS
  IInv
  NoRepeatedRequest
  EveryUrlAccountedFor
  SkipsAreReported
  BreakerHolds
  PauseCoversCooldowns
  SlotsSpaced
PROPERTIES
  PagesAreKept

CONSTANTS
  s1 = s1
  s2 = s2
  i1 = i1
  i2 = i2
  Stock = {s1, s2}
  Listed = {s1, s2}
  Market = Market
  Request <- MCRequest
  Related = {s1}
  Covered = s1
  Proxies <- MCProxies
  Sector = Sector
  SectorIndex = SectorIndex
  Retryable = TRUE
  MaxRounds = 2
  MaxRequests = 2
  MaxCalls = 5
  MaxWritten = 3
SPECIFICATION Spec
INVARIANT CallsWithinBudget

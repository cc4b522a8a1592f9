SPECIFICATION FairSpec
CONSTANTS
  r1 = r1
  r2 = r2
  Readers = {r1, r2}
  ServeLimit = 4
  Ahead = 1
  CacheFor = 2
  ProviderTimeout = 2
  ClientTimeout = 4
  ClientLimit = 7
  ClientAhead = 2
  Nothing = Nothing
INVARIANT UsableOnArrival
PROPERTY FetchEnds

\* One request beside the warm loop, two projects that come and go; one entry
\* for each cache, so that the two projects evict each other.
SPECIFICATION FairSpec
CONSTANTS
  None = None
  models = models
  traces = traces
  Project = {p1, p2}
  Kind = {models, traces}
  CacheOf <- MCCacheOf
  Endpoint <- MCEndpoint
  WarmUp <- MCWarmUp
  Request = {r1}
  Warmer = {loop}
  Slot = {b1}
  MaxEntries = 1
INVARIANT LastUpdatedInv
PROPERTIES
  RequestsEnd
  AggregatesReturn

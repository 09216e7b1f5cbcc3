\* Entries fetched at different instants, and traces older than the window.
SPECIFICATION Spec
CONSTANTS
  None = None
  p1 = p1
  p2 = p2
  t1 = t1
  t2 = t2
  t3 = t3
  t4 = t4
  agent = agent
  periodic = periodic
  chat = chat
  Project = {p1, p2}
  Trace = {t1, t2, t3, t4}
  Dated = {t1, t2, t3}
  Model = {vendor, alias}
  VendorModel = {vendor}
  Owner <- MCOwner
  Name <- MCName
  Session <- MCSession
  Stage <- MCStage
  Window = 3
  Buckets = 2
  Granule = 2
  Limit = 1
  MaxNow = 5
  MaxSpend = 2
  MaxEntries = 2
INVARIANTS
  GroupsConserve
  FreshTrendIsTotal
  HighlightsAgree
PROPERTIES
  TrendOnlyLoses
  PagesAreComplete

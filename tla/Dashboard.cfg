\* Two scopes, two backends, two refreshes and two reconciliations at once.
SPECIFICATION Spec
CONSTANTS
  None = None
  All = All
  Scope = {s1, s2}
  First = s1
  Backend = {x, y}
  Click = {c1, c2}
  MaxOpen = 2
INVARIANTS
  TypeOK
  ShowsSelection
  StatusIsTruthful

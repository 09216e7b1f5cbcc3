\* Two projects; one component bears the name of a project, one does not.
SPECIFICATION RollupSpec
CONSTANTS
  All = All
  PageLimit = 1
  Slug = {a, b}
  Component = {a, d}
  Backends = {x, y}
INVARIANTS
  RollupConserves
  SelectionMatchesCard
  SelectorCovers

\* A run of the server and one of the command line, on one project.
SPECIFICATION Spec
CONSTANTS
  None = None
  Project = {p1}
  Keyed = {p1}
  Runner = {s1, c1}
  Cli = {c1}
  MaxClock = 2
INVARIANTS
  TypeOK
  DriftIsUntraced
  OkHasBaseline

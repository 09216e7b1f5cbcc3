\* One run after the other, in the server: without drift between them?
SPECIFICATION Spec
CONSTANTS
  None = None
  Project = {p1, unkeyed}
  Keyed = {p1}
  Runner = {s1}
  Cli = {}
  MaxClock = 2
INVARIANT
  BackToBackAgrees

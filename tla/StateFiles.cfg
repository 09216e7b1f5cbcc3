\* A run of the server, a command, updates at once, and two directories.
SPECIFICATION Spec
CONSTANTS
  None = None
  Torn = Torn
  Dir = {d1, d2}
  Text = {ok}
  Server = {s1}
  Command = {c1}
  Handler = {h1, h2}
  Reader = {r1}
SYMMETRY Symmetry
INVARIANTS
  TypeOK
  FilesAreWhole
  LiveIsSaved
PROPERTY WritesAreAtomic

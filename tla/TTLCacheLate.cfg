\* One key, one suspended caller: enough for a late answer.
SPECIFICATION Spec
CONSTANTS
  None = None
  Key = {k1}
  Task = {t1}
  MaxEntries = 1
  MaxVersion = 1
INVARIANT FreshAfterInvalidate

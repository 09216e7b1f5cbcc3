\* max_entries <= 0 still leaves room for one entry, which two keys compete for.
SPECIFICATION FairSpec
CONSTANTS
  None = None
  Key = {k1, k2}
  Task = {t1, t2}
  MaxEntries = 0
  MaxVersion = 1
PROPERTIES
  MarksAreCleared
  DataArrives

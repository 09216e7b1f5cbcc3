\* Three keys compete for two entries, with two coroutines suspended at once.
SPECIFICATION HSpec
CONSTANTS
  None = None
  Key = {k1, k2, k3}
  Task = {t1, t2, t3}
  MaxEntries = 2
  MaxVersion = 1
SYMMETRY Symmetric
INVARIANTS
  TypeOK
  StoreInv
  MarkHasRefresh
  OneRefreshPerKey
  WorkingSetStays
PROPERTY ImplementsSWR

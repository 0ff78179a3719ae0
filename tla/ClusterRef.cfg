CONSTANTS
  t1 = t1
  t2 = t2
  t3 = t3
  Threads = {t1, t2, t3}
  Disciplines = {"plain", "atomic", "locked", "tryget"}

SPECIFICATION FairSpec

INVARIANTS
  NoFreeWhileMapped
  RefCountsHolders
  FinallyBalanced
PROPERTIES
  ImplementsFolioLifetime
  EventuallyFreed

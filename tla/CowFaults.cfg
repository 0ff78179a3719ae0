SPECIFICATION Spec
CONSTANTS
  Frame = {f1, f2, f3}
  f1 = f1
  f2 = f2
  f3 = f3
  t1 = t1
  t2 = t2
  NoFrame = NoFrame
  Context = {t1, t2}
  Mms = 2
  N = 3
  VmaFirst = 1
  VmaLast = 2
  Val = {0, 1}
  Zero = 0
  Discardable = {1}
  RandRead = FALSE
  MaxPin = 0
  MaxDeferred = 2
  Migrating = FALSE
  ForkOverlaps = FALSE
SYMMETRY Symmetry

INVARIANTS
  CopyIsCurrent
  CowIsolation
  SubPageAligned
PROPERTIES
  ImplementsPrivateMemory
  RemapKeepsContents

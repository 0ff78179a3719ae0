SPECIFICATION Spec
CONSTANTS
  Frame = {f1, f2, f3}
  f1 = f1
  f2 = f2
  f3 = f3
  t1 = t1
  NoFrame = NoFrame
  Context = {t1}
  Mms = 2
  N = 3
  VmaFirst = 0
  VmaLast = 2
  Val = {0, 1}
  Zero = 0
  Discardable = {1}
  RandRead = FALSE
  MaxPin = 1
  MaxDeferred = 2
  Migrating = FALSE
  ForkOverlaps = FALSE
SYMMETRY Symmetry
INVARIANTS CopyIsCurrent

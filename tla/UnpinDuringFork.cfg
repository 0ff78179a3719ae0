SPECIFICATION Spec
CONSTANTS
  Frame = {f1, f2, f3}
  f1 = f1
  f2 = f2
  f3 = f3
  t1 = t1
  NoFrame = NoFrame
  Context = {t1}
  Mms = 2
  N = 2
  VmaFirst = 0
  VmaLast = 1
  Val = {0, 1}
  Zero = 0
  Discardable = {}
  RandRead = FALSE
  MaxPin = 1
  MaxDeferred = 2
  Migrating = FALSE
  ForkOverlaps = TRUE
SYMMETRY Symmetry
INVARIANTS CopyIsCurrent

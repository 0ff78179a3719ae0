SPECIFICATION Spec
CONSTANTS
  Frame = {f1, f2}
  f1 = f1
  f2 = f2
  t1 = t1
  NoFrame = NoFrame
  Context = {t1}
  Mms = 1
  N = 2
  VmaFirst = 1
  VmaLast = 2
  Val = {0}
  Zero = 0
  Discardable = {}
  RandRead = FALSE
  MaxPin = 0
  MaxDeferred = 2
  Migrating = TRUE
  ForkOverlaps = FALSE
SYMMETRY Symmetry
INVARIANTS SubPageAligned

CONSTANTS
  NSUB = 8
  BND = 3
  MMUC = 8
  NCLUST = 4
  PAGE_MMUCOUNT = 4
  BASE = 1024

SPECIFICATION Spec

INVARIANTS
  GoneIsUnmapped
  NoOrphan
  RefsExact
  FileIsKept
  NoStaleTranslation
PROPERTIES
  AllEnd
  ImplementsFolioLifetime

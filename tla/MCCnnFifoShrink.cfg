SPECIFICATION AnySpec
CONSTANTS
  cacheWidthMAX = 4
  PtrMod = 8
  Widths <- MCWidths
  Data <- MCData
  Zero = 0
INVARIANT PointersInRange

SPECIFICATION Spec
CONSTANTS
  cacheWidthMAX = 4
  PtrMod = 8
  Widths <- MCWidths
  Data <- MCData
  Zero = 0
INVARIANTS
  TypeOK
  RingPhase
PROPERTY DelayLine

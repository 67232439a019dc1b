SPECIFICATION RandSpec
CONSTANTS
  IoCycles = 2
  GapMAX = 4
  DrawAt <- MCDrawAt
INVARIANTS
  FullPeriod
  DrawSettled
  DrawIsPixel

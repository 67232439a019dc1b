SPECIFICATION FairSpec
CONSTANTS
  cacheWidthMAX = 3
  cacheHeightMAX = 4
  AddrSpace = 16
  iterMAX = 3
  Dims <- MCDims
  Iters <- MCIters
INVARIANTS
  TypeOK
  StoresInImage
  NeverStalls
PROPERTY Terminates

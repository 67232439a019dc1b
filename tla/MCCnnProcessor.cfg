SPECIFICATION ProcessorSpec
CONSTANTS
  cacheWidthMAX = 5
  cacheHeightMAX = 4
  AddrSpace = 32
  iterMAX = 3
  PtrMod = 8
  MaxRuns = 2
  MaxCuts = 1
  CutRuns <- MCCutRuns
  Dims <- MCDims
  Iters <- MCIters
INVARIANTS
  ResultExact
  
  

SPECIFICATION SystemFairSpec
CONSTANTS
  cacheWidthMAX = 2
  cacheHeightMAX = 3
  AddrSpace = 8
  iterMAX = 3
  Dims <- MCNarrow
  Iters <- MCIters
  HostIters <- MCOnce
  LearnLoops <- MCOneLoop
  alg2Iter = 1
  IoCycles = 2
  MaxResets = 1
PROPERTY MainLoopReturns

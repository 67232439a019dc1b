SPECIFICATION SystemFairSpec
CONSTANTS
  cacheWidthMAX = 2
  cacheHeightMAX = 3
  AddrSpace = 8
  iterMAX = 3
  Dims <- MCDims
  Iters <- MCIters
  HostIters <- MCHostIters
  LearnLoops <- MCLearnLoops
  alg2Iter = 2
  IoCycles = 2
  MaxResets = 2
INVARIANTS
  CacheOwnership
  ResultFresh
  
  MachineContract
PROPERTIES
  ConfigStable
  ReturnsUnlessWedged

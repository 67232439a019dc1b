SPECIFICATION Spec
CONSTANTS
  busHalf = 8
  errorHalf = 128
  busFMax = 4
  InitTemplate = 3
  SumsOf <- MCSumsOf
  LearnRates <- MCRates
  Shifts <- MCShifts
  LearnLoops <- MCLoops
INVARIANTS
  TypeOK
  LearnedExact
  
  OuterRowsZero

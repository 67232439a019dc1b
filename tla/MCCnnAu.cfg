SPECIFICATION Spec
CONSTANTS
  busHalf = 16
  busFMax = 4
  errorHalf = 64
  Templates <- MCTemplates
  Steps <- MCSteps
  Patches <- MCPatches
  Ideals <- MCIdeals
  MaxTerms = 2
INVARIANTS
  TypeOK
  NoOvershoot
  StepAccurate
  StopsAtTarget
  ErrorSumsExact

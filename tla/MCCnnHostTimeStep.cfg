SPECIFICATION Spec
CONSTANTS
  Base = 8
  PlaneCount = 3
  PlaneMax = 3
  MaxFaults = 0
  Sessions <- MCTimeSteps
  ResultRows <- MCResultRows
  ErrorRows <- MCErrorRows
  TemplateRows <- MCTemplateRows
  TemplateNos <- MCTemplateNos
  InitTemplates <- MCInitTemplates
  InitHeader <- MCInitHeader
INVARIANTS
  TimeStepDelivered

SPECIFICATION Spec
CONSTANTS
  Base = 8
  PlaneCount = 3
  PlaneMax = 3
  MaxFaults = 2
  Sessions <- MCSessions
  ResultRows <- MCResultRows
  ErrorRows <- MCErrorRows
  TemplateRows <- MCTemplateRows
  TemplateNos <- MCTemplateNos
  InitTemplates <- MCInitTemplates
  InitHeader <- MCInitHeader
INVARIANTS
  TypeOK
  HeaderDelivered
  ImagesDelivered
  ResultDelivered
  BuffersSuffice
PROPERTIES
  HostReturns

CONSTANTS
  Paths = {"a", "b"}
  SupportsRaw = FALSE
  Bootstrap = FALSE
  PagesPerMB = 1
  MinSize = 2
  AutoextendIncrement = 2
  DiskCap = 4
  MaxGen = 2
  Inputs <- MCInputsMaxAboveSize
  Written <- MCWritten

SPECIFICATION Spec

INVARIANTS
  TypeOK
  ParsePassesAgree
  NewDbOnlyOnFreshFiles
  RunningMatchesConfig


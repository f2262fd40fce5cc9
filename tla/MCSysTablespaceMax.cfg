CONSTANTS
  Paths = {"a", "b"}
  SupportsRaw = FALSE
  Bootstrap = FALSE
  PagesPerMB = 1
  MinSize = 2
  AutoextendIncrement = 2
  DiskCap = 4
  MaxGen = 2
  Inputs <- MCInputs
  Written <- MCWritten

SPECIFICATION Spec

INVARIANT
  RunningMatchesConfig

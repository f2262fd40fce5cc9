CONSTANTS
  Threads = {t1, t2}
  NUnique = 2
  MaxBytes = 1
  BuildLimit = 2
  PageBuildLimit = 2
  NRecs = 2
  Descents <- MCPrefixScan
SPECIFICATION FairSpec
PROPERTY HeuristicConverges

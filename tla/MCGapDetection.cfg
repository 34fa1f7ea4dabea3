CONSTANTS
  FirstId = 0
  MaxIdV2 = 2
  FirstIdV25 = 5
  LastId = 8
  DepositBlock <- MCDepositBlock
  Starts <- MCStarts
  GapsLimit = 2
  MaxGapSize = 2
  QuerySizes = {2}
  MaxFailures = 1
SPECIFICATION FairSpec
INVARIANTS
  CheckpointPassed
  GapsReported
PROPERTIES
  GapsHealed

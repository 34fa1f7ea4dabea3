CONSTANTS
  w = w
  f1 = f1
  f2 = f2
  f3 = f3
  NoFillTx = NoFillTx
  Worker = {w}
  FillTx = {f1, f2, f3}
  Total <- MCTotal
  FillTime <- MCFillTime
  Amount = 3
  DepositTime = 2
  Copies = 2
  MaxCrashes = 1
SPECIFICATION FairSpec
INVARIANTS
  NoDuplicateFill
  FilledIsHighestTotal
  FeeCountsRecorded
  TrackedStaysRecorded
PROPERTIES
  LedgerSpec
  FillsSettle
CHECK_DEADLOCK FALSE

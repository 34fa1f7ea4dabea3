CONSTANTS
  s1 = s1
  s2 = s2
  Origin = Origin
  Filled = Filled
  SpeedUp = {s1, s2}
  SpeedUpBlock <- MCSpeedUpBlock
  Copies = 2
  MaxCrashes = 1
SPECIFICATION FairSpec
INVARIANTS
  LatestWins
PROPERTIES
  LedgerSpec
  EventsSettle
CHECK_DEADLOCK FALSE

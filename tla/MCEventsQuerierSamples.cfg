CONSTANTS
  c1 = c1
  c2 = c2
  c3 = c3
  Call = {c1, c2, c3}
  QueryRange <- MCQueryRange
  InitialSize = 0
  DefaultSize = 8
  TooLarge <- MCTooLarge
  Limit = 3
SPECIFICATION Spec
INVARIANTS
  EveryBlockRead
CHECK_DEADLOCK FALSE

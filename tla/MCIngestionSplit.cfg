CONSTANTS
  chain1 = chain1
  chain2 = chain2
  d1 = d1
  d2 = d2
  s1 = s1
  t1 = t1
  f1 = f1
  u1 = u1
  Loop = {chain1, chain2}
  Republishing = {chain1, chain2}
  StartBlock <- MCStartBlock
  Distance <- MCDistance
  MinBlockRange <- MCMinBlockRange
  Deployment <- MCDeployment
  Deposit = {d1, d2}
  Swap = {s1}
  NoSwap = NoSwap
  Token = {t1}
  TokenOf <- MCTokenOf
  Receipts <- MCReceipts
  Fill = {f1}
  SpeedUp = {u1}
  EventLoop <- MCEventLoop
  EventBlock <- MCEventBlock
  Kind = {"deposit", "fill", "speedUp"}
  KindOf <- MCKindOf
  QuerySize <- MCQuerySize
  MaxHead = 4
  MaxFailures = 1
SPECIFICATION MCSpec
INVARIANTS
  EveryBlockQueried
CHECK_DEADLOCK FALSE

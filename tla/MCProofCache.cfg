CONSTANTS
  d1 = d1
  d2 = d2
  d3 = d3
  d4 = d4
  d5 = d5
  t1 = t1
  t2 = t2
  t3 = t3
  alice = alice
  rita = rita
  ray = ray
  o1 = o1
  o2 = o2
  a1 = a1
  c2 = c2
  r1 = r1
  r2 = r2
  r3 = r3
  r4 = r4
  l1 = l1
  l2 = l2
  l3 = l3
  l4 = l4
  p1 = p1
  p2 = p2
  p3 = p3
  q1 = q1
  q2 = q2
  Deposit = {d1, d2, d3, d4, d5}
  Token = {t1, t2, t3}
  NoToken = NoToken
  ZeroAddress = ZeroAddress
  SourceToken <- MCSourceToken
  OutputAddress <- MCOutputAddress
  SameSymbol <- MCSameSymbol
  Unpriced = {t3}
  Unpaired = {d3}
  Negative = {d2}
  MaxDeaths = 1
  MaxRequests = 1
  Account = {alice, rita, ray}
  NoOne = NoOne
  NoDeposit = NoDeposit
  Depositor <- MCDepositor
  Date <- MCDate
  Tx <- MCTx
  DelimiterStart = 2
  Used = {rita}
  Worker = {w1, w2}
  ByCron = TRUE
  MaxCrashes = 2
  Owner = {o1, o2}
  Amount = {1, 2}
  Edited = {o1}
  NoRow = NoRow
  RewardFile <- MCRewardFile
  Admin = {u1, u2}
  MaxUploads = 2
  Holder = {a1}
  Window <- MCWindow
  Client = {c1, c2}
  NoEntry = NoEntry
  Ttl = 1
  MaxDelay = 1
  MaxTime = 2
  Discord = {i1, i2}
  Wallet = {x1, x2}
  NoWallet = NoWallet
  Session = {s1, s2}
  MaxUser = 3
  Caller = {k1, k2, k3}
  MaxRefusals = 1
  Row = {r1, r2, r3, r4}
  DateOf <- MCDateOf
  From = 1
  Till = 3
  PageLimit = 2
  MaxReindexes = 2
  Listed = {l1, l2, l3, l4}
  ListedDate <- MCListedDate
  PageSize = 2
  MaxOffset = 4
  MaxLists = 1
  SpeedUp = {p1, p2, p3}
  SpeedUpBlock <- MCSpeedUpBlock
  Updates <- MCUpdates
  Original = Original
  Copies = 2
  MaxFaults = 2
  Queue <- MCQueue
  MaxCounts = 2
  MaxReports = 1
  MaxErrors = 1
  Groups = {"one proof"}
SPECIFICATION MCSpec
INVARIANT DiscordShown
CHECK_DEADLOCK FALSE

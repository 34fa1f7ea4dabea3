CONSTANTS
  d1 = d1
  d2 = d2
  r1 = r1
  r2 = r2
  alice = alice
  bob = bob
  rita = rita
  NoOne = NoOne
  Unread = Unread
  Deposit = {d1, d2}
  Account = {alice, bob, rita}
  Depositor <- MCDepositor
  Date <- MCDate
  Thresholds = {2}
  Referrers = {rita}
  MaxChanges = 3
  ClaimDates = {1, 2}
  MaxClaims = 1
  Request = {r1, r2}
  Window <- MCWindow
  MaxDate <- MCMaxDate
  MaxDeaths = 0
SPECIFICATION FairSpec
INVARIANTS
  PaidOnce
PROPERTIES
  ClaimSettles
  ViewSettles
CHECK_DEADLOCK FALSE

CONSTANTS
  w1 = w1
  w2 = w2
  d1 = d1
  d2 = d2
  r1 = r1
  r2 = r2
  alice = alice
  NoDeposit = NoDeposit
  NoAccount = NoAccount
  Worker = {w1, w2}
  Deposit = {d1, d2}
  InProgram = {d1, d2}
  Recipient <- MCRecipient
  Date <- MCDate
  Fee <- MCFee
  MaxBreakdowns <- MCMaxBreakdowns
  Account = {alice}
  MaxBlock = 2
  Copies = 2
  Request = {r1, r2}
  Window <- MCWindow
  MaxDate <- MCMaxDate
  MaxDeaths = 1
SPECIFICATION MCSpec
INVARIANTS
  PaidOnce
  BooksAgree
PROPERTIES
  ClaimsMarked
  RewardFollowsFee
CHECK_DEADLOCK FALSE

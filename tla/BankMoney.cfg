\* Two customers with an account each, one of which opens on the way.
CONSTANTS
  Accounts = {1, 2}
  HolderOf <- OneEach
  Newcomers = {2}
  Histories <- Books
  MaxDay = 3
  Budget = 2
  MaxApplications = 2
  Draws <- Prompt
  Month = 1
  Term = 1
  Principal = 1
  Interest = 1
  Grace = 1
  CoolingOff = 1
  Window = 2
  Lags = {1, 2}
  Limits = {0}
  Deposits = {0, 1}
  Amounts <- PlusMinus
  Sample = 1
SPECIFICATION Spec
INVARIANTS
  BalanceIsPosted
  PostedIsLedgered
  NoMovementOutsideLife
  
  LoanHasAnAccount
CHECK_DEADLOCK FALSE

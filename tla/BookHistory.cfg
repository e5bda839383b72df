\* One customer, four days in three months, and a movement drawn in a month.
CONSTANTS
  N = 1
  History = 1
  Anchor = 4
  MonthDays = 2
  Slots = 2
  Limits = {1}
  Openings = {2}
  Salaries = {2}
  Amounts = {2}
  Principals = {8}
  Terms = {1, 2}
  Interest <- OneThird
  Lags = {0, 1}
  EarlyDays = {0}
  LateDays = {1}
  CureDays = {3}
  CoolingOff = 2
  Validity = 2
  BurstLength = 2
  Delays = {1}
  Draws = 1
SPECIFICATION Spec
INVARIANTS
  ChecksPass
  LedgerHoldsTheBooks
  ScheduleRepays
CHECK_DEADLOCK FALSE

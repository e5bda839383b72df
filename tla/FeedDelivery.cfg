\* Either one day, two files that declare the same sent under any of two
\* names, and tasks that die after their commit; or two days whose runs
\* overlap, one file of the first that may come late, and a contract that
\* changes on the second.  The first day is started again and again.
CONSTANTS
  NONE = NONE
  a = a
  b = b
  x = x
  Days = {1, 2}
  Keys = {1, 2}
  Contents = {a, b}
  Sends <- Anything
  Published = {1, 2}
  KeyDay <- AllDayOne
  DateOf <- DatedDayOne
  Declares <- AllDeclareX
  Layout <- SecondIsNew
  Malformed = {}
  Dirty = {a}
  MaxSequence = 2
  MaxUnits = 2
  MaxIndexed = 2
  LateDeaths = {"open", "register"}
  Cleared = {1}
  Overlap = TRUE
SPECIFICATION MCSpec
INVARIANTS
  BatchHasOneOwner
  SiblingsInStep
  LandsOnce
  DeclarationIsOnce
  SuccessMeansLanded
  DayIsAccountedFor
CHECK_DEADLOCK FALSE

\* Three days, a loop started twice, two faults and an intervention.
CONSTANTS
  Last = 3
  First <- FirstDay
  Published <- Publications
  MaxAttempts = 2
  Ends = {"registered", "failed", "nothing"}
  Invocations = 2
  Interventions = 1
  Faults = 2
SPECIFICATION Spec
INVARIANTS
  DayIsReadInTime
  PauseComesBack
  RatesAreWhole
  WindowIsBuilt
CHECK_DEADLOCK FALSE

\* Two days, one loop, one run that ends before any of its batches failed.
CONSTANTS
  Last = 2
  First <- FirstDay
  Published <- Publications
  MaxAttempts = 1
  Ends = {"registered", "nothing"}
  Invocations = 1
  Interventions = 0
  Faults = 1
SPECIFICATION Spec
PROPERTIES
  NeverPastIncomplete
CHECK_DEADLOCK FALSE

\* Three weeks, the second of two days, a list of two entities of which one leaves and
\* one joins each Monday, and a source seeded a second time.
CONSTANTS
  NONE = NONE
  LastDay = 4
  Mondays = {1, 2, 4}
  AnchorOf <- SeededTwice
  Base = 2
  Removals = 1
  Additions = 1
  MaxSequence = 2
  MaxFaults = 2
SPECIFICATION Spec
INVARIANTS
  VersionIsOneList
  LeftForGood
PROPERTIES
  MondayHasItsList
CHECK_DEADLOCK FALSE

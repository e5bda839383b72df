\* Two tables, one interval attempted again and again, one table drifting
\* under its contract, and a source that is quiet while a run is under way.
CONSTANTS
  NONE = NONE
  e1 = e1
  e2 = e2
  k1 = k1
  k2 = k2
  Entities = {e1, e2}
  Days = {1}
  Keys = {k1}
  Purgeable = {e1}
  Drifting = {e1}
  Identified = {e2}
  Lag = 1
  CommitDelay = 1
  MaxStamp = 2
  MaxSequence = 2
  LateDeaths = {"open", "register"}
  QuietSource = TRUE
SPECIFICATION FairSpec
INVARIANTS
  OneBatchPerInterval
  VaultResolvesBronze
PROPERTIES
  RegisteredIsFinal
  RunsEnd
CHECK_DEADLOCK FALSE

\* One table, two intervals whose runs overlap each other and the source.
CONSTANTS
  NONE = NONE
  e1 = e1
  e2 = e2
  k1 = k1
  k2 = k2
  Entities = {e1}
  Days = {1, 2}
  Keys = {k1, k2}
  Purgeable = {}
  Drifting = {}
  Identified = {}
  Lag = 1
  CommitDelay = 1
  MaxStamp = 3
  MaxSequence = 1
  LateDeaths = {"open"}
  QuietSource = FALSE
SYMMETRY KeySymmetry
SPECIFICATION Spec
INVARIANTS
  TypeOK
  NoRowIsLost
  SuccessMeansRegistered
  ObjectHoldsWhatIsClaimed
PROPERTIES
  PublishesBronze
CHECK_DEADLOCK FALSE

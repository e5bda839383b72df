\* Two tickers and a seed, each of which may be killed once.
CONSTANTS
  Tickers = {t1, t2}
  Profiles = {"ci", "dev"}
  Anchors = {0, 1}
  risk = risk
  remittance = remittance
  Events <- Timeline
  Offset <- Offsets
  Adding <- Risk
  Keys = {"addresses", "entries"}
  OfCustomer <- CustomerKeys
  Parts = 2
  MaxDay = 3
  Calls = 2
  Seeds = 2
  Kills = 1
SYMMETRY Symmetric
SPECIFICATION Spec
INVARIANTS
  TickedDayByDay
  DriftOnTime
  LogIsInTheSchema
  KeysAreKept
CHECK_DEADLOCK FALSE

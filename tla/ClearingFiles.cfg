\* Three settlement dates: the first corrected on arrival, the second cut off, the third late into a new layout.
CONSTANTS
  Items <- ThreeDays
  LateBy = 2
  CorrectionLag = 1
  HeldLate = 2
  OnArrival = 0
  Cut = 1
  Added = 2
  Removed = 4
  WarnBand <- FiveToEight
  ErrorBand <- Half
  Room = 10
  Absolute = 3
SPECIFICATION FairSpec
INVARIANTS
  BreaksAreTheProcessors
  CopiesAreRecognised
PROPERTY
  EveryDateArrives
CHECK_DEADLOCK FALSE

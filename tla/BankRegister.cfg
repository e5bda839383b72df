\* A holder with a card, three ticks, and what they may add.
CONSTANTS
  Histories <- Registers
  MaxDay = 4
  Budget = 3
  Validity = 2
  Lags = {1, 2}
  DispositionLag <- TwoDays
SPECIFICATION Spec
INVARIANTS
  CardSpendsAreValid
  AlertsAreWorked
  OnlyPurgesDisagree
CHECK_DEADLOCK FALSE

\* Two ticks and two draws: a duplicate planted, made dirty and purged.
CONSTANTS
  Histories <- Registers
  MaxDay = 2
  Budget = 2
  Validity = 2
  Lags = {1}
  DispositionLag <- TwoDays
SPECIFICATION Spec
INVARIANTS
  LogReconciles
CHECK_DEADLOCK FALSE

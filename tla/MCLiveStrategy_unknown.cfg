\* A request of a chase fails.
SPECIFICATION Spec
CONSTANTS
  Qty = 1
  MaxEntryFills = 0
  StopLoss = FALSE
  ResumeAllowed = TRUE
  Disturbances <- Errors
  MaxNet = 2
  MaxOrphans = 1
INVARIANTS
  EntryOrderAlone

\* No request fails and no fill is late, but the process may end at any step and
\* the exchange may end any order.
SPECIFICATION FairLedgerSpec
CONSTANTS
  Qty = 2
  MaxEntryFills = 0
  StopLoss = TRUE
  ResumeAllowed = TRUE
  Disturbances <- Restarts
  MaxNet = 3
  MaxOrphans = 2
  MaxUntold = 1
INVARIANTS
  EntryOwnsPosition
  NothingUnknownHeld
PROPERTIES
  StopFlattens

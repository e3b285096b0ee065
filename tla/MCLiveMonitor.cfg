\* Everything may go wrong, and a monitor looks on.
SPECIFICATION MonitorSpec
CONSTANTS
  Qty = 1
  MaxEntryFills = 2
  StopLoss = TRUE
  ResumeAllowed = TRUE
  Disturbances <- Everything
  MaxNet = 1
  MaxOrphans = 1
INVARIANTS
  TypeOK
  FillLimit
  OKWasTrue
  NoEventMissed
PROPERTIES
  ImplementsProtocol
  StartsInAgreement

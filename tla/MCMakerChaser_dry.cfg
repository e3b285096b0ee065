\* The chases of the dry run.
SPECIFICATION FairSpec
CONSTANTS
  Kinds = {"ENTRY", "STOP"}
  Venue = "dry_run"
  Qty = 3
  AcceptQty = 2
  MaxTicks = 3
  StartHeld = {3}
  Disturbances <- DryRunFaults
INVARIANTS
  ReportIsExact
  EntryWithinRequest
PROPERTIES
  ChaseEnds

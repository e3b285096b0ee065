\* Every kind of chase on the live exchange, every disturbance; a position to be
\* closed may be smaller than the quantity asked for.
SPECIFICATION FairSpec
CONSTANTS
  Kinds = {"ENTRY", "STOP", "CLOSE"}
  Venue = "binance"
  Qty = 3
  AcceptQty = 2
  MaxTicks = 3
  StartHeld = {1, 3}
  Disturbances <- AllFaults
INVARIANTS
  TypeOK
  AtMostOneLiveOrder
  NothingWorkingAfterReturn
  ReportedWithinExecuted
  MarketOnlyAfterCancel
  StopSuccessFlattens
PROPERTIES
  CancelledLeavesNoKnownOrder
  ChaseEnds
  ImplementsContract

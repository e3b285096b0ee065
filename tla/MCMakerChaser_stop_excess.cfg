\* Nothing goes wrong but a fill between the last query and the cancel.
SPECIFICATION Spec
CONSTANTS
  Kinds = {"STOP"}
  Venue = "binance"
  Qty = 2
  AcceptQty = 2
  MaxTicks = 1
  StartHeld = {2}
  Disturbances <- NoFaults
INVARIANTS
  MarketStopWithinPosition

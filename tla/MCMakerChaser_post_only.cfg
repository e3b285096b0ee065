\* The live exchange refuses a post-only order.
SPECIFICATION Spec
CONSTANTS
  Kinds = {"ENTRY"}
  Venue = "binance"
  Qty = 2
  AcceptQty = 2
  MaxTicks = 2
  StartHeld = {2}
  Disturbances <- PostOnlyFaults
INVARIANTS
  PostOnlyRefusalIsRetried

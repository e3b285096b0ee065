\* The live session does not offer closed klines to the monitor.
SPECIFICATION ParitySpec
CONSTANTS
  LeftBars = 1
  RightBars = 1
  Tick = 1
  MaxCandles = 3
  Ranges <- Ranges1
  OfferClosed = FALSE
  LoseBars = FALSE
  NoPrice = NoPrice
PROPERTIES
  MissedOnlyIfHeldBack

\* The bounded dry run on a feed with gaps.
SPECIFICATION ParitySpec
CONSTANTS
  LeftBars = 1
  RightBars = 1
  Tick = 1
  MaxCandles = 3
  Ranges <- Prices
  OfferClosed = TRUE
  LoseBars = TRUE
  NoPrice = NoPrice
PROPERTIES
  OncePerPivot
  MissedOnlyIfHeldBack

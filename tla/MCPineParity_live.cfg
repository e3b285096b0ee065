\* The live session on a feed that loses nothing, with more bars on the right than
\* on the left.
SPECIFICATION ParitySpec
CONSTANTS
  LeftBars = 1
  RightBars = 2
  Tick = 1
  MaxCandles = 4
  Ranges <- Ranges2
  OfferClosed = FALSE
  LoseBars = FALSE
  NoPrice = NoPrice
INVARIANTS
  TypeOK
  LevelsArePine
  FlagsArePine
  TriggersArePine
  NoTriggerForgotten
PROPERTIES
  OneFirePerBar

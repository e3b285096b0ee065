\* Every mode of the dry run, with a feed that drops or dies.
SPECIFICATION FairSpec
CONSTANTS
  Modes <- EveryMode
  Runtime = 4
  Wait = 2
  ChaseTime = 4
  Stale = 2
INVARIANTS
  TypeOK
  RestingPriceRecent
  CleanExit
PROPERTIES
  SessionEnds

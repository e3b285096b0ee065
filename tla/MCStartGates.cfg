\* The canary and the gates in both position modes, with killed scripts and reboots.
SPECIFICATION Spec
CONSTANTS
  Qty = 2
  ByHand <- OneUnit
INVARIANTS
  TypeOK
  GoMeansUntouched
  CountTellsResting
PROPERTIES
  CleanupOnlyCloses
  StartedOnLatestVerdicts
  RunsOnCleanAccount

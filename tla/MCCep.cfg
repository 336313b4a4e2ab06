CONSTANTS
  Kinds <- AllKinds
  MayHappen <- MayHappenDef
  Lateness = 1
  After = 1
  Span = 2
  LastEvent = 3
  MaxTime = 6
  MaxDuplicates <- DuplicatesDef
  MaxCheckpoints = 1
  MaxRestarts = 1
SPECIFICATION Spec
INVARIANTS
  ToldOnce
  NoneMissed
PROPERTIES
  AlertsTrue
  EventuallyTold
CHECK_DEADLOCK FALSE

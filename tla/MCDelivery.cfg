CONSTANTS
  MaxU64 = 6
  EvalTicks = 1
  ObservabilityStale = 3
  Pids = {7}
  Sensed <- MCSensed
  Cadence = 1
  Capacity = 1
  FirstTime = 3
  MaxTime = 5
  MaxStarts = 2
  MaxFrames <- MCFrames
SPECIFICATION Spec
CHECK_DEADLOCK FALSE
INVARIANTS
  OnlyReplaysDiscarded
  SilentLossBounded
  MaskIsHonest
PROPERTIES
  RefinesOutbox

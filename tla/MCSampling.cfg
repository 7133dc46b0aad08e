\* Two frames: one that may be followed by a reassessment or a step of the
\* clock, and the next.  Two units of time: the fast loop's stale limit and the
\* oldest sample a policy may accept; for the slow loop only the policy's age
\* check is that tight.
CONSTANTS
  Configs <- MCConfigs
  Defaults <- MCDefaults
  Readings <- MCReadings
  Cadences = {1, 2}
  EvalTicks = 1
  StaleLimit = 2
  MaxTime = 2
  MaxFrames = 2
SPECIFICATION FairSpec
CHECK_DEADLOCK FALSE
INVARIANTS
  HealthyIsEarned
  HealthyIsRecent
  QuietIsOk
  MappingIsHonest
PROPERTIES
  BatchesGoUp
  GaugesSettle

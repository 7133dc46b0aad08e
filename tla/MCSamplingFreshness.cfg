\* As MCSampling: the gauge is never set from an instant.
CONSTANTS
  Configs <- MCConfigs
  Defaults <- MCDefaults
  Readings <- MCReadings
  Cadences = {1, 2}
  EvalTicks = 1
  StaleLimit = 2
  MaxTime = 2
  MaxFrames = 2
SPECIFICATION Spec
CHECK_DEADLOCK FALSE
PROPERTY
  FreshnessIsSampleAge

\* A release, and a warning in the frame that follows it.
CONSTANTS
  ReleaseOkStreak = 1
  OkCountMax = 2
  EvalPeriod = 2
  Default = 16
  OperatorLimits = {}
  InitialLimits = {8, 16}
  LateCommands = FALSE
  Weathers = {"mixed"}
SPECIFICATION Spec
PROPERTY WarnAfterReleaseReapplies

\* A signal while an actuation is in flight, and how the process then exits.
CONSTANTS
  ReleaseOkStreak = 1
  OkCountMax = 2
  EvalPeriod = 2
  Default = 16
  OperatorLimits = {}
  InitialLimits = {8, 16}
  LateCommands = FALSE
  Weathers = {"mixed"}
SPECIFICATION Spec
INVARIANT ShutdownGaugeIsTrue

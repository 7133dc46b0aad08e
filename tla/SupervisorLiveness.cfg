\* The GPU starts at the brake or at the default and no cap is set: the relay
\* never lowers a foreign cap.  The readings may settle to hot or to cool.
CONSTANTS
  ReleaseOkStreak = 2
  OkCountMax = 2
  EvalPeriod = 2
  Default = 16
  OperatorLimits = {}
  InitialLimits = {8, 16}
  LateCommands = FALSE
  Weathers = {"mixed", "hot", "cool"}
SPECIFICATION FairSpec
PROPERTIES
  HotIsBraked
  CoolIsReleased

\* A short streak and period, with room for the count to run past the streak;
\* 8 W is the brake, 9 W another limit in its band, 12 W a foreign cap, 16 W
\* the default.
CONSTANTS
  ReleaseOkStreak = 2
  OkCountMax = 3
  EvalPeriod = 3
  Default = 16
  OperatorLimits = {8, 12, 16}
  InitialLimits = {9, 12, 16}
  LateCommands = TRUE
  Weathers = {"mixed"}
SPECIFICATION Spec
INVARIANTS
  ClaimMatchesHardware
  DriverCallsExclusive
  FaultIsServed
  GaugeDeniesNoBrake
PROPERTIES
  RefinesProtocol
  FaultAfterReleaseReapplies

CONSTANTS
  big = big
  small = small
  mig = mig
  Cards = {big, small, mig}
  Physical = {big, small}
  NoCard = nocard
  DefaultsOf <- MCDefaults
  OperatorLimits <- MCOperatorLimits
  MaxCommands = 2
SPECIFICATION Spec
INVARIANTS
  LeftoversAreRecognised
PROPERTIES
  ForeignCapPreserved
  CommandsMoveTheRightWay
  OnlyTargetMoves

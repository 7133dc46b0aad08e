\* The default streak, with room for the count to run past it (a release that
\* keeps failing) and to saturate.
CONSTANTS
  ReleaseOkStreak = 3
  OkCountMax = 5
SPECIFICATION Spec
INVARIANTS
  IInv
  FaultStaysDemanded
PROPERTIES
  ReleaseIsEarned
  OnlyRealFramesActuate
  ErrorStaysReported

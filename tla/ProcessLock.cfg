SPECIFICATION Spec
CONSTANTS
  Procs = {p1, p2, p3, p4}
  NoFile = NoFile
INVARIANTS
  TypeOK
  ExclusiveUnlessStolen
  ExclusiveWithoutOverlap
  NeverBesideLegacy
PROPERTIES
  AmbiguousLockStays
  StartIsDecided
\* Every process has started once and is gone.
CHECK_DEADLOCK FALSE

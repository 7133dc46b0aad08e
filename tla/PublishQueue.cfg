SPECIFICATION Spec
CONSTANTS
  Handles = {h1, h2}
  First = h1
  Consumer = udp
  NoOne = nobody
  Capacity = 2
  MaxFrames = 3
INVARIANTS
  EveryFrameAccounted
  CountersAgree
  DeliveredInOrder
  NothingStranded
PROPERTIES
  RefinesOutbox
  NeverWaits
  DrainEnds
\* Every handle dropped and the worker gone is the end.
CHECK_DEADLOCK FALSE

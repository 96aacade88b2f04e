\* Two slots, long and short tasks; RandomNoise adds nothing or half of the
\* duration.
CONSTANTS
  Task = {1, 2, 3, 4}
  Sizes = {648, 1296}
  Capacity = 6
  MaxTasks = 2
  Arrivals = {0, 72}
  NoiseSteps = {0, 1}
  NoiseUnit = 2
SPECIFICATION MCFairSpec
INVARIANTS
  TypeOK
  OneLiveEvent
  NoTaskLostOrDoubled
  FairShare
  NoIdleSlot
  StartsInOrder
  EventOnTime
  WorkConserved
PROPERTIES
  TimeMonotoneUnlessNoisy
  PlacedFinishes
CHECK_DEADLOCK FALSE

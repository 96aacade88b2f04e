\* With noise, an event is sent into the past.
CONSTANTS
  Task = {t1, t2}
  Sizes = {16}
  Capacity = 2
  MaxTasks = 2
  Arrivals = {0, 8, 10}
  NoiseSteps = {0, 1}
  NoiseUnit = 2
SPECIFICATION MCSpec
PROPERTY TimeMonotone
CHECK_DEADLOCK FALSE

\* Two slots on each device; a core task lasts as long as a lone disk task, and
\* RandomNoise adds nothing or half of the duration.  Tasks are placed at time 0
\* and while an event of the worker is handled.
CONSTANTS
  CpuTask = {c1, c2}
  DiskTask = {d1, d2}
  NetworkTask = {n1, n2}
  Sizes = {16}
  Cores = 1
  DiskCapacity = 2
  NetworkCapacity = 4
  MaxDiskTasks = 2
  MaxNetworkTasks = 2
  Arrivals = {}
  NoiseSteps = {0, 1}
  NoiseUnit = 2
SPECIFICATION MCWorkerSpec
SYMMETRY TaskSymmetry
INVARIANTS
  CoresInOrder
PROPERTIES
  DiskUndisturbed
  NetworkUndisturbed
CHECK_DEADLOCK FALSE

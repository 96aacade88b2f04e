\* The peak of a worker is missed.
CONSTANTS
  Unit = {u1, u2, u3}
  LastTime = 3
  Logs <- LastingLogs
SPECIFICATION Spec
SYMMETRY UnitSymmetry
INVARIANT PeakIsPeak
CHECK_DEADLOCK FALSE

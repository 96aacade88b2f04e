\* Every log of three units on two workers.
CONSTANTS
  Unit = {u1, u2, u3}
  LastTime = 4
  Logs <- MCLogs
SPECIFICATION Spec
SYMMETRY UnitSymmetry
INVARIANTS
  LoadExact
  NoLoadLost
  ReportIsLoad
CHECK_DEADLOCK FALSE

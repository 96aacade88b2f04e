\* Every job of four tasks whose memory adds up.
CONSTANTS
  NTask = 4
  NWorker = 2
  MemoryLimit = 2
  CpuSlots = 1
  Unit = 1
  Task <- MCTask
  SubGraph <- MCSubGraph
  Worker <- MCWorker
  Jobs <- JobsOfUnits
  Limit <- MCLimit
  Slots <- MCSlots
  NoWorker = NoWorker
  Kind = {"cpu", "disk"}
  InOrder = TRUE
  User = {"own"}
  JobUser = "own"
  Others = {}
  UserOf <- MCNone
  OtherPack <- MCNone
  Algorithms = {"FIFO", "TETRIS"}
SPECIFICATION SimFairSpec
INVARIANTS
  SimTypeOK
  OnOneDevice
  DevicesBusy
  UsageCovered
PROPERTY
  SimulationCompletes
CHECK_DEADLOCK FALSE

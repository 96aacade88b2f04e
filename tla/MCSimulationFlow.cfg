\* A subgraph that would fit is refused for the sum of all its tasks ever take.
CONSTANTS
  NTask = 4
  NWorker = 1
  MemoryLimit = 2
  CpuSlots = 1
  Unit = 1
  Task <- MCTask
  SubGraph <- MCSubGraph
  Worker <- MCWorker
  Jobs <- ChainJobs
  Limit <- MCLimit
  Slots <- MCSlots
  NoWorker = NoWorker
  Kind = {"cpu", "disk"}
  InOrder = TRUE
  User = {"own"}
  JobUser = "own"
  Others = {}
  UserOf <- MCNone
  OtherPack <- MCNone
  Algorithms = {"FIFO"}
SPECIFICATION SimFairSpec
PROPERTY FittingJobCompletes
CHECK_DEADLOCK FALSE

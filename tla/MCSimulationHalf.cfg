\* Half units of memory are lost in the memory cap of a subgraph.
CONSTANTS
  NTask = 4
  NWorker = 1
  MemoryLimit = 1
  CpuSlots = 3
  Unit = 2
  Task <- MCTask
  SubGraph <- MCSubGraph
  Worker <- MCWorker
  Jobs <- HalfJobs
  Limit <- MCLimit
  Slots <- MCSlots
  NoWorker = NoWorker
  Kind = {"cpu", "disk"}
  InOrder = TRUE
  User = {"own"}
  JobUser = "own"
  Others = {}
  UserOf <- MCNone
  OtherPack <- MCNone
  Algorithms = {"FIFO"}
SPECIFICATION SimSpec
INVARIANT MemoryCheckHolds
CHECK_DEADLOCK FALSE

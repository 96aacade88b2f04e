\* Every job of four tasks; messages may wait together in any order.
CONSTANTS
  NTask = 4
  MinEdges = 4
  NWorker = 2
  Task <- MCTask
  SubGraph <- MCSubGraph
  Worker <- MCWorker
  Jobs <- AllJobs
  Limit <- MCLimit
  NoWorker = NoWorker
  Kind = {"cpu", "disk"}
  InOrder = FALSE
  User = {"own", "other"}
  JobUser = "own"
  Others = {o1}
  UserOf <- MCUserOf
  OtherPack <- MCPack
SPECIFICATION ClusterFairSpec
INVARIANTS
  ClusterTypeOK
  ReservationExact
  UserShareExact
  NeverOverReserved
  OneAnswerPerRequest
PROPERTY SimulationCompletes
CHECK_DEADLOCK FALSE

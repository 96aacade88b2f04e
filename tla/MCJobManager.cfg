\* Every job of four tasks: safety, refinement, and the end of the job.
CONSTANTS
  NTask = 4
  Task <- MCTask
  SubGraph <- MCSubGraph
  Jobs <- AllJobs
  Worker = {w1, w2}
  NoWorker = NoWorker
SPECIFICATION FairSpec
INVARIANTS
  TypeOK
  RunsOnce
  NoTaskForgotten
  ReleasedWherePlaced
  RequestedOnce
  RequestNotLost
  JobFinishExact
PROPERTIES
  ImplementsDag
  JobCompletes
CHECK_DEADLOCK FALSE

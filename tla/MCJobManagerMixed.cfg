\* Every job of three tasks: one where a task waits both for another
\* subgraph and for its own loses the request of a subgraph.
CONSTANTS
  NTask = 3
  Task <- MCTask
  SubGraph <- MCSubGraph
  Jobs <- AllJobs
  Worker = {w1}
  NoWorker = NoWorker
SPECIFICATION Spec
INVARIANT ReadySubgraphRequested
CHECK_DEADLOCK FALSE

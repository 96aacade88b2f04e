----------------------------- MODULE JobManager -----------------------------
(***************************************************************************)
(* One JobManager (src/job_manager.h): it turns the dependencies between   *)
(* the shard tasks of its job into resource requests for whole subgraphs,  *)
(* hands a task to the worker of its subgraph when the last parent of the  *)
(* task finishes, and announces the end of the job.                        *)
(*                                                                         *)
(* The three handlers are the three actions.  The rest of the simulator    *)
(* is their environment: a request the manager sent may be answered by a   *)
(* PLACEMENT_DECISION at any later moment, on any worker, and a task that  *)
(* was handed to a worker may finish at any later moment.  Nothing is      *)
(* assumed about the order in which the event queue delivers these.        *)
(***************************************************************************)
EXTENDS JobGraph

CONSTANTS Jobs,       \* the jobs the configuration file may contain
          Worker,     \* the workers
          NoWorker    \* worker_id_ = -1, the subgraph is not placed

ASSUME JobsAssumption   == \A j \in Jobs : IsJob(j)
ASSUME WorkerAssumption == NoWorker \notin Worker

VARIABLES
  job,              \* job_, never modified but for the worker ids
  workerId,         \* SubGraph::worker_id_
  requested,        \* the subgraphs with subgraph_to_req_ set
  depFinish,        \* dep_finish_counter_
  sgDepFinish,      \* subgraph_dep_finish_counter_
  sgFinishedTask,   \* subgraph_finished_task_
  finishSubgraphNum,\* finish_subgraph_num_
  admitted,         \* the JOB_ADMISSION event has been handled
  reqs,             \* NEW_TASK_REQ sent and not yet answered, by subgraph
  available,        \* RESOURCE_AVAILABLE events sent
  placed,           \* the workers PlaceNewTask was called on, by task
  finished,         \* TASK_FINISH events handled, by task
  jobFinish         \* JOB_FINISH events sent

vars == <<job, workerId, requested, depFinish, sgDepFinish, sgFinishedTask,
          finishSubgraphNum, admitted, reqs, available, placed, finished,
          jobFinish>>

-----------------------------------------------------------------------------

Init ==
  /\ job \in Jobs
  /\ workerId = [s \in SubGraph |-> NoWorker]
  /\ requested = {}
  /\ depFinish = [t \in Task |-> 0]
  /\ sgDepFinish = [s \in SubGraph |-> 0]
  /\ sgFinishedTask = [s \in SubGraph |-> 0]
  /\ finishSubgraphNum = 0
  /\ admitted = FALSE
  /\ reqs = [s \in SubGraph |-> 0]
  /\ available = 0
  /\ placed = [t \in Task |-> << >>]
  /\ finished = [t \in Task |-> 0]
  /\ jobFinish = 0

WrongSatisfiedAlways(t) == TRUE
WrongSatisfiedRootsOnly(t) == DepCounter(job, t) = 0
Satisfied(t) == depFinish[t] = DepCounter(job, t)

(* GenerateResourceRequest, for a set of subgraphs. *)
SendRequests(S) ==
  /\ requested' = requested \cup S
  /\ reqs' = [s \in SubGraph |-> IF s \in S THEN reqs[s] + 1 ELSE reqs[s]]

(* WorkerAbstract::PlaceNewTask for every task of T, on the worker its      *)
(* subgraph has in the assignment wid.                                     *)
PlaceTasks(T, wid) ==
  placed' = [t \in Task |-> IF t \in T THEN Append(placed[t], wid[job.sg[t]])
                                       ELSE placed[t]]

-----------------------------------------------------------------------------

JobAdmission ==
  /\ ~admitted
  /\ admitted' = TRUE
  /\ SendRequests({s \in SubGraph : Rooted(job, s)})
  /\ UNCHANGED <<job, workerId, depFinish, sgDepFinish, sgFinishedTask,
                 finishSubgraphNum, available, placed, finished, jobFinish>>

WrongPlacementDecisionUnasked(s, w) ==
  /\ reqs' = [reqs EXCEPT ![s] = @ - 1]
  /\ workerId' = [workerId EXCEPT ![s] = w]
  /\ PlaceTasks({t \in TasksOf(job, s) : Satisfied(t)}, workerId')
  /\ UNCHANGED <<job, requested, depFinish, sgDepFinish, sgFinishedTask,
                 finishSubgraphNum, admitted, available, finished, jobFinish>>

PlacementDecision(s, w) ==
  /\ reqs[s] > 0
  /\ reqs' = [reqs EXCEPT ![s] = @ - 1]
  /\ workerId' = [workerId EXCEPT ![s] = w]
  /\ PlaceTasks({t \in TasksOf(job, s) : Satisfied(t)}, workerId')
  /\ UNCHANGED <<job, requested, depFinish, sgDepFinish, sgFinishedTask,
                 finishSubgraphNum, admitted, available, finished, jobFinish>>

(***************************************************************************)
(* The loop over the children of a finished task t.  Child number i sees   *)
(* the counters as the children before it left them.                       *)
(***************************************************************************)
Child(t, i) == job.children[t][i]

WrongSgCountBefore(t, i) ==
  sgDepFinish[job.sg[Child(t, i)]]
    + Cardinality({m \in 1 .. i - 1 : job.sg[Child(t, m)] = job.sg[Child(t, i)]})

SgCountAt(t, i) ==
  sgDepFinish[job.sg[Child(t, i)]]
    + Cardinality({m \in 1 .. i : job.sg[Child(t, m)] = job.sg[Child(t, i)]})

WrongLastParentAny(c) == depFinish[c] + 1 <= DepCounter(job, c)

LastParent(c) == depFinish[c] + 1 = DepCounter(job, c)

ChildrenToPlace(t) ==
  {c \in ChildSet(job, t) : LastParent(c) /\ workerId[job.sg[c]] # NoWorker}

WrongSubGraphsToRequestAgain(t) ==
  {s \in SubGraph :
     \E i \in 1 .. Len(job.children[t]) :
        /\ job.sg[Child(t, i)] = s
        /\ LastParent(Child(t, i))
        /\ workerId[s] = NoWorker
        /\ SgCountAt(t, i) = SgDepCounter(job, s)}

SubGraphsToRequest(t) ==
  {s \in SubGraph \ requested :
     \E i \in 1 .. Len(job.children[t]) :
        /\ job.sg[Child(t, i)] = s
        /\ LastParent(Child(t, i))
        /\ workerId[s] = NoWorker
        /\ SgCountAt(t, i) = SgDepCounter(job, s)}

CountChildren(t) ==
  /\ depFinish' = [c \in Task |-> IF c \in ChildSet(job, t)
                                  THEN depFinish[c] + 1 ELSE depFinish[c]]
  /\ sgDepFinish' = [s \in SubGraph |-> sgDepFinish[s]
                       + Cardinality({c \in ChildSet(job, t) : job.sg[c] = s})]

CompletesSubGraph(t) ==
  sgFinishedTask[job.sg[t]] + 1 = Cardinality(TasksOf(job, job.sg[t]))

WrongCompletesJobEarly(t) ==
  finishSubgraphNum + 1 = Cardinality(SubGraphsOf(job))

CompletesJob(t) ==
  /\ CompletesSubGraph(t)
  /\ finishSubgraphNum + 1 = Cardinality(SubGraphsOf(job))

CountFinished(t) ==
  /\ finished' = [finished EXCEPT ![t] = @ + 1]
  /\ sgFinishedTask' = [sgFinishedTask EXCEPT ![job.sg[t]] = @ + 1]
  /\ finishSubgraphNum' = IF CompletesSubGraph(t) THEN finishSubgraphNum + 1
                                                  ELSE finishSubgraphNum
  /\ jobFinish' = IF CompletesJob(t) THEN jobFinish + 1 ELSE jobFinish

WrongTaskFinishSameWorker(t) ==
  /\ finished[t] < Len(placed[t])
  /\ CountFinished(t)
  /\ CountChildren(t)
  /\ SendRequests(SubGraphsToRequest(t))
  /\ PlaceTasks(ChildrenToPlace(t), [s \in SubGraph |-> workerId[job.sg[t]]])
  /\ available' = available + 1
  /\ UNCHANGED <<job, workerId, admitted>>

TaskFinish(t) ==
  /\ finished[t] < Len(placed[t])
  /\ CountFinished(t)
  /\ CountChildren(t)
  /\ SendRequests(SubGraphsToRequest(t))
  /\ PlaceTasks(ChildrenToPlace(t), workerId)
  /\ available' = available + 1
  /\ UNCHANGED <<job, workerId, admitted>>

Next ==
  \/ JobAdmission
  \/ \E s \in SubGraph, w \in Worker : PlacementDecision(s, w)
  \/ \E t \in Task : TaskFinish(t)

Spec == Init /\ [][Next]_vars

(* The event loop drains its queue, and the cluster answers every request. *)
FairSpec ==
  /\ Spec
  /\ WF_vars(JobAdmission)
  /\ \A s \in SubGraph : WF_vars(\E w \in Worker : PlacementDecision(s, w))
  /\ \A t \in Task : WF_vars(TaskFinish(t))

-----------------------------------------------------------------------------

TypeOK ==
  /\ IsJob(job)
  /\ workerId \in [SubGraph -> Worker \cup {NoWorker}]
  /\ requested \in SUBSET SubGraph
  /\ depFinish \in [Task -> Nat]
  /\ sgDepFinish \in [SubGraph -> Nat]
  /\ sgFinishedTask \in [SubGraph -> Nat]
  /\ finishSubgraphNum \in Nat
  /\ admitted \in BOOLEAN
  /\ reqs \in [SubGraph -> Nat]
  /\ available \in Nat
  /\ placed \in [Task -> Seq(Worker)]
  /\ finished \in [Task -> Nat]
  /\ jobFinish \in Nat

(* A task is handed to a worker at most once: the placement of its         *)
(* subgraph and the finish of its last parent never both hand it out       *)
(* (src/job_manager.h, the two calls of PlaceNewTask).                     *)
RunsOnce == \A t \in Task : Len(placed[t]) <= 1

(* No task is handed to a worker before all of its parents have finished.  *)
DependencyOrder ==
  \A t \in Task : placed[t] # << >> =>
     \A p \in Parents(job, t) : finished[p] > 0

(* A ready task of a placed subgraph is with a worker: whichever of the    *)
(* placement and the last parent's finish comes second hands it out.       *)
NoTaskForgotten ==
  \A t \in Task :
     /\ workerId[job.sg[t]] # NoWorker
     /\ \A p \in Parents(job, t) : finished[p] > 0
     => placed[t] # << >>

(* TASK_FINISH releases the resources on SubGraph::worker_id_ as it is at  *)
(* that time; that is the worker the task was handed to.                   *)
ReleasedWherePlaced ==
  \A t \in Task : finished[t] < Len(placed[t]) =>
     placed[t][Len(placed[t])] = workerId[job.sg[t]]

(* A subgraph is requested at most once, so it is reserved at most once:   *)
(* neither two children of one task nor a root and a finished parent send  *)
(* the request twice.                                                      *)
RequestedOnce ==
  \A s \in SubGraph :
     reqs[s] + (IF workerId[s] = NoWorker THEN 0 ELSE 1) <= 1

(* JOB_FINISH is sent when the last task finishes, not before and not      *)
(* again.                                                                  *)
JobFinishExact ==
  jobFinish = IF \A t \in Task : finished[t] > 0 THEN 1 ELSE 0

(***************************************************************************)
(* event.h, on NEW_TASK_REQ: "JM sends the task req to SCH".  Once nothing *)
(* outside a subgraph holds it back, its request has been sent.            *)
(***************************************************************************)
NothingOutsidePending(s) ==
  \A e \in CrossEdges(job, s) : finished[e[1]] > 0

ReadySubgraphRequested ==
  admitted =>
    \A s \in SubGraphsOf(job) : NothingOutsidePending(s) => s \in requested

(* The manager implements the promise of DagExecution, whatever the job.   *)
Dag == INSTANCE DagExecution WITH
         edges     <- {e \in Task \X Task : e[2] \in ChildSet(job, e[1])},
         running   <- {t \in Task : finished[t] < Len(placed[t])},
         done      <- {t \in Task : finished[t] > 0},
         announced <- jobFinish > 0

ImplementsDag == Dag!DagSpec

(* No request is lost in a job of the shape of those under conf/.          *)
JobsEnteredAtHeads == {j \in Jobs : EntersAtHeads(j)}

RequestNotLost == job \in JobsEnteredAtHeads => ReadySubgraphRequested

(* Such a job ends, if every request is answered and every task that was   *)
(* placed finishes.                                                        *)
JobsThatCanEnd == {j \in JobsEnteredAtHeads : Schedulable(j)}

JobCompletes == job \in JobsThatCanEnd => <>(jobFinish > 0)

=============================================================================

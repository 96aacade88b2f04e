------------------------------- MODULE Cluster -------------------------------
(***************************************************************************)
(* A job manager together with the scheduler (src/scheduler), its FIFO     *)
(* placement (src/algorithm/task_placement.cc) and the reservations the    *)
(* workers and the user keep (src/worker/worker.h, src/user.h).            *)
(*                                                                         *)
(* The four messages between the manager and the scheduler are events of   *)
(* the simulator's priority queue.  They carry the time of the event that  *)
(* caused them, and events of one time are handled in the order of their   *)
(* EventType; only a TASK_FINISH comes at a moment of its own.  How long a *)
(* task runs is left open: a placed task may finish at any moment.         *)
(*                                                                         *)
(* The jobs of JobManager get three more fields:                           *)
(*   kind    the resource a task uses (cpu, disk or network)               *)
(*   req     how much of it                                                *)
(*   memory  the memory a subgraph is admitted with (GetMemoryCap)         *)
(*                                                                         *)
(* The scheduler, the workers and the users are shared by all jobs of the  *)
(* simulation.  The jobs of Others compete with the job of the manager;    *)
(* each of them is a single task, so that its manager only sends one       *)
(* request, places the task when it is answered and announces the end.     *)
(*                                                                         *)
(* Definitions whose name starts with Wrong are slips nothing uses, as in  *)
(* JobGraph.                                                               *)
(***************************************************************************)
EXTENDS JobManager, Integers

CONSTANTS
  NWorker,  \* Worker = 0 .. NWorker - 1, their positions in workers_
  Kind,     \* the resource types other than memory
  Limit,    \* resource_maximum_reservation_ of each worker
  User,     \* the users
  JobUser,  \* the user of the job of the manager
  Others,   \* the other jobs
  UserOf,   \* the user of each of them
  OtherPack,\* what the task of each of them requires
  InOrder   \* FALSE: noise may have sent an event into the past, so that
            \* messages of different times wait together

Resource == Kind \cup {"memory"}
Pack == [Resource -> Nat]

ASSUME ClusterAssumption ==
  /\ NWorker \in Nat \ {0}
  /\ Worker = 0 .. NWorker - 1
  /\ "memory" \notin Kind
  /\ Limit \in [Worker -> Pack]
  /\ JobUser \in User
  /\ IsFiniteSet(Others) /\ Others \cap SubGraph = {}
  /\ UserOf \in [Others -> User]
  /\ OtherPack \in [Others -> Pack]
  /\ InOrder \in BOOLEAN

ASSUME ClusterJobsAssumption ==
  \A j \in Jobs : /\ j.kind \in [Task -> Kind]
                  /\ j.req \in [Task -> Nat]
                  /\ j.memory \in [SubGraph -> Nat]

VARIABLES
  reqEvents,    \* NEW_TASK_REQ events in the priority queue
  decisions,    \* PLACEMENT_DECISION events in the priority queue
  handled,      \* RESOURCE_AVAILABLE events handled, of those sent
  reqQueue,     \* req_queue_, the requests in the order of the multimap
  lastWorker,   \* the static worker_id of FIFO
  reservation,  \* resource_reservation_ of each worker
  userShare,    \* resource_reservation_ of each user
  otherWorker,  \* the worker of the task of another job, or NoWorker
  otherDone,    \* the other jobs whose task has finished
  jobRecords    \* records_ of the scheduler, the jobs reported as finished

schedulerVars == <<handled, reqQueue, lastWorker, reservation, decisions>>
clusterVars == <<vars, schedulerVars, reqEvents, userShare, otherWorker,
                 otherDone, jobRecords>>

-----------------------------------------------------------------------------
(* ResourcePack.                                                           *)

NoPack == [r \in Resource |-> 0]
Add(p, q) == [r \in Resource |-> p[r] + q[r]]
Subtract(p, q) == [r \in Resource |-> p[r] - q[r]]
FitIn(p, limit) == \A r \in Resource : limit[r] > p[r]

(* SubGraph::SetResourcesReq.                                              *)
SubGraphPack(j, s) ==
  [r \in Resource |->
     IF r = "memory" THEN j.memory[s]
     ELSE SumFunctionOnSet(j.req, {t \in TasksOf(j, s) : j.kind[t] = r})]

(* What is asked for by a request of the scheduler's queue.                *)
PackOf(r) == IF r \in Others THEN OtherPack[r] ELSE SubGraphPack(job, r)

(* What a finished task gives back, and with it the memory of its subgraph *)
(* if it was the last one.                                                 *)
TaskPack(t) == [NoPack EXCEPT ![job.kind[t]] = job.req[t]]
MemoryPack(s) == [NoPack EXCEPT !["memory"] = job.memory[s]]

WrongReleasedByMemoryEachTime(t) == Add(TaskPack(t), MemoryPack(job.sg[t]))
WrongReleasedByTaskOnly(t) == TaskPack(t)

ReleasedBy(t) ==
  IF CompletesSubGraph(t) THEN Add(TaskPack(t), MemoryPack(job.sg[t]))
                          ELSE TaskPack(t)

-----------------------------------------------------------------------------
(***************************************************************************)
(* FIFO.  The requests of q are tried in order, each on the worker after   *)
(* the one tried last, until one cannot be reserved.  Turn(i) is the       *)
(* worker of the i-th request, Reserved(q)[i] what is reserved when the    *)
(* first i have been placed.                                               *)
(***************************************************************************)
Turn(i) == (lastWorker + i) % NWorker

Reserved(q) ==
  LET res[i \in 0 .. Len(q)] ==
        IF i = 0 THEN reservation
        ELSE [res[i - 1] EXCEPT ![Turn(i)] = Add(@, PackOf(q[i]))]
  IN  res

WrongCanReserveBefore(q, i) == FitIn(Reserved(q)[i - 1][Turn(i)], Limit[Turn(i)])
CanReserve(q, i) == FitIn(Reserved(q)[i][Turn(i)], Limit[Turn(i)])

CountPlaced(q) ==
  CHOOSE n \in 0 .. Len(q) :
     /\ \A i \in 1 .. n : CanReserve(q, i)
     /\ n < Len(q) => ~CanReserve(q, n + 1)

WrongFIFOKeepsQueue(q) ==
  LET n == CountPlaced(q) IN
  /\ reservation' = Reserved(q)[n]
  /\ reqQueue' = q
  /\ lastWorker' = IF n = Len(q) THEN Turn(n) ELSE Turn(n + 1)
  /\ decisions' = decisions \cup {<<q[i], Turn(i)>> : i \in 1 .. n}

(* One round, and the decisions the scheduler announces.                   *)
FIFO(q) ==
  LET n == CountPlaced(q) IN
  /\ reservation' = Reserved(q)[n]
  /\ reqQueue' = SubSeq(q, n + 1, Len(q))
  /\ lastWorker' = IF n = Len(q) THEN Turn(n) ELSE Turn(n + 1)
  /\ decisions' = decisions \cup {<<q[i], Turn(i)>> : i \in 1 .. n}

-----------------------------------------------------------------------------
(* The priority queue: nothing that must be handled before is waiting.     *)
AvailableWaiting == handled < available + Cardinality(otherDone)
JobFinishEvents == (IF jobFinish > 0 THEN {"job"} ELSE {}) \cup otherDone
JobFinishWaiting == JobFinishEvents \ Range(jobRecords)

FrontJobFinish == InOrder => ~AvailableWaiting
FrontAdmission == InOrder => ~AvailableWaiting /\ JobFinishWaiting = {}
FrontDecision == FrontAdmission
FrontRequest == FrontAdmission /\ (InOrder => decisions = {})

ClusterInit ==
  /\ Init
  /\ reqEvents = {}
  /\ decisions = {}
  /\ handled = 0
  /\ reqQueue = << >>
  /\ lastWorker = NWorker - 1
  /\ reservation = [w \in Worker |-> NoPack]
  /\ userShare = [u \in User |-> NoPack]
  /\ otherWorker = [o \in Others |-> NoWorker]
  /\ otherDone = {}
  /\ jobRecords = << >>

NewRequests == requested' \ requested

(* HandleNewJobEvent answers NEW_JOB with JOB_ADMISSION and nothing else.   *)
Admission ==
  /\ FrontAdmission
  /\ JobAdmission
  /\ reqEvents' = reqEvents \cup NewRequests
  /\ UNCHANGED <<schedulerVars, userShare, otherWorker, otherDone, jobRecords>>

(* A request has been sent and is not answered, or on its way.             *)
Open(r) == \/ r \in reqEvents \cup Range(reqQueue)
           \/ \E w \in Worker : <<r, w>> \in decisions

OtherAdmission(o) ==
  /\ FrontAdmission
  /\ otherWorker[o] = NoWorker /\ ~Open(o)
  /\ reqEvents' = reqEvents \cup {o}
  /\ UNCHANGED <<vars, schedulerVars, userShare, otherWorker, otherDone, jobRecords>>

(* The event of request r is handled.  The position of the request in the  *)
(* multimap is given by its time.                                          *)
TakeRequest(r) ==
  /\ FrontRequest
  /\ r \in reqEvents
  /\ reqEvents' = reqEvents \ {r}
  /\ UNCHANGED <<vars, handled, userShare, otherWorker, otherDone, jobRecords>>

QueuesWith(r) ==
  {SubSeq(reqQueue, 1, i - 1) \o <<r>> \o SubSeq(reqQueue, i, Len(reqQueue)) :
     i \in IF InOrder THEN {Len(reqQueue) + 1} ELSE 1 .. Len(reqQueue) + 1}

HandleNewReq(r) == TakeRequest(r) /\ \E q \in QueuesWith(r) : FIFO(q)

TakeAvailable ==
  /\ AvailableWaiting
  /\ handled' = handled + 1
  /\ UNCHANGED <<vars, reqEvents, userShare, otherWorker, otherDone, jobRecords>>

WrongHandleResourceAvailableIdle ==
  TakeAvailable /\ UNCHANGED <<decisions, reqQueue, lastWorker, reservation>>

HandleResourceAvailable ==
  /\ TakeAvailable
  /\ \/ reqQueue # << >> /\ FIFO(reqQueue)
     \/ reqQueue = << >> /\ UNCHANGED <<decisions, reqQueue, lastWorker, reservation>>

HandleDecision(s, w) ==
  /\ FrontDecision
  /\ <<s, w>> \in decisions
  /\ decisions' = decisions \ {<<s, w>>}
  /\ PlacementDecision(s, w)
  /\ userShare' = [userShare EXCEPT ![JobUser] = Add(@, PackOf(s))]
  /\ UNCHANGED <<reqEvents, handled, reqQueue, lastWorker, reservation,
                 otherWorker, otherDone, jobRecords>>

OtherDecision(o, w) ==
  /\ FrontDecision
  /\ <<o, w>> \in decisions
  /\ decisions' = decisions \ {<<o, w>>}
  /\ otherWorker' = [otherWorker EXCEPT ![o] = w]
  /\ userShare' = [userShare EXCEPT ![UserOf[o]] = Add(@, OtherPack[o])]
  /\ UNCHANGED <<vars, reqEvents, handled, reqQueue, lastWorker, reservation,
                 otherDone, jobRecords>>

WrongFinishUserKeepsMemory(t) ==
  /\ TaskFinish(t)
  /\ reservation' = [reservation EXCEPT ![workerId[job.sg[t]]] =
                       Subtract(@, ReleasedBy(t))]
  /\ userShare' = [userShare EXCEPT ![JobUser] = Subtract(@, TaskPack(t))]
  /\ reqEvents' = reqEvents \cup NewRequests
  /\ UNCHANGED <<decisions, handled, reqQueue, lastWorker, otherWorker,
                 otherDone, jobRecords>>

Finish(t) ==
  /\ TaskFinish(t)
  /\ reservation' = [reservation EXCEPT ![workerId[job.sg[t]]] =
                       Subtract(@, ReleasedBy(t))]
  /\ userShare' = [userShare EXCEPT ![JobUser] = Subtract(@, ReleasedBy(t))]
  /\ reqEvents' = reqEvents \cup NewRequests
  /\ UNCHANGED <<decisions, handled, reqQueue, lastWorker, otherWorker,
                 otherDone, jobRecords>>

OtherFinish(o) ==
  /\ otherWorker[o] # NoWorker /\ o \notin otherDone
  /\ otherDone' = otherDone \cup {o}
  /\ reservation' = [reservation EXCEPT ![otherWorker[o]] = Subtract(@, OtherPack[o])]
  /\ userShare' = [userShare EXCEPT ![UserOf[o]] = Subtract(@, OtherPack[o])]
  /\ UNCHANGED <<vars, reqEvents, decisions, handled, reqQueue, lastWorker,
                 otherWorker, jobRecords>>

HandleJobFinish(j) ==
  /\ FrontJobFinish
  /\ j \in JobFinishWaiting
  /\ jobRecords' = Append(jobRecords, j)
  /\ UNCHANGED <<vars, schedulerVars, reqEvents, userShare, otherWorker, otherDone>>

ClusterNext ==
  \/ Admission
  \/ \E r \in SubGraph \cup Others : HandleNewReq(r)
  \/ HandleResourceAvailable
  \/ \E s \in SubGraph, w \in Worker : HandleDecision(s, w)
  \/ \E t \in Task : Finish(t)
  \/ \E j \in JobFinishWaiting : HandleJobFinish(j)
  \/ \E o \in Others : OtherAdmission(o) \/ OtherFinish(o)
  \/ \E o \in Others, w \in Worker : OtherDecision(o, w)

ClusterSpec == ClusterInit /\ [][ClusterNext]_clusterVars

(* Serve handles events until there are none, and every running task has   *)
(* an event.                                                               *)
ClusterFairSpec == ClusterSpec /\ WF_clusterVars(ClusterNext)

-----------------------------------------------------------------------------

ClusterTypeOK ==
  /\ TypeOK
  /\ reqEvents \in SUBSET (SubGraph \cup Others)
  /\ decisions \in SUBSET ((SubGraph \cup Others) \X Worker)
  /\ handled \in 0 .. available + Cardinality(otherDone)
  /\ reqQueue \in Seq(SubGraph \cup Others)
  /\ lastWorker \in Worker
  /\ reservation \in [Worker -> Pack]
  /\ userShare \in [User -> Pack]
  /\ otherWorker \in [Others -> Worker \cup {NoWorker}]
  /\ otherDone \in SUBSET Others
  /\ jobRecords \in Seq({"job"} \cup Others)

(* The subgraphs that are or will be on worker w, and the tasks of some    *)
(* subgraphs that have not finished.                                       *)
AssignedTo(w) ==
  {s \in SubGraphsOf(job) : workerId[s] = w \/ <<s, w>> \in decisions}
OpenTasks(S) == {t \in Task : job.sg[t] \in S /\ finished[t] = 0}

Held(S) ==
  [r \in Resource |->
     IF r = "memory"
     THEN SumFunctionOnSet(job.memory, {s \in S : OpenTasks({s}) # {}})
     ELSE SumFunctionOnSet(job.req, {t \in OpenTasks(S) : job.kind[t] = r})]

(* What the other jobs of O hold.                                          *)
OthersHold(O) ==
  [r \in Resource |->
     SumFunctionOnSet([o \in Others |-> OtherPack[o][r]], O \ otherDone)]

(* What is reserved on a worker is what the unfinished work assigned to it *)
(* needs, of all jobs: what Reserve took in one piece is given back task   *)
(* by task, and the memory with the last task, without remainder.          *)
ReservationExact ==
  \A w \in Worker :
     reservation[w] =
       Add(Held(AssignedTo(w)),
           OthersHold({o \in Others : otherWorker[o] = w \/ <<o, w>> \in decisions}))

(* A user holds what the workers hold for the jobs of that user, but for   *)
(* the decisions that are still on their way (src/user.h and               *)
(* src/worker/worker.h are updated by different handlers).                 *)
UserShareExact ==
  \A u \in User :
     userShare[u] =
       Add(IF u = JobUser
           THEN Held({s \in SubGraphsOf(job) : workerId[s] # NoWorker}) ELSE NoPack,
           OthersHold({o \in Others : UserOf[o] = u /\ otherWorker[o] # NoWorker}))

(* No worker is reserved beyond its maximum, even by several requests of   *)
(* one round of FIFO.  (FitIn is strict, so that a worker with nothing of  *)
(* some resource never takes anything.)                                    *)
NeverOverReserved ==
  \A w \in Worker : reservation[w] # NoPack => FitIn(reservation[w], Limit[w])

(* A request is in one place between being sent and being answered, and    *)
(* the scheduler answers no subgraph twice.  So the environment JobManager *)
(* assumes (an answer only to an open request) is what the scheduler is,   *)
(* also when the requests of other jobs are in its queue.                  *)
OneAnswerPerRequest ==
  \A s \in SubGraph :
     reqs[s] = Cardinality({i \in 1 .. Len(reqQueue) : reqQueue[i] = s})
                 + Cardinality({d \in decisions : d[1] = s})
                 + (IF s \in reqEvents THEN 1 ELSE 0)

(***************************************************************************)
(* The simulation of a job reaches the end of the job, and every job is    *)
(* reported, if no subgraph can be placed while it still waits for another *)
(* one and each fits alone on every worker.  FIFO tries a single worker    *)
(* when the head of the queue does not fit, and tries again only when      *)
(* another task finishes, of whatever job.                                 *)
(***************************************************************************)
HoldsNothingWhileWaiting(j) ==
  \A s \in SubGraphsOf(j) : Rooted(j, s) => CrossEdges(j, s) = {}

FitsEverywhere(j) ==
  \A s \in SubGraphsOf(j), w \in Worker : FitIn(SubGraphPack(j, s), Limit[w])

JobsThatComplete ==
  {j \in JobsThatCanEnd : HoldsNothingWhileWaiting(j) /\ FitsEverywhere(j)}

OthersFit == \A o \in Others, w \in Worker : FitIn(OtherPack[o], Limit[w])

SimulationCompletes ==
  job \in JobsThatComplete /\ OthersFit
    => <>(Range(jobRecords) = {"job"} \cup Others)

=============================================================================

# Formal model of h-axe-simulation

h-axe-simulation is a discrete event simulator for cluster scheduling: jobs,
given as graphs of tasks, are placed subgraph by subgraph on workers by a
scheduling algorithm, and their tasks compete for the cpu cores, the disk and
the network of their worker. This directory holds TLA+ models of the simulator's
own core logic, the TLC runs that check them on small instances, and proofs
checked by TLAPS. Paths below are relative to the repository (`src/job_manager.h`
is the header with the job manager).

    tlasany M.tla                       parse
    tlc -config X.cfg MCM.tla           model-check
    tlapm MProofs.tla                   check the proofs about M (and tlapm Foundations.tla)

`PROJECT.json` lists the components, the runs, the source lines each definition
stands for, the hazards, the findings and the theorems.

## 1. The system

The program is single-threaded. Its concurrency is that of the simulated
cluster: a priority queue holds events of the future, handlers change the state
and return new events, and *which* event comes next depends on durations,
random noise and ties. Every hard question is about the order of events.

| Component | State | Operations | Talks to | What makes it correct |
|---|---|---|---|---|
| Event queue, serve loop (`event/event.h`, `event_queue.h`, `simulator.h`) | heap of events, `invalid_event_id_set_` | Serve, Dispatch, dropping an invalid event | everyone, by events ordered by time, then type | time never runs backwards; a dropped event is a superseded one, and only that |
| Job manager (`job_manager.h`) | dependency counters of tasks and of subgraphs, `subgraph_to_req_`, worker of each subgraph, finished counts | JOB_ADMISSION, PLACEMENT_DECISION, TASK_FINISH | scheduler (requests, RESOURCE_AVAILABLE, JOB_FINISH), workers and user (direct calls) | each task runs once, after its parents, on its subgraph's worker; each subgraph is requested once and in the end; the end of the job is announced once |
| Scheduler, FIFO / TETRIS (`scheduler/`, `algorithm/`) | `req_queue_`, the static `worker_id` of FIFO | NEW_JOB, NEW_TASK_REQ, RESOURCE_AVAILABLE, JOB_FINISH | job managers (decisions), workers (Reserve) | each request is answered once; no over-reservation; a job that can end ends |
| Reservations (`worker/worker.h`, `user.h`, `resource/resource.h`) | a pack of four amounts per worker and per user | Reserve, give back per task, give back the memory per subgraph | called by the scheduler, the devices and the job manager | what is reserved is given back, exactly and in the same place |
| Disk and network device (`worker/worker_disk.h`, `worker_network.h`, the same code with other names) | queue, running records with rate and remaining data, task count | PlaceNewTask, TaskFinish, UpdateRunningTask | event queue, invalid ids | one live event per running task, at the right time; equal shares; no idle slot; order of arrival |
| CPU device (`worker/worker_cpu.h`) | queue, usage | PlaceNewTask, TaskFinish | event queue | no idle core, order of arrival |
| Memory of a worker (`worker/worker_common.h`, `job/subgraph.h`) | `resource_usage_`, the cap of each subgraph | taken at start, given back at finish | | usage covered by reservation, never negative (both are CHECKs that abort the run) |
| Utilization records, reports (`worker/worker_abstract.h`, `user.h`, `play_back/player.h`) | maps (workers, player) and vectors (users) of records | one record per operation, one line per moment | files under `report/` | a line shows what was in use in its moment |
| Node manager (YARN mode) | | `Init` is `CHECK(false)` | | |
| Player (`play_back/`) | heap of start and finish events, snapshots and records per worker | replay of a log, a program mode of its own | | the load at each moment is that of the units under way; peaks are peaks |
| Configuration, `main` | | JSON | | |

**What is hard.** A task becomes ready on two paths (its subgraph is placed; its
last parent finishes). The request of a subgraph is decided in the middle of a loop
that is changing the counters it reads. An event in the heap cannot be changed, so
it is superseded by id. The share of a device changes under running tasks. Noise is
added to the first event of a task but not to the data it is computed from.
Reservations are made in one piece and given back in many, by several handlers.
FIFO stops at the first request that does not fit the one worker it tries. The list
with source lines is `hazards` in `PROJECT.json`.

## 2. Modules

    JobGraph <- JobManager <- Cluster <- Simulation       BandwidthDevice <- WorkerDevices
                    |
               DagExecution                               UtilizationReport <- Player
    SlotUsage

The proofs are in modules beside the models; an arrow again points to what is used:

    Foundations <- JobManagerProofs <- ClusterProofs <- SimulationProofs
                <- BandwidthDeviceProofs <- WorkerDevicesProofs
                <- ReportProofs <- PlayerProofs

Each `MC*` module gives the constants of a module small values. Definitions named
`Wrong...` are plausible slips of the definition next to them, with the same parameters.
No specification uses them: `PROJECT.json` ("mutants") says which definition each can
replace and which property must then be violated, so that every property is known to
notice at least one bug.

**JobGraph** is the static job: `sg` (the subgraph of each task) and `children` (ordered
lists), and the counters `BuildDependencies` computes. A pair (task id, shard id) of the
source is one element of `Task`. It also names the shapes of jobs that properties
depend on (section 4).

**JobManager** has one action per handler. `JobAdmission` is JOB_ADMISSION with the
requests of the rooted subgraphs, `PlacementDecision(s, w)` sets the worker and hands
out the satisfied tasks, `TaskFinish(t)` is the whole TASK_FINISH handler: finished
counts, JOB_FINISH, the loop over the children and RESOURCE_AVAILABLE. The loop is not
executed step by step: `SgCountAt(t, i)` is the subgraph counter as the i-th child sees it,
and `ChildrenToPlace`, `SubGraphsToRequest` are the outcome of the loop. The environment
is as free as it can be: any request may be answered at any later time by any worker, and
any task handed out may finish at any later time. The variables are those of the class,
plus the messages it has sent (`reqs`, `available`, `jobFinish`) and, per task,
`placed` (the workers it was handed to) and `finished` (how often its finish was handled).

**DagExecution** is what a job manager promises: tasks of a graph run once, after their
parents, and the end is announced in the very step of the last finish. It has no
subgraphs, counters, requests or workers. `JobManager!ImplementsDag` is the refinement.

**BandwidthDevice** is a disk or network device with the event queue that drives it, in
integer time. `running` holds the records (`id`, `data`, `bandwidth`, `since`), `events` the
TASK_FINISH events in the heap, `invalid` the invalid ids. An id is `<<task, n>>`
for the n-th event made for a task, which is as distinct as the global counter of
the code. `Arrive`, `TaskFinish` and `SkipInvalid` are the actions. `Arrive` is the call of
`PlaceNewTask` by the job manager while it handles an event: the last one the device has seen, or one from
elsewhere, which is then the first of the queue. Nothing else is said of its time. Noise can have made
it earlier than everything the device has done, and the device's own events can by now be earlier still. The events that
`AddRunningTaskRecord` returns are sent by `PlaceNewTask` and dropped by `TaskFinish`, as in
the code. `NoiseSteps` gives the values of `RandomNoise`, as fractions of the duration.
`busy` and `noisy` are observers. `worker_network.h` differs from `worker_disk.h` only in names
and layout, so one module stands for both. The code compares shares up to 1e-6, the model exactly, which is the same
unless the bandwidth is below 1e-4.

**WorkerDevices** is one worker with its cores, disk and network on one queue, one clock and one
set of invalid ids, as `Worker::Init` wires them. `Disk` and `Network` are instances of
BandwidthDevice whose handlers are applied to the shared `events` and `invalid`; `CpuPlace` and
`CpuFinish` are the cpu, whose events are never superseded. `Place` comes at the time of any event, as `Arrive` does.
`DiskUndisturbed` says that the worker
implements a BandwidthDevice that has its own part of the events and of the invalid ids: what the
run `device` shows of one device is then true of it inside a worker. The last line of both handlers, which inserts
what is in use into the map of records, is left out: the map is that of the player, and nothing else reads it.

**UtilizationReport** is the loop that turns a map of records into lines, the same code in
`WorkerAbstract` and `Player`.

**Cluster** puts a job manager together with the scheduler, FIFO and the reservations of the
workers and users. The messages in the heap are `reqEvents`, `decisions`, `AvailableWaiting` and
`JobFinishWaiting`; `reqQueue` is the multimap (insertion at equal times is at the end),
`lastWorker` the static `worker_id`. `FIFO(q)` is a whole round: `Reserved(q)[i]` is what the
workers hold after i requests. With `InOrder` the messages of one moment are handled in the order of
`EventType`. Without it, messages of different times may wait together, in any order, which is what an
event sent into the past (section 5) or two times closer than the epsilon of `operator<` lead to. The
run `cluster` uses the latter, which has every behaviour of the former; `simulation` uses the former.
`Others` are further jobs, of any user, that share the scheduler and the workers. Each is a single
task, for which a job manager does no more than `OtherAdmission` (ask), `OtherDecision` (place),
`OtherFinish` (give back, announce the end); the manager of a larger job is modelled once, in full.

**Simulation** is Cluster with the workers inside: slots and queue of each device and the
memory in use. The three devices share `Enqueue` and `Dequeue`, since they treat a task
alike. `PlaceInTurn` places a set of tasks, one after the other, in the order in which the handler
reaches them. The run chooses between FIFO and
`TETRIS`, which places one request a round, on the worker whose free resources (known
here, unlike in Cluster) meet it best. The memory cap of a subgraph is what `GetMemoryCap` returns: the
sum of the whole parts of the memory its tasks take, less `GetMaxFlow`. `Network` is the graph the code builds,
`Bfs` the first search and `MaxFlow` what the algorithm computes, as the smallest cut. The code calls it with the
source and the sink exchanged, so the flow is 0 (finding 6); put in order, the same
operators give the peak of the memory in use. The memory changes of a handler are one step; `UsageCovered` also covers the
record that the finish makes in the middle of it, before the children are placed. There is no other job here.

**Player** is the other mode of the program: it replays a log of units of work. `pending` is
its priority queue, whose comparator looks at times only, so any event of the earliest time
may be next. `snapshot` is the current load and `record` the maps the report and the peaks are
made from; `Inserted` is the `insert` of a map, which keeps what is there. `After` is `GenerateRecord`:
the start adds, the finish subtracts, and network and disk loads are clamped at zero then. The amounts
are integers; the code divides the amount of a network unit as a double, so `LoadExact` is about exact arithmetic and says
nothing about what the clamping does to a rounding error.

**SlotUsage** is the disk (or network) part of `resource_usage_` as a double. The number of running tasks
is kept exactly by the code, so the double is `current` slots and a small `error`, in units of the last bit
of the slot, and `Rounded` is the rounding of IEEE 754 (to nearest, ties to even). The run was compared with the
doubles themselves: all reachable values for a bandwidth of 3 agree.

## 3. Runs

| Run | Module, bounds | Expected | Shows |
|---|---|---|---|
| `job_all` | MCJobManager; all jobs of 4 tasks (every acyclic graph up to naming, every order of the children, every grouping), 2 workers, fair | pass | no task is lost, doubled, early or released elsewhere; one request per subgraph; one JOB_FINISH; refinement of DagExecution; with `EntersAtHeads`, no request is lost and every schedulable job ends |
| `job_mixed` | all jobs of 3 tasks | violation | the lost request |
| `device` | MCBandwidthDevice; 4 tasks of 2 sizes, 2 slots, placed at 0, at 72 (which may be in the past by then) and while an event is handled, noise of 0 or half of the duration, fair | pass | one live event per task, slots, order, times, no data lost, time monotone until there is noise, every placed task finishes |
| `device_past` | 2 tasks with noise | violation | time runs backwards |
| `worker_devices` | MCWorkerDevices; 2 core, 2 disk and 2 network tasks, 1 core, 2 slots each, placed at 0 and while an event is handled, noise of 0 or half of the duration | pass | disk and network each implement BandwidthDevice alone; cores are served in order |
| `cluster` | MCCluster; all jobs of 4 tasks with 4 to 6 dependencies and sorted children, another job of another user, 2 workers, messages in any order, fair | pass | reservations of workers and users balance, no over-reservation, one answer per request, both jobs end and are reported |
| `simulation` | MCSimulation; all jobs of 4 tasks that take and give back 0 or 1 (some of them 1), FIFO and TETRIS, 1 slot per device, memory 2, 2 workers, fair | pass | queue and slot bookkeeping, usage covered by the reservation, the job ends |
| `sim_flow` | a chain of 4 tasks in one subgraph that take and give back 1 in turn | violation | a job that fits is refused for the memory its tasks use one after the other |
| `sim_half` | one job with half units of memory | violation | the memory CHECK fails |
| `player` | MCPlayer; all logs of 3 units on 2 workers, 1 to 4 seconds each, 4 seconds | pass | no load of a unit under way is missing; if no unit starts and finishes in the same second, the load is exact and the report shows it after a second with one event |
| `player_peak` | 3 units, 3 seconds | violation | a peak is missed |
| `usage_negative` | MCSlotUsage; bandwidth 3, 10 slots | violation | the usage CHECK fails |

**Why the bounds are enough.** Four tasks are the smallest number at which a task has two
parents in different subgraphs, a sibling and a child, and a task of the same subgraph;
three suffice for the lost request. All graphs, child orders and groupings of that size are
checked, not selected ones (in `cluster`, where another job runs too, those with at least four
dependencies; the others are in `simulation`). Two workers are enough to tell "the worker of this subgraph" from
"a worker". In the device, four tasks of two sizes on two slots let two tasks wait while the share
changes in both directions, and a short task start behind a long one. The tasks are alike but for their sizes and
arrive in the order of their names, which loses nothing. The sizes and the capacity make every division exact, and
`EventOnTime` says so of each updated record. The logs of the player have seconds with none, one and several
events, and units that start and finish together with others or alone. In the clusters the limits admit
one, two or three of the subgraphs on a worker, so requests queue.

**Fairness.** `Serve` runs until the queue is empty, so an event in the queue is handled:
`WF` on the serve step of the device, and on the whole next-state relation of Cluster and
Simulation, where every action is the handling of one event (a running task always has an
event, which `OneLiveEvent` shows). `JobManager!FairSpec` assumes the environment's part, that
requests are answered and tasks finish; in `cluster` and `simulation` that assumption is gone.

**Deadlock checking** is off: a simulation ends by having no more events. Ending too early is
what the liveness properties exclude.

## 4. Conditions of properties

Some properties hold for a shape of jobs. The shapes are definitions, and all job files
under `conf/` have them.

* `EntersAtHeads`: in a subgraph without a root, a task that waits for another subgraph waits for
  nothing in its own. Without it `ReadySubgraphRequested` is false (`job_mixed`).
* `Schedulable`: the waiting of tasks and subgraphs is not circular.
* `HoldsNothingWhileWaiting`: a rooted subgraph, which is requested on admission, waits
  for no other one. Without it `SimulationCompletes` is false: placed subgraphs hold the
  reservation the queued one needs, and a FIFO round that fails is only repeated after
  another finish.
* `OthersFit` and `FitsEverywhere`: the other jobs, and each subgraph of this one, fit on each (empty) worker, strictly, as in `FitIn`.
* `PeakFitsEverywhere`: each subgraph fits on each (empty) worker with the most memory it uses at any
  time. This is weaker than `FitsEverywhere`, and `FittingJobCompletes` is false with it (finding 6).
* `Lasting` (of a log): no unit starts and finishes in the same second. Without it, and the code accepts such units,
  `LoadExact` and `ReportIsLoad` are false: the finish can be replayed before the start, a network or disk load is then clamped at
  zero, added, and never taken away. `NoLoadLost`, which is about every log, says that it is only in this direction that
  the load can be wrong, and never for the memory.
* `MemoryAddsUp`: whole units, each subgraph gives back what it takes, after it was taken.

In BandwidthDevice, `noisy` observes whether `RandomNoise`, which draws from [0, duration), was positive
once. Until then the device loses no bandwidth, and its time does not run backwards but for tasks placed
from elsewhere; after that only the weaker half of
`WorkConserved` holds, and `TimeMonotone` does not (`device_past`).

`ReportIsLoad` speaks of moments after a second with a single event, because the
map keeps only the record of the first one; what is lost by that is finding 4.

## 5. Findings

1. **Lost request** (`job_mixed`, `src/job_manager.h:151-160`). The request of a subgraph is only
   considered in the turn of a child whose own last parent finishes. Job: task 1 in
   subgraph 1; tasks 2 and 3 in subgraph 2; 2 and 3 depend on 1, 3 also on 2. Listed as 2, 3,
   the children are counted one by one: at 2 the subgraph still misses one edge, at 3 the
   task still misses a parent. Nobody looks again and the job never ends.
2. **Time runs backwards** (`device_past`, `src/worker/worker_disk.h:163-173`, and the same in
   `worker_network.h`). Noise lengthens the first event of a task. When a share changes in the
   extra time, the remaining data is negative, and the new event is earlier than the current
   one. The bookkeeping survives (`device`); the times and utilization do not.
3. **Memory cap loses fractions** (`sim_half`, `src/job/subgraph.h:155-160`). Doubles are added to an
   int, so a worker can use more memory than it has, and a CHECK aborts the simulation.

4. **Peaks are missed** (`player_peak`, `src/play_back/player.h:203,222`). The record of a second is the
   first one inserted, and second 0 has a zero record from the start. Two units that start together are
   recorded as one, and units that start first are not recorded until the next event. The same
   records are printed by `ReportUtilization`.

5. **Usage below zero** (`usage_negative`, `src/worker/worker_disk.h:117-125`, and the same in
   `worker_network.h`). A tenth of the bandwidth is added and subtracted as a double. With a bandwidth of 3
   (also 7 or 0.1), three tasks that start and finish leave -1.1e-16, and a CHECK aborts the simulation.
6. **No flow is subtracted from the memory cap** (`sim_flow`, `src/job/subgraph.h:154`).
   `Dinic::Init(vertex_num, source, sink)` is called with the sink before the source, and no edge leaves the sink. The flow would
   be what tasks can take of the memory that others have given back; without it a subgraph is
   reserved all that its tasks ever take. The job of the run uses one unit at a time, is reserved two, does not fit and
   never starts. With the arguments in order the same run has no error. Jobs in which no task takes memory after
   another one of its subgraph has given some back have no flow anyway.

None of the files under `conf/` meets 1, 3, 5 or 6; a run with several tasks on a disk or network can meet 2.
There are no logs for the player, which 4 is about.

Seen in the source while modelling, and not shown by a run: the records of a worker (`src/worker/worker_abstract.h:91,108`) are made with
the same `insert` as those of 4, so idle ticks repeat what the first event of the last tick with events left; the report of a user
(`src/user.h:78`) increases its second after every record, also between two of the same second.

## 6. Proofs

All theorems are about the specifications the runs check, for every value of the constants that
satisfies the assumptions. TLC evaluates the assumptions in the runs.

### Job manager (`JobManagerProofs`)

| Theorem | States |
|---|---|
| `Invariant` | `Spec => []IInv` |
| `TypeCorrect` | `TypeOK` |
| `EachTaskRunsOnce` | `RunsOnce` |
| `StartsExactlyWhenReady` | `DependencyOrder`, `NoTaskForgotten` |
| `ReleaseIsLocal` | `ReleasedWherePlaced` |
| `EachSubGraphRequestedOnce` | `RequestedOnce` |
| `JobFinishIsExact` | `JobFinishExact` |
| `NoRequestIsLost` | `RequestNotLost`, if every job of `Jobs` is acyclic |
| `RefinesDag` | `ImplementsDag` |

Assumptions: `TaskAssumption` (finitely many tasks, at least one), `JobsAssumption` (each task is in one
subgraph and names a child once), `WorkerAssumption` (-1 is not a worker).

None of the properties is inductive. That a task is not handed out twice depends on its
counter reaching `dep_counter_` once, which depends on each parent finishing once, which is
the property itself for the parents. `IInv` closes the circle by saying what each piece of state
*is* in terms of the finished tasks: `DepsCounted` (a counter is the number of finished parents),
`TasksCounted` and `SubGraphsCounted` (so are the others), `RequestsCounted` (a request is
open or answered only for a requested subgraph), `FinishedWasPlaced`, and `HandedOut`: a task was
handed to the worker of its subgraph, once, if and only if the subgraph is placed and the parents
are done. `FinishEffect` says what one finish does to the set of finished tasks; the lemmas
after it each re-establish a part of `IInv`; the lemmas on counting (`CountNext`, `CountAll`) carry
the arithmetic of cardinalities. `RefinesDag` maps each action: admission stutters, a placement
starts the tasks it hands out, a finish is `Finish(t, ChildrenToPlace(t))`.

`RequestNotLost` is the hard one: the counter of a subgraph is compared while the loop is
partly through it (finding 1). `RInv` adds that this counter is the number of finished edges into a
subgraph that is not placed yet (`EdgesCounted`) and that rooted subgraphs are requested on admission. A
finish that completes the edges into a subgraph has a child whose last parent it is, by `EntersAtHeads`,
and at the last such child in the list the counter is complete. A subgraph without edges from outside
has a root: a task of least rank, where `Acyclic` is used. Without it a subgraph could wait for itself.

### Cluster (`ClusterProofs`)

| Theorem | States |
|---|---|
| `ClusterRefinesManager` | `ClusterSpec => Spec` of JobManager, so all of the above |
| `ClusterInvariant` | `ClusterSpec => [](IInv /\ CInv)` |
| `ClusterTypeCorrect` | `ClusterTypeOK` |
| `ReservationsAreExact` | `ReservationExact` |
| `UserSharesAreExact` | `UserShareExact` |
| `WorkersNeverOverReserved` | `NeverOverReserved` |
| `RequestInOnePlace` | `OneAnswerPerRequest` |

Assumptions: `ClusterAssumption` (workers are numbered from 0, limits and packs are natural numbers,
finitely many other jobs, each of a user) and `ClusterJobsAssumption`. Messages may come in any order.

`ReservationExact` and `UserShareExact` say that a reservation is a sum over what is placed or answered and not finished.
A sum changes by one term in a step only if that term was not there before, so `CInv` needs `OnePlace`: a request is in
the heap, in the queue, or answered, in one of these and once, and an answered one has no worker yet.
A round of FIFO answers several requests; the lemmas on rounds follow it request by request (`IsReserved`,
`Round`): after i of them the workers hold what they held and the first i packs, and each was admitted by
`FitIn` on top of that. TETRIS answers one request or none. A finish gives back the pack of the task, and the memory of its subgraph if it was the last
(`GivesBack`), which is what the sum loses. `NeverOverReserved` says that a worker that holds anything is strictly inside its limit.

### Bandwidth device (`BandwidthDeviceProofs`)

| Theorem | States |
|---|---|
| `DeviceInvariant` | `Spec => []DInv` |
| `DeviceTypeCorrect` | `TypeOK` |
| `OneLiveEventPerTask` | `OneLiveEvent` |
| `NoTaskIsLost` | `NoTaskLostOrDoubled` |
| `SharesAreFair` | `FairShare` |
| `NoSlotIsIdle` | `NoIdleSlot` |
| `TasksStartInOrder` | `StartsInOrder` |
| `TimeForwardUnlessNoisy` | `TimeMonotoneUnlessNoisy` |
| `EventsAreOnTime` | `EventOnTime`, if `[]Exact` |
| `WorkIsConserved` | `WorkConserved`, if `[]Exact` |

Assumption: `DeviceAssumption` (finitely many tasks; sizes are natural numbers; every
number of tasks up to `MaxTasks` divides the capacity; noise is less than the duration).

`DInv` has four parts. `Consistent`: the records are typed, one per task, and `Linked` to the
events: each record has its event and its id is not invalid; every other event is invalid and *older* than the
record of its task, which is why an id made by an update is new. `OnTime`, as long as there was no noise: no event
of the device is before the last one it handled, and no running task has moved more than it has when its event comes, so that an
updated event cannot lie in the past either. `InQueue`: the queue is the end of the
order of arrival. `Settled`: the counter is the number of records, all have the share of that number,
a task waits only if it is `MaxTasks`, and what has started is running or finished. The steps are composed of
`StartedConsistent`, `RenewedLinked` and `EndedConsistent`, so that a finish that starts a waiting task is not
a case of its own.

The code divides doubles, the model integers, and with integers that do not divide an event would come too early.
`Exact` says that the divisions come out even; it is a hypothesis of the last two theorems
and holds in the runs `device` and `worker_devices`. `EventsAreOnTime` shows `Timely`, the
equation, for what is renewed, started or left alone. `WorkIsConserved` counts by task and not by
record (`Work`), since that does not change when a record is renewed. A started task adds
nothing; while time goes by, n tasks move n shares, which is the capacity; a finished task leaves the
sum with what it has moved, and this is its size (`EndedMoved`, by `OnTime` and `EventOnTime` together), or
more than its size after noise.

### Devices of a worker (`WorkerDevicesProofs`)

| Theorem | States |
|---|---|
| `DiskIsUndisturbed`, `NetworkIsUndisturbed` | `DiskUndisturbed`, `NetworkUndisturbed` |
| `CoresUsedInOrder` | `CoresInOrder` |
| `DevicesKeepTheirPromises` | the six invariants of a device, of both devices of a worker |
| `DevicesOnTime` | `EventOnTime` of both, if `Exact` of both |

Assumption: `WorkerDevicesAssumption` (the kinds of tasks are disjoint, as resource types are; the rest as for one device). Noise,
and placements at any time it leads to, are included.

`Apart` is why devices do not disturb each other: the ids in the set of invalid ids belong to tasks of the disk or of the network, and each
record and queue to the tasks of its device, so a step of one changes the other's part of
the events and ids nowhere (`Touches`). `Punctual` is why what a worker does is an `Arrive` of the device alone: the last event was handled
by the device itself, or none of its events is due before it. The theorems of BandwidthDeviceProofs are then applied to both
instances.

### Reports (`ReportProofs`)

What the lines of `ReportUtilization` are, for any map with finitely many integer
keys, and at least one: there is one line per tick from the first key to the last, the record of the latest key not after it. The loop is a recursive
function over the keys; `LinesFrom` is its closed form, and induction over the keys shows that the function is this one. So no line of a
report is missing or doubled.

### Simulation (`SimulationProofs`)

| Theorem | States |
|---|---|
| `SimulationRefinesManager` | `SimSpec => Spec` of JobManager |
| `SimulationKeepsCluster` | `SimSpec => [](IInv /\ CInv)`, for FIFO and TETRIS |
| `DevicesHoldInFlight` | `SimSpec => []DevInv` |
| `TasksOnOneDevice`, `DevicesAreBusy` | `OnOneDevice`, `DevicesBusy` |
| `UsageFollowsStarts` | `SimSpec => []UsageInv` |
| `UsageIsCovered` | `UsageCovered` |
| `SimTypeCorrect` | `SimTypeOK` |
| `MemoryCheckKept` | `MemoryCheckHolds` for jobs with `MemoryAddsUp` |

Assumption: `SimulationAssumption` (slots, a unit of memory, what tasks take and give back, the cap of each subgraph).

`DevInv`: a device holds exactly the tasks in flight on it, each once, in a slot or in the queue, and the queue
is empty unless the slots are full. A handler places several tasks and refills slots, so the invariant
is followed along a trace of devices (`IsTrace`), one per placed task, that `PlaceInTurn` is shown
to be. `UsageInv`: usage is what the started tasks took and the finished gave back. With `MemoryAddsUp` the terms of a
subgraph (`UseOf`) sum up to between 0 and what is reserved for it while it is open, and to 0 afterwards
(`NeedOf`), and the sum over the subgraphs of a worker is at most its reservation, by `ReservationExact`.
The record in the middle of a finish needs this for the finished tasks without the children: the tasks done are
then still such that no child is done before its parent (`GiveBackCovered`). That the cap is the plain sum is the lemma `NoFlow`: no edge leaves
the sink, where the search starts.

### Player (`PlayerProofs`)

| Theorem | States |
|---|---|
| `PlayerInvariant` | `Spec => []PInv` |
| `LoadIsExact` | `LoadExact` |
| `LoadIsNotLost` | `NoLoadLost` |
| `ReportShowsLoad` | `ReportIsLoad` |

Assumption: `PlayerAssumption` (a finite log; nobody finishes before the start; requests are positive, which `GenerateRecord`
checks). `LoadExact` and `ReportIsLoad` have the condition `Lasting`, and the arithmetic is exact.

`PInv`: events are replayed in the order of their times, so a finish comes after its start (`InTime`); the
snapshot is the sum of the loads of the units under way (`Loaded`), so the clamping at zero never
changes anything; each time with an event of a worker is a key of its map, with the load of that time if it was the only one (`Recorded`).
`LoadIsNotLost` needs no order at all: what has started less what has finished (`Left`) is at most the snapshot, since clamping only adds (`Kept`).
`ReportShowsLoad` puts this together with the report lemmas.

### Foundations

Induction theorems of the library take an operator as parameter, which the provers cannot
instantiate. `SetInduction` and `SubsetInduction` state induction over numbers and finite sets with a set in the place
of the predicate, from well-foundedness. On them rest the sums of the community modules
(`SumFunctionOnSet`): defined, unique, independent of the order, and what adding, removing, joining, scaling, shifting or renaming does.
The last part is about a waiting line, used for disk, network and cores.

### Only model-checked

* Liveness (`JobCompletes`, `PlacedFinishes`, `SimulationCompletes`): the prover has no rules for
  fairness and ENABLED.
* The properties of the runs that expect a violation, which are false.
* That `Exact` holds is a matter of the constants. TLC has shown it for those of the runs; in
  general an event time depends on every earlier division, and no condition on the constants short of the behaviours themselves was found.

## 7. Not modelled yet, and the plan

| Step | Module | Content |
|---|---|---|
| done | proofs | all safety invariants and action properties of the passing runs, for every value of the constants |
| 1 | several managers | two jobs of several tasks in one Cluster (the other jobs are single tasks now) |
| 2 | reports | the records of a worker, and those of a user with the seconds they are printed at |
| 3 | EventOrder | `operator<` with its epsilon on the heap as the library keeps it (the clusters allow any order instead) |
| 4 | proofs | that the device rounds within a bound if `Exact` fails |

Left out for good: JSON parsing and `main` (pure input; ill-formed files are not jobs), the report
formats, the statistics of durations of the player (computed once, printed), `WeakReserve` (never called), the node manager (its `Init` aborts), scripts, and the unit tests, which are commented out.
Jobs with an empty subgraph or without tasks never finish in the code and are not instances of JobGraph.

--------------------------- MODULE BandwidthDevice ---------------------------
(***************************************************************************)
(* A disk or a network interface of one worker (src/worker/worker_disk.h;  *)
(* worker_network.h is the same code with other names) together with the   *)
(* event queue it is driven by.                                            *)
(*                                                                         *)
(* Up to MaxTasks tasks share the bandwidth of the device equally, the     *)
(* others wait in a queue.  When the number of running tasks changes, so   *)
(* does the time at which each of them will finish.  An event that is in   *)
(* the priority queue cannot be changed there: the device puts its id into *)
(* the set of invalid ids and sends a new event, and Simulator::Serve      *)
(* drops an invalid event when it reaches the front.                       *)
(*                                                                         *)
(* Time, data and bandwidth are integers; the constants of a run are       *)
(* chosen such that every division is exact (see Exact).  An event id is   *)
(* <<task, n>> for the n-th TASK_FINISH event made for the task.           *)
(* Definitions whose name starts with Wrong are slips nothing uses, as in  *)
(* JobGraph.                                                               *)
(***************************************************************************)
EXTENDS Integers, Sequences, FiniteSets, Functions

CONSTANTS
  Task,       \* the tasks that will be placed on the device
  Sizes,      \* the requests (amount of data) a task may have
  Capacity,   \* the bandwidth of the device
  MaxTasks,   \* maximum_disk_task_number_
  NoiseSteps, \* RandomNoise(d) is d * k / NoiseUnit for a k of this set
  NoiseUnit

ASSUME DeviceAssumption ==
  /\ IsFiniteSet(Task)
  /\ Sizes \subseteq Nat
  /\ MaxTasks \in Nat \ {0}
  /\ Capacity \in Nat
  /\ \A n \in 1 .. MaxTasks : Capacity >= n /\ Capacity % n = 0
  /\ NoiseUnit \in Nat \ {0}
  /\ NoiseSteps \subseteq 0 .. NoiseUnit - 1
  /\ 0 \in NoiseSteps

VARIABLES
  size,     \* the request of each task, never modified
  now,      \* the time of the last event that was handled
  arrived,  \* the tasks PlaceNewTask was called for, in order
  queue,    \* disk_queue_
  running,  \* disk_running_task_record_vector_
  current,  \* current_disk_task_number_
  events,   \* the TASK_FINISH events in the priority queue
  invalid,  \* invalid_event_id_set_
  finished, \* the tasks whose TASK_FINISH was handled, in order
  busy,     \* observer: for how long the device has had a running task;
            \* time that runs backwards counts backwards
  noisy     \* observer: RandomNoise has been positive once

vars == <<size, now, arrived, queue, running, current, events, invalid,
          finished, busy, noisy>>

-----------------------------------------------------------------------------

Init ==
  /\ size \in [Task -> Sizes]
  /\ now = 0
  /\ arrived = << >>
  /\ queue = << >>
  /\ running = {}
  /\ current = 0
  /\ events = {}
  /\ invalid = {}
  /\ finished = << >>
  /\ busy = 0
  /\ noisy = FALSE

Bandwidth(n) == Capacity \div n

(* The duration of a task if n tasks, itself included, run until it ends,  *)
(* and the values of RandomNoise for a duration.                           *)
WrongDurationAlone(t, n) == size[t] \div Capacity
Duration(t, n) == (n * size[t]) \div Capacity
Noise(d) == {(d * k) \div NoiseUnit : k \in NoiseSteps}

NewRecord(t, n, time) ==
  [id |-> <<t, 1>>, data |-> size[t], bandwidth |-> Bandwidth(n), since |-> time]
FinishEvent(t, n, time, noise) ==
  [id |-> <<t, 1>>, time |-> time + Duration(t, n) + noise]

(***************************************************************************)
(* UpdateRunningTask: the records whose bandwidth is not the present one   *)
(* are brought up to date and get a new event.  The code compares doubles  *)
(* up to 1e-6, which tells two shares apart unless the bandwidth of the    *)
(* device is below 1e-4.                                                   *)
(***************************************************************************)
WrongOutOfDateNone(recs, n) == {}

OutOfDate(recs, n) == {r \in recs : r.bandwidth # Bandwidth(n)}

WrongUpdatedNewShare(r, n, time) ==
  [id        |-> <<r.id[1], r.id[2] + 1>>,
   data      |-> r.data - Bandwidth(n) * (time - r.since),
   bandwidth |-> Bandwidth(n),
   since     |-> time]

WrongUpdatedSameSince(r, n, time) ==
  [id        |-> <<r.id[1], r.id[2] + 1>>,
   data      |-> r.data - r.bandwidth * (time - r.since),
   bandwidth |-> Bandwidth(n),
   since     |-> r.since]

Updated(r, n, time) ==
  [id        |-> <<r.id[1], r.id[2] + 1>>,
   data      |-> r.data - r.bandwidth * (time - r.since),
   bandwidth |-> Bandwidth(n),
   since     |-> time]

EventOf(r) == [id |-> r.id, time |-> r.since + r.data \div r.bandwidth]

WrongUpdateRunningTaskKeepsIds(recs, n, time) ==
  /\ running' = (recs \ OutOfDate(recs, n))
                   \cup {Updated(r, n, time) : r \in OutOfDate(recs, n)}
  /\ invalid' = invalid

UpdateRunningTask(recs, n, time) ==
  /\ running' = (recs \ OutOfDate(recs, n))
                   \cup {Updated(r, n, time) : r \in OutOfDate(recs, n)}
  /\ invalid' = invalid \cup {r.id : r \in OutOfDate(recs, n)}

NewEvents(recs, n, time) ==
  {EventOf(Updated(r, n, time)) : r \in OutOfDate(recs, n)}

WrongResourceAvailableOneMore(n) == n <= MaxTasks
WrongResourceAvailableStrict(n) == n + 1 < MaxTasks

ResourceAvailable(n) == n + 1 <= MaxTasks

AdvanceTo(time) ==
  /\ now' = time
  /\ busy' = IF running = {} THEN busy ELSE busy + (time - now)

-----------------------------------------------------------------------------
WrongPlaceNewTaskInFront(t, time) ==
  /\ t \notin Range(arrived)
  /\ AdvanceTo(time)
  /\ arrived' = Append(arrived, t)
  /\ \/ /\ queue = << >> /\ ResourceAvailable(current)
        /\ current' = current + 1
        /\ UpdateRunningTask(running \cup {NewRecord(t, current + 1, time)},
                             current + 1, time)
        /\ \E noise \in Noise(Duration(t, current + 1)) :
              /\ events' = events
                            \cup {FinishEvent(t, current + 1, time, noise)}
                            \cup NewEvents(running, current + 1, time)
              /\ noisy' = (noisy \/ noise > 0)
        /\ UNCHANGED queue
     \/ /\ ~(queue = << >> /\ ResourceAvailable(current))
        /\ queue' = <<t>> \o queue
        /\ UNCHANGED <<current, running, events, invalid, noisy>>
  /\ UNCHANGED <<size, finished>>

PlaceNewTask(t, time) ==
  /\ t \notin Range(arrived)
  /\ AdvanceTo(time)
  /\ arrived' = Append(arrived, t)
  /\ \/ /\ queue = << >> /\ ResourceAvailable(current)
        /\ current' = current + 1
        /\ UpdateRunningTask(running \cup {NewRecord(t, current + 1, time)},
                             current + 1, time)
        /\ \E noise \in Noise(Duration(t, current + 1)) :
              /\ events' = events
                            \cup {FinishEvent(t, current + 1, time, noise)}
                            \cup NewEvents(running, current + 1, time)
              /\ noisy' = (noisy \/ noise > 0)
        /\ UNCHANGED queue
     \/ /\ ~(queue = << >> /\ ResourceAvailable(current))
        /\ queue' = Append(queue, t)
        /\ UNCHANGED <<current, running, events, invalid, noisy>>
  /\ UNCHANGED <<size, finished>>

(***************************************************************************)
(* The job manager places a task while it handles an event.  That is the   *)
(* last one the device has seen, whatever events the device has sent since *)
(* then, or one from elsewhere, which was the first of the queue; noise    *)
(* elsewhere can have sent it to a time that is over here.                 *)
(***************************************************************************)
Arrive(t) ==
  /\ now' \in Int
  /\ now' = now \/ \A e \in events : now' <= e.time
  /\ PlaceNewTask(t, now')

IsNext(e) == e \in events /\ \A f \in events : e.time <= f.time

(* Serve drops an invalid event without handing it to anyone.              *)
SkipInvalid(e) ==
  /\ IsNext(e)
  /\ e.id \in invalid
  /\ events' = events \ {e}
  /\ invalid' = invalid \ {e.id}
  /\ UNCHANGED <<size, now, arrived, queue, running, current, finished, busy, noisy>>

WrongTaskFinishQueueFirst(e) ==
  LET rest == {r \in running : r.id # e.id}
      n    == current - 1
      t    == Head(queue)
  IN
  /\ IsNext(e)
  /\ e.id \notin invalid
  /\ AdvanceTo(e.time)
  /\ finished' = Append(finished, e.id[1])
  /\ \/ /\ queue # << >> /\ ResourceAvailable(n)
        /\ UNCHANGED queue
        /\ current' = n + 1
        /\ UpdateRunningTask(rest \cup {NewRecord(t, n + 1, e.time)}, n + 1, e.time)
        /\ \E noise \in Noise(Duration(t, n + 1)) :
              /\ events' = (events \ {e}) \cup {FinishEvent(t, n + 1, e.time, noise)}
              /\ noisy' = (noisy \/ noise > 0)
     \/ /\ ~(queue # << >> /\ ResourceAvailable(n))
        /\ current' = n
        /\ UpdateRunningTask(rest, n, e.time)
        /\ events' = (events \ {e}) \cup NewEvents(rest, n, e.time)
        /\ UNCHANGED <<queue, noisy>>
  /\ UNCHANGED <<size, arrived>>

WrongTaskFinishLeavesQueue(e) ==
  LET rest == {r \in running : r.id # e.id}
      n    == current - 1
  IN
  /\ IsNext(e)
  /\ e.id \notin invalid
  /\ AdvanceTo(e.time)
  /\ finished' = Append(finished, e.id[1])
  /\ current' = n
  /\ UpdateRunningTask(rest, n, e.time)
  /\ events' = (events \ {e}) \cup NewEvents(rest, n, e.time)
  /\ UNCHANGED <<size, arrived, queue, noisy>>

(***************************************************************************)
(* TaskFinish.  If a task is waiting it takes the place of the finished    *)
(* one; the events UpdateRunningTask makes on that branch are not sent.    *)
(***************************************************************************)
TaskFinish(e) ==
  LET rest == {r \in running : r.id # e.id}
      n    == current - 1
      t    == Head(queue)
  IN
  /\ IsNext(e)
  /\ e.id \notin invalid
  /\ AdvanceTo(e.time)
  /\ finished' = Append(finished, e.id[1])
  /\ \/ /\ queue # << >> /\ ResourceAvailable(n)
        /\ queue' = Tail(queue)
        /\ current' = n + 1
        /\ UpdateRunningTask(rest \cup {NewRecord(t, n + 1, e.time)}, n + 1, e.time)
        /\ \E noise \in Noise(Duration(t, n + 1)) :
              /\ events' = (events \ {e}) \cup {FinishEvent(t, n + 1, e.time, noise)}
              /\ noisy' = (noisy \/ noise > 0)
     \/ /\ ~(queue # << >> /\ ResourceAvailable(n))
        /\ current' = n
        /\ UpdateRunningTask(rest, n, e.time)
        /\ events' = (events \ {e}) \cup NewEvents(rest, n, e.time)
        /\ UNCHANGED <<queue, noisy>>
  /\ UNCHANGED <<size, arrived>>

Serve == \E e \in events : SkipInvalid(e) \/ TaskFinish(e)

Next ==
  \/ \E t \in Task : Arrive(t)
  \/ Serve

Spec == Init /\ [][Next]_vars

(* Serve runs until the event queue is empty.                              *)
FairSpec == Spec /\ WF_vars(Serve)

-----------------------------------------------------------------------------

EventId == Task \X (Nat \ {0})

TypeOK ==
  /\ size \in [Task -> Sizes]
  /\ now \in Int
  /\ arrived \in Seq(Task)
  /\ queue \in Seq(Task)
  /\ running \in SUBSET [id : EventId, data : Int, bandwidth : Nat, since : Int]
  /\ current \in 0 .. MaxTasks
  /\ events \in SUBSET [id : EventId, time : Int]
  /\ invalid \in SUBSET EventId
  /\ finished \in Seq(Task)
  /\ busy \in Int
  /\ noisy \in BOOLEAN

RunningTasks == {r.id[1] : r \in running}

(* Every running task has exactly one event that will be handled, and      *)
(* every other event in the queue will be skipped; no id stays in the set  *)
(* of invalid ids after its event is gone (simulator.h, Serve).            *)
OneLiveEvent ==
  /\ \A r \in running : /\ r.id \notin invalid
                        /\ \E e \in events : e.id = r.id
  /\ \A e \in events : e.id \in invalid \/ \E r \in running : e.id = r.id
  /\ \A d, e \in events : d.id = e.id => d = e
  /\ invalid \subseteq {e.id : e \in events}

(* A task that was placed is waiting, running or finished, in one of these *)
(* ways and once.                                                          *)
NoTaskLostOrDoubled ==
  /\ Len(arrived) = Len(queue) + Cardinality(running) + Len(finished)
  /\ Range(arrived) = Range(queue) \cup RunningTasks \cup Range(finished)

(* The running tasks share the bandwidth equally at every moment, although *)
(* the records are only updated when the code thinks it necessary.         *)
FairShare == \A r \in running : r.bandwidth = Bandwidth(Cardinality(running))

(* A task waits only while all slots of the device are taken.              *)
NoIdleSlot == queue # << >> => Cardinality(running) = MaxTasks

(* Tasks start in the order of their placement: those that wait are the    *)
(* ones that were placed last.                                             *)
StartsInOrder ==
  queue = SubSeq(arrived, Len(arrived) - Len(queue) + 1, Len(arrived))

(* The code divides doubles; here, what is left of a task has to be a      *)
(* whole number of ticks of its share.                                     *)
Exact == \A r \in running : r.data % r.bandwidth = 0

(* The event of a running task comes when its last byte is moved; only the *)
(* first event of a task, to which the noise is added, may come later.     *)
EventOnTime ==
  \A r \in running : \A e \in events : e.id = r.id =>
     LET moved == (e.time - r.since) * r.bandwidth IN
     IF r.id[2] = 1 /\ NoiseSteps # {0} THEN moved >= r.data ELSE moved = r.data

(* As long as there was no noise the device moves data at its full         *)
(* bandwidth whenever it has a running task, whatever the changes of the   *)
(* shares in between; noise wastes some of that time.                      *)
Moved(r) == size[r.id[1]] - r.data + r.bandwidth * (now - r.since)

WorkConserved ==
  LET moved == SumFunctionOnSet(size, Range(finished))
                 + SumFunctionOnSet([r \in running |-> Moved(r)], running)
  IN  IF noisy THEN moved <= Capacity * busy ELSE moved = Capacity * busy

(***************************************************************************)
(* simulator.h, Serve: "process the event in pq one by one according to    *)
(* the priority order".  Events are ordered by time, so no event of the    *)
(* device lies before the one handled last.  (A task may arrive in the     *)
(* past by what happens elsewhere.)                                        *)
(***************************************************************************)
TimeMonotone == [][arrived' = arrived => now' >= now]_vars

(* That is so until the noise of a task of this device was positive, even  *)
(* if tasks arrive in the past.                                            *)
TimeMonotoneUnlessNoisy == [][~noisy /\ arrived' = arrived => now' >= now]_vars

(* A task that was placed finishes.                                        *)
PlacedFinishes == \A t \in Task : t \in Range(arrived) ~> t \in Range(finished)

=============================================================================

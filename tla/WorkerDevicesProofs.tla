------------------------- MODULE WorkerDevicesProofs -------------------------
(***************************************************************************)
(* One worker, for every number of tasks, cores and slots: the devices do  *)
(* not disturb each other although they share the event queue and the set  *)
(* of invalid event ids, and the cores are used in order.                  *)
(***************************************************************************)
EXTENDS WorkerDevices, Foundations, FiniteSetTheorems, TLAPS

-----------------------------------------------------------------------------
(* What keeps the devices apart: the events and the ids each of them makes *)
(* are for tasks of its own, and no id of a core task is ever invalid.     *)
Apart ==
  /\ \A r \in diskRunning : r.id[1] \in DiskTask
  /\ \A r \in netRunning : r.id[1] \in NetworkTask
  /\ diskQueue \in Seq(DiskTask)
  /\ netQueue \in Seq(NetworkTask)
  /\ cpuQueue \in Seq(CpuTask)
  /\ \A id \in invalid : id[1] \in DiskTask \cup NetworkTask

(* What makes the arrival of a task at the disk or the network one it      *)
(* could see alone: it handled the last event itself, or none of its own   *)
(* events is due before that one.                                          *)
Punctual ==
  /\ diskNow = now \/ \A e \in Only(DiskTask) : now <= e.time
  /\ netNow = now \/ \A e \in Only(NetworkTask) : now <= e.time

(* A step that touches the events and ids of the tasks of T only.          *)
Touches(T) ==
  /\ \A e : e.id[1] \notin T => (e \in events' <=> e \in events)
  /\ \A id : id[1] \notin T => (id \in invalid' <=> id \in invalid)

LEMMA TouchesOthersNot ==
  ASSUME NEW S, NEW T, S \cap T = {}, Touches(T)
  PROVE  UNCHANGED <<Only(S), OnlyInvalid(S)>>
BY DEF Touches, Only, OnlyInvalid

-----------------------------------------------------------------------------
(* The disk.                                                               *)

(* The disk counts in the same way on the shared queue and alone.          *)
LEMMA DiskSame ==
  /\ \A n : DiskAlone!Bandwidth(n) = Disk!Bandwidth(n)
  /\ \A n : DiskAlone!ResourceAvailable(n) <=> Disk!ResourceAvailable(n)
  /\ \A t, n : DiskAlone!Duration(t, n) = Disk!Duration(t, n)
  /\ \A d : DiskAlone!Noise(d) = Disk!Noise(d)
  /\ \A recs, n : DiskAlone!OutOfDate(recs, n) = Disk!OutOfDate(recs, n)
  /\ \A r, n, time : DiskAlone!Updated(r, n, time) = Disk!Updated(r, n, time)
  /\ \A r, n, time : DiskAlone!NewEvents(r, n, time) = Disk!NewEvents(r, n, time)
  /\ \A t, n, time : DiskAlone!NewRecord(t, n, time) = Disk!NewRecord(t, n, time)
  /\ \A t, n, time, noise :
        DiskAlone!FinishEvent(t, n, time, noise) = Disk!FinishEvent(t, n, time, noise)
  /\ \A time : DiskAlone!AdvanceTo(time) <=> Disk!AdvanceTo(time)
BY DEF DiskAlone!Bandwidth, Disk!Bandwidth, DiskAlone!ResourceAvailable, Disk!ResourceAvailable,
       DiskAlone!Duration, Disk!Duration, DiskAlone!Noise, Disk!Noise,
       DiskAlone!OutOfDate, Disk!OutOfDate, DiskAlone!Updated, Disk!Updated,
       DiskAlone!NewEvents, Disk!NewEvents, DiskAlone!EventOf, Disk!EventOf,
       DiskAlone!NewRecord, Disk!NewRecord, DiskAlone!FinishEvent, Disk!FinishEvent,
       DiskAlone!AdvanceTo, Disk!AdvanceTo

(* What it makes belongs to its own tasks.                                 *)
LEMMA DiskOwns ==
  ASSUME NEW recs, \A r \in recs : r.id[1] \in DiskTask, NEW n, NEW time
  PROVE  /\ \A e \in Disk!NewEvents(recs, n, time) : e.id[1] \in DiskTask
         /\ \A r \in Disk!OutOfDate(recs, n) : r.id[1] \in DiskTask
         /\ \A r \in Disk!OutOfDate(recs, n) : Disk!Updated(r, n, time).id[1] \in DiskTask
         /\ \A t \in DiskTask : Disk!NewRecord(t, n, time).id[1] \in DiskTask
         /\ \A noise : \A t \in DiskTask : Disk!FinishEvent(t, n, time, noise).id[1] \in DiskTask
BY DEF Disk!NewEvents, Disk!EventOf, Disk!OutOfDate, Disk!Updated, Disk!NewRecord, Disk!FinishEvent

(* An update of its records is one of the disk alone, and touches no other *)
(* event ids.                                                              *)
LEMMA DiskUpdates ==
  ASSUME NEW recs, \A r \in recs : r.id[1] \in DiskTask, NEW n, NEW time,
         Disk!UpdateRunningTask(recs, n, time)
  PROVE  /\ DiskAlone!UpdateRunningTask(recs, n, time)
         /\ \A r \in diskRunning' : r.id[1] \in DiskTask
         /\ \A id \in invalid' \ invalid : id[1] \in DiskTask
         /\ invalid \subseteq invalid'
<1> DEFINE O == Disk!OutOfDate(recs, n)
           X == {r.id : r \in O}
<1>1. /\ diskRunning' = (recs \ O) \cup {Disk!Updated(r, n, time) : r \in O}
      /\ invalid' = invalid \cup X
  BY DEF Disk!UpdateRunningTask
<1>2. /\ \A r \in O : r.id[1] \in DiskTask /\ Disk!Updated(r, n, time).id[1] \in DiskTask
  BY DiskOwns
<1>3. \A id \in X : id[1] \in DiskTask
  BY <1>2
<1>4. OnlyInvalid(DiskTask)' = OnlyInvalid(DiskTask) \cup X
  <2> HIDE DEF X
  <2> QED BY <1>1, <1>3 DEF OnlyInvalid
<1>5. DiskAlone!UpdateRunningTask(recs, n, time)
  BY <1>1, <1>4, DiskSame DEF DiskAlone!UpdateRunningTask
<1> HIDE DEF O
<1>6. \A r \in diskRunning' : r.id[1] \in DiskTask
  BY <1>1, <1>2
<1> HIDE DEF X
<1> QED BY <1>1, <1>3, <1>5, <1>6

LEMMA DiskPlaces ==
  ASSUME Apart, NEW t \in DiskTask, NEW time, Disk!PlaceNewTask(t, time)
  PROVE  /\ DiskAlone!PlaceNewTask(t, time)
         /\ Touches(DiskTask)
         /\ \A r \in diskRunning' : r.id[1] \in DiskTask
         /\ diskQueue' \in Seq(DiskTask)
<1> DEFINE n == diskCurrent + 1
           new == Disk!NewRecord(t, n, time)
           E == Disk!NewEvents(diskRunning, n, time)
<1>1. /\ t \notin Range(diskArrived)
      /\ DiskAlone!AdvanceTo(time)
      /\ diskArrived' = Append(diskArrived, t)
      /\ UNCHANGED <<[u \in DiskTask |-> size[u]], diskFinished>>
  <2>1. /\ t \notin Range(diskArrived)
        /\ Disk!AdvanceTo(time)
        /\ diskArrived' = Append(diskArrived, t)
        /\ UNCHANGED <<[u \in DiskTask |-> size[u]], diskFinished>>
    BY DEF Disk!PlaceNewTask, Disk!Range, Range
  <2>2. DiskAlone!AdvanceTo(time)
    BY <2>1, DiskSame, Zenon
  <2> QED BY <2>1, <2>2, Zenon
<1>2. /\ \A r \in diskRunning \cup {new} : r.id[1] \in DiskTask
      /\ \A e \in E : e.id[1] \in DiskTask
      /\ diskQueue \in Seq(DiskTask)
  BY DiskOwns DEF Apart
<1>3. ASSUME diskQueue = << >>, Disk!ResourceAvailable(diskCurrent), diskCurrent' = n,
             Disk!UpdateRunningTask(diskRunning \cup {new}, n, time),
             NEW noise \in Disk!Noise(Disk!Duration(t, n)),
             events' = events \cup {Disk!FinishEvent(t, n, time, noise)} \cup E,
             diskNoisy' = (diskNoisy \/ noise > 0), UNCHANGED diskQueue
      PROVE  /\ DiskAlone!PlaceNewTask(t, time)
             /\ Touches(DiskTask)
             /\ \A r \in diskRunning' : r.id[1] \in DiskTask
             /\ diskQueue' \in Seq(DiskTask)
  <2> DEFINE f == Disk!FinishEvent(t, n, time, noise)
  <2>1. f.id[1] \in DiskTask
    BY <1>2, DiskOwns
  <2>2. /\ DiskAlone!UpdateRunningTask(diskRunning \cup {new}, n, time)
        /\ \A r \in diskRunning' : r.id[1] \in DiskTask
        /\ \A id \in invalid' \ invalid : id[1] \in DiskTask
        /\ invalid \subseteq invalid'
    <3> DEFINE R == diskRunning \cup {new}
    <3>1. \A r \in R : r.id[1] \in DiskTask
      BY <1>2
    <3>2. Disk!UpdateRunningTask(R, n, time)
      BY <1>3
    <3> HIDE DEF R, n
    <3>3. /\ DiskAlone!UpdateRunningTask(R, n, time)
          /\ \A r \in diskRunning' : r.id[1] \in DiskTask
          /\ \A id \in invalid' \ invalid : id[1] \in DiskTask
          /\ invalid \subseteq invalid'
      BY <3>1, <3>2, DiskUpdates
    <3> QED BY <3>3 DEF R
  <2>3. Only(DiskTask)' = Only(DiskTask) \cup {f} \cup E
    <3> HIDE DEF f, E
    <3> QED BY <1>2, <1>3, <2>1 DEF Only, f, E
  <2>4. Touches(DiskTask)
    <3> HIDE DEF E
    <3> QED BY <1>2, <1>3, <2>1, <2>2 DEF Touches, E
  <2>5. DiskAlone!PlaceNewTask(t, time)
    <3>1. \E k \in DiskAlone!Noise(DiskAlone!Duration(t, n)) :
            /\ Only(DiskTask)' = Only(DiskTask) \cup {DiskAlone!FinishEvent(t, n, time, k)}
                                   \cup DiskAlone!NewEvents(diskRunning, n, time)
            /\ diskNoisy' = (diskNoisy \/ k > 0)
      <4>1. noise \in DiskAlone!Noise(DiskAlone!Duration(t, n))
        BY DiskSame
      <4>2. Only(DiskTask)' = Only(DiskTask) \cup {DiskAlone!FinishEvent(t, n, time, noise)}
                                \cup DiskAlone!NewEvents(diskRunning, n, time)
        BY <2>3, DiskSame
      <4> QED BY <1>3, <4>1, <4>2
    <3>2. DiskAlone!UpdateRunningTask(diskRunning \cup {DiskAlone!NewRecord(t, n, time)}, n, time)
      BY <2>2, DiskSame
    <3>3. DiskAlone!ResourceAvailable(diskCurrent)
      BY <1>3, DiskSame, Zenon
    <3> QED BY <1>1, <1>3, <3>1, <3>2, <3>3, Zenon DEF DiskAlone!PlaceNewTask, DiskAlone!Range, Range
  <2> QED BY <1>2, <1>3, <2>2, <2>4, <2>5
<1>4. ASSUME ~(diskQueue = << >> /\ Disk!ResourceAvailable(diskCurrent)),
             diskQueue' = Append(diskQueue, t),
             UNCHANGED <<diskCurrent, diskRunning, events, invalid, diskNoisy>>
      PROVE  /\ DiskAlone!PlaceNewTask(t, time)
             /\ Touches(DiskTask)
             /\ \A r \in diskRunning' : r.id[1] \in DiskTask
             /\ diskQueue' \in Seq(DiskTask)
  <2>1. UNCHANGED <<Only(DiskTask), OnlyInvalid(DiskTask)>> /\ Touches(DiskTask)
    BY <1>4 DEF Only, OnlyInvalid, Touches
  <2>2. DiskAlone!PlaceNewTask(t, time)
    <3>1. ~(diskQueue = << >> /\ DiskAlone!ResourceAvailable(diskCurrent))
      BY <1>4, DiskSame, Zenon
    <3> QED BY <1>1, <1>4, <2>1, <3>1, Zenon DEF DiskAlone!PlaceNewTask, DiskAlone!Range, Range
  <2>3. diskQueue' \in Seq(DiskTask)
    BY <1>2, <1>4
  <2> QED BY <1>2, <1>4, <2>1, <2>2, <2>3
<1> QED BY <1>3, <1>4 DEF Disk!PlaceNewTask

LEMMA DiskFinishes ==
  ASSUME Apart, NEW e, e.id[1] \in DiskTask, Disk!TaskFinish(e)
  PROVE  /\ e \in Only(DiskTask)
         /\ DiskAlone!TaskFinish(e)
         /\ Touches(DiskTask)
         /\ \A r \in diskRunning' : r.id[1] \in DiskTask
         /\ diskQueue' \in Seq(DiskTask)
<1> DEFINE rest == {r \in diskRunning : r.id # e.id}
           n == diskCurrent - 1
           t == Head(diskQueue)
           Goal == /\ DiskAlone!TaskFinish(e)
                   /\ Touches(DiskTask)
                   /\ \A r \in diskRunning' : r.id[1] \in DiskTask
                   /\ diskQueue' \in Seq(DiskTask)
<1>1. /\ e \in events /\ \A f \in events : e.time <= f.time
      /\ e.id \notin invalid
      /\ DiskAlone!AdvanceTo(e.time)
      /\ diskFinished' = Append(diskFinished, e.id[1])
      /\ UNCHANGED <<[u \in DiskTask |-> size[u]], diskArrived>>
  BY DiskSame DEF Disk!TaskFinish, Disk!IsNext
<1>2. /\ e \in Only(DiskTask) /\ \A f \in Only(DiskTask) : e.time <= f.time
      /\ e.id \notin OnlyInvalid(DiskTask)
  BY <1>1 DEF Only, OnlyInvalid
<1>3. DiskAlone!IsNext(e)
  BY <1>2 DEF DiskAlone!IsNext
<1>4. /\ \A r \in rest : r.id[1] \in DiskTask
      /\ diskQueue \in Seq(DiskTask)
      /\ diskQueue # << >> => t \in DiskTask /\ Tail(diskQueue) \in Seq(DiskTask)
  BY DEF Apart
<1> HIDE DEF rest
<1>5. ASSUME diskQueue # << >>, Disk!ResourceAvailable(n), diskQueue' = Tail(diskQueue),
             diskCurrent' = n + 1,
             Disk!UpdateRunningTask(rest \cup {Disk!NewRecord(t, n + 1, e.time)}, n + 1, e.time),
             NEW noise \in Disk!Noise(Disk!Duration(t, n + 1)),
             events' = (events \ {e}) \cup {Disk!FinishEvent(t, n + 1, e.time, noise)},
             diskNoisy' = (diskNoisy \/ noise > 0)
      PROVE  Goal
  <2> DEFINE f == Disk!FinishEvent(t, n + 1, e.time, noise)
             new == Disk!NewRecord(t, n + 1, e.time)
             m == n + 1
  <2>1. f.id[1] \in DiskTask /\ new.id[1] \in DiskTask
    BY <1>4, <1>5, DiskOwns
  <2>2. /\ DiskAlone!UpdateRunningTask(rest \cup {new}, m, e.time)
        /\ \A r \in diskRunning' : r.id[1] \in DiskTask
        /\ \A id \in invalid' \ invalid : id[1] \in DiskTask
        /\ invalid \subseteq invalid'
    <3> DEFINE R == rest \cup {new}
    <3>1. \A r \in R : r.id[1] \in DiskTask
      BY <1>4, <2>1
    <3>2. Disk!UpdateRunningTask(R, m, e.time)
      BY <1>5
    <3> HIDE DEF R, m
    <3>3. /\ DiskAlone!UpdateRunningTask(R, m, e.time)
          /\ \A r \in diskRunning' : r.id[1] \in DiskTask
          /\ \A id \in invalid' \ invalid : id[1] \in DiskTask
          /\ invalid \subseteq invalid'
      BY <3>1, <3>2, DiskUpdates
    <3> QED BY <3>3 DEF R
  <2>3. Only(DiskTask)' = (Only(DiskTask) \ {e}) \cup {f}
    <3> HIDE DEF f
    <3> QED BY <1>5, <2>1 DEF Only, f
  <2>4. Touches(DiskTask)
    <3> HIDE DEF f
    <3>1. events' = (events \ {e}) \cup {f}
      BY <1>5 DEF f
    <3> QED BY <2>1, <2>2, <3>1 DEF Touches
  <2>5. \E k \in DiskAlone!Noise(DiskAlone!Duration(t, n + 1)) :
          /\ Only(DiskTask)' = (Only(DiskTask) \ {e})
                                 \cup {DiskAlone!FinishEvent(t, n + 1, e.time, k)}
          /\ diskNoisy' = (diskNoisy \/ k > 0)
    <3>1. noise \in DiskAlone!Noise(DiskAlone!Duration(t, n + 1))
      BY DiskSame
    <3>2. Only(DiskTask)' = (Only(DiskTask) \ {e})
                              \cup {DiskAlone!FinishEvent(t, n + 1, e.time, noise)}
      BY <2>3, DiskSame
    <3> QED BY <1>5, <3>1, <3>2
  <2>6. DiskAlone!UpdateRunningTask(rest \cup {DiskAlone!NewRecord(t, n + 1, e.time)}, n + 1, e.time)
    BY <2>2, DiskSame
  <2>7. DiskAlone!TaskFinish(e)
    BY <1>1, <1>2, <1>3, <1>5, <2>5, <2>6, DiskSame DEF DiskAlone!TaskFinish, rest
  <2> QED BY <1>4, <1>5, <2>2, <2>4, <2>7
<1>6. ASSUME ~(diskQueue # << >> /\ Disk!ResourceAvailable(n)), diskCurrent' = n,
             Disk!UpdateRunningTask(rest, n, e.time),
             events' = (events \ {e}) \cup Disk!NewEvents(rest, n, e.time),
             UNCHANGED <<diskQueue, diskNoisy>>
      PROVE  Goal
  <2> DEFINE E == Disk!NewEvents(rest, n, e.time)
  <2>1. \A f \in E : f.id[1] \in DiskTask
    BY <1>4, DiskOwns
  <2>2. /\ DiskAlone!UpdateRunningTask(rest, n, e.time)
        /\ \A r \in diskRunning' : r.id[1] \in DiskTask
        /\ \A id \in invalid' \ invalid : id[1] \in DiskTask
        /\ invalid \subseteq invalid'
    <3> HIDE DEF n
    <3> QED BY <1>4, <1>6, DiskUpdates
  <2>3. events' = (events \ {e}) \cup E
    BY <1>6
  <2> HIDE DEF E
  <2>4. Only(DiskTask)' = (Only(DiskTask) \ {e}) \cup E
    BY <2>1, <2>3 DEF Only
  <2>5. Touches(DiskTask)
    BY <2>1, <2>2, <2>3 DEF Touches
  <2>6. Only(DiskTask)' = (Only(DiskTask) \ {e}) \cup DiskAlone!NewEvents(rest, n, e.time)
    BY <2>4, DiskSame DEF E
  <2>7. DiskAlone!TaskFinish(e)
    BY <1>1, <1>2, <1>3, <1>6, <2>2, <2>6, DiskSame DEF DiskAlone!TaskFinish, rest
  <2> QED BY <1>4, <1>6, <2>2, <2>5, <2>7
<1> QED BY <1>2, <1>5, <1>6 DEF Disk!TaskFinish, rest

-----------------------------------------------------------------------------
(* The network: the same steps, with its own names.                        *)

LEMMA NetworkSame ==
  /\ \A n : NetworkAlone!Bandwidth(n) = Network!Bandwidth(n)
  /\ \A n : NetworkAlone!ResourceAvailable(n) <=> Network!ResourceAvailable(n)
  /\ \A t, n : NetworkAlone!Duration(t, n) = Network!Duration(t, n)
  /\ \A d : NetworkAlone!Noise(d) = Network!Noise(d)
  /\ \A recs, n : NetworkAlone!OutOfDate(recs, n) = Network!OutOfDate(recs, n)
  /\ \A r, n, time : NetworkAlone!Updated(r, n, time) = Network!Updated(r, n, time)
  /\ \A r, n, time : NetworkAlone!NewEvents(r, n, time) = Network!NewEvents(r, n, time)
  /\ \A t, n, time : NetworkAlone!NewRecord(t, n, time) = Network!NewRecord(t, n, time)
  /\ \A t, n, time, noise :
        NetworkAlone!FinishEvent(t, n, time, noise) = Network!FinishEvent(t, n, time, noise)
  /\ \A time : NetworkAlone!AdvanceTo(time) <=> Network!AdvanceTo(time)
BY DEF NetworkAlone!Bandwidth, Network!Bandwidth, NetworkAlone!ResourceAvailable, Network!ResourceAvailable,
       NetworkAlone!Duration, Network!Duration, NetworkAlone!Noise, Network!Noise,
       NetworkAlone!OutOfDate, Network!OutOfDate, NetworkAlone!Updated, Network!Updated,
       NetworkAlone!NewEvents, Network!NewEvents, NetworkAlone!EventOf, Network!EventOf,
       NetworkAlone!NewRecord, Network!NewRecord, NetworkAlone!FinishEvent, Network!FinishEvent,
       NetworkAlone!AdvanceTo, Network!AdvanceTo

LEMMA NetworkOwns ==
  ASSUME NEW recs, \A r \in recs : r.id[1] \in NetworkTask, NEW n, NEW time
  PROVE  /\ \A e \in Network!NewEvents(recs, n, time) : e.id[1] \in NetworkTask
         /\ \A r \in Network!OutOfDate(recs, n) : r.id[1] \in NetworkTask
         /\ \A r \in Network!OutOfDate(recs, n) : Network!Updated(r, n, time).id[1] \in NetworkTask
         /\ \A t \in NetworkTask : Network!NewRecord(t, n, time).id[1] \in NetworkTask
         /\ \A noise : \A t \in NetworkTask : Network!FinishEvent(t, n, time, noise).id[1] \in NetworkTask
BY DEF Network!NewEvents, Network!EventOf, Network!OutOfDate, Network!Updated, Network!NewRecord, Network!FinishEvent

LEMMA NetworkUpdates ==
  ASSUME NEW recs, \A r \in recs : r.id[1] \in NetworkTask, NEW n, NEW time,
         Network!UpdateRunningTask(recs, n, time)
  PROVE  /\ NetworkAlone!UpdateRunningTask(recs, n, time)
         /\ \A r \in netRunning' : r.id[1] \in NetworkTask
         /\ \A id \in invalid' \ invalid : id[1] \in NetworkTask
         /\ invalid \subseteq invalid'
<1> DEFINE O == Network!OutOfDate(recs, n)
           X == {r.id : r \in O}
<1>1. /\ netRunning' = (recs \ O) \cup {Network!Updated(r, n, time) : r \in O}
      /\ invalid' = invalid \cup X
  BY DEF Network!UpdateRunningTask
<1>2. /\ \A r \in O : r.id[1] \in NetworkTask /\ Network!Updated(r, n, time).id[1] \in NetworkTask
  BY NetworkOwns
<1>3. \A id \in X : id[1] \in NetworkTask
  BY <1>2
<1>4. OnlyInvalid(NetworkTask)' = OnlyInvalid(NetworkTask) \cup X
  <2> HIDE DEF X
  <2> QED BY <1>1, <1>3 DEF OnlyInvalid
<1>5. NetworkAlone!UpdateRunningTask(recs, n, time)
  BY <1>1, <1>4, NetworkSame DEF NetworkAlone!UpdateRunningTask
<1> HIDE DEF O
<1>6. \A r \in netRunning' : r.id[1] \in NetworkTask
  BY <1>1, <1>2
<1> HIDE DEF X
<1> QED BY <1>1, <1>3, <1>5, <1>6

LEMMA NetworkPlaces ==
  ASSUME Apart, NEW t \in NetworkTask, NEW time, Network!PlaceNewTask(t, time)
  PROVE  /\ NetworkAlone!PlaceNewTask(t, time)
         /\ Touches(NetworkTask)
         /\ \A r \in netRunning' : r.id[1] \in NetworkTask
         /\ netQueue' \in Seq(NetworkTask)
<1> DEFINE n == netCurrent + 1
           new == Network!NewRecord(t, n, time)
           E == Network!NewEvents(netRunning, n, time)
<1>1. /\ t \notin Range(netArrived)
      /\ NetworkAlone!AdvanceTo(time)
      /\ netArrived' = Append(netArrived, t)
      /\ UNCHANGED <<[u \in NetworkTask |-> size[u]], netFinished>>
  <2>1. /\ t \notin Range(netArrived)
        /\ Network!AdvanceTo(time)
        /\ netArrived' = Append(netArrived, t)
        /\ UNCHANGED <<[u \in NetworkTask |-> size[u]], netFinished>>
    BY DEF Network!PlaceNewTask, Network!Range, Range
  <2>2. NetworkAlone!AdvanceTo(time)
    BY <2>1, NetworkSame, Zenon
  <2> QED BY <2>1, <2>2, Zenon
<1>2. /\ \A r \in netRunning \cup {new} : r.id[1] \in NetworkTask
      /\ \A e \in E : e.id[1] \in NetworkTask
      /\ netQueue \in Seq(NetworkTask)
  BY NetworkOwns DEF Apart
<1>3. ASSUME netQueue = << >>, Network!ResourceAvailable(netCurrent), netCurrent' = n,
             Network!UpdateRunningTask(netRunning \cup {new}, n, time),
             NEW noise \in Network!Noise(Network!Duration(t, n)),
             events' = events \cup {Network!FinishEvent(t, n, time, noise)} \cup E,
             netNoisy' = (netNoisy \/ noise > 0), UNCHANGED netQueue
      PROVE  /\ NetworkAlone!PlaceNewTask(t, time)
             /\ Touches(NetworkTask)
             /\ \A r \in netRunning' : r.id[1] \in NetworkTask
             /\ netQueue' \in Seq(NetworkTask)
  <2> DEFINE f == Network!FinishEvent(t, n, time, noise)
  <2>1. f.id[1] \in NetworkTask
    BY <1>2, NetworkOwns
  <2>2. /\ NetworkAlone!UpdateRunningTask(netRunning \cup {new}, n, time)
        /\ \A r \in netRunning' : r.id[1] \in NetworkTask
        /\ \A id \in invalid' \ invalid : id[1] \in NetworkTask
        /\ invalid \subseteq invalid'
    <3> DEFINE R == netRunning \cup {new}
    <3>1. \A r \in R : r.id[1] \in NetworkTask
      BY <1>2
    <3>2. Network!UpdateRunningTask(R, n, time)
      BY <1>3
    <3> HIDE DEF R, n
    <3>3. /\ NetworkAlone!UpdateRunningTask(R, n, time)
          /\ \A r \in netRunning' : r.id[1] \in NetworkTask
          /\ \A id \in invalid' \ invalid : id[1] \in NetworkTask
          /\ invalid \subseteq invalid'
      BY <3>1, <3>2, NetworkUpdates
    <3> QED BY <3>3 DEF R
  <2>3. Only(NetworkTask)' = Only(NetworkTask) \cup {f} \cup E
    <3> HIDE DEF f, E
    <3> QED BY <1>2, <1>3, <2>1 DEF Only, f, E
  <2>4. Touches(NetworkTask)
    <3> HIDE DEF E
    <3> QED BY <1>2, <1>3, <2>1, <2>2 DEF Touches, E
  <2>5. NetworkAlone!PlaceNewTask(t, time)
    <3>1. \E k \in NetworkAlone!Noise(NetworkAlone!Duration(t, n)) :
            /\ Only(NetworkTask)' = Only(NetworkTask) \cup {NetworkAlone!FinishEvent(t, n, time, k)}
                                   \cup NetworkAlone!NewEvents(netRunning, n, time)
            /\ netNoisy' = (netNoisy \/ k > 0)
      <4>1. noise \in NetworkAlone!Noise(NetworkAlone!Duration(t, n))
        BY NetworkSame
      <4>2. Only(NetworkTask)' = Only(NetworkTask) \cup {NetworkAlone!FinishEvent(t, n, time, noise)}
                                \cup NetworkAlone!NewEvents(netRunning, n, time)
        BY <2>3, NetworkSame
      <4> QED BY <1>3, <4>1, <4>2
    <3>2. NetworkAlone!UpdateRunningTask(netRunning \cup {NetworkAlone!NewRecord(t, n, time)}, n, time)
      BY <2>2, NetworkSame
    <3>3. NetworkAlone!ResourceAvailable(netCurrent)
      BY <1>3, NetworkSame, Zenon
    <3> QED BY <1>1, <1>3, <3>1, <3>2, <3>3, Zenon DEF NetworkAlone!PlaceNewTask, NetworkAlone!Range, Range
  <2> QED BY <1>2, <1>3, <2>2, <2>4, <2>5
<1>4. ASSUME ~(netQueue = << >> /\ Network!ResourceAvailable(netCurrent)),
             netQueue' = Append(netQueue, t),
             UNCHANGED <<netCurrent, netRunning, events, invalid, netNoisy>>
      PROVE  /\ NetworkAlone!PlaceNewTask(t, time)
             /\ Touches(NetworkTask)
             /\ \A r \in netRunning' : r.id[1] \in NetworkTask
             /\ netQueue' \in Seq(NetworkTask)
  <2>1. UNCHANGED <<Only(NetworkTask), OnlyInvalid(NetworkTask)>> /\ Touches(NetworkTask)
    BY <1>4 DEF Only, OnlyInvalid, Touches
  <2>2. NetworkAlone!PlaceNewTask(t, time)
    <3>1. ~(netQueue = << >> /\ NetworkAlone!ResourceAvailable(netCurrent))
      BY <1>4, NetworkSame, Zenon
    <3> QED BY <1>1, <1>4, <2>1, <3>1, Zenon DEF NetworkAlone!PlaceNewTask, NetworkAlone!Range, Range
  <2>3. netQueue' \in Seq(NetworkTask)
    BY <1>2, <1>4
  <2> QED BY <1>2, <1>4, <2>1, <2>2, <2>3
<1> QED BY <1>3, <1>4 DEF Network!PlaceNewTask

LEMMA NetworkFinishes ==
  ASSUME Apart, NEW e, e.id[1] \in NetworkTask, Network!TaskFinish(e)
  PROVE  /\ e \in Only(NetworkTask)
         /\ NetworkAlone!TaskFinish(e)
         /\ Touches(NetworkTask)
         /\ \A r \in netRunning' : r.id[1] \in NetworkTask
         /\ netQueue' \in Seq(NetworkTask)
<1> DEFINE rest == {r \in netRunning : r.id # e.id}
           n == netCurrent - 1
           t == Head(netQueue)
           Goal == /\ NetworkAlone!TaskFinish(e)
                   /\ Touches(NetworkTask)
                   /\ \A r \in netRunning' : r.id[1] \in NetworkTask
                   /\ netQueue' \in Seq(NetworkTask)
<1>1. /\ e \in events /\ \A f \in events : e.time <= f.time
      /\ e.id \notin invalid
      /\ NetworkAlone!AdvanceTo(e.time)
      /\ netFinished' = Append(netFinished, e.id[1])
      /\ UNCHANGED <<[u \in NetworkTask |-> size[u]], netArrived>>
  BY NetworkSame DEF Network!TaskFinish, Network!IsNext
<1>2. /\ e \in Only(NetworkTask) /\ \A f \in Only(NetworkTask) : e.time <= f.time
      /\ e.id \notin OnlyInvalid(NetworkTask)
  BY <1>1 DEF Only, OnlyInvalid
<1>3. NetworkAlone!IsNext(e)
  BY <1>2 DEF NetworkAlone!IsNext
<1>4. /\ \A r \in rest : r.id[1] \in NetworkTask
      /\ netQueue \in Seq(NetworkTask)
      /\ netQueue # << >> => t \in NetworkTask /\ Tail(netQueue) \in Seq(NetworkTask)
  BY DEF Apart
<1> HIDE DEF rest
<1>5. ASSUME netQueue # << >>, Network!ResourceAvailable(n), netQueue' = Tail(netQueue),
             netCurrent' = n + 1,
             Network!UpdateRunningTask(rest \cup {Network!NewRecord(t, n + 1, e.time)}, n + 1, e.time),
             NEW noise \in Network!Noise(Network!Duration(t, n + 1)),
             events' = (events \ {e}) \cup {Network!FinishEvent(t, n + 1, e.time, noise)},
             netNoisy' = (netNoisy \/ noise > 0)
      PROVE  Goal
  <2> DEFINE f == Network!FinishEvent(t, n + 1, e.time, noise)
             new == Network!NewRecord(t, n + 1, e.time)
             m == n + 1
  <2>1. f.id[1] \in NetworkTask /\ new.id[1] \in NetworkTask
    BY <1>4, <1>5, NetworkOwns
  <2>2. /\ NetworkAlone!UpdateRunningTask(rest \cup {new}, m, e.time)
        /\ \A r \in netRunning' : r.id[1] \in NetworkTask
        /\ \A id \in invalid' \ invalid : id[1] \in NetworkTask
        /\ invalid \subseteq invalid'
    <3> DEFINE R == rest \cup {new}
    <3>1. \A r \in R : r.id[1] \in NetworkTask
      BY <1>4, <2>1
    <3>2. Network!UpdateRunningTask(R, m, e.time)
      BY <1>5
    <3> HIDE DEF R, m
    <3>3. /\ NetworkAlone!UpdateRunningTask(R, m, e.time)
          /\ \A r \in netRunning' : r.id[1] \in NetworkTask
          /\ \A id \in invalid' \ invalid : id[1] \in NetworkTask
          /\ invalid \subseteq invalid'
      BY <3>1, <3>2, NetworkUpdates
    <3> QED BY <3>3 DEF R
  <2>3. Only(NetworkTask)' = (Only(NetworkTask) \ {e}) \cup {f}
    <3> HIDE DEF f
    <3> QED BY <1>5, <2>1 DEF Only, f
  <2>4. Touches(NetworkTask)
    <3> HIDE DEF f
    <3>1. events' = (events \ {e}) \cup {f}
      BY <1>5 DEF f
    <3> QED BY <2>1, <2>2, <3>1 DEF Touches
  <2>5. \E k \in NetworkAlone!Noise(NetworkAlone!Duration(t, n + 1)) :
          /\ Only(NetworkTask)' = (Only(NetworkTask) \ {e})
                                 \cup {NetworkAlone!FinishEvent(t, n + 1, e.time, k)}
          /\ netNoisy' = (netNoisy \/ k > 0)
    <3>1. noise \in NetworkAlone!Noise(NetworkAlone!Duration(t, n + 1))
      BY NetworkSame
    <3>2. Only(NetworkTask)' = (Only(NetworkTask) \ {e})
                              \cup {NetworkAlone!FinishEvent(t, n + 1, e.time, noise)}
      BY <2>3, NetworkSame
    <3> QED BY <1>5, <3>1, <3>2
  <2>6. NetworkAlone!UpdateRunningTask(rest \cup {NetworkAlone!NewRecord(t, n + 1, e.time)}, n + 1, e.time)
    BY <2>2, NetworkSame
  <2>7. NetworkAlone!TaskFinish(e)
    BY <1>1, <1>2, <1>3, <1>5, <2>5, <2>6, NetworkSame DEF NetworkAlone!TaskFinish, rest
  <2> QED BY <1>4, <1>5, <2>2, <2>4, <2>7
<1>6. ASSUME ~(netQueue # << >> /\ Network!ResourceAvailable(n)), netCurrent' = n,
             Network!UpdateRunningTask(rest, n, e.time),
             events' = (events \ {e}) \cup Network!NewEvents(rest, n, e.time),
             UNCHANGED <<netQueue, netNoisy>>
      PROVE  Goal
  <2> DEFINE E == Network!NewEvents(rest, n, e.time)
  <2>1. \A f \in E : f.id[1] \in NetworkTask
    BY <1>4, NetworkOwns
  <2>2. /\ NetworkAlone!UpdateRunningTask(rest, n, e.time)
        /\ \A r \in netRunning' : r.id[1] \in NetworkTask
        /\ \A id \in invalid' \ invalid : id[1] \in NetworkTask
        /\ invalid \subseteq invalid'
    <3> HIDE DEF n
    <3> QED BY <1>4, <1>6, NetworkUpdates
  <2>3. events' = (events \ {e}) \cup E
    BY <1>6
  <2> HIDE DEF E
  <2>4. Only(NetworkTask)' = (Only(NetworkTask) \ {e}) \cup E
    BY <2>1, <2>3 DEF Only
  <2>5. Touches(NetworkTask)
    BY <2>1, <2>2, <2>3 DEF Touches
  <2>6. Only(NetworkTask)' = (Only(NetworkTask) \ {e}) \cup NetworkAlone!NewEvents(rest, n, e.time)
    BY <2>4, NetworkSame DEF E
  <2>7. NetworkAlone!TaskFinish(e)
    BY <1>1, <1>2, <1>3, <1>6, <2>2, <2>6, NetworkSame DEF NetworkAlone!TaskFinish, rest
  <2> QED BY <1>4, <1>6, <2>2, <2>5, <2>7
<1> QED BY <1>2, <1>5, <1>6 DEF Network!TaskFinish, rest

-----------------------------------------------------------------------------
(* The cores, which invalidate nothing.                                    *)
LEMMA CoresTouchTheirOwn ==
  ASSUME Apart,
         \/ \E time : \E t \in CpuTask : CpuPlace(t, time)
         \/ \E e : e.id[1] \in CpuTask /\ CpuFinish(e)
  PROVE  /\ Touches(CpuTask)
         /\ cpuQueue' \in Seq(CpuTask)
         /\ UNCHANGED invalid
<1>1. cpuQueue \in Seq(CpuTask)
  BY DEF Apart
<1>2. \A t, time : \A e \in CpuEvents(t, time) : e.id[1] = t
  BY DEF CpuEvents
<1>3. ASSUME NEW t \in CpuTask, NEW time, CpuPlace(t, time)
      PROVE  /\ Touches(CpuTask)
             /\ cpuQueue' \in Seq(CpuTask)
             /\ UNCHANGED invalid
  <2>1. UNCHANGED invalid
    BY <1>3 DEF CpuPlace
  <2>2. cpuQueue' = cpuQueue \/ cpuQueue' = Append(cpuQueue, t)
    BY <1>3 DEF CpuPlace
  <2>3. cpuQueue' \in Seq(CpuTask)
    BY <1>1, <2>2
  <2>4. events' = events \/ \E e \in CpuEvents(t, time) : events' = events \cup {e}
    BY <1>3, Zenon DEF CpuPlace
  <2>5. Touches(CpuTask)
    BY <1>2, <2>1, <2>4 DEF Touches
  <2> QED BY <2>1, <2>3, <2>5
<1>4. ASSUME NEW e, e.id[1] \in CpuTask, CpuFinish(e)
      PROVE  /\ Touches(CpuTask)
             /\ cpuQueue' \in Seq(CpuTask)
             /\ UNCHANGED invalid
  <2>1. UNCHANGED invalid
    BY <1>4 DEF CpuFinish
  <2>2. CASE UNCHANGED cpuQueue /\ events' = events \ {e}
    BY <1>1, <1>4, <2>1, <2>2 DEF Touches
  <2>3. ASSUME cpuQueue # << >>, cpuQueue' = Tail(cpuQueue),
               NEW f \in CpuEvents(Head(cpuQueue), e.time),
               events' = (events \ {e}) \cup {f}
        PROVE  Touches(CpuTask) /\ cpuQueue' \in Seq(CpuTask)
    <3>1. Head(cpuQueue) \in CpuTask /\ cpuQueue' \in Seq(CpuTask)
      BY <1>1, <2>3
    <3>2. f.id[1] \in CpuTask
      BY <1>2, <2>3, <3>1
    <3> QED BY <1>4, <2>1, <2>3, <3>1, <3>2 DEF Touches
  <2>4. \/ UNCHANGED cpuQueue /\ events' = events \ {e}
        \/ /\ cpuQueue # << >> /\ cpuQueue' = Tail(cpuQueue)
           /\ \E f \in CpuEvents(Head(cpuQueue), e.time) : events' = (events \ {e}) \cup {f}
    BY <1>4, Zenon DEF CpuFinish
  <2> QED BY <2>1, <2>2, <2>3, <2>4
<1> QED BY <1>3, <1>4

-----------------------------------------------------------------------------
(* The worker.  A step of it is one of the disk alone or none of its, and  *)
(* the same for the network.                                               *)
DiskStep == [DiskAlone!Next]_(DiskAlone!vars)
NetworkStep == [NetworkAlone!Next]_(NetworkAlone!vars)

LEMMA DiskRests ==
  ASSUME UNCHANGED <<size, diskVars, Only(DiskTask), OnlyInvalid(DiskTask)>>
  PROVE  DiskStep
BY DEF DiskStep, DiskAlone!vars, diskVars

LEMMA NetworkRests ==
  ASSUME UNCHANGED <<size, netVars, Only(NetworkTask), OnlyInvalid(NetworkTask)>>
  PROVE  NetworkStep
BY DEF NetworkStep, NetworkAlone!vars, netVars

LEMMA WorkerStarts ==
  ASSUME WorkerInit
  PROVE  Apart /\ Punctual /\ DiskAlone!Init /\ NetworkAlone!Init
<1>1. /\ events = {} /\ invalid = {} /\ diskRunning = {} /\ netRunning = {}
      /\ diskQueue = << >> /\ netQueue = << >> /\ cpuQueue = << >>
      /\ size \in [Task -> Sizes]
  BY DEF WorkerInit, Disk!Init, Network!Init
<1>2. Apart
  BY <1>1 DEF Apart
<1>3. Only(DiskTask) = {} /\ OnlyInvalid(DiskTask) = {}
      /\ Only(NetworkTask) = {} /\ OnlyInvalid(NetworkTask) = {}
  BY <1>1 DEF Only, OnlyInvalid
<1>4. DiskAlone!Init
  BY <1>1, <1>3 DEF WorkerInit, Disk!Init, DiskAlone!Init, Task
<1>5. NetworkAlone!Init
  BY <1>1, <1>3 DEF WorkerInit, Network!Init, NetworkAlone!Init, Task
<1>6. Punctual
  BY <1>3 DEF Punctual
<1> QED BY <1>2, <1>4, <1>5, <1>6

LEMMA Disjoint ==
  /\ DiskTask \cap CpuTask = {} /\ DiskTask \cap NetworkTask = {}
  /\ NetworkTask \cap CpuTask = {} /\ NetworkTask \cap DiskTask = {}
BY WorkerDevicesAssumption

(* A step of one part of the worker keeps the parts apart, and the others  *)
(* rest.                                                                   *)
LEMMA CpuActs ==
  ASSUME Apart, Touches(CpuTask), cpuQueue' \in Seq(CpuTask), UNCHANGED invalid,
         UNCHANGED <<size, diskVars, netVars>>
  PROVE  Apart' /\ DiskStep /\ NetworkStep
<1>1. Apart'
  BY DEF Apart, diskVars, netVars
<1>2. UNCHANGED <<Only(DiskTask), OnlyInvalid(DiskTask)>>
  BY Disjoint, TouchesOthersNot
<1>3. UNCHANGED <<Only(NetworkTask), OnlyInvalid(NetworkTask)>>
  BY Disjoint, TouchesOthersNot
<1> QED BY <1>1, <1>2, <1>3, DiskRests, NetworkRests

LEMMA DiskActs ==
  ASSUME Apart, Touches(DiskTask), diskQueue' \in Seq(DiskTask),
         \A r \in diskRunning' : r.id[1] \in DiskTask,
         UNCHANGED <<size, netVars, cpuVars>>
  PROVE  Apart' /\ NetworkStep
<1>1. \A id \in invalid' : id[1] \in DiskTask \cup NetworkTask
  BY DEF Apart, Touches
<1>2. Apart'
  BY <1>1 DEF Apart, netVars, cpuVars
<1>3. UNCHANGED <<Only(NetworkTask), OnlyInvalid(NetworkTask)>>
  BY Disjoint, TouchesOthersNot
<1> QED BY <1>2, <1>3, NetworkRests

LEMMA NetworkActs ==
  ASSUME Apart, Touches(NetworkTask), netQueue' \in Seq(NetworkTask),
         \A r \in netRunning' : r.id[1] \in NetworkTask,
         UNCHANGED <<size, diskVars, cpuVars>>
  PROVE  Apart' /\ DiskStep
<1>1. \A id \in invalid' : id[1] \in DiskTask \cup NetworkTask
  BY DEF Apart, Touches
<1>2. Apart'
  BY <1>1 DEF Apart, diskVars, cpuVars
<1>3. UNCHANGED <<Only(DiskTask), OnlyInvalid(DiskTask)>>
  BY Disjoint, TouchesOthersNot
<1> QED BY <1>2, <1>3, DiskRests

(* At the time of a step: the first event of the queue is not after those  *)
(* of a device that rests, and one that acts sets its clock.               *)
LEMMA PunctualStep ==
  ASSUME Punctual,
         \/ now' = now
         \/ \A e \in events : now' <= e.time,
         diskNow' = now' \/ UNCHANGED <<diskNow, Only(DiskTask)>>,
         netNow' = now' \/ UNCHANGED <<netNow, Only(NetworkTask)>>
  PROVE  Punctual'
<1>1. \/ now' = now
      \/ /\ \A e \in Only(DiskTask) : now' <= e.time
         /\ \A e \in Only(NetworkTask) : now' <= e.time
  BY DEF Only
<1>2. diskNow' = now' \/ \A e \in Only(DiskTask)' : now' <= e.time
  <2>1. CASE diskNow' = now'
    BY <2>1
  <2>2. CASE UNCHANGED <<diskNow, Only(DiskTask)>>
    <3>1. CASE now' = now
      BY <2>2, <3>1 DEF Punctual
    <3>2. CASE \A e \in Only(DiskTask) : now' <= e.time
      BY <2>2, <3>2
    <3> QED BY <1>1, <3>1, <3>2
  <2> QED BY <2>1, <2>2
<1>3. netNow' = now' \/ \A e \in Only(NetworkTask)' : now' <= e.time
  <2>1. CASE netNow' = now'
    BY <2>1
  <2>2. CASE UNCHANGED <<netNow, Only(NetworkTask)>>
    <3>1. CASE now' = now
      BY <2>2, <3>1 DEF Punctual
    <3>2. CASE \A e \in Only(NetworkTask) : now' <= e.time
      BY <2>2, <3>2
    <3> QED BY <1>1, <3>1, <3>2
  <2> QED BY <2>1, <2>2
<1> QED BY <1>2, <1>3 DEF Punctual

LEMMA PlaceActs ==
  ASSUME Apart, Punctual, NEW t \in Task, Place(t)
  PROVE  Apart' /\ Punctual' /\ DiskStep /\ NetworkStep
<1>1. /\ UNCHANGED size /\ now' \in Int
      /\ now' = now \/ \A e \in events : now' <= e.time
  BY DEF Place
<1>2. CASE t \in CpuTask /\ CpuPlace(t, now') /\ UNCHANGED <<diskVars, netVars>>
  <2>1. /\ Touches(CpuTask) /\ cpuQueue' \in Seq(CpuTask) /\ UNCHANGED invalid
    BY <1>2, CoresTouchTheirOwn
  <2>2. UNCHANGED <<diskNow, netNow, Only(DiskTask), Only(NetworkTask)>>
    BY <1>2, <2>1, Disjoint, TouchesOthersNot DEF diskVars, netVars
  <2>3. Punctual'
    BY <1>1, <2>2, PunctualStep
  <2> QED BY <1>1, <1>2, <2>1, <2>3, CpuActs
<1>3. CASE t \in DiskTask /\ Disk!PlaceNewTask(t, now') /\ UNCHANGED <<netVars, cpuVars>>
  <2>1. /\ DiskAlone!PlaceNewTask(t, now')
        /\ Touches(DiskTask)
        /\ \A r \in diskRunning' : r.id[1] \in DiskTask
        /\ diskQueue' \in Seq(DiskTask)
    BY <1>3, DiskPlaces
  <2>2. diskNow' = now'
    BY <2>1 DEF DiskAlone!PlaceNewTask, DiskAlone!AdvanceTo
  <2>3. UNCHANGED <<netNow, Only(NetworkTask)>>
    BY <1>3, <2>1, Disjoint, TouchesOthersNot DEF netVars
  <2>4. Punctual'
    BY <1>1, <2>2, <2>3, PunctualStep
  <2>5. diskNow' = diskNow \/ \A e \in Only(DiskTask) : diskNow' <= e.time
    <3>1. CASE now' = now
      BY <2>2, <3>1 DEF Punctual
    <3>2. CASE \A e \in events : now' <= e.time
      BY <2>2, <3>2 DEF Only
    <3> QED BY <1>1, <3>1, <3>2
  <2>6. DiskAlone!Arrive(t)
    BY <1>1, <2>1, <2>2, <2>5, Zenon DEF DiskAlone!Arrive
  <2>7. DiskStep
    BY <1>3, <2>6, Zenon DEF DiskStep, DiskAlone!Next
  <2> QED BY <1>1, <1>3, <2>1, <2>4, <2>7, DiskActs
<1>4. CASE t \in NetworkTask /\ Network!PlaceNewTask(t, now') /\ UNCHANGED <<diskVars, cpuVars>>
  <2>1. /\ NetworkAlone!PlaceNewTask(t, now')
        /\ Touches(NetworkTask)
        /\ \A r \in netRunning' : r.id[1] \in NetworkTask
        /\ netQueue' \in Seq(NetworkTask)
    BY <1>4, NetworkPlaces
  <2>2. netNow' = now'
    BY <2>1 DEF NetworkAlone!PlaceNewTask, NetworkAlone!AdvanceTo
  <2>3. UNCHANGED <<diskNow, Only(DiskTask)>>
    BY <1>4, <2>1, Disjoint, TouchesOthersNot DEF diskVars
  <2>4. Punctual'
    BY <1>1, <2>2, <2>3, PunctualStep
  <2>5. netNow' = netNow \/ \A e \in Only(NetworkTask) : netNow' <= e.time
    <3>1. CASE now' = now
      BY <2>2, <3>1 DEF Punctual
    <3>2. CASE \A e \in events : now' <= e.time
      BY <2>2, <3>2 DEF Only
    <3> QED BY <1>1, <3>1, <3>2
  <2>6. NetworkAlone!Arrive(t)
    BY <1>1, <2>1, <2>2, <2>5, Zenon DEF NetworkAlone!Arrive
  <2>7. NetworkStep
    BY <1>4, <2>6, Zenon DEF NetworkStep, NetworkAlone!Next
  <2> QED BY <1>1, <1>4, <2>1, <2>4, <2>7, NetworkActs
<1> QED BY <1>2, <1>3, <1>4 DEF Place

LEMMA FinishActs ==
  ASSUME Apart, Punctual, NEW e, Finish(e)
  PROVE  Apart' /\ Punctual' /\ DiskStep /\ NetworkStep
<1>1. /\ UNCHANGED size
      /\ now' = e.time /\ \A f \in events : now' <= f.time
  BY DEF Finish, IsNext
<1>2. CASE e.id[1] \in CpuTask /\ CpuFinish(e) /\ UNCHANGED <<diskVars, netVars>>
  <2>1. /\ Touches(CpuTask) /\ cpuQueue' \in Seq(CpuTask) /\ UNCHANGED invalid
    BY <1>2, CoresTouchTheirOwn
  <2>2. UNCHANGED <<diskNow, netNow, Only(DiskTask), Only(NetworkTask)>>
    BY <1>2, <2>1, Disjoint, TouchesOthersNot DEF diskVars, netVars
  <2>3. Punctual'
    BY <1>1, <2>2, PunctualStep
  <2> QED BY <1>1, <1>2, <2>1, <2>3, CpuActs
<1>3. CASE e.id[1] \in DiskTask /\ Disk!TaskFinish(e) /\ UNCHANGED <<netVars, cpuVars>>
  <2>1. /\ e \in Only(DiskTask)
        /\ DiskAlone!TaskFinish(e)
        /\ Touches(DiskTask)
        /\ \A r \in diskRunning' : r.id[1] \in DiskTask
        /\ diskQueue' \in Seq(DiskTask)
    BY <1>3, DiskFinishes
  <2>2. DiskStep
    BY <2>1, Zenon DEF DiskStep, DiskAlone!Next, DiskAlone!Serve
  <2>3. diskNow' = now' /\ UNCHANGED <<netNow, Only(NetworkTask)>>
    BY <1>1, <1>3, <2>1, Disjoint, TouchesOthersNot
       DEF netVars, DiskAlone!TaskFinish, DiskAlone!AdvanceTo
  <2>4. Punctual'
    BY <1>1, <2>3, PunctualStep
  <2> QED BY <1>1, <1>3, <2>1, <2>2, <2>4, DiskActs
<1>4. CASE e.id[1] \in NetworkTask /\ Network!TaskFinish(e) /\ UNCHANGED <<diskVars, cpuVars>>
  <2>1. /\ e \in Only(NetworkTask)
        /\ NetworkAlone!TaskFinish(e)
        /\ Touches(NetworkTask)
        /\ \A r \in netRunning' : r.id[1] \in NetworkTask
        /\ netQueue' \in Seq(NetworkTask)
    BY <1>4, NetworkFinishes
  <2>2. NetworkStep
    BY <2>1, Zenon DEF NetworkStep, NetworkAlone!Next, NetworkAlone!Serve
  <2>3. netNow' = now' /\ UNCHANGED <<diskNow, Only(DiskTask)>>
    BY <1>1, <1>4, <2>1, Disjoint, TouchesOthersNot
       DEF diskVars, NetworkAlone!TaskFinish, NetworkAlone!AdvanceTo
  <2>4. Punctual'
    BY <1>1, <2>3, PunctualStep
  <2> QED BY <1>1, <1>4, <2>1, <2>2, <2>4, NetworkActs
<1> QED BY <1>2, <1>3, <1>4 DEF Finish

(* Whose event it is decides who is touched when Serve drops it.           *)
LEMMA SkipActs ==
  ASSUME Apart, Punctual, NEW e, Skip(e)
  PROVE  Apart' /\ Punctual' /\ DiskStep /\ NetworkStep
<1>1. /\ e \in events /\ \A f \in events : e.time <= f.time
      /\ e.id \in invalid
      /\ events' = events \ {e}
      /\ invalid' = invalid \ {e.id}
      /\ UNCHANGED <<size, now, diskVars, netVars, cpuVars>>
  BY DEF Skip, IsNext
<1>2. Punctual'
  <2>1. UNCHANGED <<now, diskNow, netNow>>
    BY <1>1 DEF diskVars, netVars
  <2>2. Only(DiskTask)' \subseteq Only(DiskTask) /\ Only(NetworkTask)' \subseteq Only(NetworkTask)
    BY <1>1 DEF Only
  <2> QED BY <2>1, <2>2 DEF Punctual
<1>3. CASE e.id[1] \in DiskTask
  <2>1. Touches(DiskTask)
    BY <1>1, <1>3 DEF Touches
  <2>2. /\ e \in Only(DiskTask) /\ \A f \in Only(DiskTask) : e.time <= f.time
        /\ e.id \in OnlyInvalid(DiskTask)
        /\ Only(DiskTask)' = Only(DiskTask) \ {e}
        /\ OnlyInvalid(DiskTask)' = OnlyInvalid(DiskTask) \ {e.id}
    BY <1>1, <1>3 DEF Only, OnlyInvalid
  <2>3. DiskAlone!SkipInvalid(e)
    BY <1>1, <2>2 DEF DiskAlone!SkipInvalid, DiskAlone!IsNext, diskVars
  <2>4. DiskStep
    BY <2>2, <2>3, Zenon DEF DiskStep, DiskAlone!Next, DiskAlone!Serve
  <2>5. /\ diskQueue' \in Seq(DiskTask) /\ \A r \in diskRunning' : r.id[1] \in DiskTask
    BY <1>1 DEF Apart, diskVars
  <2> QED BY <1>1, <1>2, <2>1, <2>4, <2>5, DiskActs
<1>4. CASE e.id[1] \in NetworkTask
  <2>1. Touches(NetworkTask)
    BY <1>1, <1>4 DEF Touches
  <2>2. /\ e \in Only(NetworkTask) /\ \A f \in Only(NetworkTask) : e.time <= f.time
        /\ e.id \in OnlyInvalid(NetworkTask)
        /\ Only(NetworkTask)' = Only(NetworkTask) \ {e}
        /\ OnlyInvalid(NetworkTask)' = OnlyInvalid(NetworkTask) \ {e.id}
    BY <1>1, <1>4 DEF Only, OnlyInvalid
  <2>3. NetworkAlone!SkipInvalid(e)
    BY <1>1, <2>2 DEF NetworkAlone!SkipInvalid, NetworkAlone!IsNext, netVars
  <2>4. NetworkStep
    BY <2>2, <2>3, Zenon DEF NetworkStep, NetworkAlone!Next, NetworkAlone!Serve
  <2>5. /\ netQueue' \in Seq(NetworkTask) /\ \A r \in netRunning' : r.id[1] \in NetworkTask
    BY <1>1 DEF Apart, netVars
  <2> QED BY <1>1, <1>2, <2>1, <2>4, <2>5, NetworkActs
<1> QED BY <1>1, <1>3, <1>4 DEF Apart

LEMMA WorkerSteps ==
  ASSUME Apart, Punctual, [WorkerNext]_workerVars
  PROVE  Apart' /\ Punctual' /\ DiskStep /\ NetworkStep
<1>1. CASE WorkerNext
  BY <1>1, PlaceActs, FinishActs, SkipActs DEF WorkerNext
<1>2. CASE UNCHANGED workerVars
  <2>1. UNCHANGED <<Only(DiskTask), OnlyInvalid(DiskTask), Only(NetworkTask),
                    OnlyInvalid(NetworkTask)>>
    BY <1>2 DEF workerVars, Only, OnlyInvalid
  <2>2. Apart'
    BY <1>2 DEF Apart, workerVars, diskVars, netVars, cpuVars
  <2>3. Punctual'
    BY <1>2, <2>1 DEF Punctual, workerVars, diskVars, netVars
  <2> QED BY <1>2, <2>1, <2>2, <2>3, DiskRests, NetworkRests DEF workerVars
<1> QED BY <1>1, <1>2

(* Sharing the event queue and the set of invalid ids with the cores and   *)
(* the network does not change what the disk does: seen from the disk, the *)
(* worker behaves like a disk alone (Worker::Init, worker_disk.h), noise   *)
(* and the runs backwards it causes included.                              *)
THEOREM DiskIsUndisturbed == WorkerSpec => DiskUndisturbed
<1>1. WorkerInit => Apart /\ Punctual /\ DiskAlone!Init
  BY WorkerStarts
<1>2. Apart /\ Punctual /\ [WorkerNext]_workerVars
        => Apart' /\ Punctual' /\ [DiskAlone!Next]_(DiskAlone!vars)
  BY WorkerSteps DEF DiskStep
<1> QED BY <1>1, <1>2, PTL DEF WorkerSpec, DiskUndisturbed, DiskAlone!Spec

(* The same for the network (worker_network.h).                            *)
THEOREM NetworkIsUndisturbed == WorkerSpec => NetworkUndisturbed
<1>1. WorkerInit => Apart /\ Punctual /\ NetworkAlone!Init
  BY WorkerStarts
<1>2. Apart /\ Punctual /\ [WorkerNext]_workerVars
        => Apart' /\ Punctual' /\ [NetworkAlone!Next]_(NetworkAlone!vars)
  BY WorkerSteps DEF NetworkStep
<1> QED BY <1>1, <1>2, PTL DEF WorkerSpec, NetworkUndisturbed, NetworkAlone!Spec

-----------------------------------------------------------------------------
(* The cores: the tasks that have started run or are finished, every core  *)
(* in use has one event, and nobody waits for a core that is free.         *)
CoresInv ==
  /\ InLine(cpuArrived, cpuQueue, CpuTask)
  /\ cpuFinished \in Seq(CpuTask)
  /\ cpuRunning \subseteq CpuTask /\ IsFiniteSet(cpuRunning)
  /\ Started(cpuArrived, cpuQueue) = Cardinality(cpuRunning) + Len(cpuFinished)
  /\ StartedOf(cpuArrived, cpuQueue) = cpuRunning \cup Range(cpuFinished)
  /\ \A e \in Only(CpuTask) : e.id[1] \in cpuRunning
  /\ \A t \in cpuRunning : \E e \in Only(CpuTask) : e.id[1] = t
  /\ \A d, e \in Only(CpuTask) : d.id[1] = e.id[1] => d = e
  /\ Cardinality(cpuRunning) <= Cores
  /\ cpuQueue # << >> => Cardinality(cpuRunning) = Cores

LEMMA CoresInvImplies ==
  ASSUME Apart, CoresInv
  PROVE  CoresInOrder
<1>1. \A e \in Only(CpuTask) : e.id \notin invalid
  BY Disjoint DEF Apart, Only
<1>2. {e.id[1] : e \in Only(CpuTask)} = cpuRunning
  <2>1. /\ \A e \in Only(CpuTask) : e.id[1] \in cpuRunning
        /\ \A t \in cpuRunning : \E e \in Only(CpuTask) : e.id[1] = t
    BY DEF CoresInv
  <2> QED BY <2>1
<1>3. cpuQueue = SubSeq(cpuArrived, Len(cpuArrived) - Len(cpuQueue) + 1, Len(cpuArrived))
  BY LineIsSuffix DEF CoresInv
<1>4. Len(cpuArrived) = Len(cpuQueue) + Cardinality(cpuRunning) + Len(cpuFinished)
  <2>1. /\ cpuArrived \in Seq(CpuTask) /\ cpuQueue \in Seq(CpuTask)
        /\ cpuFinished \in Seq(CpuTask)
        /\ IsFiniteSet(cpuRunning)
        /\ Len(cpuArrived) - Len(cpuQueue) = Cardinality(cpuRunning) + Len(cpuFinished)
    BY DEF CoresInv, InLine, Started
  <2>2. /\ Len(cpuArrived) \in Nat /\ Len(cpuQueue) \in Nat /\ Len(cpuFinished) \in Nat
        /\ Cardinality(cpuRunning) \in Nat
    BY <2>1, FS_CardinalityType
  <2> QED BY <2>1, <2>2
<1> QED BY <1>1, <1>2, <1>3, <1>4 DEF CoresInv, CoresInOrder

LEMMA CoresStart ==
  ASSUME WorkerInit
  PROVE  CoresInv
<1>1. /\ cpuArrived = << >> /\ cpuQueue = << >> /\ cpuRunning = {}
      /\ cpuFinished = << >> /\ events = {}
  BY DEF WorkerInit, Disk!Init
<1>2. /\ Only(CpuTask) = {} /\ Range(cpuFinished) = {} /\ Len(cpuFinished) = 0
      /\ cpuFinished \in Seq(CpuTask)
  BY <1>1 DEF Only, Range
<1>3. IsFiniteSet({}) /\ Cardinality({}) = 0
  BY FS_EmptySet
<1>4. Cores \in Nat \ {0}
  BY WorkerDevicesAssumption
<1>5. /\ InLine(cpuArrived, cpuQueue, CpuTask)
      /\ Started(cpuArrived, cpuQueue) = 0
      /\ StartedOf(cpuArrived, cpuQueue) = {}
  BY <1>1, EmptyLine
<1>6. /\ Started(cpuArrived, cpuQueue) = Cardinality(cpuRunning) + Len(cpuFinished)
      /\ StartedOf(cpuArrived, cpuQueue) = cpuRunning \cup Range(cpuFinished)
  <2>1. Cardinality(cpuRunning) = 0
    BY <1>1, <1>3
  <2>2. Started(cpuArrived, cpuQueue) = Cardinality(cpuRunning) + Len(cpuFinished)
    BY <1>2, <1>5, <2>1
  <2>3. StartedOf(cpuArrived, cpuQueue) = cpuRunning \cup Range(cpuFinished)
    BY <1>1, <1>2, <1>5
  <2> QED BY <2>2, <2>3
<1>7. IsFiniteSet(cpuRunning) /\ Cardinality(cpuRunning) <= Cores
  BY <1>1, <1>3, <1>4
<1> QED BY <1>1, <1>2, <1>5, <1>6, <1>7 DEF CoresInv

(* What CoresInv says of the numbers.                                      *)
LEMMA CoresCount ==
  ASSUME CoresInv
  PROVE  /\ Cores \in Nat \ {0} /\ Cardinality(cpuRunning) \in Nat
         /\ Len(cpuFinished) \in Nat
         /\ \A t : /\ t \notin cpuRunning
                     => Cardinality(cpuRunning \cup {t}) = Cardinality(cpuRunning) + 1
                   /\ t \in cpuRunning
                     => Cardinality(cpuRunning \ {t}) = Cardinality(cpuRunning) - 1
                   /\ IsFiniteSet(cpuRunning \cup {t}) /\ IsFiniteSet(cpuRunning \ {t})
BY WorkerDevicesAssumption, FS_CardinalityType, FS_AddElement, FS_RemoveElement DEF CoresInv

(* Somebody starts on a free core: the one event made for the task is the  *)
(* only one it has.                                                        *)
LEMMA CoresPlace ==
  ASSUME CoresInv, NEW t \in CpuTask, NEW time, CpuPlace(t, time)
  PROVE  CoresInv'
<1> DEFINE c == Cardinality(cpuRunning)
<1>1. /\ InLine(cpuArrived, cpuQueue, CpuTask)
      /\ cpuFinished \in Seq(CpuTask)
      /\ cpuRunning \subseteq CpuTask /\ IsFiniteSet(cpuRunning)
      /\ Started(cpuArrived, cpuQueue) = c + Len(cpuFinished)
      /\ StartedOf(cpuArrived, cpuQueue) = cpuRunning \cup Range(cpuFinished)
      /\ \A e \in Only(CpuTask) : e.id[1] \in cpuRunning
      /\ \A u \in cpuRunning : \E e \in Only(CpuTask) : e.id[1] = u
      /\ \A d, e \in Only(CpuTask) : d.id[1] = e.id[1] => d = e
      /\ c <= Cores
      /\ cpuQueue # << >> => c = Cores
  BY DEF CoresInv
<1>2. /\ Cores \in Nat /\ c \in Nat /\ Len(cpuFinished) \in Nat
      /\ t \notin cpuRunning => Cardinality(cpuRunning \cup {t}) = c + 1
      /\ IsFiniteSet(cpuRunning \cup {t})
  BY CoresCount
<1>3. /\ t \notin Range(cpuArrived) /\ cpuArrived' = Append(cpuArrived, t)
      /\ UNCHANGED <<invalid, cpuFinished>>
  BY DEF CpuPlace
<1> HIDE DEF c
<1>4. ASSUME cpuQueue = << >>, c + 1 <= Cores, cpuRunning' = cpuRunning \cup {t},
             NEW f \in CpuEvents(t, time), events' = events \cup {f}, UNCHANGED cpuQueue
      PROVE  CoresInv'
  <2>1. /\ InLine(cpuArrived', cpuQueue', CpuTask)
        /\ Started(cpuArrived', cpuQueue') = Started(cpuArrived, cpuQueue) + 1
        /\ t \notin StartedOf(cpuArrived, cpuQueue)
        /\ StartedOf(cpuArrived', cpuQueue') = StartedOf(cpuArrived, cpuQueue) \cup {t}
    <3>1. InLine(cpuArrived, << >>, CpuTask)
      BY <1>1, <1>4
    <3>2. /\ InLine(Append(cpuArrived, t), << >>, CpuTask)
          /\ Started(Append(cpuArrived, t), << >>) = Started(cpuArrived, << >>) + 1
          /\ t \notin StartedOf(cpuArrived, << >>)
          /\ StartedOf(Append(cpuArrived, t), << >>) = StartedOf(cpuArrived, << >>) \cup {t}
      BY <1>3, <3>1, ArrivesAndStarts
    <3> QED BY <1>3, <1>4, <3>2
  <2>2. t \notin cpuRunning
    BY <1>1, <2>1
  <2>3. Cardinality(cpuRunning') = c + 1 /\ IsFiniteSet(cpuRunning')
    BY <1>2, <1>4, <2>2
  <2>4. Started(cpuArrived', cpuQueue') = Cardinality(cpuRunning') + Len(cpuFinished')
    <3>1. Started(cpuArrived, cpuQueue) = c + Len(cpuFinished)
      BY <1>1
    <3> QED BY <1>2, <1>3, <2>1, <2>3, <3>1
  <2>5. StartedOf(cpuArrived', cpuQueue') = cpuRunning' \cup Range(cpuFinished')
    BY <1>1, <1>3, <1>4, <2>1
  <2>6. f.id[1] = t
    BY <1>4 DEF CpuEvents
  <2>7. Only(CpuTask)' = Only(CpuTask) \cup {f}
    BY <1>4, <2>6 DEF Only
  <2>8. /\ \A e \in Only(CpuTask)' : e.id[1] \in cpuRunning'
        /\ \A u \in cpuRunning' : \E e \in Only(CpuTask)' : e.id[1] = u
        /\ \A d, e \in Only(CpuTask)' : d.id[1] = e.id[1] => d = e
    BY <1>1, <1>4, <2>2, <2>6, <2>7
  <2>9. cpuRunning' \subseteq CpuTask
    BY <1>1, <1>4
  <2> QED BY <1>1, <1>3, <1>4, <2>1, <2>3, <2>4, <2>5, <2>8, <2>9 DEF CoresInv
<1>5. ASSUME ~(cpuQueue = << >> /\ c + 1 <= Cores), cpuQueue' = Append(cpuQueue, t),
             UNCHANGED <<cpuRunning, events>>
      PROVE  CoresInv'
  <2>1. /\ InLine(cpuArrived', cpuQueue', CpuTask)
        /\ Started(cpuArrived', cpuQueue') = Started(cpuArrived, cpuQueue)
        /\ StartedOf(cpuArrived', cpuQueue') = StartedOf(cpuArrived, cpuQueue)
    <3>1. /\ InLine(Append(cpuArrived, t), Append(cpuQueue, t), CpuTask)
          /\ Started(Append(cpuArrived, t), Append(cpuQueue, t)) = Started(cpuArrived, cpuQueue)
          /\ StartedOf(Append(cpuArrived, t), Append(cpuQueue, t))
               = StartedOf(cpuArrived, cpuQueue)
      BY <1>1, <1>3, ArrivesAndWaits
    <3> QED BY <1>3, <1>5, <3>1
  <2>2. c = Cores
    <3>1. cpuQueue # << >> => c = Cores
      BY <1>1
    <3>2. c <= Cores
      BY <1>1
    <3> QED BY <1>2, <1>5, <3>1, <3>2
  <2>3. Only(CpuTask)' = Only(CpuTask)
    BY <1>5 DEF Only
  <2> QED BY <1>1, <1>3, <1>5, <2>1, <2>2, <2>3 DEF CoresInv, c
<1> QED BY <1>4, <1>5 DEF CpuPlace, CoreAvailable, c

LEMMA CoresFinish ==
  ASSUME CoresInv, NEW e \in Only(CpuTask), CpuFinish(e)
  PROVE  CoresInv'
<1> DEFINE c == Cardinality(cpuRunning)
           x == e.id[1]
           rest == cpuRunning \ {x}
           h == Head(cpuQueue)
<1>1. /\ InLine(cpuArrived, cpuQueue, CpuTask)
      /\ cpuFinished \in Seq(CpuTask)
      /\ cpuRunning \subseteq CpuTask /\ IsFiniteSet(cpuRunning)
      /\ Started(cpuArrived, cpuQueue) = c + Len(cpuFinished)
      /\ StartedOf(cpuArrived, cpuQueue) = cpuRunning \cup Range(cpuFinished)
      /\ \A f \in Only(CpuTask) : f.id[1] \in cpuRunning
      /\ \A u \in cpuRunning : \E f \in Only(CpuTask) : f.id[1] = u
      /\ \A d, f \in Only(CpuTask) : d.id[1] = f.id[1] => d = f
      /\ c <= Cores
      /\ cpuQueue # << >> => c = Cores
  BY DEF CoresInv
<1>2. x \in cpuRunning /\ x \in CpuTask
  BY <1>1
<1>3. /\ Cores \in Nat /\ c \in Nat /\ Len(cpuFinished) \in Nat
      /\ Cardinality(rest) = c - 1 /\ IsFiniteSet(rest)
  BY <1>2, CoresCount
<1>4. cpuFinished' = Append(cpuFinished, x) /\ UNCHANGED <<invalid, cpuArrived>>
  BY DEF CpuFinish
<1>5. /\ cpuFinished' \in Seq(CpuTask) /\ Len(cpuFinished') = Len(cpuFinished) + 1
      /\ Range(cpuFinished') = Range(cpuFinished) \cup {x}
  <2> HIDE DEF x
  <2> QED BY <1>1, <1>2, <1>4, AppendElement
<1>6. Started(cpuArrived, cpuQueue) = c + Len(cpuFinished)
  BY <1>1
<1> HIDE DEF c, x, rest, h
<1>7. ASSUME cpuQueue # << >>, cpuQueue' = Tail(cpuQueue), cpuRunning' = rest \cup {h},
             NEW f \in CpuEvents(h, e.time), events' = (events \ {e}) \cup {f}
      PROVE  CoresInv'
  <2>1. /\ InLine(cpuArrived', cpuQueue', CpuTask)
        /\ h \in CpuTask
        /\ Started(cpuArrived', cpuQueue') = Started(cpuArrived, cpuQueue) + 1
        /\ h \notin StartedOf(cpuArrived, cpuQueue)
        /\ StartedOf(cpuArrived', cpuQueue') = StartedOf(cpuArrived, cpuQueue) \cup {h}
    BY <1>1, <1>4, <1>7, FirstStarts DEF h
  <2>2. h \notin cpuRunning /\ h \notin rest
    BY <1>1, <2>1 DEF rest
  <2>3. Cardinality(cpuRunning') = c /\ IsFiniteSet(cpuRunning')
    <3>1. IsFiniteSet(rest \cup {h}) /\ Cardinality(rest \cup {h}) = Cardinality(rest) + 1
      BY <1>3, <2>2, FS_AddElement
    <3> QED BY <1>3, <1>7, <3>1
  <2>4. Started(cpuArrived', cpuQueue') = Cardinality(cpuRunning') + Len(cpuFinished')
    BY <1>3, <1>5, <1>6, <2>1, <2>3
  <2>5. StartedOf(cpuArrived', cpuQueue') = cpuRunning' \cup Range(cpuFinished')
    BY <1>1, <1>2, <1>5, <1>7, <2>1 DEF rest
  <2>6. f.id[1] = h
    BY <1>7 DEF CpuEvents
  <2>7. Only(CpuTask)' = (Only(CpuTask) \ {e}) \cup {f}
    BY <1>7, <2>1, <2>6 DEF Only
  <2>8. \A d \in Only(CpuTask) : d # e => d.id[1] \in rest
    BY <1>1 DEF rest, x
  <2>9. \A d \in Only(CpuTask)' : d.id[1] \in cpuRunning'
    BY <1>7, <2>6, <2>7, <2>8
  <2>10. \A u \in cpuRunning' : \E d \in Only(CpuTask)' : d.id[1] = u
    BY <1>1, <1>7, <2>6, <2>7 DEF rest, x
  <2>11. \A d, g \in Only(CpuTask)' : d.id[1] = g.id[1] => d = g
    BY <1>1, <2>2, <2>6, <2>7, <2>8
  <2>12. cpuRunning' \subseteq CpuTask
    BY <1>1, <1>7, <2>1 DEF rest
  <2> QED BY <1>1, <1>5, <1>7, <2>1, <2>3, <2>4, <2>5, <2>9, <2>10, <2>11, <2>12 DEF CoresInv
<1>8. ASSUME ~(cpuQueue # << >> /\ CoreAvailable(Cardinality(rest))),
             cpuRunning' = rest, events' = events \ {e}, UNCHANGED cpuQueue
      PROVE  CoresInv'
  <2>1. cpuQueue = << >>
    <3>1. c <= Cores
      BY <1>1
    <3>2. CoreAvailable(Cardinality(rest))
      BY <1>3, <3>1 DEF CoreAvailable
    <3> QED BY <1>8, <3>2
  <2>2. /\ Started(cpuArrived', cpuQueue') = Cardinality(cpuRunning') + Len(cpuFinished')
        /\ Cardinality(cpuRunning') <= Cores
    <3>1. /\ Started(cpuArrived', cpuQueue') = Started(cpuArrived, cpuQueue)
          /\ Cardinality(cpuRunning') = c - 1
          /\ c <= Cores
      BY <1>1, <1>3, <1>4, <1>8
    <3> QED BY <1>3, <1>5, <1>6, <3>1
  <2>3. StartedOf(cpuArrived', cpuQueue') = cpuRunning' \cup Range(cpuFinished')
    BY <1>1, <1>2, <1>4, <1>5, <1>8 DEF rest
  <2>4. Only(CpuTask)' = Only(CpuTask) \ {e}
    BY <1>8 DEF Only
  <2>5. \A d \in Only(CpuTask)' : d.id[1] \in cpuRunning'
    BY <1>1, <1>8, <2>4 DEF rest, x
  <2>6. \A u \in cpuRunning' : \E d \in Only(CpuTask)' : d.id[1] = u
    BY <1>1, <1>8, <2>4 DEF rest, x
  <2>7. \A d, g \in Only(CpuTask)' : d.id[1] = g.id[1] => d = g
    BY <1>1, <2>4
  <2>8. cpuRunning' \subseteq CpuTask
    BY <1>1, <1>8 DEF rest
  <2> QED BY <1>1, <1>3, <1>4, <1>5, <1>8, <2>1, <2>2, <2>3, <2>5, <2>6, <2>7, <2>8 DEF CoresInv
<1> QED BY <1>7, <1>8 DEF CpuFinish, rest, x, h

LEMMA CoresRest ==
  ASSUME CoresInv, UNCHANGED <<cpuVars, Only(CpuTask)>>
  PROVE  CoresInv'
BY DEF CoresInv, cpuVars

LEMMA CoresSteps ==
  ASSUME Apart, CoresInv, [WorkerNext]_workerVars
  PROVE  CoresInv'
<1>1. ASSUME NEW t, Place(t)
      PROVE  CoresInv'
  <2>1. CASE t \in CpuTask /\ CpuPlace(t, now')
    BY <2>1, CoresPlace
  <2>2. CASE t \in DiskTask /\ Disk!PlaceNewTask(t, now') /\ UNCHANGED cpuVars
    <3>1. Touches(DiskTask)
      BY <2>2, DiskPlaces
    <3>2. UNCHANGED Only(CpuTask)
      BY <3>1, Disjoint, TouchesOthersNot
    <3> QED BY <2>2, <3>2, CoresRest
  <2>3. CASE t \in NetworkTask /\ Network!PlaceNewTask(t, now') /\ UNCHANGED cpuVars
    <3>1. Touches(NetworkTask)
      BY <2>3, NetworkPlaces
    <3>2. UNCHANGED Only(CpuTask)
      BY <3>1, Disjoint, TouchesOthersNot
    <3> QED BY <2>3, <3>2, CoresRest
  <2> QED BY <1>1, <2>1, <2>2, <2>3 DEF Place
<1>2. ASSUME NEW e, Finish(e)
      PROVE  CoresInv'
  <2>1. CASE e.id[1] \in CpuTask /\ CpuFinish(e)
    <3>1. e \in Only(CpuTask)
      BY <1>2, <2>1 DEF Finish, IsNext, Only
    <3> QED BY <2>1, <3>1, CoresFinish
  <2>2. CASE e.id[1] \in DiskTask /\ Disk!TaskFinish(e) /\ UNCHANGED cpuVars
    <3>1. Touches(DiskTask)
      BY <2>2, DiskFinishes
    <3>2. UNCHANGED Only(CpuTask)
      BY <3>1, Disjoint, TouchesOthersNot
    <3> QED BY <2>2, <3>2, CoresRest
  <2>3. CASE e.id[1] \in NetworkTask /\ Network!TaskFinish(e) /\ UNCHANGED cpuVars
    <3>1. Touches(NetworkTask)
      BY <2>3, NetworkFinishes
    <3>2. UNCHANGED Only(CpuTask)
      BY <3>1, Disjoint, TouchesOthersNot
    <3> QED BY <2>3, <3>2, CoresRest
  <2> QED BY <1>2, <2>1, <2>2, <2>3 DEF Finish
<1>3. ASSUME NEW e, Skip(e)
      PROVE  CoresInv'
  <2>1. /\ events' = events \ {e} /\ e.id \in invalid /\ UNCHANGED cpuVars
    BY <1>3 DEF Skip
  <2>2. e.id[1] \notin CpuTask
    BY <2>1, Disjoint DEF Apart
  <2>3. UNCHANGED Only(CpuTask)
    BY <2>1, <2>2 DEF Only
  <2> QED BY <2>1, <2>3, CoresRest
<1>4. CASE UNCHANGED workerVars
  <2>1. UNCHANGED <<cpuVars, Only(CpuTask)>>
    BY <1>4 DEF workerVars, Only
  <2> QED BY <2>1, CoresRest
<1> QED BY <1>1, <1>2, <1>3, <1>4 DEF WorkerNext

(* A core task runs until the one event made for it, which nobody drops    *)
(* although the disk and the network invalidate events in the same set;    *)
(* tasks take the cores in the order of their placement, and none waits    *)
(* while a core is free (worker_cpu.h, PlaceNewTask and TaskFinish).       *)
THEOREM CoresUsedInOrder == WorkerSpec => []CoresInOrder
<1>1. WorkerInit => Apart /\ Punctual /\ CoresInv
  BY WorkerStarts, CoresStart
<1>2. Apart /\ Punctual /\ CoresInv /\ [WorkerNext]_workerVars
        => Apart' /\ Punctual' /\ CoresInv'
  BY WorkerSteps, CoresSteps
<1>3. Apart /\ CoresInv => CoresInOrder
  BY CoresInvImplies
<1> QED BY <1>1, <1>2, <1>3, PTL DEF WorkerSpec

-----------------------------------------------------------------------------
(* What is proved of a device alone holds of the disk and of the network   *)
(* inside a worker, since they implement it.                               *)
DiskLaw == INSTANCE BandwidthDeviceProofs WITH
  Task <- DiskTask, Capacity <- DiskCapacity, MaxTasks <- MaxDiskTasks,
  size <- [t \in DiskTask |-> size[t]], now <- diskNow,
  arrived <- diskArrived, queue <- diskQueue, running <- diskRunning,
  current <- diskCurrent, finished <- diskFinished, busy <- diskBusy,
  noisy <- diskNoisy,
  events <- Only(DiskTask), invalid <- OnlyInvalid(DiskTask)

NetworkLaw == INSTANCE BandwidthDeviceProofs WITH
  Task <- NetworkTask, Capacity <- NetworkCapacity, MaxTasks <- MaxNetworkTasks,
  size <- [t \in NetworkTask |-> size[t]], now <- netNow,
  arrived <- netArrived, queue <- netQueue, running <- netRunning,
  current <- netCurrent, finished <- netFinished, busy <- netBusy,
  noisy <- netNoisy,
  events <- Only(NetworkTask), invalid <- OnlyInvalid(NetworkTask)

LEMMA DiskLawAssumed == DiskLaw!DeviceAssumption
<1>1. IsFiniteSet(DiskTask)
  BY FS_Subset, WorkerDevicesAssumption DEF Task
<1>2. DiskLaw!IsFiniteSet(DiskTask)
  BY <1>1 DEF IsFiniteSet, DiskLaw!IsFiniteSet
<1> QED BY <1>2, WorkerDevicesAssumption DEF DiskLaw!DeviceAssumption

LEMMA NetworkLawAssumed == NetworkLaw!DeviceAssumption
<1>1. IsFiniteSet(NetworkTask)
  BY FS_Subset, WorkerDevicesAssumption DEF Task
<1>2. NetworkLaw!IsFiniteSet(NetworkTask)
  BY <1>1 DEF IsFiniteSet, NetworkLaw!IsFiniteSet
<1> QED BY <1>2, WorkerDevicesAssumption DEF NetworkLaw!DeviceAssumption

LEMMA DiskLawSpec == DiskAlone!Spec => DiskLaw!Spec
<1>1. DiskAlone!Init => DiskLaw!Init
  BY DEF DiskAlone!Init, DiskLaw!Init
<1>2. [DiskAlone!Next]_(DiskAlone!vars) => [DiskLaw!Next]_(DiskLaw!vars)
  BY DEF DiskAlone!Next, DiskLaw!Next, DiskAlone!vars, DiskLaw!vars,
         DiskAlone!Arrive, DiskLaw!Arrive,
         DiskAlone!PlaceNewTask, DiskLaw!PlaceNewTask, DiskAlone!Serve, DiskLaw!Serve,
         DiskAlone!SkipInvalid, DiskLaw!SkipInvalid,
         DiskAlone!TaskFinish, DiskLaw!TaskFinish, DiskAlone!IsNext, DiskLaw!IsNext,
         DiskAlone!AdvanceTo, DiskLaw!AdvanceTo,
         DiskAlone!ResourceAvailable, DiskLaw!ResourceAvailable,
         DiskAlone!NewEvents, DiskLaw!NewEvents,
         DiskAlone!UpdateRunningTask, DiskLaw!UpdateRunningTask,
         DiskAlone!EventOf, DiskLaw!EventOf, DiskAlone!Updated, DiskLaw!Updated,
         DiskAlone!OutOfDate, DiskLaw!OutOfDate,
         DiskAlone!FinishEvent, DiskLaw!FinishEvent,
         DiskAlone!NewRecord, DiskLaw!NewRecord, DiskAlone!Noise, DiskLaw!Noise,
         DiskAlone!Duration, DiskLaw!Duration, DiskAlone!Bandwidth, DiskLaw!Bandwidth,
         DiskAlone!Range, DiskLaw!Range
<1> QED BY <1>1, <1>2, PTL DEF DiskAlone!Spec, DiskLaw!Spec

LEMMA NetworkLawSpec == NetworkAlone!Spec => NetworkLaw!Spec
<1>1. NetworkAlone!Init => NetworkLaw!Init
  BY DEF NetworkAlone!Init, NetworkLaw!Init
<1>2. [NetworkAlone!Next]_(NetworkAlone!vars) => [NetworkLaw!Next]_(NetworkLaw!vars)
  BY DEF NetworkAlone!Next, NetworkLaw!Next, NetworkAlone!vars, NetworkLaw!vars,
         NetworkAlone!Arrive, NetworkLaw!Arrive,
         NetworkAlone!PlaceNewTask, NetworkLaw!PlaceNewTask, NetworkAlone!Serve, NetworkLaw!Serve,
         NetworkAlone!SkipInvalid, NetworkLaw!SkipInvalid,
         NetworkAlone!TaskFinish, NetworkLaw!TaskFinish, NetworkAlone!IsNext, NetworkLaw!IsNext,
         NetworkAlone!AdvanceTo, NetworkLaw!AdvanceTo,
         NetworkAlone!ResourceAvailable, NetworkLaw!ResourceAvailable,
         NetworkAlone!NewEvents, NetworkLaw!NewEvents,
         NetworkAlone!UpdateRunningTask, NetworkLaw!UpdateRunningTask,
         NetworkAlone!EventOf, NetworkLaw!EventOf, NetworkAlone!Updated, NetworkLaw!Updated,
         NetworkAlone!OutOfDate, NetworkLaw!OutOfDate,
         NetworkAlone!FinishEvent, NetworkLaw!FinishEvent,
         NetworkAlone!NewRecord, NetworkLaw!NewRecord, NetworkAlone!Noise, NetworkLaw!Noise,
         NetworkAlone!Duration, NetworkLaw!Duration, NetworkAlone!Bandwidth, NetworkLaw!Bandwidth,
         NetworkAlone!Range, NetworkLaw!Range
<1> QED BY <1>1, <1>2, PTL DEF NetworkAlone!Spec, NetworkLaw!Spec

(* The disk of a worker, and its network, are as sound as one alone: one   *)
(* live event per running task, none lost, equal shares, no idle slot, and *)
(* the order of arrival, although each acts on a queue and a set of        *)
(* invalid ids that the others write to (worker.h, Init).                  *)
THEOREM DevicesKeepTheirPromises ==
  WorkerSpec =>
    /\ [](/\ DiskAlone!TypeOK /\ DiskAlone!OneLiveEvent /\ DiskAlone!NoTaskLostOrDoubled
          /\ DiskAlone!FairShare /\ DiskAlone!NoIdleSlot /\ DiskAlone!StartsInOrder)
    /\ [](/\ NetworkAlone!TypeOK /\ NetworkAlone!OneLiveEvent
          /\ NetworkAlone!NoTaskLostOrDoubled
          /\ NetworkAlone!FairShare /\ NetworkAlone!NoIdleSlot /\ NetworkAlone!StartsInOrder)
<1>1. WorkerSpec =>
        [](/\ DiskLaw!TypeOK /\ DiskLaw!OneLiveEvent /\ DiskLaw!NoTaskLostOrDoubled
           /\ DiskLaw!FairShare /\ DiskLaw!NoIdleSlot /\ DiskLaw!StartsInOrder)
  BY DiskLawAssumed, DiskLawSpec, DiskIsUndisturbed, DiskLaw!DeviceTypeCorrect,
     DiskLaw!OneLiveEventPerTask, DiskLaw!NoTaskIsLost, DiskLaw!SharesAreFair,
     DiskLaw!NoSlotIsIdle, DiskLaw!TasksStartInOrder, PTL DEF DiskUndisturbed
<1>2. /\ DiskLaw!TypeOK /\ DiskLaw!OneLiveEvent /\ DiskLaw!NoTaskLostOrDoubled
      /\ DiskLaw!FairShare /\ DiskLaw!NoIdleSlot /\ DiskLaw!StartsInOrder
      => /\ DiskAlone!TypeOK /\ DiskAlone!OneLiveEvent /\ DiskAlone!NoTaskLostOrDoubled
         /\ DiskAlone!FairShare /\ DiskAlone!NoIdleSlot /\ DiskAlone!StartsInOrder
  BY DEF DiskLaw!TypeOK, DiskLaw!OneLiveEvent, DiskLaw!NoTaskLostOrDoubled, DiskLaw!FairShare,
         DiskLaw!NoIdleSlot, DiskLaw!StartsInOrder, DiskLaw!EventId, DiskLaw!RunningTasks,
         DiskLaw!Bandwidth, DiskLaw!Range,
         DiskLaw!Cardinality, DiskLaw!IsFiniteSet,
         DiskAlone!TypeOK, DiskAlone!OneLiveEvent, DiskAlone!NoTaskLostOrDoubled,
         DiskAlone!FairShare, DiskAlone!NoIdleSlot, DiskAlone!StartsInOrder,
         DiskAlone!EventId, DiskAlone!RunningTasks, DiskAlone!Bandwidth, DiskAlone!Range,
         DiskAlone!Cardinality, DiskAlone!IsFiniteSet
<1>3. WorkerSpec =>
        [](/\ NetworkLaw!TypeOK /\ NetworkLaw!OneLiveEvent /\ NetworkLaw!NoTaskLostOrDoubled
           /\ NetworkLaw!FairShare /\ NetworkLaw!NoIdleSlot /\ NetworkLaw!StartsInOrder)
  BY NetworkLawAssumed, NetworkLawSpec, NetworkIsUndisturbed, NetworkLaw!DeviceTypeCorrect,
     NetworkLaw!OneLiveEventPerTask, NetworkLaw!NoTaskIsLost, NetworkLaw!SharesAreFair,
     NetworkLaw!NoSlotIsIdle, NetworkLaw!TasksStartInOrder, PTL DEF NetworkUndisturbed
<1>4. /\ NetworkLaw!TypeOK /\ NetworkLaw!OneLiveEvent /\ NetworkLaw!NoTaskLostOrDoubled
      /\ NetworkLaw!FairShare /\ NetworkLaw!NoIdleSlot /\ NetworkLaw!StartsInOrder
      => /\ NetworkAlone!TypeOK /\ NetworkAlone!OneLiveEvent /\ NetworkAlone!NoTaskLostOrDoubled
         /\ NetworkAlone!FairShare /\ NetworkAlone!NoIdleSlot /\ NetworkAlone!StartsInOrder
  BY DEF NetworkLaw!TypeOK, NetworkLaw!OneLiveEvent, NetworkLaw!NoTaskLostOrDoubled, NetworkLaw!FairShare,
         NetworkLaw!NoIdleSlot, NetworkLaw!StartsInOrder, NetworkLaw!EventId, NetworkLaw!RunningTasks,
         NetworkLaw!Bandwidth, NetworkLaw!Range,
         NetworkLaw!Cardinality, NetworkLaw!IsFiniteSet,
         NetworkAlone!TypeOK, NetworkAlone!OneLiveEvent, NetworkAlone!NoTaskLostOrDoubled,
         NetworkAlone!FairShare, NetworkAlone!NoIdleSlot, NetworkAlone!StartsInOrder,
         NetworkAlone!EventId, NetworkAlone!RunningTasks, NetworkAlone!Bandwidth, NetworkAlone!Range,
         NetworkAlone!Cardinality, NetworkAlone!IsFiniteSet
<1> QED BY <1>1, <1>2, <1>3, <1>4, PTL

(* Inside a worker too, if the divisions are exact, a task of the disk or  *)
(* of the network is finished when its last byte is moved, whatever the    *)
(* other devices put into the queue or drop from it meanwhile.             *)
THEOREM DevicesOnTime ==
  WorkerSpec /\ []DiskAlone!Exact /\ []NetworkAlone!Exact
    => [](DiskAlone!EventOnTime /\ NetworkAlone!EventOnTime)
<1>1. /\ DiskAlone!Exact => DiskLaw!Exact
      /\ DiskLaw!EventOnTime => DiskAlone!EventOnTime
  BY DEF DiskAlone!Exact, DiskLaw!Exact, DiskLaw!EventOnTime, DiskAlone!EventOnTime
<1>2. /\ NetworkAlone!Exact => NetworkLaw!Exact
      /\ NetworkLaw!EventOnTime => NetworkAlone!EventOnTime
  BY DEF NetworkAlone!Exact, NetworkLaw!Exact, NetworkLaw!EventOnTime, NetworkAlone!EventOnTime
<1>3. WorkerSpec /\ []DiskAlone!Exact => []DiskAlone!EventOnTime
  BY <1>1, DiskLawAssumed, DiskLawSpec, DiskIsUndisturbed, DiskLaw!EventsAreOnTime, PTL
     DEF DiskUndisturbed
<1>4. WorkerSpec /\ []NetworkAlone!Exact
        => []NetworkAlone!EventOnTime
  BY <1>2, NetworkLawAssumed, NetworkLawSpec, NetworkIsUndisturbed,
     NetworkLaw!EventsAreOnTime, PTL DEF NetworkUndisturbed
<1> QED BY <1>3, <1>4, PTL

=============================================================================

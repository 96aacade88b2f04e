------------------------ MODULE BandwidthDeviceProofs ------------------------
(***************************************************************************)
(* The safety of a device for every number of tasks and slots, every       *)
(* capacity and every noise: which events are live, who runs, who waits,   *)
(* and, if the divisions are exact, when a task ends and what is moved.    *)
(***************************************************************************)
EXTENDS BandwidthDevice, Foundations, FiniteSetTheorems, TLAPS

-----------------------------------------------------------------------------
(* Numbers.                                                                *)

LEMMA BandwidthType ==
  ASSUME NEW n \in 1 .. MaxTasks
  PROVE  Bandwidth(n) \in Nat \ {0} /\ n * Bandwidth(n) <= Capacity
<1>1. n \in Nat \ {0} /\ Capacity \in Nat /\ Capacity >= n /\ Capacity % n = 0
  BY DeviceAssumption
<1>2. Capacity = n * (Capacity \div n) + (Capacity % n)
  BY <1>1
<1>3. Capacity \div n \in Nat
  BY <1>1
<1>4. Capacity \div n # 0
  BY <1>1, <1>2
<1> QED BY <1>1, <1>2, <1>3, <1>4 DEF Bandwidth

LEMMA Quotient ==
  ASSUME NEW a \in Int, NEW b \in Nat \ {0}
  PROVE  /\ a \div b \in Int
         /\ b * (a \div b) <= a
         /\ a >= 0 => a \div b >= 0
<1>1. a = b * (a \div b) + (a % b) /\ a % b \in 0 .. b - 1
  OBVIOUS
<1>2. a \div b \in Int
  OBVIOUS
<1>3. a >= 0 => a \div b >= 0
  OBVIOUS
<1> QED BY <1>1, <1>2, <1>3

LEMMA TimesMonotone ==
  ASSUME NEW b \in Nat, NEW x \in Int, NEW y \in Int, x <= y
  PROVE  b * x \in Int /\ b * y \in Int /\ b * x <= b * y
OBVIOUS

(* A task that has the share of n tasks from its start to its end does not *)
(* move more than its size in Duration(t, n).                              *)
LEMMA FirstDuration ==
  ASSUME NEW n \in Nat \ {0}, NEW b \in Nat, NEW c \in Nat \ {0}, n * b <= c,
         NEW s \in Nat
  PROVE  /\ (n * s) \div c \in Nat
         /\ b * ((n * s) \div c) <= s
<1> DEFINE d == (n * s) \div c
<1>1. n * s \in Nat
  OBVIOUS
<1>2. d \in Nat /\ c * d <= n * s
  BY <1>1, Quotient
<1> HIDE DEF d
<1>3. d * (n * b) <= d * c
  BY <1>2, TimesMonotone
<1>4. n * (b * d) <= n * s
  <2>1. d * (n * b) = n * (b * d) /\ d * c = c * d
    BY <1>2
  <2>2. d * (n * b) \in Int /\ d * c \in Int /\ n * s \in Int
    BY <1>2
  <2> QED BY <1>2, <1>3, <2>1, <2>2
<1>5. b * d <= s
  <2>1. b * d \in Nat
    BY <1>2
  <2> DEFINE x == b * d
  <2> HIDE DEF x
  <2>2. x > s => n * x > n * s
    <3>1. x \in Nat
      BY <2>1 DEF x
    <3>2. x > s => n * (x - s) > 0
      BY <3>1
    <3>3. n * (x - s) = n * x - n * s
      BY <3>1
    <3> QED BY <3>1, <3>2, <3>3
  <2> QED BY <1>4, <2>1, <2>2 DEF x
<1> QED BY <1>2, <1>5 DEF d

-----------------------------------------------------------------------------
(* The records and their events.                                           *)

Record == [id : EventId, data : Int, bandwidth : Nat \ {0}, since : Int]
Event == [id : EventId, time : Int]

TasksOf(recs) == {r.id[1] : r \in recs}
Ids(events_) == {e.id : e \in events_}

OneRecordPerTask(recs) == \A q, r \in recs : q.id[1] = r.id[1] => q = r

(* Every record has its event, every other event is invalid and older than *)
(* the record of its task.                                                 *)
Linked(recs, evs, inv) ==
  /\ \A r \in recs : r.id \notin inv /\ \E e \in evs : e.id = r.id
  /\ \A e \in evs : e.id \in inv \/ \E r \in recs : e.id = r.id
  /\ \A d, e \in evs : d.id = e.id => d = e
  /\ inv \subseteq Ids(evs)
  /\ \A e \in evs, r \in recs : e.id[1] = r.id[1] => e.id[2] <= r.id[2]

(* No event comes before time, and no task would have moved more than it   *)
(* has when its event comes.                                               *)
OnTime(recs, evs, time) ==
  /\ \A e \in evs : e.time >= time
  /\ \A r \in recs, e \in evs :
        e.id = r.id => r.bandwidth * (e.time - r.since) <= r.data

Consistent(recs, evs, inv) ==
  /\ recs \subseteq Record
  /\ evs \subseteq Event
  /\ inv \subseteq EventId
  /\ IsFiniteSet(recs)
  /\ OneRecordPerTask(recs)
  /\ Linked(recs, evs, inv)

(* What waits and what does not.                                           *)
NumStarted == Started(arrived, queue)
StartedTasks == StartedOf(arrived, queue)
InQueue == InLine(arrived, queue, Task)

Settled ==
  /\ size \in [Task -> Sizes]
  /\ now \in Int
  /\ finished \in Seq(Task)
  /\ busy \in Int
  /\ noisy \in BOOLEAN
  /\ current = Cardinality(running) /\ current <= MaxTasks
  /\ \A r \in running : r.bandwidth = Bandwidth(current)
  /\ queue # << >> => current = MaxTasks
  /\ NumStarted = current + Len(finished)
  /\ StartedTasks = TasksOf(running) \cup Range(finished)
  /\ \A e \in events : e.id[1] \in StartedTasks

DInv ==
  /\ Consistent(running, events, invalid)
  /\ ~noisy => OnTime(running, events, now)
  /\ InQueue
  /\ Settled

-----------------------------------------------------------------------------
(* UpdateRunningTask.                                                      *)

Renewed(recs, n, time) ==
  (recs \ OutOfDate(recs, n)) \cup {Updated(r, n, time) : r \in OutOfDate(recs, n)}
Replaced(recs, n) == {r.id : r \in OutOfDate(recs, n)}

LEMMA UpdatedType ==
  ASSUME NEW r \in Record, NEW n \in 1 .. MaxTasks, NEW time \in Int
  PROVE  /\ Updated(r, n, time) \in Record
         /\ Updated(r, n, time).id = <<r.id[1], r.id[2] + 1>>
         /\ Updated(r, n, time).id[1] = r.id[1]
         /\ Updated(r, n, time).id[2] = r.id[2] + 1
         /\ r.id = <<r.id[1], r.id[2]>> /\ r.id[2] \in Nat \ {0}
         /\ Updated(r, n, time).bandwidth = Bandwidth(n)
         /\ EventOf(Updated(r, n, time)) \in Event
         /\ EventOf(Updated(r, n, time)).id = Updated(r, n, time).id
<1> DEFINE u == Updated(r, n, time)
<1>1. /\ r.id[1] \in Task /\ r.id[2] \in Nat \ {0} /\ r.id = <<r.id[1], r.id[2]>>
      /\ r.data \in Int /\ r.bandwidth \in Nat \ {0} /\ r.since \in Int
  BY DEF Record, EventId
<1>2. Bandwidth(n) \in Nat \ {0}
  BY BandwidthType
<1>3. r.data - r.bandwidth * (time - r.since) \in Int
  BY <1>1
<1>4. u \in Record
  BY <1>1, <1>2, <1>3 DEF Updated, Record, EventId
<1>5. u.id = <<r.id[1], r.id[2] + 1>> /\ u.bandwidth = Bandwidth(n)
  BY DEF Updated
<1>6. EventOf(u) \in Event /\ EventOf(u).id = u.id
  <2> HIDE DEF u
  <2>1. u.data \div u.bandwidth \in Int /\ u.since \in Int /\ u.id \in EventId
    BY <1>4, Quotient DEF Record
  <2>2. u.since + u.data \div u.bandwidth \in Int
    BY <2>1
  <2> QED BY <2>1, <2>2 DEF EventOf, Event
<1> QED BY <1>1, <1>4, <1>5, <1>6

(* A bijection that keeps the tasks: as many records as before.            *)
LEMMA RenewedRecords ==
  ASSUME NEW recs \in SUBSET Record, IsFiniteSet(recs), OneRecordPerTask(recs),
         NEW n, n \in 1 .. MaxTasks \/ recs = {}, NEW time \in Int
  PROVE  /\ Renewed(recs, n, time) \subseteq Record
         /\ IsFiniteSet(Renewed(recs, n, time))
         /\ Cardinality(Renewed(recs, n, time)) = Cardinality(recs)
         /\ OneRecordPerTask(Renewed(recs, n, time))
         /\ TasksOf(Renewed(recs, n, time)) = TasksOf(recs)
         /\ \A r \in Renewed(recs, n, time) : r.bandwidth = Bandwidth(n)
<1>1. CASE recs = {}
  <2>1. Renewed(recs, n, time) = {}
    BY <1>1 DEF Renewed, OutOfDate
  <2> QED BY <1>1, <2>1 DEF TasksOf, OneRecordPerTask
<1>2. CASE recs # {}
  <2> DEFINE new(r) == IF r \in OutOfDate(recs, n) THEN Updated(r, n, time) ELSE r
             U == Renewed(recs, n, time)
             f == [r \in recs |-> new(r)]
  <2>1. n \in 1 .. MaxTasks
    BY <1>2
  <2>2. ASSUME NEW r \in recs
        PROVE  /\ new(r) \in Record /\ new(r).id[1] = r.id[1]
               /\ new(r).bandwidth = Bandwidth(n)
    <3>1. CASE r \in OutOfDate(recs, n)
      BY <2>1, <3>1, UpdatedType
    <3>2. CASE r \notin OutOfDate(recs, n)
      BY <3>2 DEF OutOfDate
    <3> QED BY <3>1, <3>2
  <2>3. U = {new(r) : r \in recs}
    BY DEF Renewed, OutOfDate
  <2> HIDE DEF new, U
  <2>4. ASSUME NEW q \in recs, NEW r \in recs, new(q).id[1] = new(r).id[1] PROVE q = r
    BY <2>2, <2>4 DEF OneRecordPerTask
  <2>5. IsFiniteSet(U) /\ Cardinality(U) = Cardinality(recs)
    <3>1. f \in Bijection(recs, U)
      <4>1. f \in [recs -> U] /\ \A u \in U : \E r \in recs : f[r] = u
        BY <2>3
      <4>2. \A q, r \in recs : f[q] = f[r] => q = r
        BY <2>4
      <4> HIDE DEF f
      <4> QED BY <4>1, <4>2 DEF Bijection, Injection, Surjection, IsInjective
    <3>2. ExistsBijection(recs, U)
      BY <3>1 DEF ExistsBijection
    <3> QED BY <3>2, FS_Bijection
  <2>6. OneRecordPerTask(U)
    BY <2>3, <2>4 DEF OneRecordPerTask
  <2>7. TasksOf(U) = TasksOf(recs)
    BY <2>2, <2>3 DEF TasksOf
  <2>8. U \subseteq Record /\ \A r \in U : r.bandwidth = Bandwidth(n)
    BY <2>2, <2>3
  <2> QED BY <2>5, <2>6, <2>7, <2>8 DEF U
<1> QED BY <1>1, <1>2

(* The update replaces the events of some records by later made ones.      *)
LEMMA RenewedLinked ==
  ASSUME NEW recs, NEW evs, NEW inv, Consistent(recs, evs, inv),
         NEW n, n \in 1 .. MaxTasks \/ recs = {}, NEW time \in Int
  PROVE  Consistent(Renewed(recs, n, time), evs \cup NewEvents(recs, n, time),
                    inv \cup Replaced(recs, n))
<1> DEFINE O == OutOfDate(recs, n)
           up(r) == Updated(r, n, time)
           U == Renewed(recs, n, time)
           N == NewEvents(recs, n, time)
           X == Replaced(recs, n)
<1>1. /\ recs \subseteq Record /\ evs \subseteq Event /\ inv \subseteq EventId
      /\ O \subseteq recs /\ OneRecordPerTask(recs)
      /\ Linked(recs, evs, inv)
  BY DEF Consistent, OutOfDate
<1>2. U \subseteq Record /\ IsFiniteSet(U) /\ OneRecordPerTask(U)
  BY RenewedRecords DEF Consistent
<1>3. \A r \in O : /\ up(r).id[1] = r.id[1] /\ up(r).id[2] = r.id[2] + 1
                   /\ up(r).id = <<r.id[1], r.id[2] + 1>>
                   /\ r.id = <<r.id[1], r.id[2]>> /\ r.id[2] \in Nat
                   /\ EventOf(up(r)) \in Event /\ EventOf(up(r)).id = up(r).id
  BY <1>1, UpdatedType
<1>4. /\ U = (recs \ O) \cup {up(r) : r \in O}
      /\ N = {EventOf(up(r)) : r \in O}
      /\ X = {r.id : r \in O}
  BY DEF Renewed, NewEvents, Replaced
<1>5. N \subseteq Event /\ X \subseteq EventId
  BY <1>1, <1>3, <1>4 DEF Record
<1> HIDE DEF O, up, U, N, X
<1>6. \A e \in evs, r \in recs : e.id[1] = r.id[1] => e.id[2] <= r.id[2]
  BY <1>1 DEF Linked
(* The new ids have not been used.                                         *)
<1>7. ASSUME NEW r \in O PROVE up(r).id \notin inv /\ up(r).id \notin X /\ \A e \in evs : e.id # up(r).id
  <2>1. \A e \in evs : e.id # up(r).id
    BY <1>1, <1>3, <1>6
  <2>2. up(r).id \notin inv
    BY <1>1, <2>1 DEF Linked, Ids
  <2>3. ASSUME NEW q \in O PROVE up(r).id # q.id
    <3>1. CASE q = r
      BY <1>3, <3>1
    <3>2. CASE q # r
      BY <1>1, <1>3, <3>2 DEF OneRecordPerTask
    <3> QED BY <3>1, <3>2
  <2> QED BY <1>4, <2>1, <2>2, <2>3
<1>8. ASSUME NEW r \in U
      PROVE  r.id \notin inv \cup X /\ \E e \in evs \cup N : e.id = r.id
  <2>1. CASE r \in recs \ O
    <3>1. r.id \notin inv /\ \E e \in evs : e.id = r.id
      BY <1>1, <2>1 DEF Linked
    <3>2. \A q \in O : q.id # r.id
      BY <1>1, <2>1 DEF OneRecordPerTask
    <3> QED BY <1>4, <3>1, <3>2
  <2>2. ASSUME NEW q \in O, r = up(q) PROVE r.id \notin inv \cup X /\ \E e \in evs \cup N : e.id = r.id
    <3>1. EventOf(up(q)) \in N /\ EventOf(up(q)).id = r.id
      BY <1>3, <1>4, <2>2
    <3> QED BY <1>7, <2>2, <3>1
  <2> QED BY <1>4, <2>1, <2>2
<1>9. ASSUME NEW e \in evs \cup N
      PROVE  e.id \in inv \cup X \/ \E r \in U : e.id = r.id
  <2>1. CASE e \in evs
    <3>1. e.id \in inv \/ \E r \in recs : e.id = r.id
      BY <1>1, <2>1 DEF Linked
    <3> QED BY <1>4, <3>1
  <2>2. CASE e \in N
    BY <1>3, <1>4, <2>2
  <2> QED BY <2>1, <2>2
<1>10. ASSUME NEW d \in evs \cup N, NEW e \in evs \cup N, d.id = e.id PROVE d = e
  <2>1. CASE d \in evs /\ e \in evs
    BY <1>1, <1>10, <2>1 DEF Linked
  <2>2. ASSUME NEW a \in evs, NEW b \in N PROVE a.id # b.id
    BY <1>3, <1>4, <1>7
  <2>3. ASSUME d \in N, e \in N PROVE d = e
    <3>1. PICK q \in O : d = EventOf(up(q))
      BY <1>4, <2>3
    <3>2. PICK r \in O : e = EventOf(up(r))
      BY <1>4, <2>3
    <3>3. q.id[1] = r.id[1]
      BY <1>3, <1>10, <3>1, <3>2
    <3> QED BY <1>1, <3>1, <3>2, <3>3 DEF OneRecordPerTask
  <2> QED BY <1>10, <2>1, <2>2, <2>3
<1>11. inv \cup X \subseteq Ids(evs \cup N)
  <2>1. ASSUME NEW r \in O PROVE \E e \in evs : e.id = r.id
    BY <1>1 DEF Linked
  <2> QED BY <1>1, <1>4, <2>1 DEF Linked, Ids
<1>12. ASSUME NEW e \in evs \cup N, NEW r \in U, e.id[1] = r.id[1] PROVE e.id[2] <= r.id[2]
  <2>1. ASSUME e \in evs, r \in recs PROVE e.id[2] <= r.id[2]
    BY <1>6, <1>12, <2>1
  <2>2. ASSUME e \in evs, NEW q \in O, r = up(q) PROVE e.id[2] <= r.id[2]
    <3>1. e.id[2] <= q.id[2] /\ r.id[2] = q.id[2] + 1
      BY <1>1, <1>3, <1>6, <1>12, <2>2
    <3>2. e.id[2] \in Nat /\ q.id[2] \in Nat
      BY <1>1, <1>3, <2>2 DEF Event, EventId
    <3> QED BY <3>1, <3>2
  <2>3. ASSUME NEW p \in O, e = EventOf(up(p)) PROVE e.id[2] <= r.id[2]
    <3>1. up(p) \in U /\ e.id = up(p).id
      BY <1>3, <1>4, <2>3
    <3>2. r = up(p)
      BY <1>2, <1>12, <3>1 DEF OneRecordPerTask
    <3>3. up(p).id[2] \in Nat
      BY <1>3
    <3> QED BY <3>1, <3>2, <3>3
  <2> QED BY <1>4, <2>1, <2>2, <2>3
<1>13. Linked(U, evs \cup N, inv \cup X)
  BY <1>8, <1>9, <1>10, <1>11, <1>12 DEF Linked
<1> QED BY <1>1, <1>2, <1>5, <1>13 DEF Consistent, U, N, X

LEMMA RenewedOnTime ==
  ASSUME NEW recs, NEW evs, NEW inv, Consistent(recs, evs, inv),
         NEW n, n \in 1 .. MaxTasks \/ recs = {}, NEW time \in Int,
         OnTime(recs, evs, time)
  PROVE  OnTime(Renewed(recs, n, time), evs \cup NewEvents(recs, n, time), time)
<1> DEFINE O == OutOfDate(recs, n)
           up(r) == Updated(r, n, time)
           ev(r) == EventOf(up(r))
           U == Renewed(recs, n, time)
           N == NewEvents(recs, n, time)
<1>1. /\ recs \subseteq Record /\ evs \subseteq Event /\ inv \subseteq EventId
      /\ O \subseteq recs /\ OneRecordPerTask(recs)
      /\ Linked(recs, evs, inv)
  BY DEF Consistent, OutOfDate
<1>2. ASSUME NEW r \in O
      PROVE  /\ ev(r).time \in Int /\ up(r).since \in Int /\ up(r).data \in Int
             /\ ev(r).time >= time
             /\ up(r).bandwidth * (ev(r).time - up(r).since) <= up(r).data
             /\ ev(r).id = up(r).id /\ up(r).id[1] = r.id[1]
             /\ up(r).id[2] = r.id[2] + 1 /\ r.id[2] \in Nat
  <2>1. r \in Record /\ up(r) \in Record /\ n \in 1 .. MaxTasks
    BY <1>1, UpdatedType
  <2> DEFINE b == up(r).bandwidth
             x == up(r).data
  <2>2. /\ up(r).since = time /\ ev(r).time = time + x \div b
        /\ x = r.data - r.bandwidth * (time - r.since)
        /\ b \in Nat \ {0} /\ x \in Int
    BY <2>1 DEF Updated, EventOf, Record
  <2>3. x >= 0
    <3>1. PICK e \in evs : e.id = r.id
      BY <1>1 DEF Linked
    <3> DEFINE y == e.time
               s == r.since
               c == r.bandwidth
    <3>2. y >= time /\ c * (y - s) <= r.data
      BY <1>1, <3>1 DEF OnTime
    <3>3. y \in Int /\ s \in Int /\ c \in Nat /\ r.data \in Int
      BY <1>1, <2>1 DEF Record, Event
    <3> HIDE DEF y, s, c
    <3>4. time - s \in Int /\ y - s \in Int /\ time - s <= y - s
      BY <3>2, <3>3
    <3>5. c * (time - s) <= c * (y - s) /\ c * (time - s) \in Int /\ c * (y - s) \in Int
      BY <3>3, <3>4, TimesMonotone
    <3>6. r.data - c * (time - s) >= 0
      BY <3>2, <3>3, <3>5
    <3> QED BY <2>2, <3>6 DEF s, c
  <2> HIDE DEF b, x
  <2>4. x \div b \in Int /\ x \div b >= 0 /\ b * (x \div b) <= x
    BY <2>2, <2>3, Quotient
  <2>5. ev(r).time - up(r).since = x \div b /\ ev(r).time >= time /\ ev(r).time \in Int
    <3> DEFINE d == x \div b
               y == ev(r).time
    <3>1. y = time + d /\ d \in Int /\ d >= 0
      BY <2>2, <2>4
    <3> HIDE DEF d, y
    <3>2. y - time = d /\ y >= time /\ y \in Int
      BY <3>1
    <3> QED BY <2>2, <3>2 DEF d, y
  <2>6. /\ ev(r).id = up(r).id /\ up(r).id[1] = r.id[1]
        /\ up(r).id[2] = r.id[2] + 1 /\ r.id[2] \in Nat
    BY <2>1, UpdatedType
  <2> QED BY <2>2, <2>4, <2>5, <2>6 DEF b, x
<1>3. /\ U = (recs \ O) \cup {up(r) : r \in O}
      /\ N = {ev(r) : r \in O}
  BY DEF Renewed, NewEvents
<1> HIDE DEF O, up, ev, U, N
<1>4. \A e \in evs \cup N : e.time >= time
  BY <1>2, <1>3 DEF OnTime
<1>5. ASSUME NEW r \in U, NEW e \in evs \cup N, e.id = r.id
      PROVE  r.bandwidth * (e.time - r.since) <= r.data
  <2>1. ASSUME r \in recs \ O, e \in evs PROVE r.bandwidth * (e.time - r.since) <= r.data
    BY <1>5, <2>1 DEF OnTime
  <2>2. ASSUME r \in recs \ O, NEW q \in O PROVE e # ev(q)
    BY <1>1, <1>2, <1>5, <2>2 DEF OneRecordPerTask
  <2>3. ASSUME NEW q \in O, r = up(q), e \in evs PROVE FALSE
    <3>1. e.id[1] = q.id[1] /\ e.id[2] = q.id[2] + 1 /\ q.id[2] \in Nat
      BY <1>2, <1>5, <2>3
    <3>2. e.id[2] <= q.id[2]
      BY <1>1, <2>3, <3>1 DEF Linked
    <3> QED BY <3>1, <3>2
  <2>4. ASSUME NEW q \in O, r = up(q), NEW p \in O, e = ev(p)
        PROVE  r.bandwidth * (e.time - r.since) <= r.data
    <3>1. p.id[1] = q.id[1]
      BY <1>2, <1>5, <2>4
    <3>2. p = q
      BY <1>1, <3>1 DEF OneRecordPerTask
    <3> QED BY <1>2, <2>4, <3>2
  <2> QED BY <1>3, <2>1, <2>2, <2>3, <2>4
<1>6. OnTime(U, evs \cup N, time)
  BY <1>4, <1>5 DEF OnTime
<1> QED BY <1>6 DEF U, N

-----------------------------------------------------------------------------
(* A record more, and a record less.                                       *)

LEMMA NewRecordType ==
  ASSUME size \in [Task -> Sizes], NEW t \in Task, NEW n \in 1 .. MaxTasks, NEW time \in Int,
         NEW noise \in Nat
  PROVE  /\ NewRecord(t, n, time) \in Record
         /\ NewRecord(t, n, time).id = <<t, 1>>
         /\ NewRecord(t, n, time).bandwidth = Bandwidth(n)
         /\ FinishEvent(t, n, time, noise) \in Event
         /\ FinishEvent(t, n, time, noise).id = <<t, 1>>
         /\ Duration(t, n) \in Nat
         /\ FinishEvent(t, n, time, noise).time >= time
         /\ Bandwidth(n) * (FinishEvent(t, n, time, 0).time - time) <= size[t]
<1>1. /\ size[t] \in Nat /\ n \in Nat \ {0} /\ Capacity \in Nat \ {0}
  <2>1. size[t] \in Sizes /\ Sizes \subseteq Nat
    BY DeviceAssumption
  <2>2. Capacity \in Nat /\ Capacity >= n /\ n \in Nat \ {0}
    BY DeviceAssumption
  <2>3. Capacity # 0
    BY <2>2
  <2> QED BY <2>1, <2>2, <2>3
<1>2. /\ Bandwidth(n) \in Nat \ {0} /\ n * Bandwidth(n) <= Capacity
  BY BandwidthType
<1>3. Duration(t, n) \in Nat /\ Bandwidth(n) * Duration(t, n) <= size[t]
  BY <1>1, <1>2, FirstDuration DEF Duration
<1>4. <<t, 1>> \in EventId
  BY DEF EventId
<1>5. /\ NewRecord(t, n, time) \in Record
      /\ NewRecord(t, n, time).id = <<t, 1>>
      /\ NewRecord(t, n, time).bandwidth = Bandwidth(n)
  BY <1>1, <1>2, <1>4 DEF NewRecord, Record
<1>6. /\ FinishEvent(t, n, time, noise) \in Event
      /\ FinishEvent(t, n, time, noise).id = <<t, 1>>
      /\ FinishEvent(t, n, time, noise).time >= time
      /\ FinishEvent(t, n, time, 0).time - time = Duration(t, n)
  <2> DEFINE d == Duration(t, n)
  <2>1. d \in Nat
    BY <1>3
  <2> HIDE DEF d
  <2>2. /\ time + d + noise \in Int
        /\ time + d + noise >= time
        /\ (time + d + 0) - time = d
    BY <2>1
  <2>3. \A k : FinishEvent(t, n, time, k) = [id |-> <<t, 1>>, time |-> time + d + k]
    BY DEF FinishEvent, d
  <2>4. /\ FinishEvent(t, n, time, noise).id = <<t, 1>>
        /\ FinishEvent(t, n, time, noise).time = time + d + noise
        /\ FinishEvent(t, n, time, 0).time = time + d + 0
    BY <2>3
  <2>5. FinishEvent(t, n, time, noise) \in Event
    BY <1>4, <2>2, <2>3 DEF Event
  <2> QED BY <2>2, <2>4, <2>5 DEF d
<1> QED BY <1>3, <1>5, <1>6

(* A task the device has not seen before starts.                           *)
Starts(t, n, time, noise, r, e) ==
  /\ t \in Task /\ n \in 1 .. MaxTasks /\ time \in Int /\ noise \in Nat
  /\ r = NewRecord(t, n, time)
  /\ e = FinishEvent(t, n, time, noise)

With(S, x) == S \cup {x}

LEMMA StartedConsistent ==
  ASSUME size \in [Task -> Sizes], NEW recs, NEW evs, NEW inv, Consistent(recs, evs, inv),
         NEW t, NEW n, NEW time, NEW noise, NEW r, NEW e, Starts(t, n, time, noise, r, e),
         \A d \in evs : d.id[1] # t
  PROVE  /\ Consistent(With(recs, r), With(evs, e), inv)
         /\ TasksOf(With(recs, r)) = TasksOf(recs) \cup {t}
         /\ t \notin TasksOf(recs)
         /\ Cardinality(With(recs, r)) = Cardinality(recs) + 1
         /\ OnTime(recs, evs, time) /\ noise = 0
              => OnTime(With(recs, r), With(evs, e), time)
<1>1. /\ r \in Record /\ r.id = <<t, 1>> /\ e \in Event /\ e.id = <<t, 1>>
      /\ <<t, 1>>[1] = t /\ <<t, 1>>[2] = 1 /\ <<t, 1>> \in EventId
  <2>1. /\ r \in Record /\ r.id = <<t, 1>> /\ e \in Event /\ e.id = <<t, 1>>
    BY NewRecordType DEF Starts
  <2>2. <<t, 1>>[1] = t /\ <<t, 1>>[2] = 1 /\ <<t, 1>> \in EventId
    BY DEF EventId, Starts
  <2> QED BY <2>1, <2>2
<1>2. /\ recs \subseteq Record /\ evs \subseteq Event /\ inv \subseteq EventId
      /\ IsFiniteSet(recs) /\ OneRecordPerTask(recs) /\ Linked(recs, evs, inv)
  BY DEF Consistent
<1>3. noise = 0 => e.time >= time /\ r.bandwidth * (e.time - r.since) <= r.data
  <2>1. r.bandwidth = Bandwidth(n) /\ r.since = time /\ r.data = size[t]
    BY DEF NewRecord, Starts
  <2> QED BY <2>1, NewRecordType DEF Starts
<1>4. \A q \in recs : q.id[1] # t /\ q.id # <<t, 1>>
  <2>1. \A q \in recs : \E d \in evs : d.id = q.id
    BY <1>2 DEF Linked
  <2> QED BY <1>1, <2>1
<1>5. <<t, 1>> \notin inv /\ \A d \in evs : d.id # <<t, 1>>
  BY <1>1, <1>2 DEF Linked, Ids
<1>6. r \notin recs /\ OneRecordPerTask(recs \cup {r})
  BY <1>1, <1>2, <1>4 DEF OneRecordPerTask
<1>7. IsFiniteSet(recs \cup {r}) /\ Cardinality(recs \cup {r}) = Cardinality(recs) + 1
  BY <1>2, <1>6, FS_AddElement
<1>8. t \notin TasksOf(recs) /\ TasksOf(recs \cup {r}) = TasksOf(recs) \cup {t}
  BY <1>1, <1>4 DEF TasksOf
<1>9. Linked(recs \cup {r}, evs \cup {e}, inv)
  <2>1. \A q \in recs \cup {r} : q.id \notin inv /\ \E d \in evs \cup {e} : d.id = q.id
    BY <1>1, <1>2, <1>5 DEF Linked
  <2>2. \A d \in evs \cup {e} : d.id \in inv \/ \E q \in recs \cup {r} : d.id = q.id
    BY <1>1, <1>2 DEF Linked
  <2>3. \A c, d \in evs \cup {e} : c.id = d.id => c = d
    BY <1>1, <1>2, <1>5 DEF Linked
  <2>4. inv \subseteq Ids(evs \cup {e})
    BY <1>2 DEF Linked, Ids
  <2>5. \A d \in evs \cup {e}, q \in recs \cup {r} : d.id[1] = q.id[1] => d.id[2] <= q.id[2]
    BY <1>1, <1>2, <1>4 DEF Linked
  <2> QED BY <2>1, <2>2, <2>3, <2>4, <2>5 DEF Linked
<1>10. Consistent(recs \cup {r}, evs \cup {e}, inv)
  BY <1>1, <1>2, <1>6, <1>7, <1>9 DEF Consistent
<1>11. ASSUME OnTime(recs, evs, time), noise = 0
       PROVE  OnTime(recs \cup {r}, evs \cup {e}, time)
  <2>1. \A d \in evs \cup {e} : d.time >= time
    BY <1>3, <1>11 DEF OnTime
  <2>2. ASSUME NEW q \in recs \cup {r}, NEW d \in evs \cup {e}, d.id = q.id
        PROVE  q.bandwidth * (d.time - q.since) <= q.data
    <3>1. \/ q \in recs /\ d \in evs
          \/ q = r /\ d = e
      BY <1>1, <1>4, <1>5, <2>2
    <3> QED BY <1>3, <1>11, <2>2, <3>1 DEF OnTime
  <2> QED BY <2>1, <2>2 DEF OnTime
<1> QED BY <1>7, <1>8, <1>10, <1>11 DEF With

(* The record of a valid event ends with it.                               *)
Others(recs, e) == {r \in recs : r.id # e.id}

LEMMA EndedConsistent ==
  ASSUME NEW recs, NEW evs, NEW inv, Consistent(recs, evs, inv),
         NEW e \in evs, e.id \notin inv
  PROVE  /\ Consistent(Others(recs, e), evs \ {e}, inv)
         /\ e.id[1] \in Task /\ e.id[1] \in TasksOf(recs)
         /\ TasksOf(recs) = TasksOf(Others(recs, e)) \cup {e.id[1]}
         /\ Cardinality(recs) = Cardinality(Others(recs, e)) + 1
         /\ Cardinality(Others(recs, e)) \in Nat
         /\ \A time : OnTime(recs, evs, time) => OnTime(Others(recs, e), evs \ {e}, time)
<1> DEFINE rest == Others(recs, e)
<1>1. /\ recs \subseteq Record /\ evs \subseteq Event /\ inv \subseteq EventId
      /\ IsFiniteSet(recs) /\ OneRecordPerTask(recs) /\ Linked(recs, evs, inv)
  BY DEF Consistent
<1>2. PICK r \in recs : e.id = r.id
  BY <1>1 DEF Linked
<1>3. rest = recs \ {r}
  BY <1>1, <1>2 DEF OneRecordPerTask, Others
<1> HIDE DEF rest
<1>4. /\ IsFiniteSet(rest) /\ Cardinality(rest) \in Nat
      /\ Cardinality(recs) = Cardinality(rest) + 1
  <2>1. IsFiniteSet(rest) /\ Cardinality(rest) \in Nat
    BY <1>1, <1>3, FS_Subset, FS_CardinalityType
  <2>2. recs = rest \cup {r} /\ r \notin rest
    BY <1>3
  <2> QED BY <2>1, <2>2, FS_AddElement
<1>5. e.id[1] \in Task /\ e.id[1] \in TasksOf(recs)
      /\ TasksOf(recs) = TasksOf(rest) \cup {e.id[1]}
  <2>1. r.id[1] \in Task
    BY <1>1 DEF Record, EventId
  <2> QED BY <1>2, <1>3, <2>1 DEF TasksOf
<1>6. Linked(rest, evs \ {e}, inv)
  <2>1. \A q \in rest : q.id \notin inv /\ \E d \in evs \ {e} : d.id = q.id
    BY <1>1, <1>2, <1>3 DEF Linked, OneRecordPerTask
  <2>2. \A d \in evs \ {e} : d.id \in inv \/ \E q \in rest : d.id = q.id
    BY <1>1, <1>2, <1>3 DEF Linked
  <2>3. inv \subseteq Ids(evs \ {e})
    BY <1>1 DEF Linked, Ids
  <2> QED BY <1>1, <1>3, <2>1, <2>2, <2>3 DEF Linked
<1>7. OneRecordPerTask(rest)
  BY <1>1, <1>3 DEF OneRecordPerTask
<1>8. \A time : OnTime(recs, evs, time) => OnTime(rest, evs \ {e}, time)
  BY <1>3 DEF OnTime
<1> QED BY <1>1, <1>3, <1>4, <1>5, <1>6, <1>7, <1>8 DEF Consistent, rest

(* An invalid event is dropped together with its id.                       *)
LEMMA SkippedConsistent ==
  ASSUME NEW recs, NEW evs, NEW inv, Consistent(recs, evs, inv),
         NEW e \in evs, e.id \in inv
  PROVE  /\ Consistent(recs, evs \ {e}, inv \ {e.id})
         /\ \A time : OnTime(recs, evs, time) => OnTime(recs, evs \ {e}, time)
<1>1. /\ recs \subseteq Record /\ evs \subseteq Event /\ inv \subseteq EventId
      /\ IsFiniteSet(recs) /\ OneRecordPerTask(recs) /\ Linked(recs, evs, inv)
  BY DEF Consistent
<1>2. Linked(recs, evs \ {e}, inv \ {e.id})
  <2>1. \A r \in recs : r.id \notin inv \ {e.id} /\ \E d \in evs \ {e} : d.id = r.id
    BY <1>1 DEF Linked
  <2>2. \A d \in evs \ {e} : d.id \in inv \ {e.id} \/ \E r \in recs : d.id = r.id
    BY <1>1 DEF Linked
  <2>3. inv \ {e.id} \subseteq Ids(evs \ {e})
    BY <1>1 DEF Linked, Ids
  <2> QED BY <1>1, <2>1, <2>2, <2>3 DEF Linked
<1>3. \A time : OnTime(recs, evs, time) => OnTime(recs, evs \ {e}, time)
  BY DEF OnTime
<1> QED BY <1>1, <1>2, <1>3 DEF Consistent

-----------------------------------------------------------------------------
(* The steps.                                                              *)

LEMMA InitDevice == Init => DInv
<1> SUFFICES ASSUME Init PROVE DInv
  OBVIOUS
<1>1. /\ size \in [Task -> Sizes] /\ now = 0 /\ arrived = << >> /\ queue = << >>
      /\ running = {} /\ current = 0 /\ events = {} /\ invalid = {} /\ finished = << >>
      /\ busy = 0 /\ noisy = FALSE
  BY DEF Init
<1>2. Range(finished) = {} /\ TasksOf(running) = {}
  BY <1>1 DEF Range, TasksOf
<1>3. InQueue /\ NumStarted = 0 /\ StartedTasks = {}
  BY <1>1, EmptyLine DEF InQueue, NumStarted, StartedTasks
<1>4. Consistent(running, events, invalid) /\ OnTime(running, events, now)
  BY <1>1, FS_EmptySet DEF Consistent, OneRecordPerTask, Linked, OnTime
<1>5. Settled
  <2>1. Cardinality(running) = 0 /\ MaxTasks \in Nat \ {0} /\ Len(finished) = 0
    BY <1>1, FS_EmptySet, DeviceAssumption
  <2>2. /\ current = Cardinality(running) /\ current <= MaxTasks
        /\ NumStarted = current + Len(finished)
    BY <1>1, <1>3, <2>1
  <2>3. /\ size \in [Task -> Sizes] /\ now \in Int /\ finished \in Seq(Task)
        /\ busy \in Int /\ noisy \in BOOLEAN
    <3>1. << >> \in Seq(Task) /\ 0 \in Int
      OBVIOUS
    <3>2. noisy \in BOOLEAN
      BY <1>1, Zenon
    <3> QED BY <1>1, <3>1, <3>2, Zenon
  <2>5. /\ \A r \in running : r.bandwidth = Bandwidth(current)
        /\ queue # << >> => current = MaxTasks
        /\ \A e \in events : e.id[1] \in StartedTasks
    BY <1>1
  <2>4. StartedTasks = TasksOf(running) \cup Range(finished)
    BY <1>2, <1>3
  <2> QED BY <2>2, <2>3, <2>4, <2>5 DEF Settled
<1> QED BY <1>3, <1>4, <1>5 DEF DInv

LEMMA NoiseType == ASSUME NEW d \in Nat, NEW noise \in Noise(d) PROVE noise \in Nat
<1>1. PICK k \in NoiseSteps : noise = (d * k) \div NoiseUnit
  BY DEF Noise
<1>2. k \in Nat /\ NoiseUnit \in Nat \ {0}
  BY DeviceAssumption
<1>3. d * k \in Nat
  BY <1>2
<1>4. (d * k) \div NoiseUnit \in Int /\ (d * k) \div NoiseUnit >= 0
  BY <1>2, <1>3, Quotient
<1> QED BY <1>1, <1>4

LEMMA SkipInvalidDevice ==
  ASSUME DInv, NEW e, SkipInvalid(e)
  PROVE  DInv'
<1>1. /\ e \in events /\ e.id \in invalid
      /\ events' = events \ {e} /\ invalid' = invalid \ {e.id}
      /\ UNCHANGED <<size, now, arrived, queue, running, current, finished, busy, noisy>>
  BY DEF SkipInvalid, IsNext
<1>2. /\ Consistent(running, events \ {e}, invalid \ {e.id})
      /\ OnTime(running, events, now) => OnTime(running, events \ {e}, now)
  BY <1>1, SkippedConsistent DEF DInv
<1>3. Consistent(running', events', invalid') /\ (~noisy' => OnTime(running', events', now'))
  BY <1>1, <1>2 DEF DInv
<1>4. InQueue'
  BY <1>1 DEF DInv, InQueue
<1>5. Settled'
  BY <1>1 DEF DInv, Settled, NumStarted, StartedTasks, TasksOf
<1> QED BY <1>3, <1>4, <1>5 DEF DInv, Consistent, OneRecordPerTask, Linked, Ids, OnTime, Record, Event

(* The invariant when the step leaves these parts.                         *)
LEMMA DeviceNext ==
  ASSUME DInv, UNCHANGED size, InQueue', Consistent(running', events', invalid'),
         ~noisy' => OnTime(running', events', now'),
         now' \in Int, finished' \in Seq(Task), busy' \in Int, noisy' \in BOOLEAN,
         current' = Cardinality(running'), current' <= MaxTasks,
         \A r \in running' : r.bandwidth = Bandwidth(current'),
         queue' # << >> => current' = MaxTasks,
         NumStarted' = current' + Len(finished'),
         StartedTasks' = TasksOf(running') \cup Range(finished'),
         \A e \in events' : e.id[1] \in StartedTasks'
  PROVE  DInv'
<1>1. Settled'
  BY DEF DInv, Settled, TasksOf, Range, Bandwidth
<1> QED
  BY <1>1 DEF DInv, Consistent, OneRecordPerTask, Linked, Ids, OnTime, Record, Event

LEMMA PlaceNewTaskDevice ==
  ASSUME DInv, NEW t \in Task, NEW time \in Int, PlaceNewTask(t, time),
         time = now \/ \A e \in events : time <= e.time
  PROVE  DInv'
<1> DEFINE n == current + 1
           new == NewRecord(t, n, time)
<1>1. /\ t \notin Range(arrived)
      /\ now' = time /\ busy' = IF running = {} THEN busy ELSE busy + (time - now)
      /\ arrived' = Append(arrived, t)
      /\ UNCHANGED <<size, finished>>
  BY DEF PlaceNewTask, AdvanceTo
<1>2. /\ now \in Int /\ busy \in Int /\ finished \in Seq(Task) /\ noisy \in BOOLEAN
      /\ size \in [Task -> Sizes]
      /\ current = Cardinality(running) /\ current <= MaxTasks
      /\ Consistent(running, events, invalid) /\ InQueue
      /\ NumStarted = current + Len(finished)
      /\ StartedTasks = TasksOf(running) \cup Range(finished)
      /\ \A e \in events : e.id[1] \in StartedTasks
  BY DEF DInv, Settled
<1>3. /\ current \in Nat /\ MaxTasks \in Nat \ {0} /\ Len(finished) \in Nat
      /\ time \in Int /\ now' \in Int
  <2>1. current \in Nat
    BY <1>2, FS_CardinalityType DEF Consistent
  <2> QED BY <1>1, <1>2, <2>1, DeviceAssumption
<1>4. busy' \in Int
  BY <1>1, <1>2, <1>3
<1>5. ~noisy => OnTime(running, events, time)
  <2>1. \A e \in events : e.time \in Int
    BY <1>2 DEF Consistent, Event
  <2>2. CASE time = now
    BY <2>2 DEF DInv
  <2>3. CASE \A e \in events : time <= e.time
    BY <1>3, <2>1, <2>3 DEF DInv, OnTime
  <2> QED BY <2>2, <2>3
<1>6. \A e \in events : e.id[1] # t
  <2>1. StartedTasks \subseteq Range(arrived)
    BY <1>2, LineRange DEF InQueue, StartedTasks
  <2> QED BY <1>1, <1>2, <2>1
<1>7. ASSUME queue = << >>, ResourceAvailable(current),
             current' = n, UpdateRunningTask(running \cup {new}, n, time),
             NEW noise \in Noise(Duration(t, n)),
             events' = events \cup {FinishEvent(t, n, time, noise)}
                              \cup NewEvents(running, n, time),
             noisy' = (noisy \/ noise > 0), queue' = queue
      PROVE  DInv'
  <2> DEFINE R == running \cup {new}
             E == events \cup {FinishEvent(t, n, time, noise)}
  <2>1. n \in 1 .. MaxTasks
    BY <1>3, <1>7 DEF ResourceAvailable
  <2>2. Duration(t, n) \in Nat /\ new.bandwidth = Bandwidth(n) /\ noise \in Nat
    <3>1. 0 \in Nat
      OBVIOUS
    <3>2. Duration(t, n) \in Nat /\ new.bandwidth = Bandwidth(n)
      BY <1>2, <1>3, <2>1, <3>1, NewRecordType
    <3> QED BY <1>7, <3>2, NoiseType
  <2>3. /\ Consistent(R, E, invalid)
        /\ TasksOf(R) = TasksOf(running) \cup {t}
        /\ Cardinality(R) = n
        /\ OnTime(running, events, time) /\ noise = 0 => OnTime(R, E, time)
    <3>1. size \in [Task -> Sizes] /\ time \in Int /\ noise \in Nat
          /\ Consistent(running, events, invalid) /\ Cardinality(running) + 1 = n
      BY <1>2, <1>3, <2>2
    <3> DEFINE fin == FinishEvent(t, n, time, noise)
    <3>2. Starts(t, n, time, noise, new, fin)
      BY <2>1, <3>1 DEF Starts
    <3> HIDE DEF n, new, fin
    <3>3. /\ Consistent(With(running, new), With(events, fin), invalid)
          /\ TasksOf(With(running, new)) = TasksOf(running) \cup {t}
          /\ Cardinality(With(running, new)) = Cardinality(running) + 1
          /\ OnTime(running, events, time) /\ noise = 0
               => OnTime(With(running, new), With(events, fin), time)
      BY <1>6, <3>1, <3>2, StartedConsistent
    <3> QED BY <3>1, <3>3 DEF With, fin
  <2>4. OutOfDate(R, n) = OutOfDate(running, n)
    BY <2>2 DEF OutOfDate
  <2>5. /\ running' = Renewed(R, n, time)
        /\ events' = E \cup NewEvents(R, n, time)
        /\ invalid' = invalid \cup Replaced(R, n)
    BY <1>7, <2>4 DEF UpdateRunningTask, Renewed, NewEvents, Replaced
  <2> HIDE DEF n, new, R, E
  <2>6. Consistent(running', events', invalid')
    BY <1>3, <2>1, <2>3, <2>5, RenewedLinked
  <2>7. /\ Cardinality(running') = n /\ TasksOf(running') = TasksOf(running) \cup {t}
        /\ \A r \in running' : r.bandwidth = Bandwidth(n)
    BY <1>3, <2>1, <2>3, <2>5, RenewedRecords DEF Consistent
  <2>8. ~noisy' => OnTime(running', events', now')
    <3>1. ~noisy' => ~noisy /\ noise = 0
      <4>1. noisy' = (noisy \/ noise > 0)
        BY <1>7
      <4>2. ~noisy' => ~noisy /\ ~(noise > 0)
        BY <4>1, Zenon
      <4>3. ~(noise > 0) => noise = 0
        BY <2>2
      <4> QED BY <4>2, <4>3, Zenon
    <3> QED BY <1>1, <1>3, <1>5, <2>1, <2>3, <2>5, <3>1, RenewedOnTime
  <2>9. /\ InQueue' /\ NumStarted' = NumStarted + 1 /\ StartedTasks' = StartedTasks \cup {t}
    BY <1>1, <1>2, <1>7, ArrivesAndStarts DEF InQueue, NumStarted, StartedTasks
  <2>10. \A e \in events' : e.id[1] \in StartedTasks'
    <3>1. \A e \in E : e.id[1] \in StartedTasks'
      <4>1. FinishEvent(t, n, time, noise).id[1] = t
        BY DEF FinishEvent
      <4> QED BY <1>2, <2>9, <4>1 DEF E
    <3>2. ASSUME NEW r \in OutOfDate(R, n)
          PROVE  EventOf(Updated(r, n, time)).id[1] \in StartedTasks'
      <4>1. r \in R
        BY DEF OutOfDate
      <4>2. r.id[1] \in TasksOf(running) \cup {t}
        BY <2>3, <4>1 DEF TasksOf
      <4> QED BY <1>2, <2>9, <4>2 DEF EventOf, Updated
    <3> QED BY <2>5, <3>1, <3>2 DEF NewEvents
  <2>11. NumStarted' = current' + Len(finished') /\ current' <= MaxTasks
    BY <1>1, <1>2, <1>3, <1>7, <2>1, <2>9 DEF n
  <2>12. StartedTasks' = TasksOf(running') \cup Range(finished')
    BY <1>1, <1>2, <2>7, <2>9
  <2>13. queue' # << >> => current' = MaxTasks
    BY <1>7
  <2>14. noisy' \in BOOLEAN /\ finished' \in Seq(Task) /\ current' = Cardinality(running')
         /\ \A r \in running' : r.bandwidth = Bandwidth(current')
    BY <1>1, <1>2, <1>7, <2>7
  <2> QED BY <1>1, <1>3, <1>4, <2>6, <2>8, <2>9, <2>10, <2>11, <2>12, <2>13, <2>14, DeviceNext
<1>8. ASSUME ~(queue = << >> /\ ResourceAvailable(current)),
             queue' = Append(queue, t), UNCHANGED <<current, running, events, invalid, noisy>>
      PROVE  DInv'
  <2>1. current = MaxTasks
    BY <1>2, <1>3, <1>8 DEF DInv, Settled, ResourceAvailable
  <2>2. InQueue' /\ NumStarted' = NumStarted /\ StartedTasks' = StartedTasks
    BY <1>1, <1>2, <1>8, ArrivesAndWaits DEF InQueue, NumStarted, StartedTasks
  <2>3. /\ Consistent(running', events', invalid')
        /\ ~noisy' => OnTime(running', events', now')
    BY <1>1, <1>2, <1>5, <1>8
  <2>4. \A r \in running' : r.bandwidth = Bandwidth(current')
    BY <1>8 DEF DInv, Settled
  <2>5. StartedTasks' = TasksOf(running') \cup Range(finished')
        /\ \A e \in events' : e.id[1] \in StartedTasks'
    BY <1>1, <1>2, <1>8, <2>2
  <2>6. /\ NumStarted' = current' + Len(finished') /\ current' = Cardinality(running')
        /\ current' <= MaxTasks /\ current' = MaxTasks
        /\ finished' \in Seq(Task) /\ noisy' \in BOOLEAN
    BY <1>1, <1>2, <1>8, <2>1, <2>2
  <2> QED BY <1>1, <1>3, <1>4, <2>2, <2>3, <2>4, <2>5, <2>6, DeviceNext
<1> QED BY <1>7, <1>8 DEF PlaceNewTask

LEMMA TaskFinishDevice ==
  ASSUME DInv, NEW e, TaskFinish(e)
  PROVE  DInv'
<1> DEFINE rest == Others(running, e)
           n == current - 1
           t == Head(queue)
           E == events \ {e}
           task == e.id[1]
<1>1. /\ e \in events /\ \A f \in events : e.time <= f.time
      /\ e.id \notin invalid
      /\ now' = e.time /\ busy' = IF running = {} THEN busy ELSE busy + (e.time - now)
      /\ finished' = Append(finished, task)
      /\ UNCHANGED <<size, arrived>>
  BY DEF TaskFinish, AdvanceTo, IsNext
<1>2. /\ now \in Int /\ busy \in Int /\ finished \in Seq(Task) /\ noisy \in BOOLEAN
      /\ size \in [Task -> Sizes]
      /\ current = Cardinality(running) /\ current <= MaxTasks
      /\ Consistent(running, events, invalid) /\ InQueue
      /\ \A r \in running : r.bandwidth = Bandwidth(current)
      /\ NumStarted = current + Len(finished)
      /\ StartedTasks = TasksOf(running) \cup Range(finished)
      /\ \A d \in events : d.id[1] \in StartedTasks
  BY DEF DInv, Settled
<1>3. /\ Consistent(rest, E, invalid)
      /\ task \in Task
      /\ TasksOf(running) = TasksOf(rest) \cup {task}
      /\ Cardinality(running) = Cardinality(rest) + 1
      /\ Cardinality(rest) \in Nat
      /\ \A time : OnTime(running, events, time) => OnTime(rest, E, time)
  BY <1>1, <1>2, EndedConsistent
<1>4. /\ Cardinality(rest) = n /\ n \in Nat /\ n + 1 = current
      /\ MaxTasks \in Nat /\ current \in 1 .. MaxTasks /\ e.time \in Int
  <2>1. e.time \in Int
    BY <1>1, <1>2 DEF Consistent, Event
  <2>2. MaxTasks \in Nat
    BY DeviceAssumption
  <2> QED BY <1>2, <1>3, <2>1, <2>2
<1>5. ~noisy => OnTime(rest, E, e.time)
  <2>1. \A d \in events : d.time \in Int
    BY <1>2 DEF Consistent, Event
  <2>2. ~noisy => OnTime(running, events, e.time)
    BY <1>1, <1>4, <2>1 DEF DInv, OnTime
  <2> QED BY <1>3, <2>2
<1>6. /\ finished' \in Seq(Task) /\ Len(finished') = Len(finished) + 1
      /\ Len(finished) \in Nat
      /\ Range(finished') = Range(finished) \cup {task}
  <2>1. /\ finished' \in Seq(Task) /\ Len(finished') = Len(finished) + 1
        /\ Len(finished) \in Nat
        /\ DOMAIN finished = 1 .. Len(finished) /\ DOMAIN finished' = 1 .. Len(finished')
        /\ \A i \in 1 .. Len(finished) : finished'[i] = finished[i]
        /\ finished'[Len(finished) + 1] = task
    BY <1>1, <1>2, <1>3
  <2>2. \A i : i \in 1 .. Len(finished) + 1 <=> i \in 1 .. Len(finished) \/ i = Len(finished) + 1
    BY <2>1
  <2>3. \A x : x \in Range(finished') <=> x \in Range(finished) \/ x = task
    BY <2>1, <2>2 DEF Range
  <2> QED BY <2>1, <2>3
<1>7. StartedTasks = TasksOf(rest) \cup Range(finished')
  BY <1>2, <1>3, <1>6
<1>8. busy' \in Int
  BY <1>1, <1>2, <1>4
<1>9. \A d \in E : d.id[1] \in StartedTasks
  BY <1>2
<1> HIDE DEF rest, E, task
(* A waiting task takes the slot: the shares stay.                         *)
<1>10. ASSUME queue # << >>, queue' = Tail(queue), current' = n + 1,
              UpdateRunningTask(rest \cup {NewRecord(t, n + 1, e.time)}, n + 1, e.time),
              NEW noise \in Noise(Duration(t, n + 1)),
              events' = E \cup {FinishEvent(t, n + 1, e.time, noise)},
              noisy' = (noisy \/ noise > 0)
       PROVE  DInv'
  <2> DEFINE new == NewRecord(t, current, e.time)
             fin == FinishEvent(t, current, e.time, noise)
             R == With(rest, new)
  <2>1. /\ InQueue' /\ t \in Task /\ NumStarted' = NumStarted + 1 /\ t \notin StartedTasks
        /\ StartedTasks' = StartedTasks \cup {t}
    BY <1>1, <1>2, <1>10, FirstStarts DEF InQueue, NumStarted, StartedTasks
  <2>2. Duration(t, current) \in Nat /\ new.bandwidth = Bandwidth(current)
        /\ fin.id[1] = t
    <3>1. 0 \in Nat
      OBVIOUS
    <3>2. Duration(t, current) \in Nat /\ new.bandwidth = Bandwidth(current)
      <4>1. /\ size \in [Task -> Sizes] /\ t \in Task /\ current \in 1 .. MaxTasks
            /\ e.time \in Int
        BY <1>2, <1>4, <2>1
      <4> HIDE DEF t
      <4> QED BY <3>1, <4>1, NewRecordType
    <3> QED BY <3>2 DEF FinishEvent
  <2>3. noise \in Noise(Duration(t, current))
    BY <1>4, <1>10
  <2>4. noise \in Nat
    BY <2>2, <2>3, NoiseType
  <2>5. Starts(t, current, e.time, noise, new, fin)
    BY <1>4, <2>1, <2>4 DEF Starts
  <2>6. /\ UpdateRunningTask(R, current, e.time)
        /\ events' = With(E, fin) /\ current' = current
    BY <1>4, <1>10 DEF With
  <2> HIDE DEF t, n, new, fin
  <2>7. \A d \in E : d.id[1] # t
    BY <1>9, <2>1
  <2>8. /\ Consistent(R, With(E, fin), invalid)
        /\ TasksOf(R) = TasksOf(rest) \cup {t}
        /\ Cardinality(R) = Cardinality(rest) + 1
        /\ OnTime(rest, E, e.time) /\ noise = 0 => OnTime(R, With(E, fin), e.time)
    BY <1>2, <1>3, <2>5, <2>7, StartedConsistent
  <2>9. \A r \in R : r.bandwidth = Bandwidth(current)
    BY <1>2, <2>2 DEF With, rest, Others
  <2> HIDE DEF R
  <2>10. OutOfDate(R, current) = {}
    BY <2>9 DEF OutOfDate
  <2>11. running' = R /\ invalid' = invalid
    BY <2>6, <2>10 DEF UpdateRunningTask
  <2>12. Consistent(running', events', invalid')
    BY <2>6, <2>8, <2>11
  <2>13. ~noisy' => OnTime(running', events', now')
    <3>1. ~noisy' => ~noisy /\ noise = 0
      <4>1. noisy' = (noisy \/ noise > 0)
        BY <1>10
      <4>2. ~noisy' => ~noisy /\ ~(noise > 0)
        BY <4>1, Zenon
      <4>3. ~(noise > 0) => noise = 0
        BY <2>4
      <4> QED BY <4>2, <4>3, Zenon
    <3> QED BY <1>1, <1>5, <2>6, <2>8, <2>11, <3>1
  <2>14. /\ current' = Cardinality(running') /\ current' <= MaxTasks
         /\ \A r \in running' : r.bandwidth = Bandwidth(current')
         /\ NumStarted' = current' + Len(finished')
    BY <1>2, <1>3, <1>4, <1>6, <2>1, <2>6, <2>8, <2>9, <2>11
  <2>15. StartedTasks' = TasksOf(running') \cup Range(finished')
    BY <1>7, <2>1, <2>8, <2>11
  <2>16. \A d \in events' : d.id[1] \in StartedTasks'
    BY <1>9, <2>1, <2>2, <2>6 DEF With
  <2>17. queue' # << >> => current' = MaxTasks
    BY <1>10, <2>6 DEF DInv, Settled
  <2>18. noisy' \in BOOLEAN /\ now' \in Int /\ UNCHANGED size
    <3>1. noisy' = (noisy \/ noise > 0)
      BY <1>10
    <3>2. noisy' \in BOOLEAN
      BY <3>1
    <3> QED BY <1>1, <1>4, <3>2
  <2> QED BY <1>6, <1>8, <2>1, <2>12, <2>13, <2>14, <2>15, <2>16, <2>17, <2>18, DeviceNext
(* Nobody waits: those that run get a larger share.                        *)
<1>11. ASSUME ~(queue # << >> /\ ResourceAvailable(n)), current' = n,
              UpdateRunningTask(rest, n, e.time),
              events' = E \cup NewEvents(rest, n, e.time), UNCHANGED <<queue, noisy>>
       PROVE  DInv'
  <2>1. queue = << >>
    BY <1>4, <1>11 DEF ResourceAvailable
  <2>2. n \in 1 .. MaxTasks \/ rest = {}
    <3>1. n = 0 => rest = {}
      BY <1>3, <1>4, FS_EmptySet DEF Consistent
    <3> QED BY <1>4, <3>1
  <2>3. /\ running' = Renewed(rest, n, e.time)
        /\ invalid' = invalid \cup Replaced(rest, n)
    BY <1>11 DEF UpdateRunningTask, Renewed, Replaced
  <2>4. InQueue' /\ NumStarted' = NumStarted /\ StartedTasks' = StartedTasks
    BY <1>1, <1>2, <1>11 DEF InQueue, NumStarted, StartedTasks
  <2>5. current' \in Nat /\ current' <= MaxTasks /\ NumStarted' = current' + Len(finished')
        /\ Cardinality(rest) = current'
    <3>1. current' = n /\ NumStarted' = NumStarted
      BY <1>11, <2>4
    <3>2. NumStarted = (n + 1) + Len(finished) /\ n + 1 <= MaxTasks
      BY <1>2, <1>4
    <3> HIDE DEF n
    <3> QED BY <1>4, <1>6, <3>1, <3>2
  <2> HIDE DEF n
  <2>6. Consistent(running', events', invalid')
    BY <1>3, <1>4, <1>11, <2>2, <2>3, RenewedLinked
  <2>7. /\ Cardinality(running') = Cardinality(rest) /\ TasksOf(running') = TasksOf(rest)
        /\ \A r \in running' : r.bandwidth = Bandwidth(n)
    BY <1>3, <1>4, <2>2, <2>3, RenewedRecords DEF Consistent
  <2>8. ~noisy' => OnTime(running', events', now')
    BY <1>1, <1>3, <1>4, <1>5, <1>11, <2>2, <2>3, RenewedOnTime
  <2>9. StartedTasks' = TasksOf(running') \cup Range(finished')
    BY <1>7, <2>4, <2>7
  <2>10. \A d \in events' : d.id[1] \in StartedTasks'
    <3>1. ASSUME NEW r \in OutOfDate(rest, n)
          PROVE  EventOf(Updated(r, n, e.time)).id[1] \in StartedTasks'
      <4>1. r.id[1] \in TasksOf(rest)
        BY DEF OutOfDate, TasksOf
      <4> QED BY <1>7, <2>4, <4>1 DEF EventOf, Updated
    <3> QED BY <1>9, <1>11, <2>4, <3>1 DEF NewEvents
  <2>11. /\ queue' # << >> => current' = MaxTasks
         /\ noisy' \in BOOLEAN /\ now' \in Int /\ UNCHANGED size
         /\ current' = Cardinality(running')
         /\ \A r \in running' : r.bandwidth = Bandwidth(current')
    BY <1>1, <1>2, <1>4, <1>11, <2>1, <2>5, <2>7
  <2> QED BY <1>6, <1>8, <2>4, <2>5, <2>6, <2>8, <2>9, <2>10, <2>11, DeviceNext
<1> QED BY <1>10, <1>11 DEF TaskFinish, E, rest, Others

LEMMA StepDevice == DInv /\ [Next]_vars => DInv'
<1> SUFFICES ASSUME DInv, [Next]_vars PROVE DInv'
  OBVIOUS
<1>1. CASE \E t \in Task : Arrive(t)
  BY <1>1, PlaceNewTaskDevice DEF Arrive
<1>2. CASE \E e \in events : SkipInvalid(e)
  BY <1>2, SkipInvalidDevice
<1>3. CASE \E e \in events : TaskFinish(e)
  BY <1>3, TaskFinishDevice
<1>4. CASE UNCHANGED vars
  <2>1. UNCHANGED <<size, now, arrived, queue, running, current, events, invalid,
                    finished, busy, noisy>>
    BY <1>4 DEF vars
  <2>2. InQueue'
    BY <2>1 DEF DInv, InQueue
  <2>3. Settled'
    BY <2>1 DEF DInv, Settled, NumStarted, StartedTasks, TasksOf
  <2>4. Consistent(running', events', invalid') /\ (~noisy' => OnTime(running', events', now'))
    BY <2>1 DEF DInv
  <2> QED
    BY <2>2, <2>3, <2>4 DEF DInv, Consistent, OneRecordPerTask, Linked, Ids, OnTime, Record, Event
<1> QED BY <1>1, <1>2, <1>3, <1>4 DEF Next, Serve

-----------------------------------------------------------------------------
(* The theorems.                                                           *)

(* The strengthening DInv of the properties below is inductive: what the   *)
(* records, the events and the invalid ids of UpdateRunningTask have to do *)
(* with each other, and the queue with the slots.                          *)
THEOREM DeviceInvariant == Spec => []DInv
<1>1. Init => DInv
  BY InitDevice
<1>2. DInv /\ [Next]_vars => DInv'
  BY StepDevice
<1> QED BY <1>1, <1>2, PTL DEF Spec

(* The state has its type; in particular current_disk_task_number_ stays   *)
(* between 0 and maximum_disk_task_number_.                                *)
THEOREM DeviceTypeCorrect == Spec => []TypeOK
<1>1. DInv => TypeOK
  <2> SUFFICES ASSUME DInv PROVE TypeOK
    OBVIOUS
  <2>1. /\ size \in [Task -> Sizes] /\ now \in Int /\ finished \in Seq(Task) /\ busy \in Int
        /\ noisy \in BOOLEAN /\ arrived \in Seq(Task) /\ queue \in Seq(Task)
    BY DEF DInv, Settled, InQueue, InLine
  <2>2. current \in 0 .. MaxTasks
    <3>1. Cardinality(running) \in Nat /\ MaxTasks \in Nat
      BY FS_CardinalityType, DeviceAssumption DEF DInv, Consistent
    <3> QED BY <3>1 DEF DInv, Settled
  <2>3. running \subseteq [id : EventId, data : Int, bandwidth : Nat, since : Int]
    BY DEF DInv, Consistent, Record
  <2>4. events \subseteq [id : EventId, time : Int] /\ invalid \subseteq EventId
    BY DEF DInv, Consistent, Event
  <2> QED BY <2>1, <2>2, <2>3, <2>4 DEF TypeOK
<1> QED BY <1>1, DeviceInvariant, PTL

(* Every running task has exactly one event that Serve will hand to the    *)
(* device, every other one will be dropped, and the set of invalid ids     *)
(* never keeps an id whose event is gone.                                  *)
THEOREM OneLiveEventPerTask == Spec => []OneLiveEvent
<1>1. DInv => OneLiveEvent
  BY DEF DInv, Consistent, Linked, Ids, OneLiveEvent
<1> QED BY <1>1, DeviceInvariant, PTL

(* PlaceNewTask and TaskFinish neither lose a task nor run it twice.       *)
THEOREM NoTaskIsLost == Spec => []NoTaskLostOrDoubled
<1>1. DInv => NoTaskLostOrDoubled
  <2> SUFFICES ASSUME DInv PROVE NoTaskLostOrDoubled
    OBVIOUS
  <2> DEFINE n == Len(arrived)
             m == Len(queue)
  <2>1. n \in Nat /\ m \in Nat /\ NumStarted = n - m
    BY DEF DInv, InQueue, InLine, NumStarted, Started
  <2>2. n = m + Cardinality(running) + Len(finished)
    <3>1. Cardinality(running) \in Nat /\ Len(finished) \in Nat
      BY FS_CardinalityType DEF DInv, Consistent, Settled
    <3>2. NumStarted = Cardinality(running) + Len(finished)
      BY DEF DInv, Settled
    <3> HIDE DEF n, m
    <3> QED BY <2>1, <3>1, <3>2
  <2>3. Range(arrived) = StartedTasks \cup Range(queue)
    BY LineRange DEF DInv, InQueue, StartedTasks
  <2>4. TasksOf(running) = RunningTasks
    BY DEF TasksOf, RunningTasks
  <2>5. StartedTasks = TasksOf(running) \cup Range(finished)
    BY DEF DInv, Settled
  <2> QED BY <2>2, <2>3, <2>4, <2>5 DEF NoTaskLostOrDoubled
<1> QED BY <1>1, DeviceInvariant, PTL

(* The running tasks share the bandwidth equally, also on the branch of    *)
(* TaskFinish that updates no record.                                      *)
THEOREM SharesAreFair == Spec => []FairShare
<1>1. DInv => FairShare
  BY DEF DInv, Settled, FairShare
<1> QED BY <1>1, DeviceInvariant, PTL

(* A task waits only while every slot of the device is taken.              *)
THEOREM NoSlotIsIdle == Spec => []NoIdleSlot
<1>1. DInv => NoIdleSlot
  BY DEF DInv, Settled, NoIdleSlot
<1> QED BY <1>1, DeviceInvariant, PTL

(* Those that wait are the ones that were placed last, in their order.     *)
THEOREM TasksStartInOrder == Spec => []StartsInOrder
<1>1. DInv => StartsInOrder
  BY LineIsSuffix DEF DInv, InQueue, StartsInOrder
<1> QED BY <1>1, DeviceInvariant, PTL

(* The time of Serve does not run backwards before the first noise: no     *)
(* task has moved more than it has to when its event comes, so no updated  *)
(* event lies in the past.                                                 *)
THEOREM TimeForwardUnlessNoisy == Spec => TimeMonotoneUnlessNoisy
<1>1. DInv /\ [Next]_vars => [~noisy /\ arrived' = arrived => now' >= now]_vars
  <2> SUFFICES ASSUME DInv, Next, ~noisy, arrived' = arrived PROVE now' >= now
    BY DEF vars
  <2>1. now \in Int
    BY DEF DInv, Settled
  <2>2. ASSUME NEW t \in Task, Arrive(t) PROVE FALSE
    <3>1. arrived' = Append(arrived, t) /\ t \notin Range(arrived)
      BY <2>2 DEF Arrive, PlaceNewTask
    <3>2. arrived \in Seq(Task)
      BY DEF DInv, InQueue, InLine
    <3> QED BY <3>1, <3>2
  <2>3. ASSUME NEW e \in events, SkipInvalid(e) PROVE now' >= now
    BY <2>1, <2>3 DEF SkipInvalid
  <2>4. ASSUME NEW e \in events, TaskFinish(e) PROVE now' >= now
    <3>1. now' = e.time
      BY <2>4 DEF TaskFinish, AdvanceTo
    <3> QED BY <3>1 DEF DInv, OnTime
  <2> QED BY <2>2, <2>3, <2>4 DEF Next, Serve
<1> QED BY <1>1, DeviceInvariant, PTL DEF TimeMonotoneUnlessNoisy, Spec

-----------------------------------------------------------------------------
(* The events come on time and no bandwidth is lost, if the divisions are  *)
(* exact.                                                                  *)

LEMMA ExactQuotient ==
  ASSUME NEW a \in Int, NEW b \in Nat \ {0}, a % b = 0
  PROVE  (a \div b) * b = a
<1>1. a = b * (a \div b) + (a % b) /\ a \div b \in Int
  OBVIOUS
<1> QED BY <1>1

LEMMA QuotientOfProduct ==
  ASSUME NEW c \in Nat \ {0}, NEW q \in Int
  PROVE  (c * q) \div c = q
<1> DEFINE d == (c * q) \div c
           m == (c * q) % c
<1>1. c * q \in Int
  OBVIOUS
<1>2. c * q = c * d + m /\ m \in 0 .. c - 1 /\ d \in Int
  BY <1>1
<1> HIDE DEF d, m
<1>3. CASE q - d >= 1
  <2>1. c * (q - d) >= c
    BY <1>2, <1>3
  <2>2. c * (q - d) = c * q - c * d
    BY <1>2
  <2> QED BY <1>1, <1>2, <2>1, <2>2
<1>4. CASE d - q >= 1
  <2>1. c * (d - q) >= c
    BY <1>2, <1>4
  <2>2. c * (d - q) = c * d - c * q
    BY <1>2
  <2> QED BY <1>1, <1>2, <2>1, <2>2
<1>5. CASE d = q
  BY <1>5 DEF d
<1> QED BY <1>2, <1>3, <1>4, <1>5

LEMMA BandwidthExact ==
  ASSUME NEW n \in 1 .. MaxTasks
  PROVE  n * Bandwidth(n) = Capacity /\ Bandwidth(n) \in Nat \ {0}
<1>1. n \in Nat \ {0} /\ Capacity \in Nat /\ Capacity % n = 0
  BY DeviceAssumption
<1>2. Bandwidth(n) \in Nat \ {0}
  BY BandwidthType
<1>3. (Capacity \div n) * n = Capacity
  BY <1>1, ExactQuotient
<1>4. (Capacity \div n) * n = n * (Capacity \div n)
  BY <1>1
<1> QED BY <1>2, <1>3, <1>4 DEF Bandwidth

WholeShares(recs) == \A r \in recs : r.data % r.bandwidth = 0

Late(r, e) ==
  LET moved == (e.time - r.since) * r.bandwidth
  IN  IF r.id[2] = 1 /\ NoiseSteps # {0} THEN moved >= r.data ELSE moved = r.data
Timely(recs, evs) == \A r \in recs : \A e \in evs : e.id = r.id => Late(r, e)

LEMMA TimelyIs == EventOnTime <=> Timely(running, events)
BY DEF EventOnTime, Timely, Late

LEMMA RenewedTimely ==
  ASSUME NEW recs, NEW evs, NEW inv, Consistent(recs, evs, inv),
         NEW n, n \in 1 .. MaxTasks \/ recs = {}, NEW time \in Int,
         Timely(recs, evs), WholeShares(Renewed(recs, n, time))
  PROVE  Timely(Renewed(recs, n, time), evs \cup NewEvents(recs, n, time))
<1> DEFINE O == OutOfDate(recs, n)
           up(r) == Updated(r, n, time)
           ev(r) == EventOf(up(r))
           U == Renewed(recs, n, time)
           N == NewEvents(recs, n, time)
<1>1. /\ recs \subseteq Record /\ evs \subseteq Event
      /\ O \subseteq recs /\ OneRecordPerTask(recs)
      /\ Linked(recs, evs, inv)
  BY DEF Consistent, OutOfDate
<1>2. /\ U = (recs \ O) \cup {up(r) : r \in O}
      /\ N = {ev(r) : r \in O}
  BY DEF Renewed, NewEvents
<1>3. ASSUME NEW r \in O
      PROVE  /\ Late(up(r), ev(r))
             /\ ev(r).id = up(r).id /\ up(r).id[1] = r.id[1]
             /\ up(r).id[2] = r.id[2] + 1 /\ r.id[2] \in Nat \ {0}
  <2> DEFINE u == up(r)
             b == u.bandwidth
             x == u.data
             s == u.since
  <2>1. r \in Record /\ u \in Record /\ n \in 1 .. MaxTasks
    BY <1>1, UpdatedType
  <2>2. /\ ev(r).id = u.id /\ u.id[1] = r.id[1]
        /\ u.id[2] = r.id[2] + 1 /\ r.id[2] \in Nat \ {0}
    BY <2>1, UpdatedType
  <2>3. b \in Nat \ {0} /\ x \in Int /\ s \in Int /\ x % b = 0
    BY <1>2, <2>1 DEF Record, WholeShares
  <2>4. ev(r).time = s + x \div b
    BY DEF EventOf
  <2>5. (ev(r).time - s) * b = x
    <3> HIDE DEF b, x, s
    <3> DEFINE q == x \div b
    <3>1. q * b = x /\ q \in Int
      BY <2>3, ExactQuotient
    <3> HIDE DEF q
    <3>2. (s + q) - s = q
      BY <2>3, <3>1
    <3> QED BY <2>4, <3>1, <3>2 DEF q
  <2>6. u.id[2] # 1
    <3> DEFINE k == r.id[2]
    <3>1. k \in Nat \ {0} /\ u.id[2] = k + 1
      BY <2>2
    <3> HIDE DEF k, u
    <3> QED BY <3>1
  <2> QED BY <2>2, <2>5, <2>6 DEF Late
<1> HIDE DEF O, up, ev, U, N
<1>4. ASSUME NEW r \in U, NEW e \in evs \cup N, e.id = r.id
      PROVE  Late(r, e)
  <2>1. ASSUME r \in recs \ O, e \in evs PROVE Late(r, e)
    BY <1>4, <2>1 DEF Timely
  <2>2. ASSUME r \in recs \ O, NEW q \in O PROVE e # ev(q)
    BY <1>1, <1>3, <1>4, <2>2 DEF OneRecordPerTask
  <2>3. ASSUME NEW q \in O, r = up(q), e \in evs PROVE FALSE
    <3>1. e.id[1] = q.id[1] /\ e.id[2] = q.id[2] + 1 /\ q.id[2] \in Nat
      BY <1>3, <1>4, <2>3
    <3>2. e.id[2] <= q.id[2]
      BY <1>1, <2>3, <3>1 DEF Linked
    <3> QED BY <3>1, <3>2
  <2>4. ASSUME NEW q \in O, r = up(q), NEW p \in O, e = ev(p)
        PROVE  Late(r, e)
    <3>1. p.id[1] = q.id[1]
      BY <1>3, <1>4, <2>4
    <3>2. p = q
      BY <1>1, <3>1 DEF OneRecordPerTask
    <3> QED BY <1>3, <2>4, <3>2
  <2> QED BY <1>2, <2>1, <2>2, <2>3, <2>4
<1>5. Timely(U, evs \cup N)
  BY <1>4 DEF Timely
<1> QED BY <1>5 DEF U, N

LEMMA StartedTimely ==
  ASSUME size \in [Task -> Sizes], NEW recs, NEW evs, NEW inv, Consistent(recs, evs, inv),
         NEW t, NEW n, NEW time, NEW noise, NEW r, NEW e, Starts(t, n, time, noise, r, e),
         \A d \in evs : d.id[1] # t, NoiseSteps = {0} => noise = 0,
         Timely(recs, evs), r.data % r.bandwidth = 0
  PROVE  Timely(With(recs, r), With(evs, e))
<1>1. r.id = <<t, 1>> /\ e.id = <<t, 1>> /\ <<t, 1>>[1] = t
  BY DEF Starts, NewRecord, FinishEvent
<1>2. \A q \in recs : q.id # <<t, 1>>
  BY <1>1 DEF Consistent, Linked
<1>3. Late(r, e)
  <2> DEFINE b == Bandwidth(n)
             s == size[t]
             d == Duration(t, n)
  <2>1. /\ r.bandwidth = b /\ r.data = s /\ r.since = time /\ e.time = time + d + noise
    BY DEF Starts, NewRecord, FinishEvent
  <2>2. /\ n * b = Capacity /\ b \in Nat \ {0} /\ n \in Nat \ {0} /\ Capacity \in Nat
    BY BandwidthExact, DeviceAssumption DEF Starts
  <2>3. s \in Nat /\ s % b = 0
    BY <2>1, DeviceAssumption DEF Starts
  <2>4. d * b = s /\ d \in Int
    <3> DEFINE q == s \div b
    <3>1. d = (n * s) \div Capacity
      BY DEF Duration
    <3> HIDE DEF b, s, d
    <3>2. q * b = s /\ q \in Int
      BY <2>2, <2>3, ExactQuotient
    <3> HIDE DEF q
    <3>3. n * s = Capacity * q
      <4>1. n * (q * b) = (n * b) * q
        BY <2>2, <3>2
      <4> QED BY <2>2, <3>2, <4>1
    <3>4. Capacity \in Nat \ {0}
      <4>1. n * b # 0
        BY <2>2
      <4> QED BY <2>2, <4>1
    <3>5. d = q
      BY <3>1, <3>2, <3>3, <3>4, QuotientOfProduct
    <3> QED BY <3>2, <3>5
  <2>5. noise \in Nat /\ time \in Int
    BY DEF Starts
  <2> HIDE DEF b, s, d
  <2>6. e.time - r.since = d + noise
    BY <2>1, <2>4, <2>5
  <2>7. (d + noise) * b = s + noise * b /\ noise * b >= 0
    <3>1. (d + noise) * b = d * b + noise * b
      BY <2>2, <2>4, <2>5
    <3>2. noise * b \in Nat
      BY <2>2, <2>5
    <3> QED BY <2>4, <3>1, <3>2
  <2>8. (e.time - r.since) * r.bandwidth = s + noise * b
    BY <2>1, <2>6, <2>7
  <2>9. NoiseSteps = {0} => s + noise * b = s
    BY <2>2, <2>3
  <2>10. s + noise * b >= s
    <3> DEFINE y == noise * b
    <3>1. y \in Int /\ y >= 0
      BY <2>2, <2>5, <2>7
    <3> HIDE DEF y
    <3> QED BY <2>3, <3>1 DEF y
  <2> QED BY <1>1, <2>1, <2>8, <2>9, <2>10 DEF Late
<1>4. ASSUME NEW q \in With(recs, r), NEW d \in With(evs, e), d.id = q.id
      PROVE  Late(q, d)
  <2>1. (q \in recs /\ d \in evs) \/ (q = r /\ d = e)
    BY <1>1, <1>2, <1>4 DEF With
  <2> QED BY <1>3, <1>4, <2>1 DEF Timely
<1> QED BY <1>4 DEF Timely

LEMMA NoNoise ==
  ASSUME NEW d \in Nat, NEW noise \in Noise(d), NoiseSteps = {0}
  PROVE  noise = 0
<1>1. noise = (d * 0) \div NoiseUnit
  BY DEF Noise
<1>2. NoiseUnit \in Nat \ {0} /\ d * 0 = NoiseUnit * 0
  BY DeviceAssumption
<1> QED BY <1>1, <1>2, QuotientOfProduct

(* A placed task takes a slot ...                                          *)
LEMMA PlaceStarts ==
  ASSUME DInv, NEW t \in Task, NEW time \in Int, PlaceNewTask(t, time),
         queue = << >> /\ ResourceAvailable(current)
  PROVE  /\ current + 1 \in 1 .. MaxTasks /\ time \in Int
         /\ \A d \in events : d.id[1] # t
         /\ \E noise, r, e :
              /\ noise \in Noise(Duration(t, current + 1))
              /\ Starts(t, current + 1, time, noise, r, e)
              /\ noisy' = (noisy \/ noise > 0)
              /\ Consistent(With(running, r), With(events, e), invalid)
              /\ running' = Renewed(With(running, r), current + 1, time)
              /\ events' = With(events, e) \cup NewEvents(With(running, r), current + 1, time)
<1> DEFINE n == current + 1
           new == NewRecord(t, n, time)
<1>1. /\ current \in Nat /\ MaxTasks \in Nat /\ time \in Int
      /\ size \in [Task -> Sizes] /\ Consistent(running, events, invalid)
  <2>1. current \in Nat
    BY FS_CardinalityType DEF DInv, Settled, Consistent
  <2> QED BY <2>1, DeviceAssumption DEF DInv, Settled
<1>2. n \in 1 .. MaxTasks
  BY <1>1 DEF ResourceAvailable
<1>3. \A d \in events : d.id[1] # t
  <2>1. StartedTasks \subseteq Range(arrived)
    BY LineRange DEF DInv, InQueue, StartedTasks
  <2> QED BY <2>1 DEF DInv, Settled, PlaceNewTask
<1>4. PICK noise \in Noise(Duration(t, n)) :
        /\ events' = events \cup {FinishEvent(t, n, time, noise)} \cup NewEvents(running, n, time)
        /\ noisy' = (noisy \/ noise > 0)
        /\ UpdateRunningTask(running \cup {new}, n, time)
  BY DEF PlaceNewTask
<1>5. noise \in Nat
  <2>1. 0 \in Nat /\ size \in [Task -> Sizes]
    BY <1>1
  <2> HIDE DEF n
  <2>2. Duration(t, n) \in Nat
    BY <1>1, <1>2, <2>1, NewRecordType
  <2> QED BY <2>2, NoiseType
<1> DEFINE fin == FinishEvent(t, n, time, noise)
<1>6. Starts(t, n, time, noise, new, fin)
  BY <1>1, <1>2, <1>5 DEF Starts
<1>7. OutOfDate(running \cup {new}, n) = OutOfDate(running, n)
  BY DEF OutOfDate, NewRecord
<1>8. /\ running' = Renewed(With(running, new), n, time)
      /\ events' = With(events, fin) \cup NewEvents(With(running, new), n, time)
  BY <1>4, <1>7 DEF UpdateRunningTask, Renewed, NewEvents, With
<1> HIDE DEF n, new, fin
<1>9. Consistent(With(running, new), With(events, fin), invalid)
  BY <1>1, <1>3, <1>6, StartedConsistent
<1> QED BY <1>1, <1>2, <1>3, <1>4, <1>6, <1>8, <1>9 DEF n

(* ... or waits, and a finish gives the slot to the first that waits ...   *)
LEMMA FinishStarts ==
  ASSUME DInv, NEW e, TaskFinish(e), queue # << >> /\ ResourceAvailable(current - 1)
  PROVE  /\ current \in 1 .. MaxTasks /\ Head(queue) \in Task /\ e.time \in Int
         /\ Consistent(Others(running, e), events \ {e}, invalid)
         /\ \A d \in events : d.id[1] # Head(queue)
         /\ \E noise, r, f :
              /\ noise \in Noise(Duration(Head(queue), current))
              /\ Starts(Head(queue), current, e.time, noise, r, f)
              /\ noisy' = (noisy \/ noise > 0)
              /\ running' = With(Others(running, e), r)
              /\ events' = With(events \ {e}, f)
<1> DEFINE t == Head(queue)
           rest == Others(running, e)
           new == NewRecord(t, current, e.time)
<1>1. /\ e \in events /\ e.id \notin invalid
      /\ size \in [Task -> Sizes] /\ Consistent(running, events, invalid) /\ InQueue
      /\ current = Cardinality(running) /\ current <= MaxTasks /\ MaxTasks \in Nat
      /\ \A r \in running : r.bandwidth = Bandwidth(current)
      /\ \A d \in events : d.id[1] \in StartedTasks
  BY DeviceAssumption DEF TaskFinish, IsNext, DInv, Settled
<1>2. /\ Consistent(rest, events \ {e}, invalid)
      /\ Cardinality(running) = Cardinality(rest) + 1 /\ Cardinality(rest) \in Nat
  BY <1>1, EndedConsistent
<1>3. current \in 1 .. MaxTasks /\ (current - 1) + 1 = current /\ e.time \in Int
  <2>1. e.time \in Int
    BY <1>1 DEF Consistent, Event
  <2> QED BY <1>1, <1>2, <2>1
<1>4. t \in Task /\ t \notin StartedTasks
  BY <1>1, FirstStarts DEF InQueue, StartedTasks
<1>5. PICK noise \in Noise(Duration(t, current)) :
        /\ events' = (events \ {e}) \cup {FinishEvent(t, current, e.time, noise)}
        /\ noisy' = (noisy \/ noise > 0)
        /\ UpdateRunningTask(rest \cup {new}, current, e.time)
  BY <1>3 DEF TaskFinish, Others
<1>6. noise \in Nat
  <2>1. 0 \in Nat
    OBVIOUS
  <2> HIDE DEF t
  <2>2. Duration(t, current) \in Nat
    BY <1>1, <1>3, <1>4, <2>1, NewRecordType
  <2> QED BY <2>2, NoiseType
<1>7. Starts(t, current, e.time, noise, new, FinishEvent(t, current, e.time, noise))
  BY <1>3, <1>4, <1>6 DEF Starts
<1>8. OutOfDate(rest \cup {new}, current) = {}
  BY <1>1 DEF OutOfDate, NewRecord, Others
<1>9. running' = rest \cup {new}
  BY <1>5, <1>8 DEF UpdateRunningTask
<1> QED BY <1>1, <1>2, <1>3, <1>4, <1>5, <1>7, <1>9 DEF With

(* ... or leaves its share to the others.                                  *)
LEMMA FinishEnds ==
  ASSUME DInv, NEW e, TaskFinish(e), ~(queue # << >> /\ ResourceAvailable(current - 1))
  PROVE  /\ current - 1 \in 1 .. MaxTasks \/ Others(running, e) = {}
         /\ e.time \in Int /\ noisy' = noisy
         /\ Consistent(Others(running, e), events \ {e}, invalid)
         /\ running' = Renewed(Others(running, e), current - 1, e.time)
         /\ events' = (events \ {e}) \cup NewEvents(Others(running, e), current - 1, e.time)
<1> DEFINE rest == Others(running, e)
<1>0. e \in events /\ e.id \notin invalid /\ Consistent(running, events, invalid)
  BY DEF TaskFinish, IsNext, DInv
<1>1. /\ Consistent(running, events, invalid) /\ e \in events
      /\ current = Cardinality(running) /\ current <= MaxTasks /\ MaxTasks \in Nat
  BY <1>0, DeviceAssumption DEF DInv, Settled
<1>2. /\ Consistent(rest, events \ {e}, invalid)
      /\ Cardinality(running) = Cardinality(rest) + 1 /\ Cardinality(rest) \in Nat
  <2>1. /\ Consistent(Others(running, e), events \ {e}, invalid)
        /\ Cardinality(running) = Cardinality(Others(running, e)) + 1
        /\ Cardinality(Others(running, e)) \in Nat
    <3> DEFINE evs == events
               recs == running
               inv == invalid
    <3>1. Consistent(recs, evs, inv) /\ e \in evs /\ e.id \notin inv
      BY <1>0
    <3> HIDE DEF evs, recs, inv
    <3>2. /\ Consistent(Others(recs, e), evs \ {e}, inv)
          /\ e.id[1] \in Task /\ e.id[1] \in TasksOf(recs)
          /\ TasksOf(recs) = TasksOf(Others(recs, e)) \cup {e.id[1]}
          /\ Cardinality(recs) = Cardinality(Others(recs, e)) + 1
          /\ Cardinality(Others(recs, e)) \in Nat
          /\ \A time : OnTime(recs, evs, time) => OnTime(Others(recs, e), evs \ {e}, time)
      BY <3>1, EndedConsistent
    <3> QED BY <3>2 DEF evs, recs, inv
  <2> QED BY <2>1
<1>3. e.time \in Int
  BY <1>1 DEF Consistent, Event
<1>4. current - 1 \in 1 .. MaxTasks \/ rest = {}
  <2>1. current - 1 = 0 => rest = {}
    BY <1>1, <1>2, FS_EmptySet DEF Consistent
  <2> QED BY <1>1, <1>2, <2>1
<1>5. /\ running' = Renewed(rest, current - 1, e.time)
      /\ events' = (events \ {e}) \cup NewEvents(rest, current - 1, e.time)
      /\ noisy' = noisy
  BY DEF TaskFinish, UpdateRunningTask, Renewed, Others
<1> QED BY <1>2, <1>3, <1>4, <1>5

LEMMA TimelyStep ==
  ASSUME DInv, EventOnTime, Exact', [Next]_vars
  PROVE  EventOnTime'
<1>1. Timely(running, events) /\ WholeShares(running') /\ size \in [Task -> Sizes]
      /\ Consistent(running, events, invalid)
  BY TimelyIs DEF Exact, WholeShares, DInv, Settled
<1>2. SUFFICES Timely(running', events')
  BY DEF EventOnTime, Timely, Late
(* A record whose share is up to date stays as it is.                      *)
<1>3. ASSUME NEW recs, NEW n, NEW time, NEW r \in recs, r.bandwidth = Bandwidth(n)
      PROVE  r \in Renewed(recs, n, time)
  BY <1>3 DEF Renewed, OutOfDate
<1>4. ASSUME NEW t \in Task, NEW time \in Int, PlaceNewTask(t, time)
      PROVE  Timely(running', events')
  <2>1. CASE queue = << >> /\ ResourceAvailable(current)
    <3> DEFINE n == current + 1
    <3>1. n \in 1 .. MaxTasks /\ time \in Int /\ \A d \in events : d.id[1] # t
      BY <1>4, <2>1, PlaceStarts
    <3>2. PICK noise, r, e :
            /\ noise \in Noise(Duration(t, n))
            /\ Starts(t, n, time, noise, r, e)
            /\ Consistent(With(running, r), With(events, e), invalid)
            /\ running' = Renewed(With(running, r), n, time)
            /\ events' = With(events, e) \cup NewEvents(With(running, r), n, time)
      BY <1>4, <2>1, PlaceStarts
    <3> HIDE DEF n
    <3>3. NoiseSteps = {0} => noise = 0
      <4>1. Duration(t, n) \in Nat
        <5>1. 0 \in Nat
          OBVIOUS
        <5> QED BY <1>1, <3>1, <5>1, NewRecordType
      <4> QED BY <3>2, <4>1, NoNoise
    <3>4. r.data % r.bandwidth = 0
      <4>1. r.bandwidth = Bandwidth(n) /\ r \in With(running, r)
        BY <3>2 DEF Starts, NewRecord, With
      <4>2. r \in running'
        BY <1>3, <3>2, <4>1
      <4> QED BY <1>1, <4>2 DEF WholeShares
    <3>5. Timely(With(running, r), With(events, e))
      BY <1>1, <3>1, <3>2, <3>3, <3>4, StartedTimely
    <3> QED BY <1>1, <3>1, <3>2, <3>5, RenewedTimely
  <2>2. CASE ~(queue = << >> /\ ResourceAvailable(current))
    <3>1. UNCHANGED <<running, events>>
      BY <1>4, <2>2 DEF PlaceNewTask
    <3> QED BY <1>1, <3>1
  <2> QED BY <2>1, <2>2
<1>5. ASSUME NEW e \in events, SkipInvalid(e) PROVE Timely(running', events')
  <2>1. events' \subseteq events /\ running' = running
    BY <1>5 DEF SkipInvalid
  <2> QED BY <1>1, <2>1 DEF Timely
<1>6. ASSUME NEW e \in events, TaskFinish(e) PROVE Timely(running', events')
  <2> DEFINE rest == Others(running, e)
  <2>1. Timely(rest, events \ {e})
    BY <1>1 DEF Timely, Others
  <2> HIDE DEF rest
  <2>2. CASE queue # << >> /\ ResourceAvailable(current - 1)
    <3> DEFINE t == Head(queue)
    <3>1. /\ current \in 1 .. MaxTasks /\ t \in Task /\ e.time \in Int
          /\ Consistent(rest, events \ {e}, invalid)
          /\ \A d \in events : d.id[1] # t
      BY <1>6, <2>2, FinishStarts DEF rest
    <3>2. PICK noise, r, f :
            /\ noise \in Noise(Duration(t, current))
            /\ Starts(t, current, e.time, noise, r, f)
            /\ running' = With(rest, r)
            /\ events' = With(events \ {e}, f)
      BY <1>6, <2>2, FinishStarts DEF rest
    <3> HIDE DEF t
    <3>3. NoiseSteps = {0} => noise = 0
      <4>1. Duration(t, current) \in Nat
        <5>1. 0 \in Nat
          OBVIOUS
        <5> QED BY <1>1, <3>1, <5>1, NewRecordType
      <4> QED BY <3>2, <4>1, NoNoise
    <3>4. r.data % r.bandwidth = 0
      <4>1. r \in running'
        BY <3>2 DEF With
      <4> QED BY <1>1, <4>1 DEF WholeShares
    <3>5. \A d \in events \ {e} : d.id[1] # t
      BY <3>1
    <3> DEFINE E == events \ {e}
    <3> HIDE DEF E
    <3>6. Timely(With(rest, r), With(E, f))
      BY <1>1, <2>1, <3>1, <3>2, <3>3, <3>4, <3>5, StartedTimely DEF E
    <3> QED BY <3>2, <3>6 DEF E
  <2>3. CASE ~(queue # << >> /\ ResourceAvailable(current - 1))
    <3>1. /\ current - 1 \in 1 .. MaxTasks \/ rest = {}
          /\ e.time \in Int
          /\ Consistent(rest, events \ {e}, invalid)
          /\ running' = Renewed(rest, current - 1, e.time)
          /\ events' = (events \ {e}) \cup NewEvents(rest, current - 1, e.time)
      BY <1>6, <2>3, FinishEnds DEF rest
    <3> QED BY <1>1, <2>1, <3>1, RenewedTimely
  <2> QED BY <2>2, <2>3
<1>7. CASE UNCHANGED vars
  BY <1>1, <1>7 DEF vars
<1> QED BY <1>4, <1>5, <1>6, <1>7 DEF Next, Arrive, Serve

(* If the divisions of a run are exact, as those of doubles are, every     *)
(* task is finished when its last byte is moved, however often its share   *)
(* changes and its event is replaced; noise delays only a first event      *)
(* (worker_disk.h, ComputeNewTaskDuration and UpdateRunningTask).          *)
THEOREM EventsAreOnTime == Spec /\ []Exact => []EventOnTime
<1>1. Init => EventOnTime
  BY DEF Init, EventOnTime
<1>2. DInv /\ EventOnTime /\ Exact' /\ [Next]_vars => EventOnTime'
  BY TimelyStep
<1> QED BY <1>1, <1>2, DeviceInvariant, PTL DEF Spec

-----------------------------------------------------------------------------
(* What the running tasks have moved, task by task: unlike the records,    *)
(* this does not change when the shares do.                                *)
MovedAt(r, time) == size[r.id[1]] - r.data + r.bandwidth * (time - r.since)
RecordOf(recs, t) == CHOOSE r \in recs : r.id[1] = t
MovedBy(recs, time) ==
  [t \in TasksOf(recs) |-> MovedAt(RecordOf(recs, t), time)]
Work(recs, time) == SumFunctionOnSet(MovedBy(recs, time), TasksOf(recs))

IsRecords(recs) ==
  /\ recs \subseteq Record
  /\ IsFiniteSet(recs)
  /\ OneRecordPerTask(recs)

LEMMA RecordOfIs ==
  ASSUME NEW recs, IsRecords(recs), NEW r \in recs
  PROVE  RecordOf(recs, r.id[1]) = r
BY DEF RecordOf, IsRecords, OneRecordPerTask

LEMMA SizeType ==
  ASSUME size \in [Task -> Sizes], NEW t \in Task
  PROVE  size[t] \in Nat
BY DeviceAssumption

LEMMA MovedAtType ==
  ASSUME size \in [Task -> Sizes], NEW r \in Record, NEW time \in Int
  PROVE  MovedAt(r, time) \in Int
<1>1. /\ r.id[1] \in Task
      /\ r.data \in Int /\ r.bandwidth \in Int /\ r.since \in Int
  BY DEF Record, EventId
<1>2. \A a, b, c, d \in Int : a - b + c * (time - d) \in Int
  OBVIOUS
<1>3. size[r.id[1]] \in Int
  BY <1>1, SizeType
<1> QED BY <1>1, <1>2, <1>3 DEF MovedAt

LEMMA TasksFinite ==
  ASSUME NEW recs, IsRecords(recs)
  PROVE  IsFiniteSet(TasksOf(recs)) /\ TasksOf(recs) \subseteq Task
         /\ Cardinality(TasksOf(recs)) = Cardinality(recs)
<1> DEFINE f == [r \in recs |-> r.id[1]]
<1>1. f \in Bijection(recs, TasksOf(recs))
  <2>1. f \in [recs -> TasksOf(recs)] /\ \A t \in TasksOf(recs) : \E r \in recs : f[r] = t
    BY DEF TasksOf
  <2>2. \A q, r \in recs : f[q] = f[r] => q = r
    BY DEF IsRecords, OneRecordPerTask
  <2> HIDE DEF f
  <2> QED BY <2>1, <2>2 DEF Bijection, Injection, Surjection, IsInjective
<1>2. ExistsBijection(recs, TasksOf(recs))
  BY <1>1 DEF ExistsBijection
<1>3. TasksOf(recs) \subseteq Task
  BY DEF TasksOf, IsRecords, Record, EventId
<1> QED BY <1>2, <1>3, FS_Bijection DEF IsRecords

LEMMA MovedByType ==
  ASSUME size \in [Task -> Sizes], NEW recs, IsRecords(recs), NEW time \in Int
  PROVE  /\ \A t \in TasksOf(recs) : MovedBy(recs, time)[t] \in Int
         /\ \A r \in recs : MovedBy(recs, time)[r.id[1]] = MovedAt(r, time)
         /\ Work(recs, time) \in Int
<1>1. \A r \in recs : r.id[1] \in TasksOf(recs)
  BY DEF TasksOf
<1>2. \A t \in TasksOf(recs) : \E r \in recs : t = r.id[1]
  BY DEF TasksOf
<1>3. \A r \in recs : MovedBy(recs, time)[r.id[1]] = MovedAt(r, time)
  BY <1>1, RecordOfIs DEF MovedBy
<1>4. \A r \in recs : MovedAt(r, time) \in Int
  BY MovedAtType DEF IsRecords
<1>5. \A t \in TasksOf(recs) : MovedBy(recs, time)[t] \in Int
  BY <1>2, <1>3, <1>4
<1>6. Work(recs, time) \in Int
  BY <1>5, TasksFinite, SumType DEF Work
<1> QED BY <1>3, <1>5, <1>6

LEMMA WorkIsSum ==
  ASSUME size \in [Task -> Sizes], NEW recs, IsRecords(recs), NEW time \in Int
  PROVE  SumFunctionOnSet([r \in recs |-> MovedAt(r, time)], recs) = Work(recs, time)
<1> DEFINE f == [r \in recs |-> MovedAt(r, time)]
           g == MovedBy(recs, time)
           h == [r \in recs |-> r.id[1]]
<1>1. \A r \in recs : f[r] = MovedAt(r, time) /\ h[r] = r.id[1]
  OBVIOUS
<1>2. \A r \in recs : g[r.id[1]] = MovedAt(r, time)
  BY MovedByType
<1>3. \A t \in TasksOf(recs) : g[t] \in Int
  BY MovedByType
<1>4. {h[r] : r \in recs} = TasksOf(recs)
  BY DEF TasksOf
<1>5. \A q, r \in recs : h[q] = h[r] => q = r
  BY <1>1 DEF IsRecords, OneRecordPerTask
<1>6. IsFiniteSet(recs)
  BY DEF IsRecords
<1> HIDE DEF f, g, h
<1>7. \A r \in recs : g[h[r]] \in Int /\ f[r] = g[h[r]]
  BY <1>1, <1>2, <1>3, <1>4
<1>8. SumFunctionOnSet(f, recs) = SumFunctionOnSet(g, {h[r] : r \in recs})
  BY <1>5, <1>6, <1>7, SumRenamed
<1> QED BY <1>4, <1>8 DEF f, g, Work

(* UpdateRunningTask moves nothing.                                        *)
LEMMA RenewedWork ==
  ASSUME size \in [Task -> Sizes], NEW recs, IsRecords(recs),
         NEW n, n \in 1 .. MaxTasks \/ recs = {}, NEW time \in Int
  PROVE  /\ IsRecords(Renewed(recs, n, time))
         /\ TasksOf(Renewed(recs, n, time)) = TasksOf(recs)
         /\ Work(Renewed(recs, n, time), time) = Work(recs, time)
<1> DEFINE U == Renewed(recs, n, time)
<1>1. IsRecords(U) /\ TasksOf(U) = TasksOf(recs)
  BY RenewedRecords DEF IsRecords
<1>2. ASSUME NEW r \in recs PROVE MovedBy(U, time)[r.id[1]] = MovedAt(r, time)
  <2>1. CASE r \in OutOfDate(recs, n)
    <3> DEFINE u == Updated(r, n, time)
    <3>1. u \in U /\ u.id[1] = r.id[1] /\ r \in Record /\ n \in 1 .. MaxTasks
      BY <1>2, <2>1, UpdatedType DEF Renewed, IsRecords
    <3>2. MovedAt(u, time) = MovedAt(r, time)
      <4> DEFINE s == size[r.id[1]]
                 b == r.bandwidth * (time - r.since)
                 c == Bandwidth(n)
      <4>1. u.data = r.data - b /\ u.bandwidth = c /\ u.since = time
        BY DEF Updated
      <4>2. s \in Int /\ r.data \in Int /\ b \in Int /\ c \in Int
        <5>1. r.bandwidth \in Int /\ r.since \in Int /\ r.data \in Int /\ r.id[1] \in Task
          BY <3>1 DEF Record, EventId
        <5>2. b \in Int
          BY <5>1
        <5>3. c \in Int
          BY <3>1, BandwidthType
        <5>4. s \in Int
          BY <5>1, SizeType
        <5> QED BY <5>1, <5>2, <5>3, <5>4
      <4>3. MovedAt(u, time) = s - u.data + c * (time - time)
        BY <3>1, <4>1 DEF MovedAt
      <4>4. MovedAt(r, time) = s - r.data + b
        BY DEF MovedAt
      <4> HIDE DEF s, b, c, u
      <4> QED BY <4>1, <4>2, <4>3, <4>4
    <3> HIDE DEF u, U
    <3> QED BY <1>1, <3>1, <3>2, MovedByType
  <2>2. CASE r \notin OutOfDate(recs, n)
    <3>1. r \in U
      BY <2>2 DEF Renewed
    <3> HIDE DEF U
    <3> QED BY <1>1, <3>1, MovedByType
  <2> QED BY <2>1, <2>2
<1>3. \A t \in TasksOf(recs) : MovedBy(U, time)[t] = MovedBy(recs, time)[t]
  <2>1. \A t \in TasksOf(recs) : \E r \in recs : t = r.id[1]
    BY DEF TasksOf
  <2>2. \A r \in recs : MovedBy(recs, time)[r.id[1]] = MovedAt(r, time)
    BY MovedByType
  <2> HIDE DEF U
  <2> QED BY <1>2, <2>1, <2>2
<1> HIDE DEF U
<1>4. Work(U, time) = Work(recs, time)
  BY <1>1, <1>3, TasksFinite, SumCongruence DEF Work
<1> QED BY <1>1, <1>4 DEF U

(* A task that starts has moved nothing yet.                               *)
LEMMA StartedWork ==
  ASSUME size \in [Task -> Sizes], NEW recs, IsRecords(recs),
         NEW t, NEW n, NEW time, NEW noise, NEW r, NEW e, Starts(t, n, time, noise, r, e),
         t \notin TasksOf(recs), IsRecords(With(recs, r))
  PROVE  /\ TasksOf(With(recs, r)) = TasksOf(recs) \cup {t}
         /\ Work(With(recs, r), time) = Work(recs, time)
<1> DEFINE U == With(recs, r)
<1>1. r.id = <<t, 1>> /\ <<t, 1>>[1] = t /\ r \in U /\ time \in Int
  BY DEF Starts, NewRecord, With
<1>2. TasksOf(U) = TasksOf(recs) \cup {t}
  BY <1>1 DEF TasksOf, With
<1>3. MovedAt(r, time) = 0
  <2>1. n \in 1 .. MaxTasks /\ t \in Task
    BY DEF Starts
  <2>2. Bandwidth(n) \in Int /\ size[t] \in Int
    BY <2>1, BandwidthType, SizeType
  <2>3. r.data = size[t] /\ r.bandwidth = Bandwidth(n) /\ r.since = time
    BY DEF Starts, NewRecord
  <2>4. MovedAt(r, time) = size[t] - size[t] + Bandwidth(n) * (time - time)
    BY <1>1, <2>3 DEF MovedAt
  <2> QED BY <1>1, <2>2, <2>4
<1>4. \A q \in recs : q \in U
  BY DEF With
<1> HIDE DEF U
<1>5. MovedBy(U, time)[t] = 0
  BY <1>1, <1>3, MovedByType DEF U
<1>6. \A x \in TasksOf(recs) : MovedBy(U, time)[x] = MovedBy(recs, time)[x]
  <2>1. \A x \in TasksOf(recs) : \E q \in recs : x = q.id[1]
    BY DEF TasksOf
  <2>2. \A q \in recs : MovedBy(recs, time)[q.id[1]] = MovedAt(q, time)
    BY <1>1, MovedByType
  <2>3. \A q \in recs : MovedBy(U, time)[q.id[1]] = MovedAt(q, time)
    BY <1>1, <1>4, MovedByType DEF U
  <2> QED BY <2>1, <2>2, <2>3
<1>7. Work(U, time) = Work(recs, time)
  <2> DEFINE g == MovedBy(U, time)
             T == TasksOf(U)
  <2>1. IsFiniteSet(T) /\ t \in T /\ T \ {t} = TasksOf(recs)
    BY <1>2, TasksFinite DEF U
  <2>2. \A x \in T : g[x] \in Int
    BY <1>1, MovedByType DEF U
  <2>3. Work(U, time) = SumFunctionOnSet(g, T)
    BY DEF Work
  <2> HIDE DEF g, T
  <2>4. SumFunctionOnSet(g, T) = g[t] + SumFunctionOnSet(g, T \ {t})
    BY <2>1, <2>2, SumRemove
  <2>5. SumFunctionOnSet(g, TasksOf(recs)) = Work(recs, time)
    BY <1>6, TasksFinite, SumCongruence DEF Work, g
  <2>6. Work(recs, time) \in Int
    BY <1>1, MovedByType
  <2>7. g[t] = 0
    BY <1>5 DEF g
  <2>8. Work(U, time) = g[t] + Work(recs, time)
    BY <2>1, <2>3, <2>4, <2>5, Zenon
  <2>9. \A x \in Int : 0 + x = x
    OBVIOUS
  <2> QED BY <2>6, <2>7, <2>8, <2>9, Zenon
<1> QED BY <1>2, <1>7 DEF U

(* A task that ends takes what it has moved with it.                       *)
LEMMA EndedWork ==
  ASSUME size \in [Task -> Sizes], NEW recs, IsRecords(recs), NEW time \in Int,
         NEW r \in recs, NEW e, e.id = r.id
  PROVE  /\ IsRecords(Others(recs, e))
         /\ TasksOf(Others(recs, e)) = TasksOf(recs) \ {r.id[1]}
         /\ Work(recs, time) = MovedAt(r, time) + Work(Others(recs, e), time)
<1> DEFINE U == Others(recs, e)
           t == r.id[1]
<1>1. U = recs \ {r}
  BY DEF Others, IsRecords, OneRecordPerTask
<1>2. IsRecords(U)
  BY <1>1, FS_Subset DEF IsRecords, OneRecordPerTask
<1>3. TasksOf(U) = TasksOf(recs) \ {t}
  BY <1>1 DEF TasksOf, IsRecords, OneRecordPerTask
<1> HIDE DEF U
<1>4. \A x \in TasksOf(U) : MovedBy(U, time)[x] = MovedBy(recs, time)[x]
  <2>1. \A x \in TasksOf(U) : \E q \in U : x = q.id[1]
    BY DEF TasksOf
  <2>2. \A q \in U : q \in recs
    BY <1>1
  <2>3. \A q \in recs : MovedBy(recs, time)[q.id[1]] = MovedAt(q, time)
    BY MovedByType
  <2>4. \A q \in U : MovedBy(U, time)[q.id[1]] = MovedAt(q, time)
    BY <1>2, MovedByType
  <2> QED BY <2>1, <2>2, <2>3, <2>4
<1>5. Work(recs, time) = MovedAt(r, time) + Work(U, time)
  <2> DEFINE g == MovedBy(recs, time)
             T == TasksOf(recs)
  <2>1. IsFiniteSet(T) /\ t \in T
    BY TasksFinite DEF TasksOf
  <2>2. (\A x \in T : g[x] \in Int) /\ g[t] = MovedAt(r, time)
    BY MovedByType
  <2>3. Work(recs, time) = SumFunctionOnSet(g, T)
    BY DEF Work
  <2>4. SumFunctionOnSet(g, TasksOf(U)) = Work(U, time)
    BY <1>2, <1>4, TasksFinite, SumCongruence DEF Work
  <2> HIDE DEF g, T
  <2>5. SumFunctionOnSet(g, T) = g[t] + SumFunctionOnSet(g, T \ {t})
    BY <2>1, <2>2, SumRemove
  <2> QED BY <1>3, <2>2, <2>3, <2>4, <2>5 DEF T
<1> QED BY <1>2, <1>3, <1>5 DEF U

(* As time goes by, the n tasks that run move n shares, which is all.      *)
LEMMA AdvancedWork ==
  ASSUME size \in [Task -> Sizes], NEW recs, IsRecords(recs),
         Cardinality(recs) <= MaxTasks,
         \A r \in recs : r.bandwidth = Bandwidth(Cardinality(recs)),
         NEW from \in Int, NEW time \in Int
  PROVE  Work(recs, time) = Work(recs, from)
                              + (IF recs = {} THEN 0 ELSE Capacity * (time - from))
<1>1. CASE recs = {}
  <2>1. TasksOf(recs) = {}
    BY <1>1 DEF TasksOf
  <2>2. Work(recs, time) = 0 /\ Work(recs, from) = 0
    BY <2>1, SumEmpty DEF Work
  <2> QED BY <1>1, <2>2
<1>2. CASE recs # {}
  <2> DEFINE n == Cardinality(recs)
             b == Bandwidth(n)
             c == b * (time - from)
             f == MovedBy(recs, time)
             g == MovedBy(recs, from)
             T == TasksOf(recs)
  <2>1. n \in 1 .. MaxTasks
    <3>1. n \in Nat /\ n # 0 /\ MaxTasks \in Nat
      BY <1>2, FS_CardinalityType, FS_EmptySet, DeviceAssumption DEF IsRecords
    <3> HIDE DEF n
    <3>2. n <= MaxTasks
      BY DEF n
    <3> QED BY <3>1, <3>2
  <2>2. n * b = Capacity /\ b \in Int /\ n \in Int
    BY <2>1, BandwidthExact
  <2>3. c \in Int
    <3> HIDE DEF b
    <3> QED BY <2>2
  <2>4. \A x \in T : g[x] \in Int /\ f[x] = g[x] + c
    <3> SUFFICES ASSUME NEW r \in recs
                 PROVE  g[r.id[1]] \in Int /\ f[r.id[1]] = g[r.id[1]] + c
      BY DEF TasksOf
    <3>1. g[r.id[1]] = MovedAt(r, from) /\ f[r.id[1]] = MovedAt(r, time)
      BY MovedByType
    <3>2. r.bandwidth = b /\ r \in Record
      BY DEF IsRecords
    <3> DEFINE s == size[r.id[1]]
               d == r.data
               i == r.since
    <3>3. s \in Int /\ d \in Int /\ i \in Int
      <4>1. r.id[1] \in Task /\ d \in Int /\ i \in Int
        BY <3>2 DEF Record, EventId
      <4> QED BY <4>1, SizeType
    <3>4. MovedAt(r, from) = s - d + b * (from - i) /\ MovedAt(r, time) = s - d + b * (time - i)
      BY <3>2 DEF MovedAt
    <3> HIDE DEF s, d, i, b, f, g
    <3>5. b * (time - i) = b * (from - i) + b * (time - from)
      BY <2>2, <3>3
    <3>6. b * (from - i) \in Int
      BY <2>2, <3>3
    <3> QED BY <2>3, <3>1, <3>3, <3>4, <3>5, <3>6
  <2>5. IsFiniteSet(T) /\ Cardinality(T) = n
    BY TasksFinite
  <2> HIDE DEF c, T, f, g
  <2>6. SumFunctionOnSet(f, T) = SumFunctionOnSet(g, T) + Cardinality(T) * c
    BY <2>3, <2>4, <2>5, SumShifted
  <2>7. n * c = Capacity * (time - from)
    <3> HIDE DEF n, b
    <3>1. n * (b * (time - from)) = (n * b) * (time - from)
      BY <2>2
    <3> QED BY <2>2, <3>1 DEF c
  <2> QED BY <1>2, <2>5, <2>6, <2>7 DEF Work, T, f, g
<1> QED BY <1>1, <1>2

Balances(moved, capacity, wasted) ==
  IF wasted THEN moved <= capacity ELSE moved = capacity

Done(tasks) == SumFunctionOnSet(size, tasks)
Apart == TasksOf(running) \cap Range(finished) = {}
WInv == Apart /\ WorkConserved

WorkIn(sizes, recs, time) ==
  SumFunctionOnSet([r \in recs |->
     sizes[r.id[1]] - r.data + r.bandwidth * (time - r.since)], recs)

LEMMA WorkConservedIs ==
  ASSUME DInv
  PROVE  WorkConserved <=> Balances(Done(Range(finished)) + Work(running, now),
                                    Capacity * busy, noisy)
<1>1. IsRecords(running) /\ size \in [Task -> Sizes] /\ now \in Int
  BY DEF DInv, Consistent, Settled, IsRecords
<1>2. SumFunctionOnSet([r \in running |-> MovedAt(r, now)], running) = Work(running, now)
  BY <1>1, WorkIsSum
<1>3. [r \in running |-> MovedAt(r, now)] = [r \in running |-> Moved(r)]
  BY DEF MovedAt, Moved
<1> QED BY <1>2, <1>3, Zenon DEF WorkConserved, Balances, Done

LEMMA WorkConservedNext ==
  ASSUME size' = size, size \in [Task -> Sizes], now' \in Int, IsRecords(running'),
         Balances(Done(Range(finished')) + Work(running', now'), Capacity * busy', noisy')
  PROVE  WorkConserved'
<1>1. SumFunctionOnSet([r \in running' |-> MovedAt(r, now')], running') = Work(running', now')
  BY WorkIsSum
<1>2. WorkIn(size, running', now') = Work(running', now')
  BY <1>1 DEF WorkIn, MovedAt
<1>3. WorkIn(size', running', now') = Work(running', now')
  BY <1>2, Zenon
<1>4. SumFunctionOnSet(size', Range(finished')) = Done(Range(finished'))
  BY Zenon DEF Done
<1>5. Balances(SumFunctionOnSet(size', Range(finished')) + WorkIn(size', running', now'),
               Capacity * busy', noisy')
  BY <1>3, <1>4, Zenon
<1> QED BY <1>5, Zenon DEF WorkConserved, WorkIn, Moved, Balances

LEMMA DoneType ==
  ASSUME size \in [Task -> Sizes], NEW tasks \in SUBSET Task
  PROVE  /\ Done(tasks) \in Int
         /\ \A t \in Task \ tasks : Done(tasks \cup {t}) = Done(tasks) + size[t]
<1>1. IsFiniteSet(tasks) /\ \A t \in tasks : size[t] \in Int
  BY SizeType, FS_Subset, DeviceAssumption
<1>2. Done(tasks) \in Int
  BY <1>1, SumType DEF Done
<1>3. ASSUME NEW t \in Task \ tasks PROVE Done(tasks \cup {t}) = Done(tasks) + size[t]
  <2> DEFINE T == tasks \cup {t}
  <2>1. IsFiniteSet(T) /\ t \in T /\ T \ {t} = tasks
    BY <1>1, FS_AddElement
  <2>2. \A x \in T : size[x] \in Int
    BY <1>1, SizeType
  <2> HIDE DEF T
  <2>3. SumFunctionOnSet(size, T) = size[t] + SumFunctionOnSet(size, T \ {t})
    BY <2>1, <2>2, SumRemove
  <2>4. Done(T) = size[t] + Done(tasks)
    BY <2>1, <2>3, Zenon DEF Done
  <2>5. size[t] \in Int
    BY <2>1, <2>2
  <2>6. \A a, b \in Int : a + b = b + a
    OBVIOUS
  <2>7. Done(T) = Done(tasks) + size[t]
    BY <1>2, <2>4, <2>5, <2>6, Zenon
  <2> QED BY <2>7 DEF T
<1> QED BY <1>2, <1>3

(* What the device can move and what it moves until the next event.        *)
LEMMA AdvancedBalance ==
  ASSUME DInv, WInv, NEW time \in Int, AdvanceTo(time)
  PROVE  /\ busy' \in Int
         /\ Balances(Done(Range(finished)) + Work(running, time), Capacity * busy', noisy)
         /\ Work(running, time) \in Int /\ Done(Range(finished)) \in Int
<1>1. /\ IsRecords(running) /\ size \in [Task -> Sizes] /\ now \in Int /\ busy \in Int
      /\ Cardinality(running) <= MaxTasks
      /\ \A r \in running : r.bandwidth = Bandwidth(Cardinality(running))
      /\ finished \in Seq(Task)
  BY DEF DInv, Consistent, Settled, IsRecords
<1> DEFINE done == Done(Range(finished))
           old == Work(running, now)
           new == Work(running, time)
           more == IF running = {} THEN 0 ELSE time - now
<1>2. new = old + (IF running = {} THEN 0 ELSE Capacity * (time - now))
  BY <1>1, AdvancedWork
<1>3. old \in Int /\ new \in Int
  BY <1>1, MovedByType
<1>4. done \in Int
  <2>1. Range(finished) \in SUBSET Task
    BY <1>1 DEF Range
  <2> QED BY <1>1, <2>1, DoneType
<1>5. Balances(done + old, Capacity * busy, noisy)
  BY WorkConservedIs DEF WInv
<1>6. busy' = busy + more /\ more \in Int /\ Capacity \in Int
  BY <1>1, DeviceAssumption DEF AdvanceTo
<1>7. new = old + Capacity * more
  BY <1>2, <1>3, <1>6
<1> HIDE DEF done, old, new, more
<1>8. Capacity * busy' = Capacity * busy + Capacity * more
  BY <1>1, <1>6
<1>9. busy' \in Int
  BY <1>1, <1>6
<1>10. Balances(done + new, Capacity * busy', noisy)
  <2> DEFINE c == Capacity * busy
             d == Capacity * more
  <2>1. c \in Int /\ d \in Int
    BY <1>1, <1>6
  <2>2. new = old + d /\ Capacity * busy' = c + d
    BY <1>7, <1>8
  <2> HIDE DEF c, d
  <2>3. noisy => done + old <= c
    BY <1>5 DEF Balances, c
  <2>4. ~noisy => done + old = c
    BY <1>5 DEF Balances, c
  <2> QED BY <1>3, <1>4, <2>1, <2>2, <2>3, <2>4 DEF Balances
<1> QED BY <1>3, <1>4, <1>9, <1>10 DEF done, new

LEMMA WorkPlaced ==
  ASSUME DInv, WInv, NEW t \in Task, NEW time \in Int, PlaceNewTask(t, time)
  PROVE  WInv'
<1>1. /\ size' = size /\ finished' = finished /\ now' = time /\ AdvanceTo(time)
      /\ t \notin Range(arrived)
  BY DEF PlaceNewTask, AdvanceTo
<1>2. /\ size \in [Task -> Sizes] /\ IsRecords(running) /\ time \in Int
      /\ Consistent(running, events, invalid)
      /\ StartedTasks = TasksOf(running) \cup Range(finished)
      /\ StartedTasks \subseteq Range(arrived)
  <2>1. StartedTasks \subseteq Range(arrived)
    BY LineRange DEF DInv, InQueue, StartedTasks
  <2> QED BY <2>1 DEF DInv, Consistent, Settled, IsRecords
<1>3. t \notin TasksOf(running) /\ t \notin Range(finished)
  BY <1>1, <1>2
<1>4. /\ Balances(Done(Range(finished)) + Work(running, time), Capacity * busy', noisy)
      /\ busy' \in Int /\ Work(running, time) \in Int /\ Done(Range(finished)) \in Int
  BY <1>1, <1>2, AdvancedBalance
<1>5. CASE queue = << >> /\ ResourceAvailable(current)
  <2> DEFINE n == current + 1
  <2>1. n \in 1 .. MaxTasks
    BY <1>5, PlaceStarts
  <2>2. PICK noise, r, e :
          /\ Starts(t, n, time, noise, r, e)
          /\ noisy' = (noisy \/ noise > 0)
          /\ Consistent(With(running, r), With(events, e), invalid)
          /\ running' = Renewed(With(running, r), n, time)
    BY <1>5, PlaceStarts
  <2> HIDE DEF n
  <2> DEFINE W == With(running, r)
  <2>3. IsRecords(W)
    BY <2>2 DEF Consistent, IsRecords
  <2>4. TasksOf(W) = TasksOf(running) \cup {t} /\ Work(W, time) = Work(running, time)
    BY <1>2, <1>3, <2>2, <2>3, StartedWork
  <2> HIDE DEF W
  <2>5. /\ IsRecords(running') /\ TasksOf(running') = TasksOf(W)
        /\ Work(running', time) = Work(W, time)
    BY <1>2, <2>1, <2>2, <2>3, RenewedWork DEF W
  <2>6. Apart'
    <3>1. TasksOf(running') \cap Range(finished') = {}
      BY <1>1, <1>3, <2>4, <2>5 DEF WInv, Apart
    <3> QED BY <3>1 DEF Apart, TasksOf
  <2>7. Balances(Done(Range(finished)) + Work(running, time), Capacity * busy', noisy')
    <3> DEFINE x == Done(Range(finished)) + Work(running, time)
               y == Capacity * busy'
    <3>1. x \in Int /\ y \in Int
      BY <1>4, DeviceAssumption
    <3>2. noisy => noisy'
      BY <2>2
    <3>3. Balances(x, y, noisy)
      BY <1>4
    <3> HIDE DEF x, y
    <3>4. x = y \/ (noisy /\ x <= y)
      BY <3>3, Zenon DEF Balances
    <3>5. x = y => x <= y
      BY <3>1
    <3>6. Balances(x, y, noisy')
      BY <3>2, <3>4, <3>5, Zenon DEF Balances
    <3> QED BY <3>6 DEF x, y
  <2>8. Balances(Done(Range(finished')) + Work(running', now'), Capacity * busy', noisy')
    BY <1>1, <2>4, <2>5, <2>7, Zenon
  <2>9. WorkConserved'
    BY <1>1, <1>2, <2>5, <2>8, WorkConservedNext
  <2> QED BY <2>6, <2>9 DEF WInv
<1>6. CASE ~(queue = << >> /\ ResourceAvailable(current))
  <2>1. running' = running /\ noisy' = noisy
    BY <1>6 DEF PlaceNewTask
  <2>2. Balances(Done(Range(finished')) + Work(running', now'), Capacity * busy', noisy')
    BY <1>1, <1>4, <2>1, Zenon
  <2>3. WorkConserved'
    BY <1>1, <1>2, <2>1, <2>2, WorkConservedNext
  <2>4. Apart'
    BY <1>1, <2>1 DEF WInv, Apart, TasksOf
  <2> QED BY <2>3, <2>4 DEF WInv
<1> QED BY <1>5, <1>6

(* The task whose event comes has moved what it had to, or more than that  *)
(* if it had to wait for its first event because of the noise.             *)
LEMMA EndedMoved ==
  ASSUME DInv, EventOnTime, NEW e \in events, NEW r \in running, e.id = r.id
  PROVE  /\ MovedAt(r, e.time) \in Int
         /\ size[r.id[1]] <= MovedAt(r, e.time)
         /\ ~noisy => size[r.id[1]] = MovedAt(r, e.time)
<1>1. /\ r \in Record /\ e \in Event /\ size \in [Task -> Sizes]
      /\ r.id[1] \in Task
  BY DEF DInv, Consistent, Settled, Record, EventId
<1> DEFINE s == size[r.id[1]]
           d == r.data
           b == r.bandwidth
           i == r.since
           y == e.time
<1>2. s \in Int
  BY <1>1, SizeType
<1>3. d \in Int /\ b \in Int /\ i \in Int /\ y \in Int
  BY <1>1 DEF Record, Event
<1>4. (y - i) * b >= d
  <2>1. Late(r, e)
    BY TimelyIs DEF Timely
  <2>2. (y - i) * b >= d \/ (y - i) * b = d
    BY <2>1, Zenon DEF Late
  <2> HIDE DEF y, i, b, d
  <2> QED BY <1>3, <2>2
<1>5. ~noisy => b * (y - i) <= d
  BY DEF DInv, OnTime
<1>6. MovedAt(r, y) = s - d + b * (y - i)
  BY DEF MovedAt
<1> HIDE DEF s, d, b, i, y
<1>7. (y - i) * b = b * (y - i) /\ b * (y - i) \in Int
  BY <1>3
<1> DEFINE m == b * (y - i)
<1> HIDE DEF m
<1>8. m \in Int /\ m >= d /\ (~noisy => m <= d) /\ MovedAt(r, y) = s - d + m
  BY <1>4, <1>5, <1>6, <1>7 DEF m
<1>9. /\ MovedAt(r, y) \in Int /\ s <= MovedAt(r, y)
      /\ ~noisy => s = MovedAt(r, y)
  BY <1>2, <1>3, <1>8
<1> QED BY <1>9 DEF s, y

LEMMA WorkFinished ==
  ASSUME DInv, EventOnTime, WInv, NEW e \in events, TaskFinish(e)
  PROVE  WInv'
<1>1. /\ size' = size /\ finished' = Append(finished, e.id[1]) /\ now' = e.time
      /\ AdvanceTo(e.time) /\ e.id \notin invalid
  BY DEF TaskFinish, AdvanceTo
<1>2. /\ size \in [Task -> Sizes] /\ IsRecords(running) /\ e.time \in Int
      /\ Linked(running, events, invalid)
      /\ finished \in Seq(Task)
      /\ StartedTasks = TasksOf(running) \cup Range(finished)
  BY DEF DInv, Consistent, Settled, IsRecords, Event
<1>3. PICK r \in running : e.id = r.id
  BY <1>1, <1>2 DEF Linked
<1> DEFINE o == r.id[1]
           rest == Others(running, e)
           left == TasksOf(rest)
           time == e.time
           done == Done(Range(finished))
<1>4. o \in TasksOf(running) /\ o \in Task /\ o = e.id[1]
  BY <1>2, <1>3 DEF TasksOf, IsRecords, Record, EventId
<1>5. /\ IsRecords(rest) /\ left = TasksOf(running) \ {o}
      /\ Work(running, time) = MovedAt(r, time) + Work(rest, time)
  BY <1>2, <1>3, EndedWork
<1>6. /\ MovedAt(r, time) \in Int /\ size[o] <= MovedAt(r, time)
      /\ ~noisy => size[o] = MovedAt(r, time)
  BY <1>3, EndedMoved
<1>7. /\ Balances(done + Work(running, time), Capacity * busy', noisy)
      /\ busy' \in Int /\ done \in Int
  BY <1>1, <1>2, AdvancedBalance
<1>8. /\ Range(finished') = Range(finished) \cup {o}
      /\ Range(finished) \in SUBSET Task /\ o \notin Range(finished)
  <2>1. Range(finished') = Range(finished) \cup {o}
    BY <1>1, <1>2, <1>4, AppendElement
  <2>2. Range(finished) \in SUBSET Task
    BY <1>2 DEF Range
  <2> QED BY <1>4, <2>1, <2>2 DEF WInv, Apart
<1>9. Done(Range(finished')) = done + size[o]
  BY <1>2, <1>4, <1>8, DoneType
<1>10. Work(rest, time) \in Int /\ size[o] \in Int
  <2>1. size[o] \in Int
    BY <1>2, <1>4, SizeType
  <2> HIDE DEF rest, time
  <2>2. Work(rest, time) \in Int
    BY <1>2, <1>5, MovedByType DEF time
  <2> QED BY <2>1, <2>2
<1>11. Balances(Done(Range(finished')) + Work(rest, time), Capacity * busy', noisy)
  <2> DEFINE s == size[o]
             m == MovedAt(r, time)
             w == Work(rest, time)
             c == Capacity * busy'
  <2>1. c \in Int
    BY <1>7, DeviceAssumption
  <2>2. Balances(done + (m + w), c, noisy)
    BY <1>5, <1>7
  <2>3. /\ m \in Int /\ w \in Int /\ s \in Int /\ done \in Int
        /\ s <= m /\ (~noisy => s = m)
    BY <1>6, <1>7, <1>10
  <2> HIDE DEF s, m, w, c, done
  <2>4. noisy => done + (m + w) <= c
    BY <2>2 DEF Balances
  <2>5. ~noisy => done + (m + w) = c
    BY <2>2 DEF Balances
  <2>6. Balances((done + s) + w, c, noisy)
    BY <2>1, <2>3, <2>4, <2>5 DEF Balances
  <2> QED BY <1>9, <2>6 DEF s, w, c
(* What runs next has moved as much as those that are left.                *)
<1>12. /\ IsRecords(running') /\ Work(running', time) = Work(rest, time)
       /\ noisy => noisy'
       /\ \A t \in TasksOf(running') : t \in left \/ t \notin StartedTasks
  <2> HIDE DEF left, rest, time
  <2>1. CASE queue # << >> /\ ResourceAvailable(current - 1)
    <3> DEFINE t == Head(queue)
    <3>1. t \notin StartedTasks
      BY <2>1, FirstStarts DEF DInv, InQueue, StartedTasks
    <3>2. /\ Consistent(rest, events \ {e}, invalid)
          /\ \A d \in events \ {e} : d.id[1] # t
      BY <2>1, FinishStarts DEF rest
    <3>3. PICK noise, q, f :
            /\ Starts(t, current, time, noise, q, f)
            /\ noisy' = (noisy \/ noise > 0)
            /\ running' = With(rest, q)
      BY <2>1, FinishStarts DEF rest, time
    <3> HIDE DEF t
    <3> DEFINE E == events \ {e}
    <3> HIDE DEF E
    <3>4. Consistent(With(rest, q), With(E, f), invalid) /\ t \notin TasksOf(rest)
      BY <1>2, <3>2, <3>3, StartedConsistent DEF E
    <3>5. IsRecords(With(rest, q))
      BY <3>4 DEF Consistent, IsRecords
    <3>6. /\ TasksOf(With(rest, q)) = TasksOf(rest) \cup {t}
          /\ Work(With(rest, q), time) = Work(rest, time)
      BY <1>2, <1>5, <3>3, <3>4, <3>5, StartedWork
    <3> QED BY <3>1, <3>3, <3>5, <3>6 DEF left
  <2>2. CASE ~(queue # << >> /\ ResourceAvailable(current - 1))
    <3>1. /\ current - 1 \in 1 .. MaxTasks \/ rest = {}
          /\ noisy' = noisy
          /\ running' = Renewed(rest, current - 1, time)
      BY <2>2, FinishEnds DEF rest, time
    <3> DEFINE n == current - 1
    <3> HIDE DEF n
    <3>2. /\ IsRecords(running') /\ TasksOf(running') = TasksOf(rest)
          /\ Work(running', time) = Work(rest, time)
      BY <1>2, <1>5, <3>1, RenewedWork DEF n, time
    <3> QED BY <3>1, <3>2 DEF left
  <2> QED BY <2>1, <2>2
<1>13. Apart'
  <2>1. TasksOf(running') \cap Range(finished') = {}
    BY <1>2, <1>4, <1>5, <1>8, <1>12 DEF WInv, Apart
  <2> QED BY <2>1 DEF Apart, TasksOf
<1>14. Balances(Done(Range(finished')) + Work(running', now'), Capacity * busy', noisy')
  <2> DEFINE x == Done(Range(finished')) + Work(rest, time)
             y == Capacity * busy'
  <2>1. x \in Int /\ y \in Int
    BY <1>7, <1>9, <1>10, DeviceAssumption
  <2>2. Balances(x, y, noisy)
    BY <1>11
  <2>3. x = Done(Range(finished')) + Work(running', now')
    BY <1>1, <1>12, Zenon
  <2> HIDE DEF x, y
  <2>4. x = y \/ (noisy /\ x <= y)
    BY <2>2, Zenon DEF Balances
  <2>5. x = y => x <= y
    BY <2>1
  <2>6. Balances(x, y, noisy')
    BY <1>12, <2>4, <2>5, Zenon DEF Balances
  <2> QED BY <2>3, <2>6, Zenon DEF y
<1>15. now' \in Int
  BY <1>1, <1>2
<1>16. WorkConserved'
  BY <1>1, <1>2, <1>12, <1>14, <1>15, WorkConservedNext
<1> QED BY <1>13, <1>16 DEF WInv

LEMMA WorkInit == Init => WInv
<1> SUFFICES ASSUME Init PROVE WInv
  OBVIOUS
<1>1. running = {} /\ finished = << >> /\ busy = 0 /\ ~noisy
  BY DEF Init
<1>2. Range(finished) = {} /\ TasksOf(running) = {}
  BY <1>1 DEF Range, TasksOf
<1>3. SumFunctionOnSet(size, Range(finished)) = 0
  BY <1>2, SumEmpty
<1>4. SumFunctionOnSet([r \in running |-> Moved(r)], running) = 0
  BY <1>1, SumEmpty
<1>5. Capacity * busy = 0
  BY <1>1, DeviceAssumption
<1>6. WorkConserved
  BY <1>1, <1>3, <1>4, <1>5 DEF WorkConserved
<1> QED BY <1>2, <1>6 DEF WInv, Apart

LEMMA WorkStep ==
  ASSUME DInv, EventOnTime, WInv, [Next]_vars
  PROVE  WInv'
<1>1. ASSUME NEW e \in events, SkipInvalid(e) PROVE WInv'
  <2>1. UNCHANGED <<size, now, running, finished, busy, noisy>>
    BY <1>1 DEF SkipInvalid
  <2> QED BY <2>1 DEF WInv, Apart, TasksOf, WorkConserved, Moved
<1>2. CASE UNCHANGED vars
  BY <1>2 DEF vars, WInv, Apart, TasksOf, WorkConserved, Moved
<1> QED BY <1>1, <1>2, WorkPlaced, WorkFinished DEF Next, Arrive, Serve

(* As long as there was no noise the device moves data at its full         *)
(* bandwidth whenever a task runs, and never more than that: the changes   *)
(* of the shares in UpdateRunningTask lose nothing and count nothing       *)
(* twice, if the divisions are exact.                                      *)
THEOREM WorkIsConserved == Spec /\ []Exact => []WorkConserved
<1>1. WInv => WorkConserved
  BY DEF WInv
<1> QED BY <1>1, WorkInit, WorkStep, DeviceInvariant, EventsAreOnTime, PTL DEF Spec

=============================================================================

-------------------------- MODULE JobManagerProofs --------------------------
(***************************************************************************)
(* The safety of JobManager for every job, of any size and shape: the      *)
(* counters of the code count what they are meant to count, and from that  *)
(* it follows that no task is handed out twice, too early, or never.       *)
(***************************************************************************)
EXTENDS JobManager, Foundations, FiniteSetTheorems, TLAPS

-----------------------------------------------------------------------------
(* The inductive invariant.                                                *)

Done == {t \in Task : finished[t] > 0}

(* A task has been handed out exactly if its subgraph is placed and its    *)
(* parents have finished.                                                  *)
HandedOut ==
  \A t \in Task :
     placed[t] = IF workerId[job.sg[t]] # NoWorker /\ Parents(job, t) \subseteq Done
                 THEN <<workerId[job.sg[t]]>> ELSE << >>

FinishedWasPlaced == \A t \in Task : finished[t] <= Len(placed[t])

DepsCounted ==
  \A t \in Task : depFinish[t] = Cardinality(Parents(job, t) \cap Done)

RequestsCounted ==
  /\ \A s \in SubGraph :
        reqs[s] = IF s \in requested /\ workerId[s] = NoWorker THEN 1 ELSE 0
  /\ \A s \in SubGraph : workerId[s] # NoWorker => s \in requested
  /\ ~admitted => requested = {}

TasksCounted ==
  \A s \in SubGraph :
     sgFinishedTask[s] = Cardinality(TasksOf(job, s) \cap Done)

CompleteSubGraphs ==
  {s \in SubGraphsOf(job) : TasksOf(job, s) \subseteq Done}

SubGraphsCounted == finishSubgraphNum = Cardinality(CompleteSubGraphs)

IInv ==
  /\ TypeOK
  /\ HandedOut
  /\ FinishedWasPlaced
  /\ DepsCounted
  /\ RequestsCounted
  /\ TasksCounted
  /\ SubGraphsCounted
  /\ JobFinishExact

-----------------------------------------------------------------------------
(* Counting the elements of a finite set that have been ticked off.        *)

(* One more element of S is ticked off: the counter grows by one, and it   *)
(* reaches the size of S exactly if nothing is left (the tests that        *)
(* compare dep_finish_counter_ and subgraph_finished_task_ after ++).      *)
LEMMA CountNext ==
  ASSUME NEW S, IsFiniteSet(S), NEW D, NEW x \in S, x \notin D
  PROVE  /\ Cardinality(S) \in Nat
         /\ Cardinality(S \cap D) \in Nat
         /\ Cardinality(S \cap (D \cup {x})) = Cardinality(S \cap D) + 1
         /\ Cardinality(S \cap D) + 1 = Cardinality(S) <=> S \subseteq D \cup {x}
<1>1. /\ IsFiniteSet(S \cap D) /\ IsFiniteSet(S \cap (D \cup {x}))
  BY FS_Intersection
<1>2. S \cap (D \cup {x}) = (S \cap D) \cup {x}
  OBVIOUS
<1>3. Cardinality(S \cap (D \cup {x})) = Cardinality(S \cap D) + 1
  BY <1>1, <1>2, FS_AddElement
<1>4. Cardinality(S) \in Nat /\ Cardinality(S \cap D) \in Nat
  BY <1>1, FS_CardinalityType
<1>5. ASSUME Cardinality(S \cap (D \cup {x})) = Cardinality(S)
      PROVE  S \subseteq D \cup {x}
  <2>1. S \cap (D \cup {x}) \in SUBSET S
    OBVIOUS
  <2>2. S = S \cap (D \cup {x})
    BY <2>1, <1>5, FS_Subset
  <2> QED BY <2>2
<1>6. ASSUME S \subseteq D \cup {x}
      PROVE  S \cap (D \cup {x}) = S
  BY <1>6
<1> QED BY <1>3, <1>4, <1>5, <1>6

(* A counter equals the size of the set exactly if all is ticked off.      *)
LEMMA CountAll ==
  ASSUME NEW S, IsFiniteSet(S), NEW D
  PROVE  Cardinality(S \cap D) = Cardinality(S) <=> S \subseteq D
<1>1. S \cap D \in SUBSET S
  OBVIOUS
<1>2. Cardinality(S \cap D) = Cardinality(S) => S = S \cap D
  BY <1>1, FS_Subset
<1>3. S \subseteq D => S \cap D = S
  OBVIOUS
<1> QED BY <1>2, <1>3

(* The sets the counters of the code range over are finite.                *)
LEMMA FiniteParts ==
  ASSUME NEW j
  PROVE  /\ \A t \in Task : IsFiniteSet(Parents(j, t))
         /\ \A s \in SubGraph : IsFiniteSet(TasksOf(j, s))
         /\ IsFiniteSet(SubGraphsOf(j))
<1>1. \A t \in Task : Parents(j, t) \in SUBSET Task
  BY DEF Parents
<1>2. \A s \in SubGraph : TasksOf(j, s) \in SUBSET Task
  BY DEF TasksOf
<1>3. IsFiniteSet(SubGraphsOf(j))
  <2> DEFINE f == [t \in Task |-> j.sg[t]]
  <2>1. f \in Surjection(Task, SubGraphsOf(j))
    BY DEF Surjection, SubGraphsOf
  <2> QED BY <2>1, TaskAssumption, FS_Surjection
<1> QED BY <1>1, <1>2, <1>3, TaskAssumption, FS_Subset

-----------------------------------------------------------------------------
(* Consequences of the invariant used in several steps.                    *)

(* The counter tests of the code decide what they are meant to decide.     *)
LEMMA TestsAreExact ==
  ASSUME IInv
  PROVE  /\ \A t \in Task : Satisfied(t) <=> Parents(job, t) \subseteq Done
         /\ \A t \in Task : finished[t] < Len(placed[t]) =>
              /\ t \notin Done
              /\ finished[t] = 0
              /\ workerId[job.sg[t]] # NoWorker
              /\ Parents(job, t) \subseteq Done
              /\ placed[t] = <<workerId[job.sg[t]]>>
         /\ \A t \in Task : t \in Done => placed[t] # << >>
<1>1. \A t \in Task : Satisfied(t) <=> Parents(job, t) \subseteq Done
  BY FiniteParts, CountAll DEF IInv, DepsCounted, Satisfied, DepCounter
<1>2. ASSUME NEW t \in Task, finished[t] < Len(placed[t])
      PROVE  /\ t \notin Done
             /\ finished[t] = 0
             /\ workerId[job.sg[t]] # NoWorker
             /\ Parents(job, t) \subseteq Done
             /\ placed[t] = <<workerId[job.sg[t]]>>
  <2>1. finished[t] \in Nat
    BY DEF IInv, TypeOK
  <2>2. placed[t] # << >>
    BY <1>2, <2>1
  <2>3. /\ workerId[job.sg[t]] # NoWorker
        /\ Parents(job, t) \subseteq Done
        /\ placed[t] = <<workerId[job.sg[t]]>>
    BY <2>2 DEF IInv, HandedOut
  <2>4. finished[t] = 0
    BY <2>1, <2>3, <1>2
  <2> QED BY <2>3, <2>4 DEF Done
<1>3. ASSUME NEW t \in Task, t \in Done
      PROVE  placed[t] # << >>
  BY <1>3 DEF IInv, TypeOK, FinishedWasPlaced, Done
<1> QED BY <1>1, <1>2, <1>3

-----------------------------------------------------------------------------
(* The invariant holds initially.                                          *)

LEMMA InitInvariant == Init => IInv
<1> SUFFICES ASSUME Init PROVE IInv
  OBVIOUS
<1>1. IsJob(job)
  BY JobsAssumption DEF Init
<1>2. Done = {}
  BY DEF Init, Done
<1>3. TypeOK
  <2>1. placed \in [Task -> Seq(Worker)]
    <3>1. << >> \in Seq(Worker)
      OBVIOUS
    <3> QED BY <3>1 DEF Init
  <2> QED BY <1>1, <2>1 DEF Init, TypeOK
<1>4. HandedOut /\ FinishedWasPlaced
  <2>1. \A t \in Task : placed[t] = << >> /\ finished[t] = 0
                          /\ workerId[job.sg[t]] = NoWorker
    BY <1>1 DEF Init, IsJob
  <2>2. Len(<< >>) = 0
    OBVIOUS
  <2> QED BY <2>1, <2>2 DEF HandedOut, FinishedWasPlaced
<1>5. DepsCounted /\ TasksCounted
  <2>1. \A S : Cardinality(S \cap Done) = 0
    BY <1>2, FS_EmptySet
  <2> QED BY <2>1, <1>1 DEF Init, DepsCounted, TasksCounted
<1>6. RequestsCounted
  BY DEF Init, RequestsCounted
<1>7. SubGraphsCounted
  <2>1. CompleteSubGraphs = {}
    BY <1>2 DEF CompleteSubGraphs, SubGraphsOf, TasksOf
  <2> QED BY <2>1, FS_EmptySet DEF Init, SubGraphsCounted
<1>8. JobFinishExact
  BY TaskAssumption DEF Init, JobFinishExact
<1> QED BY <1>3, <1>4, <1>5, <1>6, <1>7, <1>8 DEF IInv

-----------------------------------------------------------------------------
(* The admission sends the first requests and touches nothing else.        *)
LEMMA AdmissionInvariant == IInv /\ JobAdmission => IInv'
<1> SUFFICES ASSUME IInv, JobAdmission PROVE IInv'
  OBVIOUS
<1> USE DEF JobAdmission, SendRequests
<1>1. Done' = Done
  BY DEF Done
<1>2. TypeOK'
  BY DEF IInv, TypeOK
<1>3. HandedOut' /\ FinishedWasPlaced'
  BY <1>1 DEF IInv, HandedOut, FinishedWasPlaced
<1>4. DepsCounted' /\ TasksCounted'
  BY <1>1 DEF IInv, DepsCounted, TasksCounted
<1>5. RequestsCounted'
  <2>1. requested = {} /\ \A s \in SubGraph : reqs[s] = 0 /\ workerId[s] = NoWorker
    BY DEF IInv, RequestsCounted
  <2> QED BY <2>1 DEF IInv, RequestsCounted
<1>6. SubGraphsCounted'
  BY <1>1 DEF IInv, SubGraphsCounted, CompleteSubGraphs
<1>7. JobFinishExact'
  BY DEF IInv, JobFinishExact
<1> QED BY <1>2, <1>3, <1>4, <1>5, <1>6, <1>7 DEF IInv

(* A placement hands out the ready tasks of a subgraph none of whose tasks *)
(* was with a worker.                                                      *)
LEMMA PlacementInvariant ==
  ASSUME IInv, NEW s \in SubGraph, NEW w \in Worker, PlacementDecision(s, w)
  PROVE  IInv'
<1> USE DEF PlacementDecision
<1>1. Done' = Done
  BY DEF Done
<1>2. s \in requested /\ workerId[s] = NoWorker /\ reqs[s] = 1
  BY DEF IInv, RequestsCounted
<1>3. /\ workerId' \in [SubGraph -> Worker \cup {NoWorker}]
      /\ workerId'[s] = w
      /\ \A r \in SubGraph : r # s => workerId'[r] = workerId[r]
      /\ w # NoWorker
  BY WorkerAssumption DEF IInv, TypeOK
<1>4. /\ job.sg \in [Task -> SubGraph]
      /\ placed \in [Task -> Seq(Worker)]
      /\ IsJob(job)
  BY DEF IInv, TypeOK, IsJob
<1>5. \A t \in Task : placed'[t] =
        IF t \in TasksOf(job, s) /\ Satisfied(t)
        THEN Append(placed[t], workerId'[job.sg[t]]) ELSE placed[t]
  BY DEF PlaceTasks
<1>6. HandedOut'
  <2> SUFFICES ASSUME NEW t \in Task
               PROVE  placed'[t] =
                        IF workerId'[job.sg[t]] # NoWorker
                           /\ Parents(job, t) \subseteq Done
                        THEN <<workerId'[job.sg[t]]>> ELSE << >>
    BY <1>1 DEF HandedOut
  <2>1. CASE job.sg[t] = s
    <3>1. placed[t] = << >>
      BY <2>1, <1>2 DEF IInv, HandedOut
    <3>2. t \in TasksOf(job, s)
      BY <2>1 DEF TasksOf
    <3>3. Satisfied(t) <=> Parents(job, t) \subseteq Done
      BY TestsAreExact
    <3>4. Append(<< >>, w) = <<w>>
      OBVIOUS
    <3>5. placed'[t] = IF Satisfied(t) THEN <<w>> ELSE << >>
      BY <3>1, <3>2, <3>4, <2>1, <1>3, <1>5
    <3> QED BY <3>3, <3>5, <2>1, <1>3
  <2>2. CASE job.sg[t] # s
    <3>1. placed'[t] = placed[t]
      BY <2>2, <1>5 DEF TasksOf
    <3> QED BY <3>1, <2>2, <1>3, <1>4 DEF IInv, HandedOut
  <2> QED BY <2>1, <2>2
<1>7. placed' \in [Task -> Seq(Worker)]
  <2>1. \A t \in TasksOf(job, s) : workerId'[job.sg[t]] = w
    BY <1>3 DEF TasksOf
  <2>2. ASSUME NEW t \in Task PROVE placed'[t] \in Seq(Worker)
    <3>1. placed[t] \in Seq(Worker)
      BY <1>4
    <3>2. Append(placed[t], w) \in Seq(Worker)
      BY <3>1
    <3> QED BY <3>1, <3>2, <1>5, <2>1
  <2> QED BY <2>2 DEF PlaceTasks
<1>8. TypeOK'
  BY <1>2, <1>3, <1>4, <1>7 DEF IInv, TypeOK
<1>9. FinishedWasPlaced'
  <2> SUFFICES ASSUME NEW t \in Task
               PROVE  finished[t] <= Len(placed'[t])
    BY DEF FinishedWasPlaced
  <2>1. /\ placed[t] \in Seq(Worker)
        /\ Len(placed[t]) \in Nat
    BY <1>4
  <2>2. finished[t] \in Nat /\ finished[t] <= Len(placed[t])
    BY DEF IInv, FinishedWasPlaced, TypeOK
  <2>3. Len(Append(placed[t], w)) = Len(placed[t]) + 1
    BY <2>1
  <2>4. placed'[t] \in {placed[t], Append(placed[t], w)}
    BY <1>3, <1>5 DEF TasksOf
  <2> QED BY <2>1, <2>2, <2>3, <2>4
<1>10. DepsCounted' /\ TasksCounted' /\ SubGraphsCounted' /\ JobFinishExact'
  BY <1>1 DEF IInv, DepsCounted, TasksCounted, SubGraphsCounted,
              CompleteSubGraphs, JobFinishExact
<1>11. RequestsCounted'
  <2>1. admitted' = admitted /\ requested' = requested
    OBVIOUS
  <2>2. \A r \in SubGraph : reqs'[r] = IF r = s THEN 0 ELSE reqs[r]
    BY <1>2 DEF IInv, TypeOK
  <2> QED BY <2>1, <2>2, <1>2, <1>3 DEF IInv, RequestsCounted
<1> QED BY <1>6, <1>8, <1>9, <1>10, <1>11 DEF IInv

-----------------------------------------------------------------------------
(* What a TASK_FINISH does, in terms of the finished tasks rather than of  *)
(* the counters.                                                           *)
LEMMA FinishEffect ==
  ASSUME IInv, NEW t \in Task, TaskFinish(t)
  PROVE  /\ t \notin Done
         /\ Done' = Done \cup {t}
         /\ finished' = [finished EXCEPT ![t] = 1]
         /\ \A c \in Task :
               LastParent(c) /\ c \in ChildSet(job, t)
                 <=> /\ t \in Parents(job, c)
                     /\ Parents(job, c) \subseteq Done'
         /\ \A c \in Task : t \in Parents(job, c) => placed[c] = << >>
         /\ \A c \in Task : t \in Parents(job, c) <=> c \in ChildSet(job, t)
<1>1. t \notin Done /\ finished[t] = 0
  BY TestsAreExact DEF TaskFinish
<1>2. finished' = [finished EXCEPT ![t] = 1]
  BY <1>1 DEF TaskFinish, CountFinished
<1>3. Done' = Done \cup {t}
  BY <1>2 DEF Done, IInv, TypeOK
<1>4. \A c \in Task : t \in Parents(job, c) <=> c \in ChildSet(job, t)
  BY DEF Parents
<1>5. ASSUME NEW c \in Task, t \in Parents(job, c)
      PROVE  /\ LastParent(c) <=> Parents(job, c) \subseteq Done'
             /\ placed[c] = << >>
  <2>1. IsFiniteSet(Parents(job, c))
    BY FiniteParts
  <2>2. Cardinality(Parents(job, c) \cap Done) + 1 = Cardinality(Parents(job, c))
          <=> Parents(job, c) \subseteq Done \cup {t}
    BY <2>1, <1>1, <1>5, CountNext
  <2>3. depFinish[c] = Cardinality(Parents(job, c) \cap Done)
    BY DEF IInv, DepsCounted
  <2>4. placed[c] = << >>
    BY <1>1, <1>5 DEF IInv, HandedOut
  <2> QED BY <2>2, <2>3, <2>4, <1>3 DEF LastParent, DepCounter
<1> QED BY <1>1, <1>2, <1>3, <1>4, <1>5

(* The tasks handed out by a TASK_FINISH are those it made ready.          *)
LEMMA FinishHandsOut ==
  ASSUME IInv, NEW t \in Task, TaskFinish(t)
  PROVE  /\ \A c \in ChildrenToPlace(t) :
               /\ c \in Task
               /\ t \in Parents(job, c)
               /\ Parents(job, c) \subseteq Done'
               /\ workerId[job.sg[c]] \in Worker
               /\ placed[c] = << >>
               /\ placed'[c] = <<workerId[job.sg[c]]>>
         /\ \A c \in Task \ ChildrenToPlace(t) : placed'[c] = placed[c]
         /\ HandedOut'
         /\ placed' \in [Task -> Seq(Worker)]
<1>1. /\ job.sg \in [Task -> SubGraph]
      /\ workerId \in [SubGraph -> Worker \cup {NoWorker}]
      /\ placed \in [Task -> Seq(Worker)]
      /\ IsJob(job)
  BY DEF IInv, TypeOK, IsJob
<1>2. ChildSet(job, t) \subseteq Task
  <2>1. job.children[t] \in Seq(Task)
    BY <1>1 DEF IsJob
  <2> QED BY <2>1 DEF ChildSet, Range
<1>3. workerId' = workerId /\ job' = job
  BY DEF TaskFinish
<1>4. \A c \in Task : placed'[c] =
        IF c \in ChildrenToPlace(t) THEN Append(placed[c], workerId[job.sg[c]])
                                    ELSE placed[c]
  BY DEF TaskFinish, PlaceTasks
<1>5. ASSUME NEW c \in ChildrenToPlace(t)
      PROVE  /\ c \in Task
             /\ t \in Parents(job, c)
             /\ Parents(job, c) \subseteq Done'
             /\ workerId[job.sg[c]] \in Worker
             /\ placed[c] = << >>
             /\ placed'[c] = <<workerId[job.sg[c]]>>
  <2>1. /\ c \in Task /\ c \in ChildSet(job, t) /\ LastParent(c)
        /\ workerId[job.sg[c]] \in Worker
    BY <1>1, <1>2 DEF ChildrenToPlace
  <2>2. t \in Parents(job, c) /\ Parents(job, c) \subseteq Done' /\ placed[c] = << >>
    BY <2>1, FinishEffect
  <2>3. Append(<< >>, workerId[job.sg[c]]) = <<workerId[job.sg[c]]>>
    OBVIOUS
  <2> QED BY <2>1, <2>2, <2>3, <1>4
<1>6. HandedOut'
  <2> SUFFICES ASSUME NEW c \in Task
               PROVE  placed'[c] =
                        IF workerId[job.sg[c]] # NoWorker
                           /\ Parents(job, c) \subseteq Done'
                        THEN <<workerId[job.sg[c]]>> ELSE << >>
    BY <1>3 DEF HandedOut, Parents, ChildSet
  <2>1. CASE c \in ChildrenToPlace(t)
    BY <2>1, <1>5, WorkerAssumption
  <2>2. CASE c \notin ChildrenToPlace(t) /\ t \in Parents(job, c)
    <3>1. placed'[c] = << >>
      BY <2>2, <1>4, FinishEffect
    <3>2. workerId[job.sg[c]] # NoWorker => ~(Parents(job, c) \subseteq Done')
      BY <2>2, FinishEffect DEF ChildrenToPlace
    <3> QED BY <3>1, <3>2
  <2>3. CASE t \notin Parents(job, c)
    <3>1. c \notin ChildrenToPlace(t)
      BY <2>3, <1>5
    <3>2. Parents(job, c) \subseteq Done' <=> Parents(job, c) \subseteq Done
      BY <2>3, FinishEffect
    <3> QED BY <3>1, <3>2, <1>4 DEF IInv, HandedOut
  <2> QED BY <2>1, <2>2, <2>3
<1>7. placed' \in [Task -> Seq(Worker)]
  <2>1. ASSUME NEW c \in Task PROVE placed'[c] \in Seq(Worker)
    <3>1. CASE c \in ChildrenToPlace(t)
      <4>1. \A w \in Worker : <<w>> \in Seq(Worker)
        OBVIOUS
      <4> QED BY <4>1, <3>1, <1>5
    <3>2. CASE c \notin ChildrenToPlace(t)
      BY <3>2, <1>4, <1>1
    <3> QED BY <3>1, <3>2
  <2> QED BY <2>1 DEF TaskFinish, PlaceTasks
<1> QED BY <1>4, <1>5, <1>6, <1>7

(* What a TASK_FINISH counts for its subgraph and its job is exact.        *)
LEMMA FinishCounts ==
  ASSUME IInv, NEW t \in Task, TaskFinish(t)
  PROVE  DepsCounted' /\ TasksCounted' /\ SubGraphsCounted' /\ JobFinishExact'
<1>1. /\ job.sg \in [Task -> SubGraph]
      /\ job.sg[t] \in SubGraph
      /\ depFinish \in [Task -> Nat]
      /\ sgFinishedTask \in [SubGraph -> Nat]
      /\ job' = job
  BY DEF IInv, TypeOK, IsJob, TaskFinish
<1>2. t \notin Done /\ Done' = Done \cup {t}
  BY FinishEffect
<1>3. DepsCounted'
  <2> SUFFICES ASSUME NEW c \in Task
               PROVE  depFinish'[c] = Cardinality(Parents(job, c) \cap Done')
    BY <1>1 DEF DepsCounted, Parents, ChildSet
  <2>1. depFinish[c] = Cardinality(Parents(job, c) \cap Done)
    BY DEF IInv, DepsCounted
  <2>2. depFinish'[c] = IF c \in ChildSet(job, t) THEN depFinish[c] + 1
                                                  ELSE depFinish[c]
    BY DEF TaskFinish, CountChildren
  <2>3. CASE t \in Parents(job, c)
    <3>1. Cardinality(Parents(job, c) \cap Done')
            = Cardinality(Parents(job, c) \cap Done) + 1
      BY <2>3, <1>2, FiniteParts, CountNext
    <3> QED BY <3>1, <2>1, <2>2, <2>3, FinishEffect
  <2>4. CASE t \notin Parents(job, c)
    <3>1. Parents(job, c) \cap Done' = Parents(job, c) \cap Done
      BY <2>4, <1>2
    <3> QED BY <3>1, <2>1, <2>2, <2>4, FinishEffect
  <2> QED BY <2>3, <2>4
<1> DEFINE home == job.sg[t]
<1>4. t \in TasksOf(job, home)
  BY DEF TasksOf
<1>5. IsFiniteSet(TasksOf(job, home))
  BY <1>1, FiniteParts
<1>6. sgFinishedTask[home] = Cardinality(TasksOf(job, home) \cap Done)
  BY <1>1 DEF IInv, TasksCounted
<1>7. CompletesSubGraph(t) <=> TasksOf(job, home) \subseteq Done'
  <2> DEFINE S == TasksOf(job, home)
  <2> HIDE DEF S
  <2>1. t \in S /\ IsFiniteSet(S)
    BY <1>4, <1>5 DEF S
  <2>2. Cardinality(S \cap Done) + 1 = Cardinality(S) <=> S \subseteq Done \cup {t}
    BY <2>1, <1>2, CountNext
  <2> QED BY <2>2, <1>2, <1>6 DEF CompletesSubGraph, S
<1>8. TasksCounted'
  <2> SUFFICES ASSUME NEW s \in SubGraph
               PROVE  sgFinishedTask'[s] = Cardinality(TasksOf(job, s) \cap Done')
    BY <1>1 DEF TasksCounted, TasksOf
  <2>1. sgFinishedTask' = [sgFinishedTask EXCEPT ![home] = @ + 1]
    BY DEF TaskFinish, CountFinished
  <2>2. CASE s = home
    <3>1. Cardinality(TasksOf(job, home) \cap Done')
            = Cardinality(TasksOf(job, home) \cap Done) + 1
      BY <1>2, <1>4, <1>5, CountNext
    <3> QED BY <3>1, <2>1, <2>2, <1>1, <1>6
  <2>3. CASE s # home
    <3>1. TasksOf(job, s) \cap Done' = TasksOf(job, s) \cap Done
      BY <2>3, <1>2 DEF TasksOf
    <3> QED BY <3>1, <2>1, <2>3, <1>1 DEF IInv, TasksCounted
  <2> QED BY <2>2, <2>3
<1>9. /\ home \in SubGraphsOf(job)
      /\ home \notin CompleteSubGraphs
      /\ SubGraphsOf(job)' = SubGraphsOf(job)
  BY <1>1, <1>2, <1>4 DEF SubGraphsOf, CompleteSubGraphs
<1>10. CompleteSubGraphs' = IF CompletesSubGraph(t)
                            THEN CompleteSubGraphs \cup {home}
                            ELSE CompleteSubGraphs
  <2>1. \A s : s # home =>
          (TasksOf(job, s) \subseteq Done' <=> TasksOf(job, s) \subseteq Done)
    BY <1>2 DEF TasksOf
  <2>2. CompleteSubGraphs' = {s \in SubGraphsOf(job) : TasksOf(job, s) \subseteq Done'}
    BY <1>1 DEF CompleteSubGraphs, SubGraphsOf, TasksOf
  <2> QED BY <2>1, <2>2, <1>7, <1>9 DEF CompleteSubGraphs
<1>11. /\ SubGraphsOf(job) \cap CompleteSubGraphs = CompleteSubGraphs
       /\ SubGraphsOf(job) \cap (CompleteSubGraphs \cup {home})
            = CompleteSubGraphs \cup {home}
  BY <1>9 DEF CompleteSubGraphs
<1>12. IsFiniteSet(SubGraphsOf(job))
  BY FiniteParts
<1>13. /\ Cardinality(CompleteSubGraphs) \in Nat
       /\ Cardinality(CompleteSubGraphs \cup {home})
            = Cardinality(CompleteSubGraphs) + 1
       /\ Cardinality(CompleteSubGraphs) + 1 = Cardinality(SubGraphsOf(job))
            <=> SubGraphsOf(job) \subseteq CompleteSubGraphs \cup {home}
  <2>1. \A D, x : x \in SubGraphsOf(job) /\ x \notin D =>
          /\ Cardinality(SubGraphsOf(job) \cap D) \in Nat
          /\ Cardinality(SubGraphsOf(job) \cap (D \cup {x}))
               = Cardinality(SubGraphsOf(job) \cap D) + 1
          /\ Cardinality(SubGraphsOf(job) \cap D) + 1 = Cardinality(SubGraphsOf(job))
               <=> SubGraphsOf(job) \subseteq D \cup {x}
    BY <1>12, CountNext
  <2>2. /\ Cardinality(SubGraphsOf(job) \cap CompleteSubGraphs) \in Nat
        /\ Cardinality(SubGraphsOf(job) \cap (CompleteSubGraphs \cup {home}))
             = Cardinality(SubGraphsOf(job) \cap CompleteSubGraphs) + 1
        /\ Cardinality(SubGraphsOf(job) \cap CompleteSubGraphs) + 1
             = Cardinality(SubGraphsOf(job))
             <=> SubGraphsOf(job) \subseteq CompleteSubGraphs \cup {home}
    BY <2>1, <1>9
  <2> QED BY <2>2, <1>11
<1>14. SubGraphsCounted'
  <2>1. finishSubgraphNum' = IF CompletesSubGraph(t) THEN finishSubgraphNum + 1
                                                     ELSE finishSubgraphNum
    BY DEF TaskFinish, CountFinished
  <2> QED BY <2>1, <1>10, <1>13 DEF IInv, SubGraphsCounted
<1>15. CompletesJob(t) <=> Done' = Task
  <2>1. CompletesJob(t) <=> SubGraphsOf(job) = CompleteSubGraphs'
    BY <1>10, <1>13, <1>9 DEF CompletesJob, IInv, SubGraphsCounted, CompleteSubGraphs
  <2>2. SubGraphsOf(job) = CompleteSubGraphs' <=> Task \subseteq Done'
    <3>1. CompleteSubGraphs' = {s \in SubGraphsOf(job) : TasksOf(job, s) \subseteq Done'}
      BY <1>1 DEF CompleteSubGraphs, SubGraphsOf, TasksOf
    <3>2. SubGraphsOf(job) = CompleteSubGraphs'
            <=> \A s \in SubGraphsOf(job) : TasksOf(job, s) \subseteq Done'
      BY <3>1
    <3>3. (\A s \in SubGraphsOf(job) : TasksOf(job, s) \subseteq Done')
            <=> Task \subseteq Done'
      BY DEF SubGraphsOf, TasksOf
    <3> QED BY <3>2, <3>3
  <2>3. Done' \subseteq Task
    BY DEF Done
  <2> QED BY <2>1, <2>2, <2>3
<1>16. JobFinishExact'
  <2>1. jobFinish = 0
    BY <1>2 DEF IInv, JobFinishExact, Done
  <2>2. jobFinish' = IF Done' = Task THEN 1 ELSE 0
    BY <2>1, <1>15 DEF TaskFinish, CountFinished
  <2> QED BY <2>2 DEF JobFinishExact, Done
<1> QED BY <1>3, <1>8, <1>14, <1>16

(* A TASK_FINISH requests a subgraph only if it was never requested.       *)
LEMMA FinishInvariant ==
  ASSUME IInv, NEW t \in Task, TaskFinish(t)
  PROVE  IInv'
<1>1. /\ IsJob(job) /\ job' = job /\ workerId' = workerId
      /\ admitted' = admitted /\ admitted \in BOOLEAN
      /\ finished \in [Task -> Nat]
      /\ reqs \in [SubGraph -> Nat]
      /\ requested \in SUBSET SubGraph
      /\ available' \in Nat
  BY DEF IInv, TypeOK, TaskFinish
<1>2. SubGraphsToRequest(t) \in SUBSET (SubGraph \ requested)
  BY DEF SubGraphsToRequest
<1>3. /\ requested' = requested \cup SubGraphsToRequest(t)
      /\ \A s \in SubGraph :
           reqs'[s] = IF s \in SubGraphsToRequest(t) THEN reqs[s] + 1 ELSE reqs[s]
      /\ reqs' = [s \in SubGraph |-> reqs'[s]]
  BY DEF TaskFinish, SendRequests
<1>4. RequestsCounted'
  <2>1. \A s \in SubGraphsToRequest(t) :
          s \in SubGraph /\ workerId[s] = NoWorker /\ reqs[s] = 0
    BY <1>2 DEF SubGraphsToRequest, IInv, RequestsCounted
  <2>2. ~admitted => SubGraphsToRequest(t) = {}
    <3>1. ~admitted => \A s \in SubGraph : workerId[s] = NoWorker
      BY DEF IInv, RequestsCounted
    <3>2. workerId[job.sg[t]] # NoWorker /\ job.sg[t] \in SubGraph
      BY TestsAreExact, <1>1 DEF TaskFinish, IsJob
    <3> QED BY <3>1, <3>2
  <2> QED BY <2>1, <2>2, <1>1, <1>3 DEF IInv, RequestsCounted
<1>5. HandedOut' /\ placed' \in [Task -> Seq(Worker)]
  BY FinishHandsOut
<1>6. FinishedWasPlaced'
  <2> SUFFICES ASSUME NEW c \in Task
               PROVE  finished'[c] <= Len(placed'[c])
    BY DEF FinishedWasPlaced
  <2>1. finished' = [finished EXCEPT ![t] = 1]
    BY FinishEffect
  <2>0. \A w : Len(<<w>>) = 1 /\ Len(<< >>) = 0
    OBVIOUS
  <2>2. CASE c \in ChildrenToPlace(t)
    <3>1. Len(placed'[c]) = 1
      BY <2>0, <2>2, FinishHandsOut
    <3>2. finished[c] = 0
      <4>1. placed[c] = << >>
        BY <2>2, FinishHandsOut
      <4> QED BY <2>0, <4>1, <1>1 DEF IInv, FinishedWasPlaced
    <3> QED BY <3>1, <3>2, <2>1, <1>1
  <2>3. CASE c \notin ChildrenToPlace(t)
    <3>1. placed'[c] = placed[c]
      BY <2>3, FinishHandsOut
    <3>2. c = t => Len(placed[c]) = 1
      BY <2>0, TestsAreExact DEF TaskFinish
    <3>3. finished[c] <= Len(placed[c])
      BY DEF IInv, FinishedWasPlaced
    <3>4. CASE c = t
      <4>1. finished'[c] = 1
        BY <3>4, <2>1, <1>1
      <4>2. Len(placed'[c]) = 1
        BY <3>1, <3>2, <3>4
      <4> QED BY <4>1, <4>2
    <3>5. CASE c # t
      BY <3>1, <3>3, <3>5, <2>1, <1>1
    <3> QED BY <3>4, <3>5
  <2> QED BY <2>2, <2>3
<1>7. DepsCounted' /\ TasksCounted' /\ SubGraphsCounted' /\ JobFinishExact'
  BY FinishCounts
<1>8. TypeOK'
  <2>1. reqs' \in [SubGraph -> Nat] /\ requested' \in SUBSET SubGraph
    <3>1. \A s \in SubGraph : reqs'[s] \in Nat
      BY <1>1, <1>3
    <3> QED BY <3>1, <1>1, <1>2, <1>3
  <2>2. finished' \in [Task -> Nat]
    BY <1>1, FinishEffect
  <2>3. /\ depFinish' \in [Task -> Nat]
        /\ sgDepFinish' \in [SubGraph -> Nat]
    <3>1. \A s \in SubGraph :
            Cardinality({c \in ChildSet(job, t) : job.sg[c] = s}) \in Nat
      <4>1. job.children[t] \in Seq(Task)
        BY <1>1 DEF IsJob
      <4>2. ChildSet(job, t) \in SUBSET Task
        BY <4>1 DEF ChildSet, Range
      <4>3. \A s \in SubGraph :
              {c \in ChildSet(job, t) : job.sg[c] = s} \in SUBSET Task
        BY <4>2
      <4> QED BY <4>3, TaskAssumption, FS_Subset, FS_CardinalityType
    <3>2. depFinish \in [Task -> Nat] /\ sgDepFinish \in [SubGraph -> Nat]
      BY DEF IInv, TypeOK
    <3>3. \A a, b \in Nat : a + b \in Nat
      OBVIOUS
    <3>4. \A s \in SubGraph : sgDepFinish'[s] \in Nat
      BY <3>1, <3>2, <3>3 DEF TaskFinish, CountChildren
    <3>5. \A c \in Task : depFinish'[c] \in Nat
      BY <3>2 DEF TaskFinish, CountChildren
    <3> QED BY <3>4, <3>5 DEF TaskFinish, CountChildren
  <2>4. /\ sgFinishedTask' \in [SubGraph -> Nat]
        /\ finishSubgraphNum' \in Nat
        /\ jobFinish' \in Nat
    <3>1. /\ sgFinishedTask \in [SubGraph -> Nat]
          /\ finishSubgraphNum \in Nat
          /\ jobFinish \in Nat
      BY DEF IInv, TypeOK
    <3>2. job.sg[t] \in SubGraph
      BY <1>1 DEF IsJob
    <3>3. \A n \in Nat : n + 1 \in Nat
      OBVIOUS
    <3>4. sgFinishedTask' = [sgFinishedTask EXCEPT ![job.sg[t]] = @ + 1]
      BY DEF TaskFinish, CountFinished
    <3>5. finishSubgraphNum' \in Nat /\ jobFinish' \in Nat
      BY <3>1, <3>3 DEF TaskFinish, CountFinished
    <3> QED BY <3>1, <3>2, <3>3, <3>4, <3>5
  <2> QED BY <2>1, <2>2, <2>3, <2>4, <1>1, <1>5 DEF IInv, TypeOK
<1> QED BY <1>4, <1>5, <1>6, <1>7, <1>8 DEF IInv

(* The counters count what they are meant to, in every reachable state of  *)
(* every job.                                                              *)
THEOREM Invariant == Spec => []IInv
<1>1. Init => IInv
  BY InitInvariant
<1>2. IInv /\ [Next]_vars => IInv'
  <2> SUFFICES ASSUME IInv, [Next]_vars PROVE IInv'
    OBVIOUS
  <2>1. CASE JobAdmission
    BY <2>1, AdmissionInvariant
  <2>2. ASSUME NEW s \in SubGraph, NEW w \in Worker, PlacementDecision(s, w)
        PROVE  IInv'
    BY <2>2, PlacementInvariant
  <2>3. ASSUME NEW t \in Task, TaskFinish(t)
        PROVE  IInv'
    BY <2>3, FinishInvariant
  <2>4. CASE UNCHANGED vars
    BY <2>4 DEF vars, IInv, TypeOK, HandedOut, FinishedWasPlaced, DepsCounted,
                RequestsCounted, TasksCounted, SubGraphsCounted,
                CompleteSubGraphs, JobFinishExact, Done, SubGraphsOf, TasksOf,
                Parents, ChildSet
  <2> QED BY <2>1, <2>2, <2>3, <2>4 DEF Next
<1> QED BY <1>1, <1>2, PTL DEF Spec

-----------------------------------------------------------------------------
(* The request of every subgraph.  subgraph_dep_finish_counter_ counts the *)
(* edges inside a subgraph too, but those only after its placement; until  *)
(* then it counts the finished edges from outside.                         *)

(* No task has to finish before itself.                                    *)
Acyclic(j) ==
  \E rank \in [Task -> Nat] :
     \A t \in Task : \A p \in Parents(j, t) : rank[p] < rank[t]

FinishedEdges(s) == {e \in CrossEdges(job, s) : e[1] \in Done}
ChildrenIn(t, s) == {c \in ChildSet(job, t) : job.sg[c] = s}

EdgesCounted ==
  \A s \in SubGraph :
     workerId[s] = NoWorker => sgDepFinish[s] = Cardinality(FinishedEdges(s))

RootedRequested == admitted => \A s \in SubGraph : Rooted(job, s) => s \in requested

RInv ==
  /\ IInv
  /\ job \in Jobs
  /\ EdgesCounted
  /\ RootedRequested
  /\ RequestNotLost

(* A subgraph without an edge from outside has a task that waits for       *)
(* nothing: one of least rank.                                             *)
LEMMA EnteredOrRooted ==
  ASSUME NEW j, Acyclic(j), NEW s \in SubGraphsOf(j), CrossEdges(j, s) = {}
  PROVE  Rooted(j, s)
<1>1. PICK rank \in [Task -> Nat] :
        \A t \in Task : \A p \in Parents(j, t) : rank[p] < rank[t]
  BY DEF Acyclic
<1> DEFINE R == {rank[t] : t \in TasksOf(j, s)}
<1>2. R \in SUBSET Nat /\ R # {}
  BY <1>1 DEF TasksOf, SubGraphsOf
<1>3. PICK m \in R : \A k \in R : m <= k
  <2> HIDE DEF R
  <2> QED BY <1>2, LeastElement
<1>4. PICK t \in TasksOf(j, s) : rank[t] = m
  OBVIOUS
<1>5. t \in Task
  BY DEF TasksOf
<1>6. \A p \in Parents(j, t) : FALSE
  <2> SUFFICES ASSUME NEW p \in Parents(j, t) PROVE FALSE
    OBVIOUS
  <2>1. p \in Task /\ t \in ChildSet(j, p) /\ rank[p] < rank[t]
    BY <1>1, <1>5 DEF Parents
  <2>2. CASE j.sg[p] = s
    <3>1. rank[p] \in R /\ rank[p] \in Nat /\ rank[t] \in Nat
      BY <1>1, <1>5, <2>1, <2>2 DEF TasksOf
    <3>2. rank[t] <= rank[p]
      BY <1>3, <1>4, <3>1
    <3> QED BY <2>1, <3>1, <3>2
  <2>3. CASE j.sg[p] # s
    <3>1. <<p, t>> \in CrossEdges(j, s)
      BY <1>5, <2>1, <2>3 DEF CrossEdges, TasksOf
    <3> QED BY <3>1
  <2> QED BY <2>2, <2>3
<1>7. DepCounter(j, t) = 0
  <2>1. Parents(j, t) = {}
    BY <1>6
  <2> QED BY <2>1, FS_EmptySet DEF DepCounter
<1> QED BY <1>7 DEF Rooted

LEMMA FiniteEdges ==
  ASSUME NEW j, NEW s
  PROVE  IsFiniteSet(CrossEdges(j, s)) /\ IsFiniteSet({e \in CrossEdges(j, s) : e[1] \in Done})
<1>1. IsFiniteSet(Task \X Task)
  BY TaskAssumption, FS_Product
<1>2. CrossEdges(j, s) \in SUBSET (Task \X Task)
  BY DEF CrossEdges
<1>3. {e \in CrossEdges(j, s) : e[1] \in Done} \in SUBSET (Task \X Task)
  BY <1>2
<1> QED BY <1>1, <1>2, <1>3, FS_Subset

LEMMA ChildrenFinite ==
  ASSUME IsJob(job), NEW t \in Task, NEW s
  PROVE  /\ ChildSet(job, t) \subseteq Task
         /\ IsFiniteSet(ChildrenIn(t, s)) /\ Cardinality(ChildrenIn(t, s)) \in Nat
<1>1. job.children[t] \in Seq(Task)
  BY DEF IsJob
<1>2. ChildSet(job, t) \subseteq Task
  BY <1>1 DEF ChildSet, Range
<1>3. ChildrenIn(t, s) \in SUBSET Task
  BY <1>2 DEF ChildrenIn
<1> QED BY <1>2, <1>3, TaskAssumption, FS_Subset, FS_CardinalityType

(* An unplaced subgraph: the finish of t ticks off an edge for each child. *)
LEMMA FinishTicksEdges ==
  ASSUME IInv, EdgesCounted, NEW t \in Task, TaskFinish(t),
         NEW s \in SubGraph, workerId[s] = NoWorker
  PROVE  /\ job.sg[t] # s
         /\ sgDepFinish'[s] = sgDepFinish[s] + Cardinality(ChildrenIn(t, s))
         /\ Cardinality(FinishedEdges(s)') = sgDepFinish[s] + Cardinality(ChildrenIn(t, s))
<1>1. IsJob(job) /\ job' = job /\ sgDepFinish[s] = Cardinality(FinishedEdges(s))
  BY DEF IInv, TypeOK, EdgesCounted, TaskFinish
<1>2. job.sg[t] # s
  BY TestsAreExact DEF TaskFinish
<1>3. sgDepFinish'[s] = sgDepFinish[s] + Cardinality(ChildrenIn(t, s))
  BY DEF TaskFinish, CountChildren, ChildrenIn
<1>4. t \notin Done /\ Done' = Done \cup {t}
  BY FinishEffect
<1> DEFINE K == ChildrenIn(t, s)
           F == FinishedEdges(s)
           G == {<<t, c>> : c \in K}
<1>5. K \subseteq Task /\ IsFiniteSet(K)
  BY <1>1, ChildrenFinite DEF ChildrenIn
<1>6. FinishedEdges(s)' = F \cup G
  <2>1. FinishedEdges(s)' = {e \in CrossEdges(job, s) : e[1] \in Done \cup {t}}
    BY <1>1, <1>4 DEF FinishedEdges, CrossEdges, ChildSet
  <2>2. G \subseteq CrossEdges(job, s)
    BY <1>2, <1>5 DEF CrossEdges, ChildrenIn
  <2>3. ASSUME NEW e \in CrossEdges(job, s), e[1] = t PROVE e \in G
    <3>1. e = <<t, e[2]>> /\ e[2] \in K
      BY <2>3 DEF CrossEdges, ChildrenIn
    <3> QED BY <3>1
  <2>4. \A e \in G : e[1] = t
    OBVIOUS
  <2> HIDE DEF G
  <2> QED BY <2>1, <2>2, <2>3, <2>4 DEF FinishedEdges
<1>7. F \cap G = {}
  BY <1>4 DEF FinishedEdges
<1>8. IsFiniteSet(F) /\ IsFiniteSet(G) /\ Cardinality(G) = Cardinality(K)
  <2>1. IsFiniteSet(F)
    BY FiniteEdges DEF FinishedEdges
  <2> DEFINE f == [c \in K |-> <<t, c>>]
  <2>2. f \in Bijection(K, G)
    <3>1. f \in [K -> G] /\ \A g \in G : \E c \in K : f[c] = g
      OBVIOUS
    <3>2. \A c, d \in K : f[c] = f[d] => c = d
      OBVIOUS
    <3> HIDE DEF f, G, K
    <3> QED BY <3>1, <3>2 DEF Bijection, Injection, Surjection, IsInjective
  <2>3. ExistsBijection(K, G)
    BY <2>2 DEF ExistsBijection
  <2> HIDE DEF G, K
  <2> QED BY <1>5, <2>1, <2>3, FS_Bijection
<1>9. Cardinality(F \cup G) = Cardinality(F) + Cardinality(K)
  <2> HIDE DEF F, G, K
  <2>1. Cardinality(F \cup G) = Cardinality(F) + Cardinality(G) - Cardinality(F \cap G)
    BY <1>8, FS_Union
  <2>2. Cardinality(F \cap G) = 0 /\ Cardinality(F) \in Nat /\ Cardinality(G) \in Nat
    BY <1>7, <1>8, FS_EmptySet, FS_CardinalityType
  <2> QED BY <1>8, <2>1, <2>2
<1> QED BY <1>1, <1>2, <1>3, <1>6, <1>9

(* In the loop over the children the counter has its last value at the     *)
(* last child of the subgraph.                                             *)
LEMMA LastChildSeesAll ==
  ASSUME IsJob(job), NEW t \in Task, NEW s, ChildrenIn(t, s) # {}
  PROVE  \E i \in 1 .. Len(job.children[t]) :
            /\ job.sg[Child(t, i)] = s
            /\ SgCountAt(t, i) = sgDepFinish[s] + Cardinality(ChildrenIn(t, s))
<1> DEFINE L == job.children[t]
           n == Len(L)
           K == ChildrenIn(t, s)
           D == {m \in 1 .. n : job.sg[L[m]] = s}
           T == {n - m : m \in D}
<1>1. /\ L \in Seq(Task) /\ n \in Nat /\ DOMAIN L = 1 .. n
      /\ \A m, k \in 1 .. n : L[m] = L[k] => m = k
  BY DEF IsJob
<1>2. K = {L[m] : m \in D}
  BY <1>1 DEF ChildrenIn, ChildSet, Range
<1>3. PICK i \in D : \A m \in D : m <= i
  <2> HIDE DEF L, n
  <2>1. T \in SUBSET Nat
    BY <1>1
  <2>2. D # {}
    BY <1>2
  <2>3. PICK x \in T : \A k \in T : x <= k
    <3>1. T # {}
      BY <2>2
    <3> HIDE DEF T
    <3> QED BY <2>1, <3>1, LeastElement
  <2>4. PICK i \in D : x = n - i
    OBVIOUS
  <2>5. ASSUME NEW m \in D PROVE m <= i
    <3>1. n - i <= n - m
      BY <2>3, <2>4
    <3>2. m \in Nat /\ i \in Nat
      OBVIOUS
    <3> QED BY <1>1, <3>1, <3>2
  <2> QED BY <2>5
<1>4. i \in 1 .. n /\ job.sg[L[i]] = s
  OBVIOUS
<1>5. {m \in 1 .. i : job.sg[L[m]] = s} = D
  <2>1. \A m \in 1 .. i : m \in 1 .. n
    BY <1>1, <1>4
  <2>2. \A m \in D : m \in 1 .. i
    BY <1>1, <1>3, <1>4
  <2> QED BY <2>1, <2>2
<1>6. Cardinality(D) = Cardinality(K)
  <2> DEFINE f == [m \in D |-> L[m]]
  <2>1. IsFiniteSet(D)
    <3>1. IsFiniteSet(1 .. n)
      BY <1>1, FS_Interval
    <3> QED BY <3>1, FS_Subset
  <2>2. f \in Bijection(D, K)
    <3>1. f \in [D -> K] /\ \A c \in K : \E m \in D : f[m] = c
      BY <1>2
    <3>2. \A m, k \in D : f[m] = f[k] => m = k
      BY <1>1
    <3> HIDE DEF f, D, K
    <3> QED BY <3>1, <3>2 DEF Bijection, Injection, Surjection, IsInjective
  <2>3. ExistsBijection(D, K)
    BY <2>2 DEF ExistsBijection
  <2> HIDE DEF D, K
  <2> QED BY <2>1, <2>3, FS_Bijection
<1>7. SgCountAt(t, i) = sgDepFinish[s] + Cardinality({m \in 1 .. i : job.sg[L[m]] = s})
  BY <1>4 DEF SgCountAt, Child
<1> QED BY <1>4, <1>5, <1>6, <1>7 DEF Child

(* What IInv gives of a TASK_FINISH for a subgraph not yet requested.      *)
LEMMA LastEdgeRequests ==
  ASSUME RInv, NEW t \in Task, TaskFinish(t), EntersAtHeads(job), admitted,
         NEW s \in SubGraph, s \notin requested, ChildrenIn(t, s) # {},
         \A e \in CrossEdges(job, s) : e[1] \in Done'
  PROVE  s \in SubGraphsToRequest(t)
<1>1. /\ IInv /\ IsJob(job) /\ job' = job /\ workerId[s] = NoWorker
      /\ ~Rooted(job, s)
  BY DEF RInv, IInv, TypeOK, TaskFinish, RequestsCounted, RootedRequested
<1>2. /\ job.sg[t] # s
      /\ Cardinality(FinishedEdges(s)') = sgDepFinish[s] + Cardinality(ChildrenIn(t, s))
  BY <1>1, FinishTicksEdges DEF RInv
<1>3. PICK i \in 1 .. Len(job.children[t]) :
        /\ job.sg[Child(t, i)] = s
        /\ SgCountAt(t, i) = sgDepFinish[s] + Cardinality(ChildrenIn(t, s))
  BY <1>1, LastChildSeesAll
<1> DEFINE c == Child(t, i)
<1>4. c \in ChildSet(job, t) /\ c \in Task
  <2>1. job.children[t] \in Seq(Task)
    BY <1>1 DEF IsJob
  <2> QED BY <2>1 DEF ChildSet, Range, Child
<1> HIDE DEF c
<1>5. Parents(job, c) \subseteq Done'
  <2> SUFFICES ASSUME NEW q \in Parents(job, c) PROVE q \in Done'
    OBVIOUS
  <2>1. q \in Task /\ c \in ChildSet(job, q)
    BY DEF Parents
  <2>2. job.sg[q] # s
    BY <1>1, <1>2, <1>3, <1>4, <2>1 DEF EntersAtHeads, c
  <2>3. <<q, c>> \in CrossEdges(job, s)
    BY <1>3, <1>4, <2>1, <2>2 DEF CrossEdges, c
  <2> QED BY <2>3
<1>6. LastParent(c)
  BY <1>1, <1>4, <1>5, FinishEffect
<1>7. FinishedEdges(s)' = CrossEdges(job, s)
  BY <1>1 DEF FinishedEdges, CrossEdges, ChildSet
<1>8. SgCountAt(t, i) = SgDepCounter(job, s)
  BY <1>2, <1>3, <1>7 DEF SgDepCounter
<1> QED BY <1>1, <1>3, <1>6, <1>8 DEF SubGraphsToRequest, c

LEMMA InitRequests == Init => RInv
<1> SUFFICES ASSUME Init PROVE RInv
  OBVIOUS
<1>1. IInv /\ job \in Jobs
  BY InitInvariant DEF Init
<1>2. EdgesCounted
  <2>1. \A s : FinishedEdges(s) = {}
    BY DEF FinishedEdges, Done, Init
  <2> QED BY <2>1, FS_EmptySet DEF EdgesCounted, Init
<1>3. RootedRequested /\ RequestNotLost
  BY DEF Init, RootedRequested, RequestNotLost, ReadySubgraphRequested
<1> QED BY <1>1, <1>2, <1>3 DEF RInv

LEMMA AdmissionRequests ==
  ASSUME \A j \in Jobs : Acyclic(j), RInv, JobAdmission
  PROVE  RInv'
<1>1. IInv' /\ job' = job /\ finished' = finished /\ workerId' = workerId
      /\ sgDepFinish' = sgDepFinish
      /\ requested' = requested \cup {s \in SubGraph : Rooted(job, s)}
  BY AdmissionInvariant DEF RInv, JobAdmission, SendRequests
<1>2. Done = {}
  <2>1. \A s \in SubGraph : workerId[s] = NoWorker
    BY DEF RInv, IInv, RequestsCounted, JobAdmission
  <2>2. \A t \in Task : job.sg[t] \in SubGraph
    BY DEF RInv, IInv, TypeOK, IsJob
  <2>3. \A t \in Task : t \notin Done
    BY <2>1, <2>2, TestsAreExact DEF RInv, IInv, HandedOut
  <2> QED BY <2>3 DEF Done
<1>3. RequestNotLost'
  <2> SUFFICES ASSUME NEW s \in SubGraphsOf(job), \A e \in CrossEdges(job, s) : finished[e[1]] > 0
               PROVE  s \in requested'
    BY <1>1 DEF RequestNotLost, ReadySubgraphRequested, NothingOutsidePending,
                SubGraphsOf, CrossEdges, ChildSet
  <2>1. CrossEdges(job, s) = {}
    <3>1. \A e \in CrossEdges(job, s) : e[1] \in Done
      BY DEF CrossEdges, Done
    <3> QED BY <1>2, <3>1
  <2>2. Rooted(job, s)
    BY <2>1, EnteredOrRooted DEF RInv
  <2>3. s \in SubGraph
    BY DEF SubGraphsOf, RInv, IInv, TypeOK, IsJob
  <2> QED BY <1>1, <2>2, <2>3
<1>4. EdgesCounted' /\ RootedRequested'
  BY <1>1 DEF RInv, EdgesCounted, RootedRequested, FinishedEdges, CrossEdges, ChildSet,
              Done, Rooted, DepCounter, TasksOf, Parents
<1> QED BY <1>1, <1>3, <1>4 DEF RInv

LEMMA FinishRequests ==
  ASSUME RInv, NEW t \in Task, TaskFinish(t)
  PROVE  RInv'
<1>1. IInv' /\ job' = job /\ workerId' = workerId /\ admitted' = admitted
      /\ requested' = requested \cup SubGraphsToRequest(t)
  BY FinishInvariant DEF RInv, TaskFinish, SendRequests
<1>2. Done' = Done \cup {t}
  BY FinishEffect DEF RInv
<1>3. EdgesCounted'
  <2> SUFFICES ASSUME NEW s \in SubGraph, workerId[s] = NoWorker
               PROVE  sgDepFinish'[s] = Cardinality(FinishedEdges(s)')
    BY <1>1 DEF EdgesCounted
  <2> QED BY FinishTicksEdges DEF RInv
<1>4. RootedRequested'
  BY <1>1 DEF RInv, RootedRequested, Rooted, DepCounter, TasksOf, Parents, ChildSet
<1>5. RequestNotLost'
  <2> SUFFICES ASSUME job \in JobsEnteredAtHeads, admitted, NEW s \in SubGraphsOf(job),
                      \A e \in CrossEdges(job, s) : finished'[e[1]] > 0
               PROVE  s \in requested'
    BY <1>1 DEF RequestNotLost, ReadySubgraphRequested, NothingOutsidePending,
                SubGraphsOf, CrossEdges, ChildSet
  <2>1. s \in SubGraph /\ EntersAtHeads(job)
    BY DEF SubGraphsOf, RInv, IInv, TypeOK, IsJob, JobsEnteredAtHeads
  <2>2. \A e \in CrossEdges(job, s) : e[1] \in Done'
    BY DEF CrossEdges, Done
  <2>3. CASE s \in requested
    BY <1>1, <2>3
  <2>4. CASE s \notin requested
    <3>1. ~NothingOutsidePending(s)
      BY <2>4 DEF RInv, RequestNotLost, ReadySubgraphRequested
    <3>2. PICK e \in CrossEdges(job, s) : ~(finished[e[1]] > 0)
      BY <3>1 DEF NothingOutsidePending
    <3>3. e[1] \notin Done /\ e[2] \in ChildSet(job, e[1]) /\ job.sg[e[2]] = s
      BY <3>2 DEF CrossEdges, Done
    <3>4. ChildrenIn(t, s) # {}
      BY <1>2, <2>2, <3>3 DEF ChildrenIn
    <3> QED BY <1>1, <2>1, <2>2, <2>4, <3>4, LastEdgeRequests
  <2> QED BY <2>3, <2>4
<1> QED BY <1>1, <1>3, <1>4, <1>5 DEF RInv

(* No request is lost: when nothing outside a subgraph holds it back any   *)
(* more, its NEW_TASK_REQ has been sent.  This needs the shape of the jobs *)
(* under conf/ (see ReadySubgraphRequested, which fails without it) and    *)
(* that no task waits for itself.                                          *)
THEOREM NoRequestIsLost ==
  ASSUME \A j \in Jobs : Acyclic(j)
  PROVE  Spec => []RequestNotLost
<1>1. Init => RInv
  BY InitRequests
<1>2. RInv /\ [Next]_vars => RInv'
  <2> SUFFICES ASSUME RInv, [Next]_vars PROVE RInv'
    OBVIOUS
  <2>1. CASE JobAdmission
    BY <2>1, AdmissionRequests
  <2>2. ASSUME NEW s \in SubGraph, NEW w \in Worker, PlacementDecision(s, w)
        PROVE  RInv'
    <3>1. IInv'
      BY <2>2, PlacementInvariant DEF RInv
    <3>2. /\ job' = job /\ finished' = finished /\ admitted' = admitted
          /\ requested' = requested /\ sgDepFinish' = sgDepFinish
          /\ \A r \in SubGraph : workerId'[r] = NoWorker => workerId[r] = NoWorker
      BY <2>2, WorkerAssumption DEF PlacementDecision, RInv, IInv, TypeOK
    <3>3. EdgesCounted'
      BY <3>2 DEF RInv, EdgesCounted, FinishedEdges, CrossEdges, ChildSet, Done
    <3>4. RootedRequested'
      BY <3>2 DEF RInv, RootedRequested, Rooted, DepCounter, TasksOf, Parents, ChildSet
    <3>5. RequestNotLost'
      BY <3>2 DEF RInv, RequestNotLost, ReadySubgraphRequested, NothingOutsidePending,
                  SubGraphsOf, CrossEdges, ChildSet
    <3> QED BY <3>1, <3>2, <3>3, <3>4, <3>5 DEF RInv
  <2>3. ASSUME NEW t \in Task, TaskFinish(t) PROVE RInv'
    BY <2>3, FinishRequests
  <2>4. CASE UNCHANGED vars
    <3>1. IInv'
      BY <2>4 DEF vars, RInv, IInv, TypeOK, HandedOut, FinishedWasPlaced, DepsCounted,
                  RequestsCounted, TasksCounted, SubGraphsCounted,
                  CompleteSubGraphs, JobFinishExact, Done, SubGraphsOf, TasksOf,
                  Parents, ChildSet
    <3> QED BY <2>4, <3>1 DEF vars, RInv, EdgesCounted, RootedRequested, RequestNotLost,
                  ReadySubgraphRequested, NothingOutsidePending, FinishedEdges, CrossEdges,
                  SubGraphsOf, Rooted, DepCounter, TasksOf, Parents, ChildSet, Done
  <2> QED BY <2>1, <2>2, <2>3, <2>4 DEF Next
<1>3. RInv => RequestNotLost
  BY DEF RInv
<1> QED BY <1>1, <1>2, <1>3, PTL DEF Spec

-----------------------------------------------------------------------------
(* The properties of JobManager.                                           *)

(* Every variable keeps its type.                                          *)
THEOREM TypeCorrect == Spec => []TypeOK
<1>1. IInv => TypeOK
  BY DEF IInv
<1> QED BY <1>1, Invariant, PTL

(* No task is handed to a worker twice.                                    *)
THEOREM EachTaskRunsOnce == Spec => []RunsOnce
<1>1. IInv => RunsOnce
  <2> SUFFICES ASSUME IInv, NEW t \in Task PROVE Len(placed[t]) <= 1
    BY DEF RunsOnce
  <2>1. \A w : Len(<< >>) = 0 /\ Len(<<w>>) = 1
    OBVIOUS
  <2>2. placed[t] = << >> \/ placed[t] = <<workerId[job.sg[t]]>>
    BY DEF IInv, HandedOut
  <2>3. CASE placed[t] = << >>
    BY <2>3
  <2>4. CASE placed[t] = <<workerId[job.sg[t]]>>
    BY <2>4
  <2> QED BY <2>2, <2>3, <2>4
<1> QED BY <1>1, Invariant, PTL

(* No task starts before its parents have finished, and no ready task of a *)
(* placed subgraph is left behind.                                         *)
THEOREM StartsExactlyWhenReady == Spec => [](DependencyOrder /\ NoTaskForgotten)
<1>1. IInv => DependencyOrder /\ NoTaskForgotten
  <2> SUFFICES ASSUME IInv PROVE DependencyOrder /\ NoTaskForgotten
    OBVIOUS
  <2>1. \A t \in Task : Parents(job, t) \subseteq Task
    BY DEF Parents
  <2>2. \A w : <<w>> # << >>
    OBVIOUS
  <2> QED BY <2>1, <2>2 DEF IInv, HandedOut, DependencyOrder, NoTaskForgotten, Done
<1> QED BY <1>1, Invariant, PTL

(* The resources of a task are released on the worker it was handed to.    *)
THEOREM ReleaseIsLocal == Spec => []ReleasedWherePlaced
<1>1. IInv => ReleasedWherePlaced
  <2> SUFFICES ASSUME IInv, NEW t \in Task, finished[t] < Len(placed[t])
               PROVE  placed[t][Len(placed[t])] = workerId[job.sg[t]]
    BY DEF ReleasedWherePlaced
  <2>1. placed[t] = <<workerId[job.sg[t]]>>
    BY TestsAreExact
  <2> QED BY <2>1
<1> QED BY <1>1, Invariant, PTL

(* No subgraph is requested, hence reserved, twice.                        *)
THEOREM EachSubGraphRequestedOnce == Spec => []RequestedOnce
<1>1. IInv => RequestedOnce
  BY DEF IInv, RequestsCounted, RequestedOnce
<1> QED BY <1>1, Invariant, PTL

(* The end of the job is announced once, when its last task finishes.      *)
THEOREM JobFinishIsExact == Spec => []JobFinishExact
<1>1. IInv => JobFinishExact
  BY DEF IInv
<1> QED BY <1>1, Invariant, PTL

-----------------------------------------------------------------------------
(* The manager implements DagExecution: the placement of a subgraph is a   *)
(* Start, the finish of a task is a Finish that starts ChildrenToPlace.    *)
THEOREM RefinesDag == Spec => ImplementsDag
<1> DEFINE Edges     == {e \in Task \X Task : e[2] \in ChildSet(job, e[1])}
           Running   == {t \in Task : finished[t] < Len(placed[t])}
           Announced == jobFinish > 0
<1>1. Init => Dag!DagInit
  <2>1. Len(<< >>) = 0
    OBVIOUS
  <2> QED BY <2>1 DEF Init, Dag!DagInit
<1>2. ASSUME IInv, IInv', [Next]_vars
      PROVE  [Dag!DagNext]_(Dag!dagVars)
  <2>0. \A c \in Task : \A D : c \in Dag!Ready(D) <=> Parents(job, c) \subseteq D
    BY DEF Dag!Ready, Parents
  <2>1. CASE JobAdmission
    BY <2>1 DEF JobAdmission, Dag!dagVars
  <2>2. ASSUME NEW s \in SubGraph, NEW w \in Worker, PlacementDecision(s, w)
        PROVE  Dag!DagNext
    <3>1. /\ Edges' = Edges /\ Done' = Done /\ Announced' = Announced
          /\ finished' = finished
      BY <2>2 DEF PlacementDecision, Done
    <3>2. \A t \in Task : finished[t] \in Nat /\ Len(placed[t]) \in Nat
      BY <1>2 DEF IInv, TypeOK
    <3>3. ASSUME NEW t \in Task
          PROVE  \/ placed'[t] = placed[t]
                 \/ /\ placed[t] = << >>
                    /\ Parents(job, t) \subseteq Done
                    /\ t \notin Done
      <4>1. CASE t \in TasksOf(job, s) /\ Satisfied(t)
        <5>1. workerId[job.sg[t]] = NoWorker
          BY <1>2, <2>2, <4>1 DEF PlacementDecision, IInv, RequestsCounted, TasksOf
        <5>2. placed[t] = << >>
          BY <1>2, <5>1 DEF IInv, HandedOut
        <5> QED BY <1>2, <4>1, <5>2, TestsAreExact
      <4>2. CASE ~(t \in TasksOf(job, s) /\ Satisfied(t))
        BY <2>2, <4>2 DEF PlacementDecision, PlaceTasks
      <4> QED BY <4>1, <4>2
    <3>4. Running \subseteq Running'
      <4>1. ASSUME NEW t \in Running PROVE placed'[t] = placed[t]
        <5>1. placed[t] # << >>
          BY <3>2
        <5> QED BY <3>3, <5>1
      <4> QED BY <4>1, <3>1
    <3>5. \A t \in Running' \ Running : Parents(job, t) \subseteq Done /\ t \notin Done
      BY <3>1, <3>3
    <3>6. PICK S \in SUBSET Task : S = Running' \ Running
      OBVIOUS
    <3>7. Dag!Start(S)
      BY <3>1, <3>4, <3>5, <3>6, <2>0 DEF Dag!Start, Done
    <3> QED BY <3>7 DEF Dag!DagNext
  <2>3. ASSUME NEW t \in Task, TaskFinish(t)
        PROVE  Dag!DagNext
    <3>1. /\ t \notin Done /\ Done' = Done \cup {t}
          /\ finished' = [finished EXCEPT ![t] = 1]
      BY <1>2, <2>3, FinishEffect
    <3>2. /\ Edges' = Edges
          /\ t \in Running
      BY <2>3 DEF TaskFinish
    <3>3. \A c \in ChildrenToPlace(t) :
            /\ c \in Task
            /\ Parents(job, c) \subseteq Done'
            /\ placed[c] = << >>
            /\ Len(placed'[c]) = 1
      <4>1. \A w : Len(<<w>>) = 1
        OBVIOUS
      <4> QED BY <1>2, <2>3, <4>1, FinishHandsOut
    <3>4. \A c \in ChildrenToPlace(t) :
            c \notin Done /\ c \notin Running /\ finished[c] = 0 /\ c # t
      <4>1. \A c \in Task : placed[c] = << >> => finished[c] = 0
        <5>1. Len(<< >>) = 0
          OBVIOUS
        <5> QED BY <5>1, <1>2 DEF IInv, TypeOK, FinishedWasPlaced
      <4>2. placed[t] # << >>
        <5>1. \A w : <<w>> # << >>
          OBVIOUS
        <5> QED BY <5>1, <1>2, <2>3, TestsAreExact DEF TaskFinish
      <4> QED BY <3>3, <4>1, <4>2 DEF Done
    <3>5. Running' = (Running \ {t}) \cup ChildrenToPlace(t)
      <4>1. \A c \in Task \ ChildrenToPlace(t) : placed'[c] = placed[c]
        BY <1>2, <2>3, FinishHandsOut
      <4>2. Len(placed[t]) = 1
        <5>1. \A w : Len(<<w>>) = 1
          OBVIOUS
        <5> QED BY <5>1, <1>2, <2>3, TestsAreExact DEF TaskFinish
      <4>3. finished \in [Task -> Nat]
        BY <1>2 DEF IInv, TypeOK
      <4>4. \A c \in Task : finished'[c] = IF c = t THEN 1 ELSE finished[c]
        BY <3>1, <4>3
      <4>5. t \notin Running'
        <5>1. placed'[t] = placed[t] /\ finished'[t] = 1
          BY <3>4, <4>1, <4>4
        <5>2. ~(finished'[t] < Len(placed'[t]))
          BY <5>1, <4>2
        <5> QED BY <5>2
      <4>6. \A c \in Task \ {t} : c \in Running' <=> c \in Running \/ c \in ChildrenToPlace(t)
        <5>1. ASSUME NEW c \in ChildrenToPlace(t) PROVE c \in Running'
          <6>1. c \in Task /\ finished'[c] < Len(placed'[c])
            BY <3>3, <3>4, <4>4
          <6> QED BY <6>1
        <5>2. ASSUME NEW c \in Task \ {t}, c \notin ChildrenToPlace(t)
              PROVE  c \in Running' <=> c \in Running
          BY <5>2, <4>1, <4>4
        <5> QED BY <5>1, <5>2
      <4> QED BY <3>3, <3>4, <4>5, <4>6
    <3>6. Announced' = (Done' = Task)
      <4>1. jobFinish' = IF \A c \in Task : finished'[c] > 0 THEN 1 ELSE 0
        BY <1>2 DEF IInv, JobFinishExact
      <4>2. Done' = {c \in Task : finished'[c] > 0}
        BY DEF Done
      <4> QED BY <4>1, <4>2
    <3>7. ChildrenToPlace(t) \subseteq Dag!Ready(Done') \ (Running \cup Done)
      BY <2>0, <3>3, <3>4
    <3>8. PICK S \in SUBSET Task : S = ChildrenToPlace(t)
      BY <3>3
    <3>9. Dag!Finish(t, S)
      BY <3>1, <3>2, <3>5, <3>6, <3>7, <3>8 DEF Dag!Finish, Done
    <3> QED BY <3>9 DEF Dag!DagNext
  <2>4. CASE UNCHANGED vars
    BY <2>4 DEF vars, Dag!dagVars, ChildSet
  <2>5. CASE Next
    BY <2>1, <2>2, <2>3, <2>5 DEF Next
  <2> QED BY <1>2, <2>4, <2>5
<1> QED BY <1>1, <1>2, Invariant, PTL DEF Spec, ImplementsDag, Dag!DagSpec

=============================================================================

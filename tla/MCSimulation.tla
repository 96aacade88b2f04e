---------------------------- MODULE MCSimulation ----------------------------
(***************************************************************************)
(* Simulation over every job of NTask tasks whose memory adds up and whose *)
(* tasks use -1, 0 or 1, not all 0; one of half units; and one in which    *)
(* each task gives back what the one before it took.                       *)
(***************************************************************************)
EXTENDS Simulation

CONSTANTS NTask, MemoryLimit, CpuSlots

MCTask == 1 .. NTask
MCSubGraph == 1 .. NTask
MCWorker == 0 .. NWorker - 1
MCLimit ==
  [w \in Worker |-> [r \in Resource |-> IF r = "memory" THEN MemoryLimit ELSE 9]]
MCNone == << >>
MCSlots == [k \in Kind |-> IF k = "cpu" THEN CpuSlots ELSE 1]

ChildLists(t) == {SetToSortSeq(C, <) : C \in SUBSET (t + 1 .. NTask)}

MapsUpTo[n \in 0 .. NTask] ==
  IF n = 0 THEN {<< >>}
  ELSE {Append(f, l) : f \in MapsUpTo[n - 1], l \in ChildLists(n)}

Groupings ==
  {g \in [MCTask -> MCSubGraph] :
     \A t \in MCTask : \A s \in 1 .. g[t] - 1 : \E u \in 1 .. t - 1 : g[u] = s}

(* All tasks but the last compete for the single cpu slot. *)
MCKind == [t \in MCTask |-> IF t < NTask THEN "cpu" ELSE "disk"]

JobOf(g, c, u) ==
  LET j == [sg |-> g, children |-> c, kind |-> MCKind, use |-> u,
            req |-> [t \in MCTask |-> 1]]
  IN  [sg |-> g, children |-> c, kind |-> MCKind, use |-> u, req |-> j.req,
       memory |-> [s \in MCSubGraph |-> MemoryCap(j, s)]]

Number(g, u, D, s, x) == Cardinality({t \in D : g[t] = s /\ u[t] = x})

(* For each grouping, what tasks may use if every subgraph gives back what *)
(* it takes.                                                               *)
Uses ==
  [g \in Groupings |->
     {u \in [MCTask -> {-1, 0, 1}] :
        /\ \E t \in MCTask : u[t] # 0
        /\ \A s \in MCSubGraph : Number(g, u, MCTask, s, 1) = Number(g, u, MCTask, s, -1)}]

(* The rest of MemoryAddsUp, in numbers of tasks.                          *)
TakenBefore(g, u, DD) ==
  \A D \in DD, s \in {g[t] : t \in MCTask} :
     Number(g, u, D, s, 1) >= Number(g, u, D, s, -1)

JobsOfUnits ==
  UNION {LET DD == MayBeDone([children |-> c])
         IN  UNION {{JobOf(g, c, u) : u \in {v \in Uses[g] : TakenBefore(g, v, DD)}} :
                      g \in Groupings} :
           c \in MapsUpTo[NTask]}

(* Three tasks of one subgraph take half a unit each, the last task gives  *)
(* all of it back.                                                         *)
HalfJobs ==
  {JobOf([t \in MCTask |-> 1],
         [t \in MCTask |-> IF t = NTask THEN << >> ELSE <<NTask>>],
         [t \in MCTask |-> IF t = NTask THEN 1 - NTask ELSE 1])}

(* The tasks of one subgraph run one after the other; every second one     *)
(* gives back the unit that the task before it took.                       *)
ChainJobs ==
  {JobOf([t \in MCTask |-> 1],
         [t \in MCTask |-> IF t = NTask THEN << >> ELSE <<t + 1>>],
         [t \in MCTask |-> IF t % 2 = 1 THEN 1 ELSE -1])}

=============================================================================

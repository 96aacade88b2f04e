------------------------------ MODULE MCCluster ------------------------------
(***************************************************************************)
(* Cluster over small jobs.  The graphs and groupings are those of         *)
(* MCJobManager with children in increasing order; tasks alternate between *)
(* two resource types and subgraphs differ in the memory they need, so     *)
(* that one, two or three of them fit on a worker.                         *)
(***************************************************************************)
EXTENDS Cluster, SequencesExt

CONSTANTS NTask, MinEdges

MCTask == 1 .. NTask
MCSubGraph == 1 .. NTask
MCWorker == 0 .. NWorker - 1
MCPack == [o \in Others |-> [r \in Resource |-> IF r = "memory" THEN 2 ELSE 1]]
MCUserOf == [o \in Others |-> "other"]
MCLimit == [w \in Worker |-> [r \in Resource |-> IF r = "memory" THEN 4 ELSE 5]]

ChildLists(t) == {SetToSortSeq(C, <) : C \in SUBSET (t + 1 .. NTask)}

Edges(c) == FoldLeft(LAMBDA n, l : n + Len(l), 0, c)

MapsUpTo[n \in 0 .. NTask] ==
  IF n = 0 THEN {<< >>}
  ELSE {Append(f, l) : f \in MapsUpTo[n - 1], l \in ChildLists(n)}

Groupings ==
  {g \in [MCTask -> MCSubGraph] :
     \A t \in MCTask : \A s \in 1 .. g[t] - 1 : \E u \in 1 .. t - 1 : g[u] = s}

AllJobs ==
  {[sg |-> g, children |-> c,
    kind |-> [t \in MCTask |-> IF t % 2 = 1 THEN "cpu" ELSE "disk"],
    req |-> [t \in MCTask |-> 1 + (t % 2)],
    memory |-> [s \in MCSubGraph |-> 1 + (s % 3)]] :
     g \in Groupings, c \in {m \in MapsUpTo[NTask] : Edges(m) >= MinEdges}}

=============================================================================

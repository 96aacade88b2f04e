------------------------------ MODULE JobGraph ------------------------------
(***************************************************************************)
(* The static shape of one job, as Job, SubGraph and ShardTask hold it     *)
(* after the JSON file is read, and the dependency counters                *)
(* JobManager::BuildDependencies derives from it.                          *)
(*                                                                         *)
(* A job is a record                                                       *)
(*   sg        the subgraph each shard task belongs to                     *)
(*   children  the ordered list of the tasks that depend on a task         *)
(* Shard tasks and subgraphs are opaque values; the pair (task id, shard   *)
(* id) of the source is one element of Task.                               *)
(*                                                                         *)
(* A definition whose name starts with Wrong is a slip a programmer might  *)
(* make.  Nothing uses it; PROJECT.json names the definition it can take   *)
(* the place of and the property that must then fail.                      *)
(***************************************************************************)
EXTENDS Naturals, Sequences, FiniteSets, Functions

CONSTANTS Task,       \* every shard task of the job
          SubGraph    \* the names a subgraph may have

ASSUME TaskAssumption == IsFiniteSet(Task) /\ Task # {}

(* The jobs the simulator is written for: every task is in one subgraph   *)
(* and names each of its children once.                                    *)
IsJob(j) ==
  /\ j.sg \in [Task -> SubGraph]
  /\ j.children \in [Task -> Seq(Task)]
  /\ \A t \in Task : \A m, n \in 1 .. Len(j.children[t]) :
        j.children[t][m] = j.children[t][n] => m = n

ChildSet(j, t) == Range(j.children[t])

TasksOf(j, s) == {t \in Task : j.sg[t] = s}

(* A subgraph exists because tasks are listed under it. *)
SubGraphsOf(j) == {j.sg[t] : t \in Task}

Parents(j, t) == {p \in Task : t \in ChildSet(j, p)}

(* dep_counter_: one for every edge into the task. *)
DepCounter(j, t) == Cardinality(Parents(j, t))

(* The edges whose child is in subgraph s and whose parent is not. *)
CrossEdges(j, s) ==
  {e \in Task \X Task : /\ e[2] \in ChildSet(j, e[1])
                        /\ j.sg[e[2]] = s
                        /\ j.sg[e[1]] # s}

WrongSgDepCounterAll(j, s) ==
  Cardinality({e \in Task \X Task : e[2] \in ChildSet(j, e[1]) /\ j.sg[e[2]] = s})

(* subgraph_dep_counter_: edges inside the subgraph do not count. *)
SgDepCounter(j, s) == Cardinality(CrossEdges(j, s))

(* A subgraph with a task that waits for nothing is requested on admission. *)
Rooted(j, s) == \E t \in TasksOf(j, s) : DepCounter(j, t) = 0

(***************************************************************************)
(* The shape of every job under conf/: in a subgraph that is not rooted, a *)
(* task that waits for another subgraph waits for nothing in its own.      *)
(***************************************************************************)
EntersAtHeads(j) ==
  \A p, q, t \in Task :
     /\ t \in ChildSet(j, p) /\ j.sg[p] # j.sg[t]
     /\ t \in ChildSet(j, q)
     /\ ~Rooted(j, j.sg[t])
     => j.sg[q] # j.sg[t]

(***************************************************************************)
(* No task has to finish before itself, when a task waits for its parents  *)
(* and, if its subgraph is not rooted, for every parent outside the        *)
(* subgraph of any task of the subgraph.                                   *)
(***************************************************************************)
WaitsFor(j, t) ==
  Parents(j, t)
    \cup (IF Rooted(j, j.sg[t]) THEN {}
          ELSE {e[1] : e \in CrossEdges(j, j.sg[t])})

Schedulable(j) ==
  \E rank \in [Task -> 1 .. Cardinality(Task)] :
     \A t \in Task : \A p \in WaitsFor(j, t) : rank[p] < rank[t]

=============================================================================

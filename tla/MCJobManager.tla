---------------------------- MODULE MCJobManager ----------------------------
(***************************************************************************)
(* JobManager over every small job: each of NTask tasks may name any later *)
(* tasks as its children, in any order, and the tasks are grouped into     *)
(* subgraphs in every way.                                                 *)
(***************************************************************************)
EXTENDS JobManager, SequencesExt

CONSTANTS NTask

MCTask == 1 .. NTask
MCSubGraph == 1 .. NTask

(* The lists of distinct tasks later than t. *)
ChildLists(t) == SetToAllKPermutations(t + 1 .. NTask)

MapsUpTo[n \in 0 .. NTask] ==
  IF n = 0 THEN {<< >>}
  ELSE {Append(f, l) : f \in MapsUpTo[n - 1], l \in ChildLists(n)}

(* Subgraphs are numbered in the order of their first task. *)
Groupings ==
  {g \in [MCTask -> MCSubGraph] :
     \A t \in MCTask : \A s \in 1 .. g[t] - 1 : \E u \in 1 .. t - 1 : g[u] = s}

AllJobs == {[sg |-> g, children |-> c] : g \in Groupings, c \in MapsUpTo[NTask]}

=============================================================================

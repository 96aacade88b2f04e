---------------------------- MODULE DagExecution ----------------------------
(***************************************************************************)
(* What a job manager promises: the tasks of a dependency graph run once   *)
(* each, none before all of its parents have finished, and the end of the  *)
(* job is announced in the very step that finishes the last task.          *)
(* Subgraphs, counters, requests and workers do not appear.                *)
(***************************************************************************)
EXTENDS Naturals

CONSTANTS Task

VARIABLES
  edges,      \* the pairs <<parent, child>> of the job, never modified
  running,    \* the tasks handed to a worker and not finished
  done,       \* the finished tasks
  announced   \* the end of the job has been announced

dagVars == <<edges, running, done, announced>>

Ready(D) == {c \in Task : \A p \in Task : <<p, c>> \in edges => p \in D}

DagInit ==
  /\ edges \in SUBSET (Task \X Task)
  /\ running = {}
  /\ done = {}
  /\ announced = FALSE

(* A worker becomes known for some waiting tasks: those of them that are   *)
(* ready start.                                                            *)
Start(S) ==
  /\ S \subseteq Ready(done) \ (running \cup done)
  /\ running' = running \cup S
  /\ UNCHANGED <<edges, done, announced>>

(* A task finishes, and some of the tasks it was holding back start.       *)
Finish(t, S) ==
  /\ t \in running
  /\ done' = done \cup {t}
  /\ S \subseteq Ready(done') \ (running \cup done)
  /\ running' = (running \ {t}) \cup S
  /\ announced' = (done' = Task)
  /\ UNCHANGED edges

DagNext ==
  \/ \E S \in SUBSET Task : Start(S)
  \/ \E t \in Task : \E S \in SUBSET Task : Finish(t, S)

DagSpec == DagInit /\ [][DagNext]_dagVars

=============================================================================

--------------------------- MODULE MCWorkerDevices ---------------------------
(***************************************************************************)
(* WorkerDevices with one or two tasks for each device.                    *)
(***************************************************************************)
EXTENDS WorkerDevices, TLC

CONSTANTS Arrivals  \* the times of events elsewhere

TaskSymmetry ==
  Permutations(CpuTask) \cup Permutations(DiskTask) \cup Permutations(NetworkTask)

MCWorkerNext ==
  \/ /\ now' \in Arrivals \cup {now}
     /\ \E t \in Task : Place(t)
  \/ \E e \in events : Finish(e)
  \/ \E e \in events : Skip(e)

MCWorkerSpec == WorkerInit /\ [][MCWorkerNext]_workerVars

=============================================================================

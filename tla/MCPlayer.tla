------------------------------ MODULE MCPlayer ------------------------------
(***************************************************************************)
(* Player over every log of a few units, or of a few units that last.      *)
(***************************************************************************)
EXTENDS Player, TLC

CONSTANTS LastTime

(* Twelve units of data are a whole number a second for up to four seconds.*)
MCRecords ==
  {[worker |-> w, kind |-> k, request |-> IF k = "network" THEN 12 ELSE 2,
    memory |-> m, assigned |-> a, finished |-> f] :
     w \in {0, 1}, k \in {"cpu", "network", "disk"}, m \in {1},
     a \in 1 .. LastTime - 1, f \in 1 .. LastTime}

MCLogs == [Unit -> {r \in MCRecords : r.assigned <= r.finished}]
LastingLogs == [Unit -> {r \in MCRecords : r.assigned < r.finished}]

UnitSymmetry == Permutations(Unit)

=============================================================================

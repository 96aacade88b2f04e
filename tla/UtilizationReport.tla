-------------------------- MODULE UtilizationReport --------------------------
(***************************************************************************)
(* The report both programs write: WorkerAbstract::ReportUtilization       *)
(* (src/worker/worker_abstract.h) and Player::ReportUtilization            *)
(* (src/play_back/player.h).  A std::map from ticks to what was recorded   *)
(* is written as one line for every tick from the first key to the last.   *)
(* Definitions whose name starts with Wrong are slips nothing uses, as in  *)
(* JobGraph.                                                               *)
(***************************************************************************)
EXTENDS Integers, Sequences, FiniteSetsExt

(* insert of a map, which keeps what it has for a key.                     *)
Inserted(record, key, value) ==
  [k \in DOMAIN record \cup {key} |-> IF k \in DOMAIN record THEN record[k] ELSE value]

(* The keys after k; next_iter is the least of them.                       *)
Later(record, k) == {l \in DOMAIN record : l > k}

(* The lines for key k: up to the tick before the next key, or one.        *)
WrongRepeatsInclusive(record, k) ==
  IF Later(record, k) = {} THEN 1 ELSE Min(Later(record, k)) - k + 1

Repeats(record, k) ==
  IF Later(record, k) = {} THEN 1 ELSE Min(Later(record, k)) - k

ReportUtilization(record) ==
  LET lines[k \in DOMAIN record] ==
        [n \in 1 .. Repeats(record, k) |-> record[k]]
          \o (IF Later(record, k) = {} THEN << >> ELSE lines[Min(Later(record, k))])
  IN  lines[Min(DOMAIN record)]

=============================================================================

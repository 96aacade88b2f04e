-------------------------- MODULE MCBandwidthDevice --------------------------
(***************************************************************************)
(* BandwidthDevice for TLC.  The sizes, the capacity and the arrival times *)
(* are multiples that keep every share, duration and remainder whole.      *)
(***************************************************************************)
EXTENDS BandwidthDevice

CONSTANTS Arrivals  \* the times of events elsewhere

(* Tasks differ only in their sizes, which are chosen in every way, so it  *)
(* is enough that they are placed in one order.                            *)
NextTask == CHOOSE t \in Task : t \notin Range(arrived)

MCNext ==
  \/ /\ Task \ Range(arrived) # {}
     /\ now' \in Arrivals \cup {now}
     /\ Arrive(NextTask)
  \/ Serve

MCSpec == Init /\ [][MCNext]_vars
MCFairSpec == MCSpec /\ WF_vars(Serve)

=============================================================================

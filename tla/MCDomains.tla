------------------------------ MODULE MCDomains ------------------------------
(* A small instance of Domains for TLC: the requests and the disturbances  *)
(* of a behaviour are bounded, and so is their sum.                        *)
EXTENDS Domains

CONSTANTS MaxRequests, MaxDisturbances, MaxEvents

VARIABLES requests, disturbances    \* how many there have been

MCInit == Init /\ requests = 0 /\ disturbances = 0

MoreEvents == requests + disturbances < MaxEvents

MCNext ==
    \/ /\ Request /\ requests < MaxRequests /\ MoreEvents
       /\ requests' = requests + 1 /\ UNCHANGED disturbances
    \/ /\ Disturbance /\ disturbances < MaxDisturbances /\ MoreEvents
       /\ disturbances' = disturbances + 1 /\ UNCHANGED requests
    \/ Progress /\ UNCHANGED <<requests, disturbances>>

MCSpec == MCInit /\ [][MCNext]_<<vars, requests, disturbances>>

MCFairSpec == MCSpec /\ Fairness

=============================================================================

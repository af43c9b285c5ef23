------------------------------ MODULE MCClient ------------------------------
(* A small instance of Client for TLC: the calls and the disturbances of a *)
(* behaviour are bounded, the disturbances also by the number of logins.   *)
EXTENDS Client, TLC

CONSTANTS
    MaxCalls,
    MaxDisturbances,       \* with one login
    MaxDisturbances2       \* with more

VARIABLES calls, disturbances    \* how many there have been

mcvars == <<vars, calls, disturbances>>

MCInit == Init /\ calls = 0 /\ disturbances = 0

Bounded ==
    /\ calls' <= MaxCalls
    /\ disturbances' <= IF server'.ses > 1 THEN MaxDisturbances2 ELSE MaxDisturbances

MCNext ==
    /\ \/ Ask /\ calls' = calls + 1 /\ UNCHANGED disturbances
       \/ Disturbance /\ disturbances' = disturbances + 1 /\ UNCHANGED calls
       \/ Progress /\ UNCHANGED <<calls, disturbances>>
    /\ Bounded

MCSpec == MCInit /\ [][MCNext]_mcvars

MCFairSpec == MCSpec /\ Fairness

\* Goroutines, configurations and process ids are interchangeable.
Swap == Permutations(Thread) \cup Permutations(Version) \cup Permutations(Pid)

=============================================================================

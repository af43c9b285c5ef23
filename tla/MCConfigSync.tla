---------------------------- MODULE MCConfigSync ----------------------------
(* Small instances of ConfigSync for TLC.                                  *)
EXTENDS ConfigSync, TLC

CONSTANTS u1, m1, f1, f2

OneMapping == m1 :> u1

SwapFetchers == Permutations(Fetcher)

\* Nothing depends on the list in a fetch of a version that is no longer the desired one:
\* ReportAccepted refuses it, and desired_config_version never goes back.
LiveFetch(u, f) ==
    IF fetch[u][f].pc # "idle" /\ fetch[u][f].version # desired[u]
    THEN [fetch[u][f] EXCEPT !.items = {}] ELSE fetch[u][f]

\* As in MCMappings: nothing looks at the port of a revision that is neither active nor
\* pending, or tells a failed revision from a superseded one.
SyncView ==
    <<life, want, active, pending, lease, desired, applied, apply,
      [u \in User |-> [f \in Fetcher |-> LiveFetch(u, f)]],
      [m \in Mapping |-> [r \in LiveRevs(m) |-> rport[m][r]]],
      [m \in Mapping |-> [r \in RevNo |->
          IF rstat[m][r] = "failed" THEN "superseded" ELSE rstat[m][r]]]>>

=============================================================================

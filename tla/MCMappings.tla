----------------------------- MODULE MCMappings -----------------------------
(* Small instances of Mappings for TLC.                                    *)
EXTENDS Mappings, TLC

CONSTANTS u1, u2, m1, m2

\* Two accounts with one mapping each: leases are contended across accounts.
TwoOwners == (m1 :> u1) @@ (m2 :> u2)

\* The accounts, each with its mapping, are interchangeable.
SwapOwners == {(m1 :> m2) @@ (m2 :> m1) @@ (u1 :> u2) @@ (u2 :> u1)}

\* No action and no property looks at the port of a revision that is neither active nor
\* pending, or tells a failed revision from a superseded one.
LiveView ==
    <<life, want, active, pending, lease, desired,
      [m \in Mapping |-> [r \in LiveRevs(m) |-> rport[m][r]]],
      [m \in Mapping |-> [r \in RevNo |->
          IF rstat[m][r] = "failed" THEN "superseded" ELSE rstat[m][r]]]>>

=============================================================================

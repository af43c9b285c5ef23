------------------------- MODULE MCRouterSnapshots --------------------------
(* Small instances of RouterSnapshots for TLC.                             *)
EXTENDS RouterSnapshots, TLC

CONSTANTS h1

=============================================================================

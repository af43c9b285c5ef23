----------------------------- MODULE MCSessions -----------------------------
(* A small instance of Sessions for TLC: requests are interchangeable.     *)
EXTENDS Sessions, TLC

SwapRequests == Permutations(Req)

=============================================================================

--------------------------- MODULE MCGatewayPool ---------------------------
(* Small instances of GatewayPool for TLC. *)
EXTENDS GatewayPool, TLC

(* Requests are interchangeable, and so are the callers of CheckAccounts. *)
Symmetry == Permutations(Requests) \cup Permutations(Sweeps)
=============================================================================

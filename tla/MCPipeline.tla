----------------------------- MODULE MCPipeline -----------------------------
(* Small instances of Pipeline for TLC. *)
EXTENDS Pipeline, TLC

(* Workers and attempts are interchangeable: no order on either is ever used. *)
Symmetry == Permutations(SPool) \cup Permutations(PPool) \cup Permutations(CPool)
            \cup Permutations(OPool) \cup Permutations(Attempts)
=============================================================================

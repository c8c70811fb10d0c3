--------------------------- MODULE MCPrimeServer ---------------------------
(* Instances of PrimeServer for TLC. *)
EXTENDS PrimeServerInv, TLC

Symmetry == Permutations(Conns)
=============================================================================

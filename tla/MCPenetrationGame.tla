------------------------- MODULE MCPenetrationGame -------------------------
(* Two requests of any kind at once.                                         *)
EXTENDS PenetrationGame, TLC

Symmetry == Permutations(Requests) \cup Permutations(Saves) \cup Permutations(Deployments)
=============================================================================

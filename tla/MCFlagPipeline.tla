--------------------------- MODULE MCFlagPipeline ---------------------------
(* Requests: two requests in one process.  Recovery: a request and a       *)
(* FlagChecker worker in one process.  Replicas: two requests in one process,*)
(* a FlagChecker worker in another.                                        *)
EXTENDS FlagPipeline, TLC

CONSTANTS a, b, h1, h2, c1, c2

Requests == h1 :> a @@ h2 :> a
Recovery == h1 :> a @@ c1 :> a
Replicas == h1 :> a @@ h2 :> a @@ c2 :> b

SymmetryT == Permutations(Teams)
SymmetryTH == SymmetryT \cup Permutations(Http)
=============================================================================

-------------------------- MODULE MCFleetScheduler --------------------------
(* The server's own node and one worker, each with room for one container;  *)
(* of two requests the second may prefer the worker.                        *)
EXTENDS FleetScheduler, TLC

CONSTANTS r1, r2, k1, n1

MCCapacity == [n \in Nodes |-> 1]
MCPreferable == [r \in Reqs |-> IF r = r2 THEN {n1} ELSE {}]
MCVictim == [k \in Kills |-> r1]
=============================================================================

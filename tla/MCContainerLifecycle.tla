------------------------ MODULE MCContainerLifecycle ------------------------
(* Every request is about one challenge, whose flag names its containers.   *)
EXTENDS ContainerLifecycle, TLC

CONSTANTS web, p1, p2, d1

MCChal == [p \in Creates \cup Deletes |-> web]
=============================================================================

------------------------------- MODULE Mutex -------------------------------
(***************************************************************************)
(* What IDistributedLockService promises for one key ("Acquire an          *)
(* exclusive lock for the given key", IDistributedLockService.cs): callers *)
(* ask, at most one of them holds the lock, a caller may give up after its *)
(* timeout, and the handle is disposed once.                               *)
(***************************************************************************)
CONSTANT Procs

VARIABLE lock   \* what each caller is doing with the key

States == {"out", "asking", "in"}

Init == lock = [p \in Procs |-> "out"]

Ask(p) ==
    /\ lock[p] = "out"
    /\ lock' = [lock EXCEPT ![p] = "asking"]

Enter(p) ==
    /\ lock[p] = "asking"
    /\ \A q \in Procs : lock[q] # "in"
    /\ lock' = [lock EXCEPT ![p] = "in"]

Leave(p) ==
    /\ lock[p] \in {"asking", "in"}
    /\ lock' = [lock EXCEPT ![p] = "out"]

Next == \E p \in Procs :
    Ask(p) \/ Enter(p) \/ Leave(p)

Spec == Init /\ [][Next]_lock
=============================================================================

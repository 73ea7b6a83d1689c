----------------------------- MODULE RedisLock -----------------------------
(***************************************************************************)
(* RedisDistributedLock, the lock of Fleet mode, for one key: LockTake     *)
(* (SET NX with an expiry) polled every 100 ms until the wait timeout, and *)
(* a release script that deletes the key only when it still holds the      *)
(* caller's own token.  Every acquisition draws a new random token, so the *)
(* caller itself stands for its token.                                     *)
(*                                                                         *)
(* Nothing renews the lease, so a critical section may outlive             *)
(* DefaultLockExpiry (45 s).  The history variable overrun, which no guard *)
(* reads, remembers the callers this has happened to: what the lock still  *)
(* promises is said of all the others.                                     *)
(***************************************************************************)
CONSTANTS
    Procs,     \* callers, on any number of machines
    NoToken    \* the key does not exist in Redis

ASSUME RedisLockAssumption == NoToken \notin Procs

VARIABLES
    key,       \* the caller whose token the Redis key holds, or NoToken
    pc,        \* where each caller is
    overrun    \* history: callers inside whose own lease has run out

vars == <<key, pc, overrun>>

PCs == {"idle", "polling", "held"}

Holders == {p \in Procs : pc[p] = "held"}

Init ==
    /\ key = NoToken
    /\ pc = [p \in Procs |-> "idle"]
    /\ overrun = {}

-----------------------------------------------------------------------------
Acquire(p) ==
    /\ pc[p] = "idle"
    /\ pc' = [pc EXCEPT ![p] = "polling"]
    /\ UNCHANGED <<key, overrun>>

\* LockTakeAsync succeeded; a failed attempt changes nothing and is retried.
LockTake(p) ==
    /\ pc[p] = "polling"
    /\ key = NoToken
    /\ key' = p
    /\ pc' = [pc EXCEPT ![p] = "held"]
    /\ UNCHANGED overrun

\* The deadline passed between two attempts: TimeoutException.
GiveUp(p) ==
    /\ pc[p] = "polling"
    /\ pc' = [pc EXCEPT ![p] = "idle"]
    /\ UNCHANGED <<key, overrun>>

\* Mutant: the release script deletes the key without comparing the token.
BadDisposeUnfenced(p) ==
    /\ pc[p] = "held"
    /\ key' = NoToken
    /\ pc' = [pc EXCEPT ![p] = "idle"]
    /\ overrun' = overrun \ {p}

\* RedisLockReleaser.Dispose: compare the token, then delete.
Dispose(p) ==
    /\ pc[p] = "held"
    /\ key' = IF key = p THEN NoToken ELSE key
    /\ pc' = [pc EXCEPT ![p] = "idle"]
    /\ overrun' = overrun \ {p}

\* The script call failed and the exception was logged, or the process died
\* while it held the lock: the key stays until it expires.
Abandon(p) ==
    /\ pc[p] = "held"
    /\ pc' = [pc EXCEPT ![p] = "idle"]
    /\ overrun' = overrun \ {p}
    /\ UNCHANGED key

\* Redis drops the key when the lease ends, whatever its holder is doing.  (A
\* caller whose abandoned key is still there draws a fresh token, so it is
\* refused like anybody else until then.)
Expire ==
    /\ key # NoToken
    /\ key' = NoToken
    /\ overrun' = IF pc[key] = "held" THEN overrun \cup {key} ELSE overrun
    /\ UNCHANGED pc

Next ==
    \/ \E p \in Procs :
          Acquire(p) \/ LockTake(p) \/ GiveUp(p) \/ Dispose(p) \/ Abandon(p)
    \/ Expire

Spec == Init /\ [][Next]_vars
-----------------------------------------------------------------------------
TypeOK ==
    /\ key \in Procs \cup {NoToken}
    /\ pc \in [Procs -> PCs]
    /\ overrun \subseteq Procs

\* The inductive invariant: the Redis key is the token of every caller inside
\* whose own lease has not run out, and no caller outside has overrun.
HolderOwnsKey ==
    /\ overrun \subseteq Holders
    /\ \A p \in Holders \ overrun : key = p

\* What IDistributedLockService documents, between the callers that kept to
\* their own lease: no release and no expiry of another caller's lease lets a
\* second one in.
ExclusiveWithinLease == \A p, q \in Holders \ overrun : p = q

\* The token comparison: whatever expired, the key of a caller that is inside
\* its critical section disappears only by its own release or by expiry, never
\* by the late release of an earlier holder.
ReleaseIsFenced ==
    [][\A p \in Procs : key = p /\ key' # p =>
          pc' = pc \/ (pc[p] = "held" /\ pc'[p] = "idle")]_vars

\* The documented lock: a caller is inside from the moment it takes the key
\* until it releases or its own lease runs out.  What the key holds in between
\* is not asked: if the late release of a caller that overran deleted the next
\* holder's key, a third caller could enter while that holder is inside, and
\* Mutex has no such step.
Mapped == [p \in Procs |->
    IF pc[p] = "polling" THEN "asking"
    ELSE IF p \in Holders \ overrun THEN "in" ELSE "out"]

M == INSTANCE Mutex WITH lock <- Mapped

LeasesExclude == M!Spec
=============================================================================

----------------------------- MODULE NamedLock -----------------------------
(***************************************************************************)
(* LocalSemaphoreLock, the in-process lock FleetManager and QueueManager   *)
(* take around scheduling when the platform does not run in Fleet mode.    *)
(* LocalLockPool is a dictionary from key to SemaphoreSlim(1, 1); every    *)
(* key is independent, so one key is modelled.                             *)
(*                                                                         *)
(* The two calls of AcquireAsync are two steps: GetOrCreate runs under     *)
(* _syncRoot, WaitAsync runs after it is released.  Release runs under     *)
(* _syncRoot and looks the semaphore up again by key.                      *)
(*                                                                         *)
(* A semaphore object that neither the pool nor a caller refers to has     *)
(* been collected, and its identity may be used again: |Procs| + 1         *)
(* identities are enough and no bound is needed.                           *)
(***************************************************************************)
EXTENDS Naturals, FiniteSets, Sequences

CONSTANTS Procs,    \* threads of the process that use the key
          Sems,     \* identities of SemaphoreSlim objects
          None      \* no semaphore

ASSUME NamedLockAssumption ==
    /\ IsFiniteSet(Procs)
    /\ IsFiniteSet(Sems)
    /\ Cardinality(Sems) > Cardinality(Procs)
    /\ None \notin Sems

VARIABLES
    pool,     \* the semaphore _locks holds for the key, or None
    count,    \* CurrentCount of every semaphore
    queue,    \* FIFO of the asynchronous waiters of every semaphore
    pc,       \* where each caller is
    local     \* the `semaphore` variable of each call of AcquireAsync

vars == <<pool, count, queue, pc, local>>

\* "faulted": Dispose threw SemaphoreFullException out of the using block.
PCs == {"idle", "got", "waiting", "held", "faulted"}

Holders == {p \in Procs : pc[p] = "held"}

Referenced == {pool} \cup {local[p] : p \in Procs}

Init ==
    /\ pool = None
    /\ count = [s \in Sems |-> 1]
    /\ queue = [s \in Sems |-> <<>>]
    /\ pc = [p \in Procs |-> "idle"]
    /\ local = [p \in Procs |-> None]

-----------------------------------------------------------------------------
\* LocalLockPool.GetOrCreate: the registered semaphore, or a new one.
GetOrCreate(p) ==
    /\ pc[p] = "idle"
    /\ pc' = [pc EXCEPT ![p] = "got"]
    /\ \/ /\ pool # None
          /\ local' = [local EXCEPT ![p] = pool]
          /\ UNCHANGED <<pool, count, queue>>
       \/ /\ pool = None
          /\ \E s \in Sems \ Referenced :
                /\ pool' = s
                /\ local' = [local EXCEPT ![p] = s]
                /\ count' = [count EXCEPT ![s] = 1]
                /\ queue' = [queue EXCEPT ![s] = <<>>]

\* semaphore.WaitAsync: a free semaphore is taken at once, otherwise the
\* caller joins its queue.
WaitAsync(p) ==
    LET s == local[p] IN
    /\ pc[p] = "got"
    /\ \/ /\ count[s] > 0
          /\ count' = [count EXCEPT ![s] = @ - 1]
          /\ pc' = [pc EXCEPT ![p] = "held"]
          /\ UNCHANGED queue
       \/ /\ count[s] = 0
          /\ queue' = [queue EXCEPT ![s] = Append(@, p)]
          /\ pc' = [pc EXCEPT ![p] = "waiting"]
          /\ UNCHANGED count
    /\ UNCHANGED <<pool, local>>

\* Mutant: the queue keeps a caller that gave up.
BadTimeoutStaysQueued(p) ==
    /\ pc[p] = "waiting"
    /\ pc' = [pc EXCEPT ![p] = "idle"]
    /\ local' = [local EXCEPT ![p] = None]
    /\ UNCHANGED <<pool, count, queue>>

Without(q, i) == [k \in 1..Len(q) - 1 |-> q[IF k < i THEN k ELSE k + 1]]

\* WaitAsync returned false after the timeout: the waiter is unlinked from the
\* queue and AcquireAsync throws TimeoutException.
Timeout(p) ==
    /\ pc[p] = "waiting"
    /\ \E i \in 1..Len(queue[local[p]]) :
          /\ queue[local[p]][i] = p
          /\ queue' = [queue EXCEPT ![local[p]] = Without(@, i)]
    /\ pc' = [pc EXCEPT ![p] = "idle"]
    /\ local' = [local EXCEPT ![p] = None]
    /\ UNCHANGED <<pool, count>>

-----------------------------------------------------------------------------
\* LocalLockPool.Release: the semaphore released is the one the dictionary
\* holds now, whichever one the caller acquired.
ReleaseNothing(p) ==
    /\ pool = None
    /\ pc' = [pc EXCEPT ![p] = "idle"]
    /\ UNCHANGED <<pool, count, queue>>

\* Mutant: a semaphore created without its maximum.
BadReleaseOverMaximum(p) ==
    /\ pool # None
    /\ count[pool] = 1
    /\ count' = [count EXCEPT ![pool] = 2]
    /\ pc' = [pc EXCEPT ![p] = "idle"]
    /\ UNCHANGED <<pool, queue>>

\* SemaphoreSlim(1, 1).Release at its maximum throws.
ReleaseFull(p) ==
    /\ pool # None
    /\ count[pool] = 1
    /\ pc' = [pc EXCEPT ![p] = "faulted"]
    /\ UNCHANGED <<pool, count, queue>>

\* Mutant: the newest waiter is served first.
BadReleaseToNewest(p) ==
    /\ pool # None
    /\ count[pool] = 0
    /\ queue[pool] # <<>>
    /\ pc' = [pc EXCEPT ![p] = "idle", ![queue[pool][Len(queue[pool])]] = "held"]
    /\ queue' = [queue EXCEPT ![pool] = SubSeq(@, 1, Len(@) - 1)]
    /\ UNCHANGED <<pool, count>>

\* Release hands the permit to the first waiter; CurrentCount stays 0 and
\* the entry stays.
ReleaseToWaiter(p) ==
    /\ pool # None
    /\ count[pool] = 0
    /\ queue[pool] # <<>>
    /\ pc' = [pc EXCEPT ![p] = "idle", ![Head(queue[pool])] = "held"]
    /\ queue' = [queue EXCEPT ![pool] = Tail(@)]
    /\ UNCHANGED <<pool, count>>

\* Mutant: the entry is kept although nobody uses it.
BadReleaseKeepsEntry(p) ==
    /\ pool # None
    /\ count[pool] = 0
    /\ queue[pool] = <<>>
    /\ count' = [count EXCEPT ![pool] = 1]
    /\ pc' = [pc EXCEPT ![p] = "idle"]
    /\ UNCHANGED <<pool, queue>>

\* No waiter: CurrentCount becomes 1 and the entry is removed.
ReleaseLast(p) ==
    /\ pool # None
    /\ count[pool] = 0
    /\ queue[pool] = <<>>
    /\ count' = [count EXCEPT ![pool] = 1]
    /\ pool' = None
    /\ pc' = [pc EXCEPT ![p] = "idle"]
    /\ UNCHANGED queue

Dispose(p) ==
    /\ pc[p] = "held"
    /\ local' = [local EXCEPT ![p] = None]
    /\ \/ ReleaseNothing(p)
       \/ ReleaseFull(p)
       \/ ReleaseToWaiter(p)
       \/ ReleaseLast(p)

\* The caller of the using block handles the exception and may come back.
Recover(p) ==
    /\ pc[p] = "faulted"
    /\ pc' = [pc EXCEPT ![p] = "idle"]
    /\ UNCHANGED <<pool, count, queue, local>>

Next == \E p \in Procs :
    GetOrCreate(p) \/ WaitAsync(p) \/ Timeout(p) \/ Dispose(p) \/ Recover(p)

\* A caller that was scheduled runs on, and a using block ends.  Nothing is
\* assumed of Timeout: waiting must not depend on giving up.
Fairness == \A p \in Procs : WF_vars(WaitAsync(p)) /\ WF_vars(Dispose(p))

Spec == Init /\ [][Next]_vars

FairSpec == Spec /\ Fairness
-----------------------------------------------------------------------------
TypeOK ==
    /\ pool \in Sems \cup {None}
    /\ count \in [Sems -> 0..1]
    /\ queue \in [Sems -> Seq(Procs)]
    /\ pc \in [Procs -> PCs]
    /\ local \in [Procs -> Sems \cup {None}]

\* Mutual exclusion, what IDistributedLockService documents: two callers
\* never hold the key together.
MutualExclusion == Cardinality(Holders) <= 1

\* The registered semaphore always has a caller that will either take it or
\* release it: an entry without one would keep every later caller of the key
\* waiting for its whole timeout, forever (Release is the only place that
\* removes entries).
EntryHasActiveCaller ==
    pool # None =>
        \E p \in Procs : local[p] = pool /\ pc[p] \in {"got", "held"}

\* A permit is never lost with the entry: while the registered semaphore is
\* taken, one of its takers still holds it.  (A retired semaphore may have
\* waiters and no holder; the registered one may not.)
TakenEntryHasHolder ==
    pool # None /\ count[pool] = 0 =>
        \E p \in Procs : local[p] = pool /\ pc[p] = "held"

\* A waiter on the registered semaphore is served in its turn, as long as
\* that semaphore stays registered, without having to time out.
RegisteredWaiterServed == \A p \in Procs :
    (pc[p] = "waiting" /\ local[p] = pool) ~> (pc[p] # "waiting" \/ local[p] # pool)
=============================================================================

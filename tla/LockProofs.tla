----------------------------- MODULE LockProofs -----------------------------
(***************************************************************************)
(* The two implementations of IDistributedLockService.                     *)
(*                                                                         *)
(* The pool of LocalSemaphoreLock (NamedLock) stays usable whatever the    *)
(* interleaving: the registered semaphore always has a caller that will    *)
(* take or release it.  The property is not inductive.  It needs to know   *)
(* that a taken registered semaphore has a holder of its own               *)
(* (TakenEntryHasHolder), and that for the hand-over in Release, that a    *)
(* queued caller is waiting, on that semaphore, once.                      *)
(*                                                                         *)
(* RedisDistributedLock (R, below) has the same callers.  That the key     *)
(* names every caller inside whose own lease has not run out is inductive  *)
(* with the types, and the refinement of Mutex rests on it.                *)
(***************************************************************************)
EXTENDS NamedLock, SequenceTheorems, FiniteSetTheorems, TLAPS

CONSTANT NoToken             \* of RedisLock
VARIABLES key, rpc, overrun  \* the Redis key; where each caller is; who overran

R == INSTANCE RedisLock WITH pc <- rpc

\* A caller has a semaphore exactly while a call of it is under way.
LocalWhileActive ==
    \A p \in Procs : local[p] # None <=> pc[p] \in {"got", "waiting", "held"}

\* What stands in a queue is waiting there, and stands there once.
QueueOfWaiters ==
    \A s \in Sems : \A i \in 1..Len(queue[s]) :
        /\ pc[queue[s][i]] = "waiting"
        /\ local[queue[s][i]] = s
        /\ \A j \in 1..Len(queue[s]) : queue[s][i] = queue[s][j] => i = j

\* A registered semaphore that is free has just been made, and the caller that
\* made it is about to wait for it.
FreeEntryHasComer ==
    pool # None /\ count[pool] = 1 =>
        \E p \in Procs : local[p] = pool /\ pc[p] = "got"

IInv ==
    /\ TypeOK
    /\ LocalWhileActive
    /\ QueueOfWaiters
    /\ FreeEntryHasComer
    /\ TakenEntryHasHolder

-----------------------------------------------------------------------------
\* Unlinking a waiter keeps the order of the others.
LEMMA WithoutProperties ==
    ASSUME NEW S, NEW q \in Seq(S), NEW i \in 1..Len(q)
    PROVE  /\ Without(q, i) \in Seq(S)
           /\ Len(Without(q, i)) = Len(q) - 1
           /\ \A k \in 1..Len(q) - 1 :
                 Without(q, i)[k] = q[IF k < i THEN k ELSE k + 1]
<1> DEFINE n == Len(q) - 1
<1>1. n \in Nat
  BY LenProperties
<1>2. \A k \in 1..n : q[IF k < i THEN k ELSE k + 1] \in S
  <2> TAKE k \in 1..n
  <2>1. (IF k < i THEN k ELSE k + 1) \in 1..Len(q)
    BY LenProperties
  <2> QED
    BY <2>1, ElementOfSeq
<1>3. Without(q, i) \in Seq(S)
  BY <1>1, <1>2, IsASeq DEF Without
<1>4. Len(Without(q, i)) = n
  BY <1>1, <1>3, LenProperties DEF Without
<1> QED
  BY <1>3, <1>4 DEF Without

LEMMA InitIInv == Init => IInv
<1> SUFFICES ASSUME Init PROVE IInv
  OBVIOUS
<1>1. TypeOK
  BY EmptySeq DEF Init, TypeOK, PCs
<1>2. LocalWhileActive /\ FreeEntryHasComer /\ TakenEntryHasHolder
  BY DEF Init, LocalWhileActive, FreeEntryHasComer, TakenEntryHasHolder
<1>3. QueueOfWaiters
  BY EmptySeq DEF Init, QueueOfWaiters
<1> QED
  BY <1>1, <1>2, <1>3 DEF IInv

LEMMA GetOrCreateIInv ==
    ASSUME IInv, NEW p \in Procs, GetOrCreate(p) PROVE IInv'
<1> USE NamedLockAssumption DEF IInv, PCs
<1>1. CASE pool # None
  <2>1. TypeOK'
    BY <1>1 DEF GetOrCreate, TypeOK
  <2>2. LocalWhileActive' /\ TakenEntryHasHolder' /\ FreeEntryHasComer'
    BY <1>1 DEF GetOrCreate, TypeOK, LocalWhileActive, TakenEntryHasHolder, FreeEntryHasComer
  <2>3. QueueOfWaiters'
    BY <1>1, ElementOfSeq DEF GetOrCreate, TypeOK, QueueOfWaiters
  <2> QED
    BY <2>1, <2>2, <2>3
<1>2. CASE pool = None
  <2>1. PICK s \in Sems \ Referenced :
          /\ pool' = s
          /\ local' = [local EXCEPT ![p] = s]
          /\ count' = [count EXCEPT ![s] = 1]
          /\ queue' = [queue EXCEPT ![s] = <<>>]
    BY <1>2 DEF GetOrCreate
  <2>2. pc' = [pc EXCEPT ![p] = "got"] /\ pc[p] = "idle"
    BY DEF GetOrCreate
  <2>3. TypeOK'
    BY <2>1, <2>2, EmptySeq DEF TypeOK
  <2>4. LocalWhileActive' /\ TakenEntryHasHolder' /\ FreeEntryHasComer'
    BY <2>1, <2>2 DEF TypeOK, LocalWhileActive, TakenEntryHasHolder, FreeEntryHasComer
  <2>5. QueueOfWaiters'
    BY <2>1, <2>2, ElementOfSeq, EmptySeq DEF TypeOK, QueueOfWaiters
  <2> QED
    BY <2>3, <2>4, <2>5
<1> QED
  BY <1>1, <1>2

LEMMA WaitAsyncIInv ==
    ASSUME IInv, NEW p \in Procs, WaitAsync(p) PROVE IInv'
<1> USE NamedLockAssumption DEF IInv, PCs
<1> DEFINE s == local[p]
<1>1. s \in Sems /\ pc[p] = "got"
  BY DEF WaitAsync, LocalWhileActive, TypeOK
<1>2. CASE count[s] > 0
  <2>1. /\ count' = [count EXCEPT ![s] = @ - 1]
        /\ pc' = [pc EXCEPT ![p] = "held"]
        /\ UNCHANGED <<queue, pool, local>>
    BY <1>1, <1>2 DEF WaitAsync, TypeOK
  <2>2. TypeOK' /\ count'[s] = 0
    BY <1>1, <1>2, <2>1 DEF TypeOK
  <2>3. LocalWhileActive' /\ TakenEntryHasHolder' /\ FreeEntryHasComer'
    BY <1>1, <2>1, <2>2 DEF TypeOK, LocalWhileActive, TakenEntryHasHolder, FreeEntryHasComer
  <2>4. QueueOfWaiters'
    BY <1>1, <2>1, ElementOfSeq DEF TypeOK, QueueOfWaiters
  <2> QED
    BY <2>2, <2>3, <2>4
<1>3. CASE count[s] = 0
  <2>1. /\ queue' = [queue EXCEPT ![s] = Append(@, p)]
        /\ pc' = [pc EXCEPT ![p] = "waiting"]
        /\ UNCHANGED <<count, pool, local>>
    BY <1>1, <1>3 DEF WaitAsync
  <2>2. /\ queue[s] \in Seq(Procs)
        /\ Append(queue[s], p) \in Seq(Procs)
        /\ Len(Append(queue[s], p)) = Len(queue[s]) + 1
        /\ \A i \in 1..Len(queue[s]) : Append(queue[s], p)[i] = queue[s][i]
        /\ Append(queue[s], p)[Len(queue[s]) + 1] = p
    BY <1>1, AppendProperties DEF TypeOK
  <2>3. TypeOK'
    BY <1>1, <2>1, <2>2 DEF TypeOK
  <2>4. LocalWhileActive' /\ TakenEntryHasHolder' /\ FreeEntryHasComer'
    BY <1>1, <1>3, <2>1 DEF TypeOK, LocalWhileActive, TakenEntryHasHolder, FreeEntryHasComer
  <2>5. \A t \in Sems : \A i \in 1..Len(queue[t]) : queue[t][i] # p
    BY <1>1 DEF QueueOfWaiters
  <2>6. ASSUME NEW t \in Sems, NEW i \in 1..Len(queue'[t])
        PROVE  /\ pc'[queue'[t][i]] = "waiting"
               /\ local'[queue'[t][i]] = t
               /\ \A j \in 1..Len(queue'[t]) : queue'[t][i] = queue'[t][j] => i = j
    <3>1. CASE t # s
      BY <2>1, <2>5, <2>6, <3>1, ElementOfSeq DEF TypeOK, QueueOfWaiters
    <3>2. CASE t = s
      <4>1. Len(queue[s]) \in Nat /\ queue'[t] = Append(queue[s], p)
        BY <1>1, <2>1, <2>2, <3>2, LenProperties DEF TypeOK
      <4>2. CASE i = Len(queue[s]) + 1
        BY <1>1, <2>1, <2>2, <2>5, <3>2, <4>1, <4>2 DEF TypeOK
      <4>3. CASE i \in 1..Len(queue[s])
        <5>1. queue'[t][i] = queue[s][i] /\ queue[s][i] \in Procs
          BY <2>2, <4>1, <4>3, ElementOfSeq
        <5>2. pc'[queue'[t][i]] = "waiting" /\ local'[queue'[t][i]] = t
          BY <2>1, <5>1, <2>5, <4>3, <3>2, <1>1 DEF QueueOfWaiters, TypeOK
        <5>3. \A j \in 1..Len(queue'[t]) : queue'[t][i] = queue'[t][j] => i = j
          BY <1>1, <2>2, <2>5, <4>1, <4>3, <5>1 DEF QueueOfWaiters
        <5> QED
          BY <5>2, <5>3
      <4> QED
        BY <2>2, <2>6, <4>1, <4>2, <4>3
    <3> QED
      BY <3>1, <3>2
  <2>7. QueueOfWaiters'
    BY <2>6 DEF QueueOfWaiters
  <2> QED
    BY <2>3, <2>4, <2>7
<1> QED
  BY <1>1, <1>2, <1>3 DEF WaitAsync

LEMMA TimeoutIInv ==
    ASSUME IInv, NEW p \in Procs, Timeout(p) PROVE IInv'
<1> USE NamedLockAssumption DEF IInv, PCs
<1> DEFINE s == local[p]
<1>1. s \in Sems /\ pc[p] = "waiting"
  BY DEF Timeout, LocalWhileActive, TypeOK
<1>2. PICK n \in 1..Len(queue[s]) :
        queue[s][n] = p /\ queue' = [queue EXCEPT ![s] = Without(@, n)]
  BY DEF Timeout
<1>3. /\ pc' = [pc EXCEPT ![p] = "idle"]
      /\ local' = [local EXCEPT ![p] = None]
      /\ UNCHANGED <<pool, count>>
  BY DEF Timeout
<1> DEFINE w == Without(queue[s], n)
<1>4. /\ queue[s] \in Seq(Procs)
      /\ w \in Seq(Procs)
      /\ Len(w) = Len(queue[s]) - 1
      /\ \A k \in 1..Len(queue[s]) - 1 : w[k] = queue[s][IF k < n THEN k ELSE k + 1]
  <2>1. queue[s] \in Seq(Procs)
    BY <1>1 DEF TypeOK
  <2> QED
    BY <2>1, WithoutProperties
<1> HIDE DEF w
<1>5. queue' = [queue EXCEPT ![s] = w]
  BY <1>2 DEF w
<1>6. TypeOK'
  BY <1>1, <1>3, <1>4, <1>5 DEF TypeOK
<1>7. LocalWhileActive' /\ TakenEntryHasHolder' /\ FreeEntryHasComer'
  BY <1>1, <1>3, <1>6 DEF TypeOK, LocalWhileActive, TakenEntryHasHolder, FreeEntryHasComer
<1>8. ASSUME NEW t \in Sems, NEW i \in 1..Len(queue'[t])
      PROVE  /\ pc'[queue'[t][i]] = "waiting"
             /\ local'[queue'[t][i]] = t
             /\ \A j \in 1..Len(queue'[t]) : queue'[t][i] = queue'[t][j] => i = j
  <2>1. CASE t # s
    <3>1. queue'[t] = queue[t]
      BY <1>5, <2>1 DEF TypeOK
    <3>2. queue[t][i] \in Procs /\ local[queue[t][i]] = t
      BY <1>8, <3>1, ElementOfSeq DEF TypeOK, QueueOfWaiters
    <3>3. queue[t][i] # p
      BY <2>1, <3>2
    <3> QED
      BY <1>3, <1>8, <3>1, <3>2, <3>3 DEF TypeOK, QueueOfWaiters
  <2>2. CASE t = s
    <3>1. queue'[t] = w /\ Len(queue[s]) \in Nat
      BY <1>1, <1>4, <1>5, <2>2, LenProperties DEF TypeOK
    <3> DEFINE at(k) == IF k < n THEN k ELSE k + 1
    <3>2. \A k \in 1..Len(w) : /\ at(k) \in 1..Len(queue[s])
                              /\ at(k) # n
                              /\ w[k] = queue[s][at(k)]
      BY <1>4, <3>1
    <3>3. \A k, j \in 1..Len(w) : at(k) = at(j) => k = j
      BY <1>4, <3>1
    <3> HIDE DEF at
    <3>4. w[i] \in Procs /\ w[i] # p /\ pc[w[i]] = "waiting" /\ local[w[i]] = s
      <4>1. at(i) \in 1..Len(queue[s]) /\ at(i) # n /\ w[i] = queue[s][at(i)]
        BY <1>8, <3>1, <3>2
      <4>2. w[i] \in Procs
        BY <1>4, <4>1, ElementOfSeq
      <4>3. w[i] # queue[s][n]
        BY <1>1, <1>2, <4>1 DEF QueueOfWaiters
      <4> QED
        BY <1>1, <1>2, <4>1, <4>2, <4>3 DEF QueueOfWaiters
    <3>5. \A j \in 1..Len(w) : w[i] = w[j] => i = j
      BY <1>1, <1>8, <3>1, <3>2, <3>3 DEF QueueOfWaiters
    <3> QED
      BY <1>3, <2>2, <3>1, <3>4, <3>5 DEF TypeOK
  <2> QED
    BY <2>1, <2>2
<1>9. QueueOfWaiters'
  BY <1>8 DEF QueueOfWaiters
<1> QED
  BY <1>6, <1>7, <1>9
LEMMA DisposeIInv ==
    ASSUME IInv, NEW p \in Procs, Dispose(p) PROVE IInv'
<1> USE NamedLockAssumption DEF IInv, PCs
<1>1. pc[p] = "held" /\ local' = [local EXCEPT ![p] = None]
  BY DEF Dispose
<1>2. \A t \in Sems : \A i \in 1..Len(queue[t]) : queue[t][i] \in Procs \ {p}
  BY <1>1, ElementOfSeq DEF QueueOfWaiters, TypeOK
<1>3. CASE ReleaseNothing(p)
  <2>1. TypeOK' /\ LocalWhileActive' /\ TakenEntryHasHolder' /\ FreeEntryHasComer'
    BY <1>1, <1>3
    DEF ReleaseNothing, TypeOK, LocalWhileActive, TakenEntryHasHolder, FreeEntryHasComer
  <2>2. QueueOfWaiters'
    BY <1>1, <1>2, <1>3 DEF ReleaseNothing, TypeOK, QueueOfWaiters
  <2> QED
    BY <2>1, <2>2
<1>4. CASE ReleaseFull(p)
  <2>1. TypeOK' /\ LocalWhileActive' /\ TakenEntryHasHolder' /\ FreeEntryHasComer'
    BY <1>1, <1>4 DEF ReleaseFull, TypeOK, LocalWhileActive, TakenEntryHasHolder, FreeEntryHasComer
  <2>2. QueueOfWaiters'
    BY <1>1, <1>2, <1>4 DEF ReleaseFull, TypeOK, QueueOfWaiters
  <2> QED
    BY <2>1, <2>2
<1>5. CASE ReleaseToWaiter(p)
  <2> DEFINE h == Head(queue[pool])
  <2>1. /\ pool \in Sems /\ count[pool] = 0 /\ queue[pool] # <<>>
        /\ pc' = [pc EXCEPT ![p] = "idle", ![h] = "held"]
        /\ queue' = [queue EXCEPT ![pool] = Tail(@)]
        /\ UNCHANGED <<pool, count>>
    BY <1>5 DEF ReleaseToWaiter, TypeOK
  <2>2. /\ queue[pool] \in Seq(Procs) /\ Len(queue[pool]) \in Nat
        /\ Tail(queue[pool]) \in Seq(Procs)
        /\ Len(Tail(queue[pool])) = Len(queue[pool]) - 1
        /\ \A i \in 1..Len(queue[pool]) - 1 : Tail(queue[pool])[i] = queue[pool][i + 1]
        /\ 1 \in 1..Len(queue[pool]) /\ h = queue[pool][1]
    BY <2>1, HeadTailProperties, LenProperties, EmptySeq DEF TypeOK
  <2>3. h \in Procs \ {p} /\ pc[h] = "waiting" /\ local[h] = pool
    BY <1>2, <2>1, <2>2 DEF QueueOfWaiters
  <2> HIDE DEF h
  <2>4. TypeOK'
    BY <1>1, <2>1, <2>2, <2>3 DEF TypeOK
  <2>5. LocalWhileActive' /\ TakenEntryHasHolder' /\ FreeEntryHasComer'
    BY <1>1, <2>1, <2>3 DEF TypeOK, LocalWhileActive, TakenEntryHasHolder, FreeEntryHasComer
  <2>6. ASSUME NEW t \in Sems, NEW i \in 1..Len(queue'[t])
        PROVE  /\ pc'[queue'[t][i]] = "waiting"
               /\ local'[queue'[t][i]] = t
               /\ \A j \in 1..Len(queue'[t]) : queue'[t][i] = queue'[t][j] => i = j
    <3>1. CASE t # pool
      <4>1. queue'[t] = queue[t]
        BY <2>1, <3>1 DEF TypeOK
      <4>2. queue[t][i] \in Procs \ {p} /\ local[queue[t][i]] = t
        BY <1>2, <2>6, <4>1 DEF QueueOfWaiters
      <4>3. queue[t][i] # h
        BY <2>3, <3>1, <4>2
      <4> QED
        BY <1>1, <2>1, <2>3, <2>6, <4>1, <4>2, <4>3 DEF TypeOK, QueueOfWaiters
    <3>2. CASE t = pool
      <4>1. queue'[t] = Tail(queue[pool])
        BY <2>1, <3>2 DEF TypeOK
      <4>2. i + 1 \in 1..Len(queue[pool]) /\ i + 1 # 1 /\ queue'[t][i] = queue[pool][i + 1]
        BY <2>2, <2>6, <4>1
      <4>3. queue[pool][i + 1] \in Procs \ {p} /\ queue[pool][i + 1] # h
        BY <1>2, <2>1, <2>2, <4>2 DEF QueueOfWaiters
      <4>4. pc'[queue'[t][i]] = "waiting" /\ local'[queue'[t][i]] = t
        BY <1>1, <2>1, <2>3, <3>2, <4>2, <4>3 DEF TypeOK, QueueOfWaiters
      <4>5. ASSUME NEW j \in 1..Len(queue'[t]), queue'[t][i] = queue'[t][j]
            PROVE  i = j
        <5>1. j + 1 \in 1..Len(queue[pool]) /\ queue'[t][j] = queue[pool][j + 1]
          BY <2>2, <4>1
        <5>2. i + 1 = j + 1
          BY <2>1, <4>2, <4>5, <5>1 DEF QueueOfWaiters
        <5> QED
          BY <2>2, <4>1, <5>2
      <4> QED
        BY <4>4, <4>5
    <3> QED
      BY <3>1, <3>2
  <2>7. QueueOfWaiters'
    BY <2>6 DEF QueueOfWaiters
  <2> QED
    BY <2>4, <2>5, <2>7
<1>6. CASE ReleaseLast(p)
  <2>1. TypeOK' /\ LocalWhileActive' /\ TakenEntryHasHolder' /\ FreeEntryHasComer'
    BY <1>1, <1>6 DEF ReleaseLast, TypeOK, LocalWhileActive, TakenEntryHasHolder, FreeEntryHasComer
  <2>2. QueueOfWaiters'
    BY <1>1, <1>2, <1>6 DEF ReleaseLast, TypeOK, QueueOfWaiters
  <2> QED
    BY <2>1, <2>2
<1> QED
  BY <1>3, <1>4, <1>5, <1>6 DEF Dispose

LEMMA RecoverIInv ==
    ASSUME IInv, NEW p \in Procs, Recover(p) PROVE IInv'
<1> USE NamedLockAssumption DEF IInv, PCs, Recover
<1>1. TypeOK' /\ LocalWhileActive' /\ TakenEntryHasHolder' /\ FreeEntryHasComer'
  BY DEF TypeOK, LocalWhileActive, TakenEntryHasHolder, FreeEntryHasComer
<1>2. QueueOfWaiters'
  BY ElementOfSeq DEF TypeOK, QueueOfWaiters
<1> QED
  BY <1>1, <1>2

LEMMA NextIInv == IInv /\ [Next]_vars => IInv'
<1> SUFFICES ASSUME IInv, [Next]_vars PROVE IInv'
  OBVIOUS
<1>1. CASE Next
  BY <1>1, GetOrCreateIInv, WaitAsyncIInv, TimeoutIInv, DisposeIInv, RecoverIInv DEF Next
<1>2. CASE UNCHANGED vars
  BY <1>2 DEF vars, IInv, TypeOK, LocalWhileActive, QueueOfWaiters, FreeEntryHasComer,
              TakenEntryHasHolder
<1> QED
  BY <1>1, <1>2

-----------------------------------------------------------------------------
\* The variables of the pool and of its callers keep their types: in particular
\* CurrentCount of a SemaphoreSlim(1, 1) never leaves 0..1.
THEOREM TypeCorrect == Spec => []TypeOK
  BY InitIInv, NextIInv, PTL DEF Spec, IInv

\* The registered semaphore, when it is taken, has a holder whose Release will
\* hand it over or remove the entry.
THEOREM TakenEntryIsHeld == Spec => []TakenEntryHasHolder
  BY InitIInv, NextIInv, PTL DEF Spec, IInv

\* However the callers of LocalSemaphoreLock interleave, and although they can
\* hold the key together, they never leave an entry behind that would make
\* every later caller of the key time out.
THEOREM EntryIsActive == Spec => []EntryHasActiveCaller
<1>1. IInv => EntryHasActiveCaller
  BY DEF IInv, TypeOK, FreeEntryHasComer, TakenEntryHasHolder, EntryHasActiveCaller
<1> QED
  BY <1>1, InitIInv, NextIInv, PTL DEF Spec

-----------------------------------------------------------------------------
(* RedisDistributedLock                                                    *)

RedisIInv == NoToken \notin Procs /\ R!TypeOK /\ R!HolderOwnsKey

LEMMA RedisInitIInv == ASSUME NoToken \notin Procs PROVE R!Init => RedisIInv
  BY DEF R!Init, RedisIInv, R!TypeOK, R!HolderOwnsKey, R!Holders, R!PCs

LEMMA RedisNextIInv == RedisIInv /\ [R!Next]_(R!vars) => RedisIInv'
<1> SUFFICES ASSUME RedisIInv, [R!Next]_(R!vars) PROVE RedisIInv'
  OBVIOUS
<1> USE DEF RedisIInv, R!TypeOK, R!HolderOwnsKey, R!Holders, R!PCs
<1>1. ASSUME NEW p \in Procs, R!Acquire(p) PROVE RedisIInv'
  BY <1>1 DEF R!Acquire
<1>2. ASSUME NEW p \in Procs, R!LockTake(p) PROVE RedisIInv'
  BY <1>2 DEF R!LockTake
<1>3. ASSUME NEW p \in Procs, R!GiveUp(p) PROVE RedisIInv'
  BY <1>3 DEF R!GiveUp
<1>4. ASSUME NEW p \in Procs, R!Dispose(p) PROVE RedisIInv'
  BY <1>4 DEF R!Dispose
<1>5. ASSUME NEW p \in Procs, R!Abandon(p) PROVE RedisIInv'
  BY <1>5 DEF R!Abandon
<1>6. CASE R!Expire
  BY <1>6 DEF R!Expire
<1>7. CASE UNCHANGED R!vars
  BY <1>7 DEF R!vars
<1> QED
  BY <1>1, <1>2, <1>3, <1>4, <1>5, <1>6, <1>7 DEF R!Next

\* The Redis key holds nothing but a caller's token, and callers stay within
\* their states, whatever expires or is lost.
THEOREM RedisTypeCorrect == ASSUME NoToken \notin Procs PROVE R!Spec => []R!TypeOK
  BY RedisInitIInv, RedisNextIInv, PTL DEF R!Spec, RedisIInv

\* Whatever expired, was lost or overran, the Redis key is the token of every
\* caller inside RedisDistributedLock's using block whose own lease has not run
\* out.
THEOREM HolderOwnsKeyAlways ==
    ASSUME NoToken \notin Procs
    PROVE  R!Spec => []R!HolderOwnsKey
  BY RedisInitIInv, RedisNextIInv, PTL DEF R!Spec, RedisIInv

-----------------------------------------------------------------------------
\* Two holders within their leases would own the same key.
LEMMA RedisOneHolder == RedisIInv => R!ExclusiveWithinLease
  BY DEF RedisIInv, R!HolderOwnsKey, R!ExclusiveWithinLease

\* At most one caller of RedisDistributedLock is inside within its own lease,
\* however many others are inside past theirs and whenever those release.
THEOREM ExclusiveWithinLeaseAlways ==
    ASSUME NoToken \notin Procs
    PROVE  R!Spec => []R!ExclusiveWithinLease
  BY RedisInitIInv, RedisNextIInv, RedisOneHolder, PTL DEF R!Spec

-----------------------------------------------------------------------------
LEMMA RedisInitRefines == R!Init => R!M!Init
  BY DEF R!Init, R!M!Init, R!Mapped, R!Holders

LEMMA RedisNextRefines ==
  ASSUME RedisIInv, [R!Next]_(R!vars)
  PROVE  [R!M!Next]_(R!Mapped)
<1> USE DEF RedisIInv, R!TypeOK, R!PCs, R!HolderOwnsKey, R!Holders
<1> DEFINE Left == \E q \in Procs : R!M!Leave(q)
<1>1. ASSUME NEW p \in Procs, R!Acquire(p) PROVE R!M!Ask(p)
  BY <1>1 DEF R!Mapped, R!Acquire, R!M!Ask
<1>2. ASSUME NEW p \in Procs, R!LockTake(p) PROVE R!M!Enter(p)
  \* The key is free, so nobody inside is within its lease.
  <2>1. \A q \in Procs : R!Mapped[q] # "in"
    BY <1>2 DEF R!Mapped, R!LockTake
  <2>2. R!Mapped[p] = "asking" /\ R!Mapped' = [R!Mapped EXCEPT ![p] = "in"]
    BY <1>2 DEF R!Mapped, R!LockTake
  <2> QED
    BY <2>1, <2>2 DEF R!M!Enter
<1>3. ASSUME NEW p \in Procs, R!GiveUp(p) PROVE Left
  BY <1>3 DEF R!Mapped, R!GiveUp, R!M!Leave
<1>4. ASSUME NEW p \in Procs, R!Dispose(p) \/ R!Abandon(p) PROVE Left \/ UNCHANGED R!Mapped
  <2>0. /\ rpc[p] = "held"
        /\ rpc' = [rpc EXCEPT ![p] = "idle"]
        /\ overrun' = overrun \ {p}
    BY <1>4 DEF R!Dispose, R!Abandon
  <2>1. CASE p \notin overrun
    <3>1. R!M!Leave(p)
      BY <2>0, <2>1 DEF R!Mapped, R!M!Leave
    <3> QED
      BY <1>4, <3>1
  <2>2. CASE p \in overrun
    BY <2>0, <2>2 DEF R!Mapped
  <2> QED
    BY <2>1, <2>2
<1>5. ASSUME R!Expire PROVE Left \/ UNCHANGED R!Mapped
  <2>1. key \in Procs /\ rpc' = rpc
    BY <1>5 DEF R!Mapped, R!Expire
  <2>2. CASE rpc[key] = "held" /\ key \notin overrun
    <3>1. R!M!Leave(key)
      BY <1>5, <2>1, <2>2 DEF R!Mapped, R!Expire, R!M!Leave
    <3> QED
      BY <2>1, <3>1
  <2>3. CASE ~(rpc[key] = "held" /\ key \notin overrun)
    BY <1>5, <2>1, <2>3 DEF R!Mapped, R!Expire
  <2> QED
    BY <2>2, <2>3
<1>6. CASE UNCHANGED R!vars
  BY <1>6 DEF R!vars, R!Mapped
<1>7. Left => R!M!Next
  BY DEF R!M!Next
<1> HIDE DEF Left
<1> QED
  BY <1>1, <1>2, <1>3, <1>4, <1>5, <1>6, <1>7 DEF R!Next, R!M!Next

\* RedisDistributedLock implements the exclusive lock that
\* IDistributedLockService documents between the callers that keep to their own
\* lease, for any number of callers, with lost releases, crashed holders and
\* the late releases of callers that overran.
THEOREM LeasesExcludeAlways == ASSUME NoToken \notin Procs PROVE R!Spec => R!LeasesExclude
<1>1. RedisIInv /\ [R!Next]_(R!vars) => [R!M!Next]_(R!Mapped)
  BY RedisNextRefines
<1> QED
  BY <1>1, RedisInitIInv, RedisNextIInv, RedisInitRefines, PTL DEF R!Spec, R!LeasesExclude, R!M!Spec

\* A release of RedisDistributedLock that comes after the lease expired leaves
\* the key of the next holder alone.
THEOREM FencedRelease == ASSUME NoToken \notin Procs PROVE R!Spec => R!ReleaseIsFenced
<1> DEFINE Fenced == \A p \in Procs :
      key = p /\ key' # p => rpc' = rpc \/ (rpc[p] = "held" /\ rpc'[p] = "idle")
<1>1. RedisIInv /\ [R!Next]_(R!vars) => [Fenced]_(R!vars)
  <2> SUFFICES ASSUME RedisIInv, R!Next PROVE Fenced
    OBVIOUS
  <2> USE DEF RedisIInv, R!TypeOK, R!PCs
  <2>1. ASSUME NEW q \in Procs, R!Acquire(q) \/ R!LockTake(q) \/ R!GiveUp(q) \/ R!Abandon(q)
        PROVE  Fenced
    BY <2>1 DEF R!Acquire, R!LockTake, R!GiveUp, R!Abandon
  <2>2. ASSUME NEW q \in Procs, R!Dispose(q) PROVE Fenced
    BY <2>2 DEF R!Dispose
  <2>3. CASE R!Expire
    BY <2>3 DEF R!Expire
  <2> QED
    BY <2>1, <2>2, <2>3 DEF R!Next
<1> QED
  BY <1>1, RedisInitIInv, RedisNextIInv, PTL DEF R!Spec, R!ReleaseIsFenced
=============================================================================

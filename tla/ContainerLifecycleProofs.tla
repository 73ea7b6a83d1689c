---------------------- MODULE ContainerLifecycleProofs ----------------------
(***************************************************************************)
(* Proofs about ContainerLifecycle, for any number of challenges, requests *)
(* and any limit, wherever containers run:                                 *)
(*   TypeCorrect         TypeOK: an instance only names a container that   *)
(*                       has a row; removals are swallowed on workers only *)
(*   NoneIsLost          RunningIsRecorded                                 *)
(*   OnlyRemovedAreLost  LosesOnlyRemoved                                  *)
(***************************************************************************)
EXTENDS ContainerLifecycle, TLAPS

\* A creation is over once its container has a row, or is to be cleaned up, or
\* was left behind.
RowsAreDone == \A x \in rows \cup doomed \cup cut : pc[x] = "done"

\* Only a creation that has passed the provider has a container that runs.
StartedOnce == \A x \in up : pc[x] \in {"save", "done"}

\* Nobody but a creation has a container to save.
CreationsSave == \A p \in Procs : pc[p] = "save" => p \in Creates

\* What is destroyed belongs to a creation that is over; only a request in the
\* middle of that renews its container.
Destroying(p) == pc[p] \in {"remove", "clear", "drop"}
VictimsAreDone ==
    /\ \A p \in Procs : Destroying(p) => victim[p] \in Creates /\ pc[victim[p]] = "done"
    /\ \A p \in renewing : Destroying(p)

\* A container that was left behind is never destroyed: it has no row.
CutHasNoRow ==
    /\ cut \cap (rows \cup doomed) = {}
    /\ \A p \in Procs : Destroying(p) => victim[p] \notin cut

\* The provider comes first, then the references, then the row; an agent's
\* failure that was swallowed comes in the provider's place.
RemovedFirst ==
    \A p \in Procs : pc[p] \in {"clear", "drop"} => victim[p] \notin up \ swallowed
ClearedNext ==
    \A p \in Procs : pc[p] = "drop" => \A c \in Chals : inst[c] # victim[p]

\* A creation whose copy of its instance is not stale still finds there what it
\* read: nothing, or the ended container it is destroying.
FreshIsEmpty ==
    \A p \in Creates : pc[p] \notin {"idle", "done"} /\ p \notin behind
        => inst[Chal[p]] = IF p \in renewing THEN victim[p] ELSE NoCont

IInv == /\ TypeOK /\ RowsAreDone /\ StartedOnce /\ CreationsSave /\ VictimsAreDone
        /\ CutHasNoRow /\ RemovedFirst /\ ClearedNext /\ FreshIsEmpty
        /\ RunningIsRecorded

LEMMA InitIInv == Init => IInv
<1> SUFFICES ASSUME Init PROVE IInv
  OBVIOUS
<1>1. TypeOK
  BY LifecycleAssumption DEF Init, TypeOK
<1>2. RowsAreDone /\ StartedOnce /\ CreationsSave /\ VictimsAreDone /\ CutHasNoRow
  BY DEF Init, RowsAreDone, StartedOnce, CreationsSave, VictimsAreDone, CutHasNoRow, Destroying
<1>3. RemovedFirst /\ ClearedNext /\ FreshIsEmpty /\ RunningIsRecorded
  BY DEF Init, RemovedFirst, ClearedNext, FreshIsEmpty, RunningIsRecorded, Procs, Requests
<1> QED
  BY <1>1, <1>2, <1>3 DEF IInv

\* A step of p that moves it between two places where it neither saves nor
\* destroys, or ends it: nothing that IInv relates changes.
LEMMA MoveIInv ==
  ASSUME IInv, NEW p \in Procs, NEW l \in {"check", "provide", "finish", "done"}, Go(p, l),
         pc[p] \notin {"idle", "save", "done", "remove", "clear", "drop"},
         l = "provide" => p \in Creates,
         UNCHANGED <<db, provider, before, clocks, behind, victim, renewing, doomed, history>>
  PROVE  IInv'
<1> USE DEF IInv, TypeOK, Go, Procs, Requests, db, provider, clocks, history
<1>1. TypeOK'
  OBVIOUS
<1>2. RowsAreDone' /\ StartedOnce' /\ CreationsSave'
  BY DEF RowsAreDone, StartedOnce, CreationsSave
<1>3. VictimsAreDone' /\ CutHasNoRow' /\ RemovedFirst' /\ ClearedNext'
  BY DEF VictimsAreDone, CutHasNoRow, RemovedFirst, ClearedNext, Destroying
<1>4. FreshIsEmpty' /\ RunningIsRecorded'
  BY DEF FreshIsEmpty, RunningIsRecorded
<1> QED
  BY <1>1, <1>2, <1>3, <1>4

LEMMA CreateIInv ==
  ASSUME IInv, NEW p \in Creates, Create(p)
  PROVE  IInv'
<1> USE LifecycleAssumption DEF Procs, Requests, Go, db, provider, clocks, history
<1>a. /\ TypeOK /\ RowsAreDone /\ StartedOnce /\ CreationsSave /\ VictimsAreDone
      /\ CutHasNoRow /\ RemovedFirst /\ ClearedNext /\ FreshIsEmpty /\ RunningIsRecorded
  BY DEF IInv
<1>1. CASE LoadForCreate(p)
  <2>1. TypeOK'
    BY <1>a, <1>1 DEF LoadForCreate, TypeOK, CutHasNoRow, VictimsAreDone, ClearedNext, Destroying
  <2>2. RowsAreDone' /\ StartedOnce' /\ CreationsSave'
    BY <1>a, <1>1 DEF LoadForCreate, TypeOK, RowsAreDone, StartedOnce, CreationsSave
  <2>3. VictimsAreDone' /\ CutHasNoRow'
    BY <1>a, <1>1
    DEF LoadForCreate, TypeOK, RowsAreDone, VictimsAreDone, CutHasNoRow, CreationsSave, Destroying
  <2>4. RemovedFirst' /\ ClearedNext'
    BY <1>a, <1>1
    DEF LoadForCreate, TypeOK, RowsAreDone, StartedOnce, VictimsAreDone, RemovedFirst, ClearedNext,
        Destroying
  \* The instance is empty when it is read.
  <2>5. FreshIsEmpty'
    BY <1>a, <1>1
    DEF LoadForCreate, TypeOK, VictimsAreDone, ClearedNext, FreshIsEmpty, Destroying
  <2>6. RunningIsRecorded'
    BY <1>a, <1>1
    DEF LoadForCreate, TypeOK, StartedOnce, RemovedFirst, VictimsAreDone, RunningIsRecorded, Destroying
  <2> QED
    BY <2>1, <2>2, <2>3, <2>4, <2>5, <2>6 DEF IInv
<1>2. CASE LoadEnded(p)
  <2>1. TypeOK'
    BY <1>a, <1>2 DEF LoadEnded, TypeOK, CutHasNoRow, VictimsAreDone, ClearedNext, Destroying
  <2>2. RowsAreDone' /\ StartedOnce' /\ CreationsSave'
    BY <1>a, <1>2 DEF LoadEnded, TypeOK, RowsAreDone, StartedOnce, CreationsSave
  \* What the instance names has a row, so its creation is over.
  <2>3. VictimsAreDone' /\ CutHasNoRow'
    BY <1>a, <1>2
    DEF LoadEnded, TypeOK, RowsAreDone, VictimsAreDone, CutHasNoRow, CreationsSave, Destroying
  <2>4. RemovedFirst' /\ ClearedNext'
    BY <1>a, <1>2
    DEF LoadEnded, TypeOK, RowsAreDone, StartedOnce, VictimsAreDone, RemovedFirst, ClearedNext,
        Destroying
  <2>5. FreshIsEmpty'
    BY <1>a, <1>2
    DEF LoadEnded, TypeOK, VictimsAreDone, ClearedNext, FreshIsEmpty, Destroying
  <2>6. RunningIsRecorded'
    BY <1>a, <1>2
    DEF LoadEnded, TypeOK, StartedOnce, RemovedFirst, VictimsAreDone, RunningIsRecorded, Destroying
  <2> QED
    BY <2>1, <2>2, <2>3, <2>4, <2>5, <2>6 DEF IInv
<1>3. CASE WithinLimit(p) \/ LimitDenies(p)
  BY <1>3, MoveIInv DEF WithinLimit, LimitDenies
<1>4. CASE LimitDestroys(p)
  <2>0. PICK x \in rows : victim' = [victim EXCEPT ![p] = x]
    <3>1. PICK x \in Referenced : victim' = [victim EXCEPT ![p] = x]
      BY <1>4 DEF LimitDestroys
    <3>2. x \in rows
      BY <1>a, <3>1 DEF Referenced, TypeOK
    <3> QED
      BY <3>1, <3>2
  <2>1. TypeOK'
    BY <1>a, <1>4, <2>0 DEF LimitDestroys, TypeOK, CutHasNoRow, VictimsAreDone, ClearedNext, Destroying
  <2>2. RowsAreDone' /\ StartedOnce' /\ CreationsSave'
    BY <1>a, <1>4, <2>0 DEF LimitDestroys, TypeOK, RowsAreDone, StartedOnce, CreationsSave
  \* What an instance refers to has a row, so its creation is over.
  <2>3. VictimsAreDone' /\ CutHasNoRow'
    BY <1>a, <1>4, <2>0
    DEF LimitDestroys, TypeOK, RowsAreDone, VictimsAreDone, CutHasNoRow, CreationsSave, Destroying
  <2>4. RemovedFirst' /\ ClearedNext'
    BY <1>a, <1>4, <2>0
    DEF LimitDestroys, TypeOK, RowsAreDone, StartedOnce, VictimsAreDone, RemovedFirst, ClearedNext,
        Destroying
  <2>5. FreshIsEmpty'
    BY <1>a, <1>4, <2>0
    DEF LimitDestroys, TypeOK, VictimsAreDone, ClearedNext, FreshIsEmpty, Destroying
  <2>6. RunningIsRecorded'
    BY <1>a, <1>4, <2>0
    DEF LimitDestroys, TypeOK, StartedOnce, RemovedFirst, VictimsAreDone, RunningIsRecorded, Destroying
  <2> QED
    BY <2>1, <2>2, <2>3, <2>4, <2>5, <2>6 DEF IInv
<1>5. CASE Provide(p)
  <2>1. TypeOK'
    BY <1>a, <1>5 DEF Provide, Start, Namesakes, TypeOK, CutHasNoRow, VictimsAreDone, ClearedNext, Destroying
  <2>2. RowsAreDone' /\ StartedOnce' /\ CreationsSave'
    BY <1>a, <1>5 DEF Provide, Start, Namesakes, TypeOK, RowsAreDone, StartedOnce, CreationsSave
  \* The container that starts is not one that is being destroyed.
  <2>3. VictimsAreDone' /\ CutHasNoRow'
    BY <1>a, <1>5
    DEF Provide, Start, Namesakes, TypeOK, RowsAreDone, VictimsAreDone, CutHasNoRow, CreationsSave, Destroying
  <2>4. RemovedFirst' /\ ClearedNext'
    BY <1>a, <1>5
    DEF Provide, Start, Namesakes, TypeOK, RowsAreDone, StartedOnce, VictimsAreDone, RemovedFirst, ClearedNext,
        Destroying
  <2>5. FreshIsEmpty'
    BY <1>a, <1>5
    DEF Provide, Start, Namesakes, TypeOK, VictimsAreDone, ClearedNext, FreshIsEmpty, Destroying
  <2>6. RunningIsRecorded'
    BY <1>a, <1>5
    DEF Provide, Start, Namesakes, TypeOK, StartedOnce, RemovedFirst, VictimsAreDone, RunningIsRecorded, Destroying
  <2> QED
    BY <2>1, <2>2, <2>3, <2>4, <2>5, <2>6 DEF IInv
<1>6. CASE ProvideFails(p)
  <2>1. TypeOK'
    BY <1>a, <1>6 DEF ProvideFails, Start, Namesakes, TypeOK, CutHasNoRow, VictimsAreDone, ClearedNext, Destroying
  <2>2. RowsAreDone' /\ StartedOnce' /\ CreationsSave'
    BY <1>a, <1>6 DEF ProvideFails, Start, Namesakes, TypeOK, RowsAreDone, StartedOnce, CreationsSave
  <2>3. VictimsAreDone' /\ CutHasNoRow'
    BY <1>a, <1>6
    DEF ProvideFails, Start, Namesakes, TypeOK, RowsAreDone, VictimsAreDone, CutHasNoRow, CreationsSave, Destroying
  <2>4. RemovedFirst' /\ ClearedNext'
    BY <1>a, <1>6
    DEF ProvideFails, Start, Namesakes, TypeOK, RowsAreDone, StartedOnce, VictimsAreDone, RemovedFirst, ClearedNext,
        Destroying
  <2>5. FreshIsEmpty'
    BY <1>a, <1>6
    DEF ProvideFails, Start, Namesakes, TypeOK, VictimsAreDone, ClearedNext, FreshIsEmpty, Destroying
  <2>6. RunningIsRecorded'
    BY <1>a, <1>6
    DEF ProvideFails, Start, Namesakes, TypeOK, StartedOnce, RemovedFirst, VictimsAreDone, RunningIsRecorded, Destroying
  <2> QED
    BY <2>1, <2>2, <2>3, <2>4, <2>5, <2>6 DEF IInv
<1>7. CASE Save(p)
  <2>1. TypeOK'
    BY <1>a, <1>7 DEF Save, Readers, TypeOK, CutHasNoRow, VictimsAreDone, ClearedNext, Destroying
  <2>2. RowsAreDone' /\ StartedOnce' /\ CreationsSave'
    BY <1>a, <1>7 DEF Save, Readers, TypeOK, RowsAreDone, StartedOnce, CreationsSave
  \* An instance that is written comes to name p, which nobody destroys yet.
  <2>3. VictimsAreDone' /\ CutHasNoRow'
    BY <1>a, <1>7
    DEF Save, Readers, TypeOK, RowsAreDone, VictimsAreDone, CutHasNoRow, CreationsSave, Destroying
  <2>4. RemovedFirst' /\ ClearedNext'
    BY <1>a, <1>7
    DEF Save, Readers, TypeOK, RowsAreDone, StartedOnce, VictimsAreDone, RemovedFirst, ClearedNext,
        Destroying
  \* Every other creation that read the instance is behind from here on.
  <2>5. FreshIsEmpty'
    BY <1>a, <1>7
    DEF Save, Readers, TypeOK, VictimsAreDone, ClearedNext, FreshIsEmpty, Destroying
  <2>6. RunningIsRecorded'
    BY <1>a, <1>7
    DEF Save, Readers, TypeOK, StartedOnce, RemovedFirst, VictimsAreDone, RunningIsRecorded, Destroying
  <2> QED
    BY <2>1, <2>2, <2>3, <2>4, <2>5, <2>6 DEF IInv
<1> QED
  BY <1>1, <1>2, <1>3, <1>4, <1>5, <1>6, <1>7 DEF Create

LEMMA DestroyIInv ==
  ASSUME IInv, NEW p \in Procs, Destroy(p)
  PROVE  IInv'
<1> USE LifecycleAssumption DEF Procs, Requests, Go, db, provider, clocks, history
<1>a. /\ TypeOK /\ RowsAreDone /\ StartedOnce /\ CreationsSave /\ VictimsAreDone
      /\ CutHasNoRow /\ RemovedFirst /\ ClearedNext /\ FreshIsEmpty /\ RunningIsRecorded
  BY DEF IInv
<1>1. CASE Remove(p)
  <2>1. TypeOK'
    BY <1>a, <1>1 DEF Remove, Gone, TypeOK, CutHasNoRow, VictimsAreDone, ClearedNext, Destroying
  <2>2. RowsAreDone' /\ StartedOnce' /\ CreationsSave'
    BY <1>a, <1>1 DEF Remove, Gone, TypeOK, RowsAreDone, StartedOnce, CreationsSave
  <2>3. VictimsAreDone' /\ CutHasNoRow'
    BY <1>a, <1>1
    DEF Remove, Gone, TypeOK, RowsAreDone, VictimsAreDone, CutHasNoRow, CreationsSave, Destroying
  <2>4. RemovedFirst' /\ ClearedNext'
    BY <1>a, <1>1
    DEF Remove, Gone, TypeOK, RowsAreDone, StartedOnce, VictimsAreDone, RemovedFirst, ClearedNext,
        Destroying
  <2>5. FreshIsEmpty'
    BY <1>a, <1>1
    DEF Remove, Gone, TypeOK, VictimsAreDone, ClearedNext, FreshIsEmpty, Destroying
  <2>6. RunningIsRecorded'
    BY <1>a, <1>1
    DEF Remove, Gone, TypeOK, StartedOnce, RemovedFirst, VictimsAreDone, RunningIsRecorded, Destroying
  <2> QED
    BY <2>1, <2>2, <2>3, <2>4, <2>5, <2>6 DEF IInv
<1>2. CASE RemoveSwallowed(p)
  <2>1. TypeOK'
    BY <1>a, <1>2 DEF RemoveSwallowed, TypeOK, CutHasNoRow, VictimsAreDone, ClearedNext, Destroying
  <2>2. RowsAreDone' /\ StartedOnce' /\ CreationsSave'
    BY <1>a, <1>2 DEF RemoveSwallowed, TypeOK, RowsAreDone, StartedOnce, CreationsSave
  \* Nobody but this step calls a container that runs removed.
  <2>3. VictimsAreDone' /\ CutHasNoRow'
    BY <1>a, <1>2
    DEF RemoveSwallowed, TypeOK, RowsAreDone, VictimsAreDone, CutHasNoRow, CreationsSave, Destroying
  <2>4. RemovedFirst' /\ ClearedNext'
    BY <1>a, <1>2
    DEF RemoveSwallowed, TypeOK, RowsAreDone, StartedOnce, VictimsAreDone, RemovedFirst, ClearedNext,
        Destroying
  <2>5. FreshIsEmpty'
    BY <1>a, <1>2
    DEF RemoveSwallowed, TypeOK, VictimsAreDone, ClearedNext, FreshIsEmpty, Destroying
  <2>6. RunningIsRecorded'
    BY <1>a, <1>2
    DEF RemoveSwallowed, TypeOK, StartedOnce, RemovedFirst, VictimsAreDone, RunningIsRecorded, Destroying
  <2> QED
    BY <2>1, <2>2, <2>3, <2>4, <2>5, <2>6 DEF IInv
<1>3. CASE RemoveFails(p)
  <2>1. TypeOK'
    BY <1>a, <1>3 DEF RemoveFails, Gone, GiveUp, Onwards, TypeOK, CutHasNoRow, VictimsAreDone, ClearedNext, Destroying
  <2>2. RowsAreDone' /\ StartedOnce' /\ CreationsSave'
    BY <1>a, <1>3 DEF RemoveFails, Gone, GiveUp, Onwards, TypeOK, RowsAreDone, StartedOnce, CreationsSave
  <2>3. VictimsAreDone' /\ CutHasNoRow'
    BY <1>a, <1>3
    DEF RemoveFails, Gone, GiveUp, Onwards, TypeOK, RowsAreDone, VictimsAreDone, CutHasNoRow, CreationsSave, Destroying
  <2>4. RemovedFirst' /\ ClearedNext'
    BY <1>a, <1>3
    DEF RemoveFails, Gone, GiveUp, Onwards, TypeOK, RowsAreDone, StartedOnce, VictimsAreDone, RemovedFirst, ClearedNext,
        Destroying
  <2>5. FreshIsEmpty'
    BY <1>a, <1>3
    DEF RemoveFails, Gone, GiveUp, Onwards, TypeOK, VictimsAreDone, ClearedNext, FreshIsEmpty, Destroying
  <2>6. RunningIsRecorded'
    BY <1>a, <1>3
    DEF RemoveFails, Gone, GiveUp, Onwards, TypeOK, StartedOnce, RemovedFirst, VictimsAreDone, RunningIsRecorded, Destroying
  <2> QED
    BY <2>1, <2>2, <2>3, <2>4, <2>5, <2>6 DEF IInv
<1>4. CASE Clear(p)
  <2>1. TypeOK'
    BY <1>a, <1>4 DEF Clear, Readers, TypeOK, CutHasNoRow, VictimsAreDone, ClearedNext, Destroying
  <2>2. RowsAreDone' /\ StartedOnce' /\ CreationsSave'
    BY <1>a, <1>4 DEF Clear, Readers, TypeOK, RowsAreDone, StartedOnce, CreationsSave
  <2>3. VictimsAreDone' /\ CutHasNoRow'
    BY <1>a, <1>4
    DEF Clear, Readers, TypeOK, RowsAreDone, VictimsAreDone, CutHasNoRow, CreationsSave, Destroying
  <2>4. RemovedFirst' /\ ClearedNext'
    BY <1>a, <1>4
    DEF Clear, Readers, TypeOK, RowsAreDone, StartedOnce, VictimsAreDone, RemovedFirst, ClearedNext,
        Destroying
  \* No instance names the victim any more, and none gains a container.
  <2>5. FreshIsEmpty'
    BY <1>a, <1>4
    DEF Clear, Readers, TypeOK, VictimsAreDone, ClearedNext, FreshIsEmpty, Destroying
  <2>6. RunningIsRecorded'
    BY <1>a, <1>4
    DEF Clear, Readers, TypeOK, StartedOnce, RemovedFirst, VictimsAreDone, RunningIsRecorded, Destroying
  <2> QED
    BY <2>1, <2>2, <2>3, <2>4, <2>5, <2>6 DEF IInv
<1>5. CASE ClearFails(p)
  <2>1. TypeOK'
    BY <1>a, <1>5 DEF ClearFails, GiveUp, Onwards, TypeOK, CutHasNoRow, VictimsAreDone, ClearedNext, Destroying
  <2>2. RowsAreDone' /\ StartedOnce' /\ CreationsSave'
    BY <1>a, <1>5 DEF ClearFails, GiveUp, Onwards, TypeOK, RowsAreDone, StartedOnce, CreationsSave
  <2>3. VictimsAreDone' /\ CutHasNoRow'
    BY <1>a, <1>5
    DEF ClearFails, GiveUp, Onwards, TypeOK, RowsAreDone, VictimsAreDone, CutHasNoRow, CreationsSave, Destroying
  <2>4. RemovedFirst' /\ ClearedNext'
    BY <1>a, <1>5
    DEF ClearFails, GiveUp, Onwards, TypeOK, RowsAreDone, StartedOnce, VictimsAreDone, RemovedFirst, ClearedNext,
        Destroying
  <2>5. FreshIsEmpty'
    BY <1>a, <1>5
    DEF ClearFails, GiveUp, Onwards, TypeOK, VictimsAreDone, ClearedNext, FreshIsEmpty, Destroying
  <2>6. RunningIsRecorded'
    BY <1>a, <1>5
    DEF ClearFails, GiveUp, Onwards, TypeOK, StartedOnce, RemovedFirst, VictimsAreDone, RunningIsRecorded, Destroying
  <2> QED
    BY <2>1, <2>2, <2>3, <2>4, <2>5, <2>6 DEF IInv
<1>6. CASE Drop(p)
  <2>1. TypeOK'
    BY <1>a, <1>6 DEF Drop, Onwards, Forget, TypeOK, CutHasNoRow, VictimsAreDone, ClearedNext, Destroying
  <2>2. RowsAreDone' /\ StartedOnce' /\ CreationsSave'
    BY <1>a, <1>6 DEF Drop, Onwards, Forget, TypeOK, RowsAreDone, StartedOnce, CreationsSave
  \* The row that goes is one no instance names, of a container that does not run.
  <2>3. VictimsAreDone' /\ CutHasNoRow'
    BY <1>a, <1>6
    DEF Drop, Onwards, Forget, TypeOK, RowsAreDone, VictimsAreDone, CutHasNoRow, CreationsSave, Destroying
  <2>4. RemovedFirst' /\ ClearedNext'
    BY <1>a, <1>6
    DEF Drop, Onwards, Forget, TypeOK, RowsAreDone, StartedOnce, VictimsAreDone, RemovedFirst, ClearedNext,
        Destroying
  <2>5. FreshIsEmpty'
    BY <1>a, <1>6
    DEF Drop, Onwards, Forget, TypeOK, VictimsAreDone, ClearedNext, FreshIsEmpty, Destroying
  <2>6. RunningIsRecorded'
    BY <1>a, <1>6
    DEF Drop, Onwards, Forget, TypeOK, StartedOnce, RemovedFirst, VictimsAreDone, RunningIsRecorded, Destroying
  <2> QED
    BY <2>1, <2>2, <2>3, <2>4, <2>5, <2>6 DEF IInv
<1>7. CASE DropFails(p)
  <2>1. TypeOK'
    BY <1>a, <1>7 DEF DropFails, GiveUp, Onwards, TypeOK, CutHasNoRow, VictimsAreDone, ClearedNext, Destroying
  <2>2. RowsAreDone' /\ StartedOnce' /\ CreationsSave'
    BY <1>a, <1>7 DEF DropFails, GiveUp, Onwards, TypeOK, RowsAreDone, StartedOnce, CreationsSave
  <2>3. VictimsAreDone' /\ CutHasNoRow'
    BY <1>a, <1>7
    DEF DropFails, GiveUp, Onwards, TypeOK, RowsAreDone, VictimsAreDone, CutHasNoRow, CreationsSave, Destroying
  <2>4. RemovedFirst' /\ ClearedNext'
    BY <1>a, <1>7
    DEF DropFails, GiveUp, Onwards, TypeOK, RowsAreDone, StartedOnce, VictimsAreDone, RemovedFirst, ClearedNext,
        Destroying
  \* A creation that goes on has a copy that Clear left behind.
  <2>5. FreshIsEmpty'
    BY <1>a, <1>7
    DEF DropFails, GiveUp, Onwards, TypeOK, VictimsAreDone, ClearedNext, FreshIsEmpty, Destroying
  <2>6. RunningIsRecorded'
    BY <1>a, <1>7
    DEF DropFails, GiveUp, Onwards, TypeOK, StartedOnce, RemovedFirst, VictimsAreDone, RunningIsRecorded, Destroying
  <2> QED
    BY <2>1, <2>2, <2>3, <2>4, <2>5, <2>6 DEF IInv
<1> QED
  BY <1>1, <1>2, <1>3, <1>4, <1>5, <1>6, <1>7 DEF Destroy

LEMMA DeleteIInv ==
  ASSUME IInv, NEW p \in Deletes, LoadForDelete(p) \/ Finish(p)
  PROVE  IInv'
<1> USE LifecycleAssumption DEF Procs, Requests, Go, db, provider, clocks, history
<1>a. /\ TypeOK /\ RowsAreDone /\ StartedOnce /\ CreationsSave /\ VictimsAreDone
      /\ CutHasNoRow /\ RemovedFirst /\ ClearedNext /\ FreshIsEmpty /\ RunningIsRecorded
  BY DEF IInv
<1>1. CASE LoadForDelete(p)
  <2>1. TypeOK'
    BY <1>a, <1>1 DEF LoadForDelete, TypeOK, CutHasNoRow, VictimsAreDone, ClearedNext, Destroying
  <2>2. RowsAreDone' /\ StartedOnce' /\ CreationsSave'
    BY <1>a, <1>1 DEF LoadForDelete, TypeOK, RowsAreDone, StartedOnce, CreationsSave
  \* What the instance names has a row, so its creation is over.
  <2>3. VictimsAreDone' /\ CutHasNoRow'
    BY <1>a, <1>1
    DEF LoadForDelete, TypeOK, RowsAreDone, VictimsAreDone, CutHasNoRow, CreationsSave, Destroying
  <2>4. RemovedFirst' /\ ClearedNext'
    BY <1>a, <1>1
    DEF LoadForDelete, TypeOK, RowsAreDone, StartedOnce, VictimsAreDone, RemovedFirst, ClearedNext,
        Destroying
  <2>5. FreshIsEmpty'
    BY <1>a, <1>1
    DEF LoadForDelete, TypeOK, VictimsAreDone, ClearedNext, FreshIsEmpty, Destroying
  <2>6. RunningIsRecorded'
    BY <1>a, <1>1
    DEF LoadForDelete, TypeOK, StartedOnce, RemovedFirst, VictimsAreDone, RunningIsRecorded, Destroying
  <2> QED
    BY <2>1, <2>2, <2>3, <2>4, <2>5, <2>6 DEF IInv
<1>2. CASE Finish(p)
  <2>1. TypeOK'
    BY <1>a, <1>2 DEF Finish, Readers, TypeOK, CutHasNoRow, VictimsAreDone, ClearedNext, Destroying
  <2>2. RowsAreDone' /\ StartedOnce' /\ CreationsSave'
    BY <1>a, <1>2 DEF Finish, Readers, TypeOK, RowsAreDone, StartedOnce, CreationsSave
  <2>3. VictimsAreDone' /\ CutHasNoRow'
    BY <1>a, <1>2
    DEF Finish, Readers, TypeOK, RowsAreDone, VictimsAreDone, CutHasNoRow, CreationsSave, Destroying
  <2>4. RemovedFirst' /\ ClearedNext'
    BY <1>a, <1>2
    DEF Finish, Readers, TypeOK, RowsAreDone, StartedOnce, VictimsAreDone, RemovedFirst, ClearedNext,
        Destroying
  <2>5. FreshIsEmpty'
    BY <1>a, <1>2
    DEF Finish, Readers, TypeOK, VictimsAreDone, ClearedNext, FreshIsEmpty, Destroying
  <2>6. RunningIsRecorded'
    BY <1>a, <1>2
    DEF Finish, Readers, TypeOK, StartedOnce, RemovedFirst, VictimsAreDone, RunningIsRecorded, Destroying
  <2> QED
    BY <2>1, <2>2, <2>3, <2>4, <2>5, <2>6 DEF IInv
<1> QED
  BY <1>1, <1>2

LEMMA CutOffIInv ==
  ASSUME IInv, NEW p \in Requests, CutOff(p)
  PROVE  IInv'
<1> USE LifecycleAssumption DEF Procs, Requests, Go, db, provider, clocks, history
<1>a. /\ TypeOK /\ RowsAreDone /\ StartedOnce /\ CreationsSave /\ VictimsAreDone
      /\ CutHasNoRow /\ RemovedFirst /\ ClearedNext /\ FreshIsEmpty /\ RunningIsRecorded
  BY DEF IInv
<1>1. CASE CutOff(p)
  <2>1. TypeOK'
    BY <1>a, <1>1 DEF CutOff, Forget, TypeOK, CutHasNoRow, VictimsAreDone, ClearedNext, Destroying
  <2>2. RowsAreDone' /\ StartedOnce' /\ CreationsSave'
    BY <1>a, <1>1 DEF CutOff, Forget, TypeOK, RowsAreDone, StartedOnce, CreationsSave
  \* Only a creation is ever cut off with a container to save.
  <2>3. VictimsAreDone' /\ CutHasNoRow'
    BY <1>a, <1>1
    DEF CutOff, Forget, TypeOK, RowsAreDone, VictimsAreDone, CutHasNoRow, CreationsSave, Destroying
  <2>4. RemovedFirst' /\ ClearedNext'
    BY <1>a, <1>1
    DEF CutOff, Forget, TypeOK, RowsAreDone, StartedOnce, VictimsAreDone, RemovedFirst, ClearedNext,
        Destroying
  <2>5. FreshIsEmpty'
    BY <1>a, <1>1
    DEF CutOff, Forget, TypeOK, VictimsAreDone, ClearedNext, FreshIsEmpty, Destroying
  <2>6. RunningIsRecorded'
    BY <1>a, <1>1
    DEF CutOff, Forget, TypeOK, StartedOnce, RemovedFirst, VictimsAreDone, RunningIsRecorded, Destroying
  <2> QED
    BY <2>1, <2>2, <2>3, <2>4, <2>5, <2>6 DEF IInv
<1> QED
  BY <1>1

\* The cron job takes rows whose creations are over; it may list a row that is
\* gone by the time it takes it.
LEMMA CronIInv ==
  ASSUME IInv, ListDying \/ TakeDying
  PROVE  IInv'
<1> USE LifecycleAssumption DEF Procs, Requests, Go, db, provider, clocks, history
<1>a. /\ TypeOK /\ RowsAreDone /\ StartedOnce /\ CreationsSave /\ VictimsAreDone
      /\ CutHasNoRow /\ RemovedFirst /\ ClearedNext /\ FreshIsEmpty /\ RunningIsRecorded
  BY DEF IInv
<1>1. TypeOK'
  BY <1>a DEF ListDying, TakeDying, TypeOK
<1>2. RowsAreDone' /\ StartedOnce' /\ CreationsSave' /\ RunningIsRecorded'
  BY <1>a DEF ListDying, TakeDying, TypeOK, RowsAreDone, StartedOnce, CreationsSave,
              RunningIsRecorded
<1>3. VictimsAreDone' /\ CutHasNoRow'
  BY <1>a DEF ListDying, TakeDying, TypeOK, RowsAreDone, VictimsAreDone, CutHasNoRow, Destroying
<1>4. RemovedFirst' /\ ClearedNext' /\ FreshIsEmpty'
  BY <1>a DEF ListDying, TakeDying, TypeOK, RemovedFirst, ClearedNext, FreshIsEmpty
<1> QED
  BY <1>1, <1>2, <1>3, <1>4 DEF IInv

\* Time passing and extensions touch no more than the clocks.
LEMMA TimeIInv ==
  ASSUME IInv, recent' \subseteq Chals, expired' \subseteq rows,
         UNCHANGED <<db, provider, before, behind, pc, victim, renewing, doomed, history>>
  PROVE  IInv'
BY DEF IInv, TypeOK, RowsAreDone, StartedOnce, CreationsSave, VictimsAreDone, CutHasNoRow,
       RemovedFirst, ClearedNext, FreshIsEmpty, RunningIsRecorded, Destroying, db, provider,
       history

LEMMA NextIInv == IInv /\ [Next]_vars => IInv'
<1> SUFFICES ASSUME IInv, [Next]_vars PROVE IInv'
  OBVIOUS
<1>0. recent \subseteq Chals /\ expired \subseteq rows
  BY DEF IInv, TypeOK
<1>1. ASSUME NEW p \in Creates, Create(p) PROVE IInv'
  BY <1>1, CreateIInv
<1>2. ASSUME NEW p \in Deletes, LoadForDelete(p) \/ Finish(p) PROVE IInv'
  BY <1>2, DeleteIInv
<1>3. ASSUME NEW p \in Requests, Destroy(p) \/ CutOff(p) PROVE IInv'
  BY <1>3, DestroyIInv, CutOffIInv DEF Procs
<1>4. CASE ContainerChecker
  BY <1>4, CronIInv, DestroyIInv DEF ContainerChecker, Procs
<1>5. ASSUME NEW c \in Chals, Settle(c) \/ Extend(c) PROVE IInv'
  BY <1>0, <1>5, TimeIInv DEF Settle, Extend
<1>6. ASSUME NEW x \in Creates, Expire(x) PROVE IInv'
  BY <1>0, <1>6, TimeIInv DEF Expire
<1>7. CASE UNCHANGED vars
  BY <1>0, <1>7, TimeIInv DEF vars, db, provider, clocks, history
<1> QED
  BY <1>1, <1>2, <1>3, <1>4, <1>5, <1>6, <1>7 DEF Next

\* The invariant holds in every state the containers of a team can come to.
LEMMA Invariance == Spec => []IInv
<1> QED
  BY InitIInv, NextIInv, PTL DEF Spec

\* Whatever the requests, conflicts and cut-offs, an instance names no container
\* but one that has a row: GameInstance.ContainerId is never dangling.
THEOREM TypeCorrect == Spec => []TypeOK
<1>1. IInv => TypeOK
  BY DEF IInv
<1> QED
  BY <1>1, Invariance, PTL

\* SaveAsync's second try after a conflict keeps the row of the new container: a
\* container that runs has a row, or is about to get it, unless its creation
\* broke off between the two or a worker's agent failed to remove it.
THEOREM NoneIsLost == Spec => []RunningIsRecorded
<1>1. IInv => RunningIsRecorded
  BY DEF IInv
<1> QED
  BY <1>1, Invariance, PTL

\* DestroyContainer takes from an instance only what the provider has removed,
\* and CreateContainer never overwrites the container of another request: an
\* instance loses its container only once it does not run any more, or once a
\* worker's agent has failed to remove it.
THEOREM OnlyRemovedAreLost == Spec => LosesOnlyRemoved
<1> DEFINE Lost == \A c \in Chals : inst[c] # NoCont /\ inst'[c] # inst[c]
                     => inst[c] \notin up \/ inst[c] \in swallowed
<1>1. IInv /\ [Next]_vars => [Lost]_vars
  <2> SUFFICES ASSUME IInv, [Next]_vars, NEW c \in Chals, inst[c] # NoCont, inst'[c] # inst[c]
               PROVE  inst[c] \notin up \/ inst[c] \in swallowed
    BY DEF vars
  <2>1. PICK p \in Procs : (p \in Creates /\ Save(p)) \/ Clear(p)
    BY DEF Next, Create, Destroy, ContainerChecker, Procs, vars, LoadForCreate, LoadEnded, WithinLimit,
           LimitDenies, LimitDestroys, Provide, ProvideFails, LoadForDelete, Finish, CutOff,
           ListDying, TakeDying, Remove, RemoveSwallowed, RemoveFails, ClearFails, Drop,
           DropFails, Settle, Extend, Expire, Requests, db
  <2>2. CASE p \in Creates /\ Save(p)
    \* The instance p writes was empty, or p would be behind.
    <3>1. inst[Chal[p]] = NoCont \/ inst' = inst
      BY <2>2 DEF Save, IInv, FreshIsEmpty, VictimsAreDone, Destroying
    <3> QED
      BY <2>2, <3>1 DEF Save, IInv, TypeOK
  <2>3. CASE Clear(p)
    <3>1. victim[p] \notin up \ swallowed
      BY <2>3 DEF Clear, IInv, RemovedFirst
    <3> QED
      BY <2>3, <3>1 DEF Clear
  <2> QED
    BY <2>1, <2>2, <2>3
<1>2. []IInv /\ [][Next]_vars => [][Lost]_vars
  BY <1>1, PTL
<1> QED
  BY <1>2, Invariance, PTL DEF Spec, LosesOnlyRemoved
=============================================================================

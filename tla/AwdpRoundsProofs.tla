-------------------------- MODULE AwdpRoundsProofs --------------------------
(***************************************************************************)
(* Proofs about AwdpRounds, for any number of loops, players, teams,       *)
(* rounds, starts, stops and crashes:                                      *)
(*   TypeCorrect        TypeOK                                             *)
(*   ResetsNeverExceed  ResetsWithinLimit                                  *)
(*   RoundsNeverOverlap RoundsInOrder                                      *)
(*   NoFlagSurvives     NoStaleFlag                                        *)
(***************************************************************************)
EXTENDS AwdpRounds, TLAPS, WellFoundedInduction

\* A loop works on an instance only while it injects, and destroys the instances
\* only when its rounds are over.
LoopWhere ==
    \A l \in Loops :
        /\ op[l].at # "idle" => At(l, "inject")
        /\ down[l].at # "idle" => At(l, "destroying")

\* A loop has a round and knows its status before it reads them.
LoopPlans ==
    \A l \in Loops :
        /\ loop[l].pc \in {"insert", "instances", "add"} => loop[l].stat # "None"
        /\ loop[l].pc \in {"insert", "instances", "add", "flags", "inject", "Attack", "Patch"}
              => loop[l].cur \in Rounds

\* a holds the semaphore of a row that is still there.
Holds(a) == op[a].at \in Held /\ a \notin orphans

HolderSeesRow == \A a \in Loops \cup Players : Holds(a) => op[a].team \in rows

\* One holder for each team, the work for deleted rows left aside ...
OneHolder ==
    \A a, b \in Loops \cup Players :
        Holds(a) /\ Holds(b) /\ op[a].team = op[b].team => a = b

\* ... so that the count a reset has read is still good when it is saved.
UnderLimit ==
    \A a \in Loops \cup Players :
        Holds(a) /\ op[a].kind = "reset" /\ op[a].at # "record"
            => resets[op[a].team] < MaxResetCount

TInv == TypeOK /\ LoopWhere /\ LoopPlans /\ HolderSeesRow

RInv == OneHolder /\ UnderLimit /\ ResetsWithinLimit

-----------------------------------------------------------------------------
(* The maximum of a set of rounds                                          *)

LEMMA MaxExists ==
  ASSUME NEW N \in Nat, NEW S \in SUBSET (0..N), S # {}
  PROVE  Max(S) \in S /\ \A y \in S : Max(S) >= y
<1> DEFINE R == OpToRel(<, Nat)
           T == {N - x : x \in S}
<1>1. IsWellFoundedOn(R, Nat)
  BY NatLessThanWellFounded
<1>2. T \subseteq Nat /\ T # {}
  <2>1. \A x \in S : N - x \in Nat
    OBVIOUS
  <2> HIDE DEF R
  <2> QED
    BY <2>1
<1>3. \E t \in T : \A u \in T : ~(<<u, t>> \in R)
  <2> HIDE DEF R, T
  <2> QED
    BY <1>1, <1>2, WFMin
<1>4. PICK t \in T : \A u \in T : ~(u < t)
  BY <1>2, <1>3 DEF OpToRel
<1>5. \E x \in S : \A y \in S : x >= y
  BY <1>4
<1> QED
  BY <1>5 DEF Max

LEMMA RoundNumbers ==
  ASSUME TypeOK
  PROVE  /\ CurrentFlag \in 0..TotalRounds
         /\ LastRound \in 0..TotalRounds
         /\ Max({0} \cup OpenRounds) \in 0..TotalRounds
         /\ OpenRounds # {} => Max({0} \cup OpenRounds) \in OpenRounds
         /\ OpenRounds # {} => Max(OpenRounds) \in OpenRounds
<1> USE AwdpAssumption
<1>1. /\ OpenRounds \in SUBSET (0..TotalRounds) /\ OpenRounds \subseteq Rounds
      /\ {0} \cup OpenRounds \in SUBSET (0..TotalRounds)
      /\ {0} \cup {n \in Rounds : round[n] # "None"} \in SUBSET (0..TotalRounds)
  BY DEF OpenRounds, Rounds
<1>2. /\ Max({0} \cup OpenRounds) \in {0} \cup OpenRounds
      /\ \A y \in {0} \cup OpenRounds : Max({0} \cup OpenRounds) >= y
  BY <1>1, MaxExists
<1>3. LastRound \in 0..TotalRounds
  BY <1>1, MaxExists DEF LastRound
<1>4. OpenRounds # {} => Max(OpenRounds) \in OpenRounds
  BY <1>1, MaxExists
<1>5. OpenRounds # {} => Max({0} \cup OpenRounds) \in OpenRounds
  <2> SUFFICES ASSUME NEW n \in OpenRounds PROVE Max({0} \cup OpenRounds) # 0
    BY <1>1, <1>2
  <2>1. n \in 1..TotalRounds /\ Max({0} \cup OpenRounds) >= n
    BY <1>1, <1>2 DEF Rounds
  <2> QED
    BY <2>1
<1>6. Max({0} \cup OpenRounds) \in 0..TotalRounds
  BY <1>1, <1>2
<1>7. CurrentFlag \in 0..TotalRounds
  BY <1>6 DEF CurrentFlag
<1> QED
  BY <1>3, <1>4, <1>5, <1>6, <1>7

-----------------------------------------------------------------------------
(* Types                                                                   *)

LEMMA LocalsTyped ==
  /\ NoLocals \in LoopState /\ NoDown \in DownState /\ NoAdmin \in AdminState
  /\ \A a \in Loops \cup Players : NoOp(a) \in OpState
<1> USE AwdpAssumption
<1>1. NoLocals \in LoopState /\ NoDown \in DownState /\ NoAdmin \in AdminState
  BY DEF NoLocals, LoopState, Points, NoDown, DownState, NoAdmin, AdminState
<1>2. (CHOOSE t \in Teams : TRUE) \in Teams
  OBVIOUS
<1>3. \A a \in Loops \cup Players : NoOp(a) \in OpState
  BY <1>2 DEF NoOp, OpState
<1> QED
  BY <1>1, <1>3

LEMMA InitTInv == Init => TInv
<1> SUFFICES ASSUME Init PROVE TInv
  OBVIOUS
<1> USE AwdpAssumption, LocalsTyped
<1>1. TypeOK
  <2>1. up \in BOOLEAN /\ registry \in {"kept", "lost", "doubled"}
    BY DEF Init
  <2>2. /\ loop \in [Loops -> LoopState] /\ op \in [Loops \cup Players -> OpState]
        /\ down \in [Loops \cup {Admin} -> DownState] /\ admin \in AdminState
    BY DEF Init
  <2> QED
    BY <2>1, <2>2 DEF Init, TypeOK
<1>2. LoopWhere
  BY DEF Init, LoopWhere, NoOp, NoDown
<1>3. LoopPlans
  BY DEF Init, LoopPlans, NoLocals
<1>4. HolderSeesRow
  BY DEF Init, HolderSeesRow, Holds, NoOp, Held
<1> QED
  BY <1>1, <1>2, <1>3, <1>4 DEF TInv

\* What the actions have in common: a loop that is spawned, a request that ends, an
\* instance that is taken.
LEMMA SpawnTyped ==
  ASSUME TypeOK, NEW l \in Loops, Spawn(l)
  PROVE  /\ registered' \in Loops \cup {NoLoop} /\ loop' \in [Loops -> LoopState]
         /\ registry' \in {"kept", "lost", "doubled"}
BY DEF Spawn, TypeOK, LoopState, Points

LEMMA EndsTyped ==
  ASSUME TypeOK, NEW a \in Loops \cup Players, Abort(a) \/ Return(a)
  PROVE  /\ loop' \in [Loops -> LoopState] /\ op' \in [Loops \cup Players -> OpState]
         /\ orphans' = orphans \ {a} /\ behind' = behind \ {a}
         /\ op' = [op EXCEPT ![a] = NoOp(a)]
         /\ \A l \in Loops : \/ loop'[l] = loop[l]
                             \/ l = a /\ loop'[l] = [loop[l] EXCEPT !.pc = "exit"]
<1>1. \A l \in Loops : [loop[l] EXCEPT !.pc = "exit"] \in LoopState
  BY DEF TypeOK, LoopState, Points
<1> QED
  BY <1>1, LocalsTyped DEF Abort, Return, TypeOK

LEMMA AcquireTyped ==
  ASSUME TypeOK, NEW a \in Loops \cup Players, NEW k \in {"round", "reset", "recover"},
         NEW t \in Teams, NEW f \in 0..TotalRounds, Acquire(a, k, t, f)
  PROVE  /\ op' \in [Loops \cup Players -> OpState]
         /\ op'[a].at \in {"create", "destroy"} /\ op'[a].team = t /\ op'[a].kind = k
         /\ op'[a].flag = f /\ (op'[a].at = "create" => box[t] = NoBox)
         /\ \A b \in (Loops \cup Players) \ {a} : op'[b] = op[b]
<1> DEFINE o == [at |-> IF box[t] = NoBox THEN "create" ELSE "destroy",
                 kind |-> k, team |-> t, flag |-> f]
<1>1. o \in OpState
  BY DEF OpState, Held
<1>2. op' = [op EXCEPT ![a] = o]
  BY DEF Acquire
<1>3. /\ o.at \in {"create", "destroy"} /\ o.team = t /\ o.kind = k /\ o.flag = f
      /\ o.at = "create" => box[t] = NoBox
  OBVIOUS
<1> HIDE DEF o
<1> QED
  BY <1>1, <1>2, <1>3 DEF TypeOK

LEMMA EndDestroyTyped ==
  ASSUME TypeOK, NEW d \in Loops \cup {Admin}, EndDestroy(d)
  PROVE  /\ loop' \in [Loops -> LoopState] /\ down' \in [Loops \cup {Admin} -> DownState]
         /\ admin' \in AdminState
         /\ down' = [down EXCEPT ![d] = NoDown]
         /\ \A l \in Loops : \/ loop'[l] = loop[l]
                             \/ l = d /\ loop'[l] = [loop[l] EXCEPT !.pc = "exit"]
<1>1. \A l \in Loops : [loop[l] EXCEPT !.pc = "exit"] \in LoopState
  BY DEF TypeOK, LoopState, Points
<1>2. [admin EXCEPT !.stop = "idle", !.cur = 0] \in AdminState
  <2>1. 0 \in 0..TotalRounds
    BY AwdpAssumption
  <2> QED
    BY <2>1 DEF TypeOK, AdminState
<1>3. down' = [down EXCEPT ![d] = NoDown] /\ down' \in [Loops \cup {Admin} -> DownState]
  BY LocalsTyped DEF EndDestroy, TypeOK
<1>4. CASE d = Admin
  BY <1>2, <1>3, <1>4 DEF EndDestroy, TypeOK
<1>5. CASE d # Admin
  BY <1>1, <1>3, <1>5 DEF EndDestroy, TypeOK
<1> QED
  BY <1>4, <1>5

LEMMA GoesOn ==
  ASSUME TypeOK, NEW l \in Loops, NEW s \in Points
  PROVE  /\ [loop EXCEPT ![l].pc = s] \in [Loops -> LoopState]
         /\ [loop[l] EXCEPT !.pc = s] \in LoopState
BY DEF TypeOK, LoopState

LEMMA DestroysNext ==
  ASSUME TypeOK, NEW d \in Loops \cup {Admin}
  PROVE  [down EXCEPT ![d].at = "read"] \in [Loops \cup {Admin} -> DownState]
<1>1. [down[d] EXCEPT !.at = "read"] \in DownState
  BY DEF TypeOK, DownState
<1> QED
  BY <1>1 DEF TypeOK

LEMMA StartsOver == ASSUME NEW s \in Points PROVE [NoLocals EXCEPT !.pc = s] \in LoopState
BY LocalsTyped DEF LoopState

LEMMA TypeStep == ASSUME TInv, [Next]_vars PROVE TypeOK'
<1> USE AwdpAssumption DEF TInv, db, records, calls, history
<1>1. CASE UNCHANGED vars
  BY <1>1 DEF vars, TypeOK
<1>2. CASE StartGame
  BY <1>2 DEF StartGame, TypeOK, AdminState
<1>3. CASE StopGame
  <2>1. \A l \in Loops : [NoLocals EXCEPT !.pc = IF loop[l].pc = "spawned" THEN "cancelled"
                                                 ELSE "exit"] \in LoopState
    BY StartsOver DEF Points
  <2>2. admin' \in AdminState /\ stops' \in Nat
    BY <1>3 DEF StopGame, TypeOK, AdminState
  <2>3. /\ loop' \in [Loops -> LoopState] /\ op' \in [Loops \cup Players -> OpState]
        /\ down' \in [Loops \cup {Admin} -> DownState]
        /\ orphans' \subseteq orphans /\ behind' \subseteq behind
    BY <1>3, <2>1, LocalsTyped DEF StopGame, TypeOK
  <2> QED
    BY <1>3, <2>2, <2>3 DEF StopGame, TypeOK
<1>4. CASE StartLoop
  <2>1. admin' \in AdminState
    BY <1>4 DEF StartLoop, TypeOK, AdminState
  <2>2. /\ registered' \in Loops \cup {NoLoop} /\ loop' \in [Loops -> LoopState]
        /\ registry' \in {"kept", "lost", "doubled"}
    BY <1>4, SpawnTyped DEF StartLoop, TypeOK
  <2> QED
    BY <1>4, <2>1, <2>2 DEF StartLoop, TypeOK
<1>5. CASE StopReadsRound
  <2>1. admin' \in AdminState
    BY <1>5, RoundNumbers DEF StopReadsRound, TypeOK, AdminState
  <2>2. down' \in [Loops \cup {Admin} -> DownState]
    BY <1>5, DestroysNext DEF StopReadsRound, TypeOK
  <2> QED
    BY <1>5, <2>1, <2>2 DEF StopReadsRound, TypeOK
<1>6. CASE StopFinishesRound
  <2>1. admin' \in AdminState
    BY <1>6 DEF StopFinishesRound, TypeOK, AdminState
  <2>2. down' \in [Loops \cup {Admin} -> DownState]
    BY <1>6, DestroysNext DEF StopFinishesRound, TypeOK
  <2> QED
    BY <1>6, <2>1, <2>2 DEF StopFinishesRound, TypeOK
<1>7. CASE AdminLeaves
  <2>1. admin' \in AdminState
    <3>1. 0 \in 0..TotalRounds
      OBVIOUS
    <3> QED
      BY <1>7, <3>1 DEF AdminLeaves, TypeOK, AdminState
  <2>2. down' \in [Loops \cup {Admin} -> DownState]
    BY <1>7, LocalsTyped DEF AdminLeaves, TypeOK
  <2> QED
    BY <1>7, <2>1, <2>2 DEF AdminLeaves, TypeOK
<1>8. ASSUME NEW l \in Loops, LoopStep(l) PROVE TypeOK'
  <2>0. loop[l] \in LoopState
    BY DEF TypeOK
  <2>a. \A s \in Points : [loop EXCEPT ![l].pc = s] \in [Loops -> LoopState]
    BY GoesOn
  <2>1. CASE LoopEnters(l)
    <3>1. loop' \in [Loops -> LoopState]
      <4>1. PICK s \in {"begin", "exit", "idle"} : loop' = [loop EXCEPT ![l].pc = s]
        BY <2>1 DEF LoopEnters
      <4> QED
        BY <2>a, <4>1 DEF Points
    <3> QED
      BY <2>1, <3>1 DEF LoopEnters, TypeOK
  <2>2. CASE BeginRound(l)
    <3> DEFINE n == IF OpenRounds # {} THEN Max(OpenRounds) ELSE LastRound + 1
               next == [pc |-> IF OpenRounds # {} THEN "instances" ELSE "insert", cur |-> n,
                        stat |-> IF OpenRounds # {} THEN round[n] ELSE "Attack",
                        new |-> OpenRounds = {}, todo |-> Teams]
    <3>1. n \in Nat
      BY RoundNumbers DEF OpenRounds, Rounds
    <3>2. OpenRounds # {} => round[n] \in {"Attack", "Patch"}
      BY RoundNumbers DEF OpenRounds, Open
    <3>3. n <= TotalRounds => next \in LoopState
      BY <3>1, <3>2 DEF LoopState, Points
    <3>4. [NoLocals EXCEPT !.pc = "exit"] \in LoopState
      BY StartsOver DEF Points
    <3>5. loop' = [loop EXCEPT ![l] = IF n > TotalRounds THEN [NoLocals EXCEPT !.pc = "exit"]
                                      ELSE next]
      BY <2>2 DEF BeginRound
    <3> HIDE DEF n, next
    <3>6. loop' \in [Loops -> LoopState]
      BY <3>1, <3>3, <3>4, <3>5 DEF TypeOK
    <3> QED
      BY <2>2, <3>6 DEF BeginRound, TypeOK
  <2>3. CASE InsertRound(l)
    <3>1. loop' \in [Loops -> LoopState]
      <4>1. PICK s \in {"instances", "exit"} : loop' = [loop EXCEPT ![l].pc = s]
        BY <2>3 DEF InsertRound
      <4> QED
        BY <2>a, <4>1 DEF Points
    <3> QED
      BY <2>3, <3>1 DEF InsertRound, TypeOK
  <2>4. CASE CheckInstance(l)
    <3>1. loop[l].stat \in {"Attack", "Patch"}
      BY <2>0, <2>4 DEF CheckInstance, At, LoopPlans, LoopState
    <3>2. [loop[l] EXCEPT !.todo = Teams, !.pc = IF loop[l].new THEN "flags" ELSE loop[l].stat]
             \in LoopState
      BY <2>0, <3>1 DEF LoopState, Points
    <3>3. \A t \in Teams :
             [loop[l] EXCEPT !.pc = IF t \in rows THEN @ ELSE "add", !.todo = @ \ {t}]
               \in LoopState
      BY <2>0 DEF LoopState, Points
    <3>4. loop[l].todo \subseteq Teams
      BY <2>0 DEF LoopState
    <3>5. loop' \in [Loops -> LoopState]
      <4>1. CASE loop[l].todo = {}
        BY <2>4, <3>2, <4>1 DEF CheckInstance, TypeOK
      <4>2. CASE loop[l].todo # {}
        <5>1. PICK t \in loop[l].todo :
                loop' = [loop EXCEPT ![l].pc = IF t \in rows THEN @ ELSE "add",
                                     ![l].todo = @ \ {t}]
          BY <2>4, <4>2 DEF CheckInstance
        <5> QED
          BY <3>3, <3>4, <5>1 DEF TypeOK
      <4> QED
        BY <4>1, <4>2
    <3>6. \A t \in Teams : [op[l] EXCEPT !.team = IF t \in rows THEN @ ELSE t] \in OpState
      <4>1. op[l] \in OpState
        BY DEF TypeOK
      <4>2. \A t \in Teams : [op[l] EXCEPT !.team = t] \in OpState
        BY <4>1 DEF OpState
      <4>3. [op[l] EXCEPT !.team = op[l].team] \in OpState
        BY <4>1 DEF OpState
      <4> QED
        BY <4>2, <4>3
    <3>7. op' \in [Loops \cup Players -> OpState]
      <4>1. CASE loop[l].todo = {}
        BY <2>4, <4>1 DEF CheckInstance, TypeOK
      <4>2. CASE loop[l].todo # {}
        <5>1. PICK t \in loop[l].todo :
                op' = [op EXCEPT ![l].team = IF t \in rows THEN @ ELSE t]
          BY <2>4, <4>2 DEF CheckInstance
        <5> QED
          BY <3>4, <3>6, <5>1 DEF TypeOK
      <4> QED
        BY <4>1, <4>2
    <3> QED
      BY <2>4, <3>5, <3>7 DEF CheckInstance, TypeOK
  <2>5. CASE AddInstance(l)
    <3>1. loop' \in [Loops -> LoopState]
      <4>1. "exit" \in Points /\ "instances" \in Points
        BY DEF Points
      <4>2. \/ loop' = [loop EXCEPT ![l].pc = "exit"]
            \/ loop' = [loop EXCEPT ![l].pc = "instances"]
        BY <2>5 DEF AddInstance
      <4> QED
        BY <2>a, <4>1, <4>2
    <3>2. op[l].team \in Teams
      BY DEF TypeOK, OpState
    <3> QED
      BY <2>5, <3>1, <3>2 DEF AddInstance, TypeOK
  <2>6. CASE GenerateFlags(l)
    <3>1. loop' \in [Loops -> LoopState]
      BY <2>6, GoesOn DEF GenerateFlags, Points
    <3>2. loop[l].cur \in Rounds
      BY <2>6 DEF GenerateFlags, At, LoopPlans
    <3> QED
      BY <2>6, <3>1, <3>2 DEF GenerateFlags, TypeOK
  <2>7. CASE Inject(l)
    <3>1. loop[l].todo \subseteq Teams /\ loop[l].cur \in 0..TotalRounds
      BY <2>0 DEF LoopState
    <3>2. \A t \in Teams : [loop[l] EXCEPT !.todo = @ \ {t}] \in LoopState
      BY <2>0 DEF LoopState
    <3>3. loop' \in [Loops -> LoopState]
      <4>1. CASE loop[l].todo = {}
        <5>1. loop' = [loop EXCEPT ![l].pc = "Attack"]
          BY <2>7, <4>1 DEF Inject
        <5> QED
          BY <2>a, <5>1 DEF Points
      <4>2. CASE loop[l].todo # {}
        <5>1. PICK t \in loop[l].todo : loop' = [loop EXCEPT ![l].todo = @ \ {t}]
          BY <2>7, <4>2 DEF Inject
        <5> QED
          BY <3>1, <3>2, <5>1 DEF TypeOK
      <4> QED
        BY <4>1, <4>2
    <3>4. op' \in [Loops \cup Players -> OpState]
      BY <2>7, <3>1, AcquireTyped DEF Inject, TypeOK
    <3> QED
      BY <2>7, <3>3, <3>4 DEF Inject, TypeOK
  <2>8. CASE ToPatch(l)
    <3>1. loop' \in [Loops -> LoopState]
      BY <2>8, GoesOn DEF ToPatch, Points
    <3> QED
      BY <2>8, <3>1 DEF ToPatch, TypeOK
  <2>9. CASE FinishRound(l)
    <3>1. \A s \in {"begin", "destroying"} : [NoLocals EXCEPT !.pc = s] \in LoopState
      BY StartsOver DEF Points
    <3>2. loop' \in [Loops -> LoopState]
      BY <2>9, <3>1 DEF FinishRound, TypeOK
    <3>4. down' \in [Loops \cup {Admin} -> DownState]
      BY <2>9, DestroysNext DEF FinishRound, TypeOK
    <3> QED
      BY <2>9, <3>2, <3>4 DEF FinishRound, TypeOK
  <2>10. CASE LoopEnds(l)
    <3>1. loop' \in [Loops -> LoopState]
      BY <2>10, GoesOn, LocalsTyped DEF LoopEnds, TypeOK, Points
    <3> QED
      BY <2>10, <3>1 DEF LoopEnds, TypeOK
  <2> QED
    BY <1>8, <2>1, <2>2, <2>3, <2>4, <2>5, <2>6, <2>7, <2>8, <2>9, <2>10 DEF LoopStep
<1>9. ASSUME NEW a \in Loops \cup Players, InstanceStep(a) PROVE TypeOK'
  <2>0. op[a] \in OpState /\ op[a].team \in Teams /\ op[a].flag \in 0..TotalRounds
    BY DEF TypeOK, OpState
  <2>1. \A s \in Held : [op[a] EXCEPT !.at = s] \in OpState
    BY <2>0 DEF OpState
  <2>2. CASE DestroyOld(a)
    <3>1. CASE Abort(a) /\ UNCHANGED box
      BY <2>2, <3>1, EndsTyped DEF DestroyOld, TypeOK
    <3>2. CASE ~(Abort(a) /\ UNCHANGED box)
      <4>1. op' = [op EXCEPT ![a].at = "create"] /\ "create" \in Held
        BY <2>2, <3>2 DEF DestroyOld, Held
      <4>2. op' \in [Loops \cup Players -> OpState]
        BY <2>1, <4>1 DEF TypeOK
      <4>3. behind' \subseteq Loops \cup Players \cup {Admin}
        BY <2>2, <3>2 DEF DestroyOld, Deleters, TypeOK
      <4>4. box' \in [Teams -> {NoBox} \cup 0..TotalRounds]
            /\ \A t \in Teams \ rows : box'[t] = NoBox
        BY <2>0, <2>2, <3>2 DEF DestroyOld, TypeOK
      <4> QED
        BY <2>2, <3>2, <4>2, <4>3, <4>4 DEF DestroyOld, TypeOK
    <3> QED
      BY <3>1, <3>2
  <2>3. CASE CreateNew(a)
    <3>1. CASE op' = [op EXCEPT ![a].at = "save"] /\ UNCHANGED <<loop, orphans, behind>>
      BY <2>1, <2>3, <3>1 DEF CreateNew, TypeOK, Held
    <3>2. CASE Return(a)
      BY <2>3, <3>2, EndsTyped DEF CreateNew, TypeOK
    <3>3. CASE Abort(a)
      BY <2>3, <3>3, EndsTyped DEF CreateNew, TypeOK
    <3> QED
      BY <2>3, <3>1, <3>2, <3>3 DEF CreateNew
  <2>4. CASE SaveNew(a)
    <3>1. CASE a \in orphans
      BY <2>4, <3>1, EndsTyped DEF SaveNew, TypeOK
    <3>2. CASE a \notin orphans
      <4>1. op[a].team \in rows
        BY <2>4, <3>2 DEF SaveNew, HolderSeesRow, Holds, Held
      <4>2. box' = [box EXCEPT ![op[a].team] = op[a].flag]
        BY <2>4, <3>2 DEF SaveNew
      <4>3. box' \in [Teams -> {NoBox} \cup 0..TotalRounds]
            /\ \A t \in Teams \ rows : box'[t] = NoBox
        BY <2>0, <4>1, <4>2 DEF TypeOK
      <4>4. resets' \in [Teams -> Nat]
        BY <2>0, <2>4, <3>2 DEF SaveNew, TypeOK
      <4>5. CASE op[a].kind = "recover"
        <5>1. op' = [op EXCEPT ![a].at = "record"] /\ "record" \in Held
          BY <2>4, <3>2, <4>5 DEF SaveNew, Held
        <5>2. op' \in [Loops \cup Players -> OpState]
          BY <2>1, <5>1 DEF TypeOK
        <5> QED
          BY <2>4, <3>2, <4>3, <4>4, <4>5, <5>2 DEF SaveNew, TypeOK
      <4>6. CASE op[a].kind # "recover"
        <5>1. Return(a)
          BY <2>4, <3>2, <4>6 DEF SaveNew
        <5> QED
          BY <2>4, <4>3, <4>4, <5>1, EndsTyped DEF SaveNew, TypeOK
      <4> QED
        BY <4>5, <4>6
    <3> QED
      BY <3>1, <3>2
  <2>5. CASE RecordRecovery(a)
    <3>1. recoveries' \in [Teams -> Nat]
      BY <2>0, <2>5 DEF RecordRecovery, TypeOK
    <3> QED
      BY <2>5, <3>1, EndsTyped DEF RecordRecovery, TypeOK
  <2> QED
    BY <1>9, <2>2, <2>3, <2>4, <2>5 DEF InstanceStep
<1>10. ASSUME NEW d \in Loops \cup {Admin}, DestroyStep(d) PROVE TypeOK'
  <2>0. down[d].boxed \subseteq Teams /\ down[d].all \subseteq Teams
    BY DEF TypeOK, DownState
  <2>1. CASE DestroyReads(d)
    <3>1. [at |-> "containers", all |-> rows, boxed |-> {t \in rows : box[t] # NoBox}]
             \in DownState
      BY DEF TypeOK, DownState
    <3> QED
      BY <2>1, <3>1 DEF DestroyReads, TypeOK
  <2>2. CASE DestroyContainers(d)
    <3>1. CASE d \in behind \cup orphans
      BY <2>2, <3>1, EndDestroyTyped DEF DestroyContainers, TypeOK
    <3>2. CASE d \notin behind \cup orphans
      <4>1. down' \in [Loops \cup {Admin} -> DownState]
        BY <2>2, <3>2 DEF DestroyContainers, TypeOK, DownState
      <4>2. behind' \subseteq Loops \cup Players \cup {Admin}
        BY <2>2, <3>2 DEF DestroyContainers, Deleters, TypeOK
      <4>3. box' \in [Teams -> {NoBox} \cup 0..TotalRounds]
            /\ \A t \in Teams \ rows : box'[t] = NoBox
        BY <2>2, <3>2 DEF DestroyContainers, TypeOK
      <4> QED
        BY <2>2, <3>2, <4>1, <4>2, <4>3 DEF DestroyContainers, TypeOK
    <3> QED
      BY <3>1, <3>2
  <2>3. CASE DestroyRows(d)
    <3>1. /\ EndDestroy(d) /\ behind' = behind \ {d}
          /\ UNCHANGED <<up, registered, round, flags, records, op, history>>
      BY <2>3 DEF DestroyRows
    <3>2. CASE d \in orphans
      BY <2>3, <3>1, <3>2, EndDestroyTyped DEF DestroyRows, TypeOK
    <3>3. CASE d \notin orphans
      <4>1. orphans' \subseteq Loops \cup Players \cup {Admin} /\ rows' \subseteq Teams
        BY <2>3, <3>3 DEF DestroyRows, TypeOK
      <4>2. box' \in [Teams -> {NoBox} \cup 0..TotalRounds]
            /\ \A t \in Teams \ rows' : box'[t] = NoBox
        BY <2>3, <3>3 DEF DestroyRows, TypeOK
      <4> QED
        BY <3>1, <4>1, <4>2, EndDestroyTyped DEF TypeOK
    <3> QED
      BY <3>2, <3>3
  <2> QED
    BY <1>10, <2>1, <2>2, <2>3 DEF DestroyStep
<1>11. ASSUME NEW p \in Players, Reset(p) \/ Recover(p) \/ Leave(p) PROVE TypeOK'
  <2>1. TeamOf[p] \in Teams /\ CurrentFlag \in 0..TotalRounds
    BY RoundNumbers
  <2>2. CASE Reset(p)
    BY <2>1, <2>2, AcquireTyped DEF Reset, TypeOK
  <2>3. CASE Recover(p)
    BY <2>1, <2>3, AcquireTyped DEF Recover, TypeOK
  <2>4. CASE Leave(p)
    BY <2>4, EndsTyped DEF Leave, TypeOK
  <2> QED
    BY <1>11, <2>2, <2>3, <2>4
<1>12. CASE Crash
  <2>1. /\ loop' \in [Loops -> LoopState] /\ op' \in [Loops \cup Players -> OpState]
        /\ down' \in [Loops \cup {Admin} -> DownState] /\ admin' \in AdminState
    BY <1>12, LocalsTyped DEF Crash
  <2>2. up' \in BOOLEAN /\ registered' \in Loops \cup {NoLoop} /\ crashes' \in Nat
    <3>1. crashes \in Nat /\ crashes' = crashes + 1
      BY <1>12 DEF Crash, TypeOK
    <3>2. up' = FALSE /\ registered' = NoLoop
      BY <1>12 DEF Crash
    <3>3. crashes' \in Nat
      BY <3>1
    <3>4. up' \in BOOLEAN /\ registered' \in Loops \cup {NoLoop}
      BY <3>2
    <3> QED
      BY <3>3, <3>4
  <2>3. /\ orphans' = {} /\ behind' = {} /\ UNCHANGED <<db, starts, stops>>
        /\ registry' \in {"kept", "lost", "doubled"}
    BY <1>12 DEF Crash, TypeOK
  <2> QED
    BY <2>1, <2>2, <2>3 DEF TypeOK
<1>13. CASE Boot
  BY <1>13, SpawnTyped DEF Boot, TypeOK
<1> QED
  BY <1>1, <1>2, <1>3, <1>4, <1>5, <1>6, <1>7, <1>8, <1>9, <1>10, <1>11, <1>12, <1>13
  DEF Next, AdminStep

-----------------------------------------------------------------------------
(* Where the loops are                                                     *)

\* What the steps of a loop, of a reset and of a clean-up do to the loops.
LEMMA OtherLoops ==
  ASSUME TInv, NEW x \in Loops, NEW l \in Loops \ {x}, LoopStep(l)
  PROVE  /\ op'[x] = op[x] /\ down'[x] = down[x]
         /\ \/ loop'[x] = loop[x]
            \/ /\ loop[x].pc = "spawned" /\ LoopEnds(l)
               /\ loop'[x] = [loop[x] EXCEPT !.pc = "disposed"]
<1> USE AwdpAssumption
<1>0. /\ loop \in [Loops -> LoopState] /\ op \in [Loops \cup Players -> OpState]
      /\ down \in [Loops \cup {Admin} -> DownState]
  BY DEF TInv, TypeOK
<1>1. CASE LoopEnters(l) \/ BeginRound(l) \/ InsertRound(l) \/ AddInstance(l)
           \/ GenerateFlags(l) \/ ToPatch(l)
  BY <1>0, <1>1
  DEF LoopEnters, BeginRound, InsertRound, AddInstance, GenerateFlags, ToPatch, calls
<1>2. CASE CheckInstance(l) \/ FinishRound(l)
  BY <1>0, <1>2 DEF CheckInstance, FinishRound
<1>3. CASE Inject(l)
  BY <1>0, <1>3 DEF Inject, Acquire
<1>4. CASE LoopEnds(l)
  <2>1. x # NoLoop
    OBVIOUS
  <2> QED
    BY <1>0, <1>4, <2>1 DEF LoopEnds, calls
<1> QED
  BY <1>1, <1>2, <1>3, <1>4 DEF LoopStep

LEMMA InstanceLoops ==
  ASSUME TInv, NEW x \in Loops, NEW a \in Loops \cup Players,
         InstanceStep(a) \/ (a \in Players /\ Leave(a))
  PROVE  /\ UNCHANGED <<down, registered, round, registry, admin, up>>
         /\ \/ op'[x] = op[x] /\ loop'[x] = loop[x]
            \/ op'[x].at # "idle" /\ op[x].at # "idle" /\ loop'[x] = loop[x]
            \/ op'[x].at = "idle" /\ loop'[x] = loop[x]
            \/ /\ op'[x].at = "idle" /\ op[x].at # "idle"
               /\ loop'[x] = [loop[x] EXCEPT !.pc = "exit"]
<1> USE AwdpAssumption
<1>1. op \in [Loops \cup Players -> OpState] /\ op[x] \in OpState
  BY DEF TInv, TypeOK
<1>2. UNCHANGED <<down, registered, round, registry, admin, up>>
  BY DEF InstanceStep, DestroyOld, CreateNew, SaveNew, RecordRecovery, Leave, db, history
<1>3. \/ op'[x] = op[x] /\ loop'[x] = loop[x]
      \/ op'[x].at # "idle" /\ op[x].at # "idle" /\ loop'[x] = loop[x]
      \/ op'[x].at = "idle" /\ loop'[x] = loop[x]
      \/ /\ op'[x].at = "idle" /\ op[x].at # "idle"
         /\ loop'[x] = [loop[x] EXCEPT !.pc = "exit"]
  BY <1>1, EndsTyped
  DEF TInv, InstanceStep, DestroyOld, CreateNew, SaveNew, RecordRecovery, Leave, NoOp, OpState
<1> QED
  BY <1>2, <1>3

LEMMA DestroyLoops ==
  ASSUME TInv, NEW x \in Loops, NEW d \in Loops \cup {Admin}, DestroyStep(d)
  PROVE  /\ UNCHANGED <<op, registered, round, registry, up>>
         /\ admin'.start = admin.start
         /\ admin' = admin \/ admin'.stop = "idle"
         /\ \/ loop'[x] = loop[x] /\ (down'[x].at # "idle" => down[x].at # "idle")
            \/ /\ down[x].at # "idle" /\ down'[x].at = "idle"
               /\ loop'[x] = [loop[x] EXCEPT !.pc = "exit"]
<1> USE AwdpAssumption
<1>1. down \in [Loops \cup {Admin} -> DownState] /\ down[x] \in DownState
  BY DEF TInv, TypeOK
<1>2. UNCHANGED <<op, registered, round, registry, up>>
  BY DEF DestroyStep, DestroyReads, DestroyContainers, DestroyRows, db, history
<1>3. admin'.start = admin.start /\ (admin' = admin \/ admin'.stop = "idle")
  <2>1. \/ admin' = admin
        \/ admin' = [admin EXCEPT !.stop = "idle", !.cur = 0]
    BY DEF DestroyStep, DestroyReads, DestroyContainers, DestroyRows, EndDestroy
  <2>2. admin \in AdminState
    BY DEF TInv, TypeOK
  <2> QED
    BY <2>1, <2>2 DEF AdminState
<1>4. \/ loop'[x] = loop[x] /\ (down'[x].at # "idle" => down[x].at # "idle")
      \/ /\ down[x].at # "idle" /\ down'[x].at = "idle"
         /\ loop'[x] = [loop[x] EXCEPT !.pc = "exit"]
  BY <1>1, EndDestroyTyped
  DEF TInv, DestroyStep, DestroyReads, DestroyContainers, DestroyRows, NoDown, DownState
<1> QED
  BY <1>2, <1>3, <1>4

LEMMA PlacesStep ==
  ASSUME TInv, [Next]_vars
  PROVE  LoopWhere' /\ LoopPlans'
<1> USE AwdpAssumption DEF TInv, LoopWhere, LoopPlans, At
<1> SUFFICES ASSUME NEW x \in Loops
             PROVE  /\ op'[x].at # "idle" => loop'[x].pc = "inject"
                    /\ down'[x].at # "idle" => loop'[x].pc = "destroying"
                    /\ loop'[x].pc \in {"insert", "instances", "add"} => loop'[x].stat # "None"
                    /\ loop'[x].pc \in {"insert", "instances", "add", "flags", "inject",
                                        "Attack", "Patch"} => loop'[x].cur \in Rounds
  OBVIOUS
<1>0. /\ loop \in [Loops -> LoopState] /\ op \in [Loops \cup Players -> OpState]
      /\ down \in [Loops \cup {Admin} -> DownState]
      /\ loop[x] \in LoopState /\ op[x] \in OpState /\ down[x] \in DownState
  BY DEF TypeOK
<1>1. CASE UNCHANGED <<loop, op, down>>
  BY <1>1
<1>2. CASE StopGame
  BY <1>0, <1>2 DEF StopGame, NoLocals, NoOp, NoDown
<1>3. CASE StartLoop
  BY <1>0, <1>3 DEF StartLoop, Spawn, calls, LoopState
<1>4. CASE StopReadsRound \/ StopFinishesRound \/ AdminLeaves
  BY <1>0, <1>4 DEF StopReadsRound, StopFinishesRound, AdminLeaves
<1>6. CASE \E l \in Loops \ {x} : LoopStep(l)
  <2>1. /\ op'[x] = op[x] /\ down'[x] = down[x]
        /\ \/ loop'[x] = loop[x]
           \/ /\ loop[x].pc = "spawned"
              /\ loop'[x] = [loop[x] EXCEPT !.pc = "disposed"]
    <3> HIDE DEF TInv, LoopWhere, LoopPlans
    <3>1. PICK l \in Loops \ {x} : LoopStep(l)
      BY <1>6
    <3> QED
      BY OtherLoops, <3>1
  <2>2. CASE loop'[x] = loop[x]
    BY <2>1, <2>2
  <2>3. CASE loop[x].pc = "spawned" /\ loop'[x] = [loop[x] EXCEPT !.pc = "disposed"]
    <3>1. loop'[x].pc = "disposed"
      BY <1>0, <2>3 DEF LoopState
    <3> QED
      BY <2>1, <2>3, <3>1
  <2> QED
    BY <2>1, <2>2, <2>3
<1>7. CASE LoopStep(x)
  <2>0. loop'[x] \in LoopState
    BY TypeStep DEF TypeOK
  <2>1. CASE LoopEnters(x)
    BY <1>0, <2>1 DEF LoopEnters, calls, LoopState
  <2>2. CASE BeginRound(x)
    BY <1>0, <2>0, <2>2, RoundNumbers
    DEF BeginRound, calls, LoopState, NoLocals, OpenRounds, Open, Rounds
  <2>3. CASE InsertRound(x)
    BY <1>0, <2>3 DEF InsertRound, calls, LoopState
  <2>4. CASE CheckInstance(x)
    <3>0. /\ loop[x].pc = "instances" /\ op[x].at = "idle" /\ down[x].at = "idle"
          /\ loop[x].stat \in {"Attack", "Patch"} /\ loop[x].cur \in Rounds
      BY <1>0, <2>4 DEF CheckInstance, LoopState
    <3>1. CASE loop[x].todo = {}
      <4>1. /\ UNCHANGED <<op, down>>
            /\ loop'[x].cur = loop[x].cur /\ loop'[x].pc \in {"flags", "Attack", "Patch"}
        BY <1>0, <2>4, <3>0, <3>1 DEF CheckInstance, LoopState
      <4> QED
        BY <3>0, <4>1
    <3>2. CASE loop[x].todo # {}
      <4>1. /\ op'[x].at = op[x].at /\ UNCHANGED down
            /\ loop'[x].cur = loop[x].cur /\ loop'[x].stat = loop[x].stat
            /\ loop'[x].pc \in {"instances", "add"}
        <5>1. PICK t \in loop[x].todo :
                /\ loop' = [loop EXCEPT ![x].pc = IF t \in rows THEN @ ELSE "add",
                                        ![x].todo = @ \ {t}]
                /\ op' = [op EXCEPT ![x].team = IF t \in rows THEN @ ELSE t]
          BY <2>4, <3>2 DEF CheckInstance
        <5>2. op'[x].at = op[x].at
          BY <1>0, <5>1 DEF OpState
        <5>3. /\ loop'[x].cur = loop[x].cur /\ loop'[x].stat = loop[x].stat
              /\ loop'[x].pc \in {"instances", "add"}
          BY <1>0, <3>0, <5>1 DEF LoopState
        <5> QED
          BY <2>4, <5>2, <5>3 DEF CheckInstance
      <4> QED
        BY <3>0, <4>1
    <3> QED
      BY <3>1, <3>2
  <2>5. CASE AddInstance(x)
    BY <1>0, <2>5 DEF AddInstance, calls, LoopState
  <2>6. CASE GenerateFlags(x) \/ ToPatch(x)
    BY <1>0, <2>6 DEF GenerateFlags, ToPatch, calls, LoopState
  <2>7. CASE Inject(x)
    BY <1>0, <2>7 DEF Inject, LoopState, Acquire
  <2>8. CASE FinishRound(x)
    BY <1>0, <2>8 DEF FinishRound, LoopState, DownState, NoLocals
  <2>9. CASE LoopEnds(x)
    BY <1>0, <2>9 DEF LoopEnds, calls, NoLocals
  <2> QED
    BY <1>7, <2>1, <2>2, <2>3, <2>4, <2>5, <2>6, <2>7, <2>8, <2>9 DEF LoopStep
<1>9. CASE \E a \in Loops \cup Players : InstanceStep(a) \/ (a \in Players /\ Leave(a))
  <2>1. UNCHANGED down
    BY <1>9, InstanceLoops
  <2>2. \/ op'[x] = op[x] /\ loop'[x] = loop[x]
        \/ op'[x].at # "idle" /\ op[x].at # "idle" /\ loop'[x] = loop[x]
        \/ op'[x].at = "idle" /\ loop'[x] = loop[x]
        \/ /\ op'[x].at = "idle" /\ op[x].at # "idle"
           /\ loop'[x] = [loop[x] EXCEPT !.pc = "exit"]
    BY <1>9, InstanceLoops
  <2> QED
    BY <1>0, <2>1, <2>2 DEF LoopState
<1>11. CASE \E d \in Loops \cup {Admin} : DestroyStep(d)
  <2>1. UNCHANGED op
    BY <1>11, DestroyLoops
  <2>2. \/ loop'[x] = loop[x] /\ (down'[x].at # "idle" => down[x].at # "idle")
        \/ /\ down[x].at # "idle" /\ down'[x].at = "idle"
           /\ loop'[x] = [loop[x] EXCEPT !.pc = "exit"]
    BY <1>11, DestroyLoops
  <2> QED
    BY <1>0, <2>1, <2>2 DEF LoopState
<1>12. ASSUME NEW p \in Players, Reset(p) \/ Recover(p)
       PROVE  UNCHANGED <<loop, down>> /\ op'[x] = op[x]
  BY <1>0, <1>12 DEF Reset, Recover, Acquire
<1>13. CASE Crash
  BY <1>13 DEF Crash, NoLocals, NoOp, NoDown
<1>14. CASE Boot
  BY <1>0, <1>14 DEF Boot, Spawn, calls, LoopState
<1>15. CASE StartGame
  BY <1>1, <1>15 DEF StartGame, calls
<1> QED
  BY <1>1, <1>2, <1>3, <1>4, <1>6, <1>7, <1>9, <1>11, <1>12, <1>13, <1>14, <1>15
  DEF Next, AdminStep, vars

-----------------------------------------------------------------------------
(* Who holds the semaphores                                                *)

\* Who holds a semaphore after the step held it before.
KeepsHolders ==
    \A x \in Loops \cup Players : Holds(x)' =>
        /\ Holds(x) /\ op'[x].team = op[x].team /\ op'[x].kind = op[x].kind
        /\ op'[x].flag = op[x].flag
        /\ op[x].team \in rows'
        /\ op'[x].at # "record" => op[x].at # "record"

\* The reset of a is counted, which ends it.
Counts(a) ==
    /\ Holds(a) /\ op[a].kind = "reset" /\ op[a].at # "record"
    /\ resets' = [resets EXCEPT ![op[a].team] = @ + 1]
    /\ op'[a].at = "idle"

\* a takes the semaphore of team t: a loop with its round's flag, a player with the
\* flag in force.
Takes(a) ==
    \E k \in {"round", "reset", "recover"}, t \in Teams, f \in 0..TotalRounds :
        /\ Acquire(a, k, t, f)
        /\ k = "reset" => resets[t] < MaxResetCount
        /\ IF a \in Loops THEN At(a, "inject") /\ f = loop[a].cur ELSE f = CurrentFlag
        /\ UNCHANGED <<rows, orphans, resets>>

LEMMA HoldersStep ==
  ASSUME TInv, [Next]_vars
  PROVE  \/ KeepsHolders /\ UNCHANGED resets
         \/ KeepsHolders /\ \E a \in Loops \cup Players : Counts(a)
         \/ \E a \in Loops \cup Players : Takes(a)
<1> USE AwdpAssumption DEF TInv, records
<1>0. /\ op \in [Loops \cup Players -> OpState]
      /\ \A x \in Loops \cup Players : op[x] \in OpState
      /\ "idle" \notin Held
  BY DEF TypeOK, Held
<1>1. ASSUME UNCHANGED <<op, resets>>, orphans \subseteq orphans', rows \subseteq rows'
      PROVE  KeepsHolders /\ UNCHANGED resets
  BY <1>1 DEF KeepsHolders, Holds, HolderSeesRow
<1>2. ASSUME NEW a \in Loops \cup Players, op' = [op EXCEPT ![a] = NoOp(a)],
             orphans' = orphans \ {a}, rows \subseteq rows'
      PROVE  KeepsHolders /\ op'[a].at = "idle"
  <2>1. op'[a] = NoOp(a) /\ op'[a].at = "idle"
    BY <1>0, <1>2 DEF NoOp
  <2>2. \A x \in (Loops \cup Players) \ {a} : op'[x] = op[x]
    BY <1>0, <1>2
  <2> QED
    BY <1>0, <1>2, <2>1, <2>2 DEF KeepsHolders, Holds, HolderSeesRow
<1>3. ASSUME NEW a \in Loops \cup Players, NEW s \in Held, op[a].at \in Held,
             op[a].at # "record", op' = [op EXCEPT ![a].at = s], orphans' = orphans,
             rows' = rows
      PROVE  KeepsHolders
  <2>1. /\ op'[a].at = s /\ op'[a].team = op[a].team /\ op'[a].kind = op[a].kind
        /\ op'[a].flag = op[a].flag
    BY <1>0, <1>3 DEF OpState
  <2>2. \A x \in (Loops \cup Players) \ {a} : op'[x] = op[x]
    BY <1>0, <1>3
  <2> QED
    BY <1>3, <2>1, <2>2 DEF KeepsHolders, Holds, HolderSeesRow
<1>4. CASE UNCHANGED vars
  BY <1>1, <1>4 DEF vars
<1>5. CASE StartGame \/ StartLoop \/ StopReadsRound \/ StopFinishesRound \/ Boot
  BY <1>1, <1>5
  DEF StartGame, StartLoop, StopReadsRound, StopFinishesRound, Boot, db, calls
<1>6. CASE StopGame
  <2>1. CASE registered = NoLoop
    BY <1>1, <1>6, <2>1 DEF StopGame, db
  <2>2. CASE registered # NoLoop
    BY <1>2, <1>6, <2>2 DEF StopGame, db, TypeOK
  <2> QED
    BY <2>1, <2>2
<1>7. CASE AdminLeaves
  <2>1. orphans' = orphans \ {Admin} /\ UNCHANGED <<op, rows, resets>>
    BY <1>7 DEF AdminLeaves, db
  <2> QED
    BY <2>1 DEF KeepsHolders, Holds, HolderSeesRow
<1>8. ASSUME NEW l \in Loops, LoopStep(l)
      PROVE  (KeepsHolders /\ UNCHANGED resets) \/ Takes(l)
  <2>1. CASE LoopEnters(l) \/ BeginRound(l) \/ InsertRound(l) \/ AddInstance(l)
             \/ GenerateFlags(l) \/ ToPatch(l) \/ FinishRound(l) \/ LoopEnds(l)
    BY <1>1, <2>1
    DEF LoopEnters, BeginRound, InsertRound, AddInstance, GenerateFlags, ToPatch,
        FinishRound, LoopEnds, db, calls
  <2>2. CASE CheckInstance(l)
    <3>1. op[l].at = "idle" /\ UNCHANGED <<rows, orphans, resets>>
      BY <2>2 DEF CheckInstance, LoopWhere, At, db
    <3>2. op'[l].at = "idle" /\ \A x \in (Loops \cup Players) \ {l} : op'[x] = op[x]
      <4>1. \/ op' = op
            \/ \E t \in loop[l].todo : op' = [op EXCEPT ![l].team = IF t \in rows THEN @ ELSE t]
        BY <2>2 DEF CheckInstance
      <4> QED
        BY <1>0, <3>1, <4>1 DEF OpState
    <3> QED
      BY <1>0, <3>1, <3>2 DEF KeepsHolders, Holds, HolderSeesRow
  <2>3. CASE Inject(l)
    <3>1. UNCHANGED <<rows, orphans, resets>>
      BY <2>3 DEF Inject, db
    <3>2. /\ UNCHANGED op \/ \E t \in loop[l].todo : Acquire(l, "round", t, loop[l].cur)
          /\ At(l, "inject")
      BY <2>3 DEF Inject
    <3>3. loop[l].todo \subseteq Teams /\ loop[l].cur \in 0..TotalRounds
      BY DEF TypeOK, LoopState
    <3> QED
      BY <1>1, <3>1, <3>2, <3>3 DEF Takes
  <2> QED
    BY <1>8, <2>1, <2>2, <2>3 DEF LoopStep
<1>9. ASSUME NEW a \in Loops \cup Players, InstanceStep(a)
      PROVE  KeepsHolders /\ (UNCHANGED resets \/ Counts(a))
  <2>1. CASE DestroyOld(a)
    BY <1>2, <1>3, <2>1, EndsTyped DEF DestroyOld, Held
  <2>2. CASE CreateNew(a)
    BY <1>2, <1>3, <2>2, EndsTyped DEF CreateNew, db, Held
  <2>3. CASE SaveNew(a)
    <3>1. CASE a \in orphans
      BY <1>2, <2>3, <3>1, EndsTyped DEF SaveNew
    <3>2. CASE a \notin orphans /\ op[a].kind = "recover"
      BY <1>3, <2>3, <3>2 DEF SaveNew, Held
    <3>3. CASE a \notin orphans /\ op[a].kind # "recover"
      <4>1. Return(a) /\ rows' = rows /\ op[a].at = "save" /\ Holds(a)
        BY <2>3, <3>3 DEF SaveNew, Holds, Held
      <4>2. KeepsHolders /\ op'[a].at = "idle"
        BY <1>2, <4>1, EndsTyped
      <4> QED
        BY <2>3, <3>3, <4>1, <4>2 DEF SaveNew, Counts
    <3> QED
      BY <3>1, <3>2, <3>3
  <2>4. CASE RecordRecovery(a)
    BY <1>2, <2>4, EndsTyped DEF RecordRecovery
  <2> QED
    BY <1>9, <2>1, <2>2, <2>3, <2>4 DEF InstanceStep
<1>10. ASSUME NEW d \in Loops \cup {Admin}, DestroyStep(d)
       PROVE  KeepsHolders /\ UNCHANGED resets
  <2>0. UNCHANGED <<op, resets>>
    BY <1>10 DEF DestroyStep, DestroyReads, DestroyContainers, DestroyRows, db
  <2>1. d \in Loops => op[d].at = "idle"
    BY <1>10 DEF DestroyStep, DestroyReads, DestroyContainers, DestroyRows, LoopWhere, At
  <2>2. CASE DestroyReads(d) \/ DestroyContainers(d)
    <3>1. rows' = rows /\ orphans \ {d} \subseteq orphans'
      BY <2>2 DEF DestroyReads, DestroyContainers, db
    <3> QED
      BY <1>0, <2>0, <2>1, <3>1 DEF KeepsHolders, Holds, HolderSeesRow
  <2>3. CASE DestroyRows(d)
    <3>1. CASE d \in orphans
      <4>1. rows' = rows /\ orphans' = orphans \ {d}
        BY <2>3, <3>1 DEF DestroyRows
      <4> QED
        BY <1>0, <2>0, <2>1, <4>1 DEF KeepsHolders, Holds, HolderSeesRow
    <3>2. CASE d \notin orphans
      <4>1. /\ rows' = rows \ down[d].all /\ orphans \subseteq orphans'
            /\ {a \in Loops \cup Players : op[a].at # "idle" /\ op[a].team \in down[d].all}
                  \subseteq orphans'
        BY <1>0, <2>3, <3>2 DEF DestroyRows
      <4> QED
        BY <1>0, <2>0, <4>1 DEF KeepsHolders, Holds, HolderSeesRow
    <3> QED
      BY <3>1, <3>2
  <2> QED
    BY <1>10, <2>2, <2>3 DEF DestroyStep
<1>11. ASSUME NEW p \in Players, Reset(p) \/ Recover(p) \/ Leave(p)
       PROVE  (KeepsHolders /\ UNCHANGED resets) \/ Takes(p)
  <2>1. TeamOf[p] \in Teams /\ CurrentFlag \in 0..TotalRounds
    BY RoundNumbers
  <2>2. CASE Reset(p)
    <3>1. /\ Acquire(p, "reset", TeamOf[p], CurrentFlag) /\ resets[TeamOf[p]] < MaxResetCount
          /\ UNCHANGED <<rows, orphans, resets>>
      BY <2>2 DEF Reset, db
    <3> QED
      BY <2>1, <3>1 DEF Takes
  <2>3. CASE Recover(p)
    <3>1. /\ Acquire(p, "recover", TeamOf[p], CurrentFlag)
          /\ UNCHANGED <<rows, orphans, resets>>
      BY <2>3 DEF Recover, db
    <3> QED
      BY <2>1, <3>1 DEF Takes
  <2>4. CASE Leave(p)
    BY <1>2, <2>4, EndsTyped DEF Leave, db
  <2> QED
    BY <1>11, <2>2, <2>3, <2>4
<1>12. CASE Crash
  <2>1. /\ \A x \in Loops \cup Players : op'[x].at = "idle"
        /\ UNCHANGED <<rows, resets>>
    BY <1>12 DEF Crash, NoOp, db
  <2> QED
    BY <1>0, <2>1 DEF KeepsHolders, Holds
<1> QED
  BY <1>4, <1>5, <1>6, <1>7, <1>8, <1>9, <1>10, <1>11, <1>12 DEF Next, AdminStep

LEMMA TypeInvariant == Spec => []TInv
<1>1. TInv /\ [Next]_vars => TInv'
  <2> SUFFICES ASSUME TInv, [Next]_vars PROVE TInv'
    OBVIOUS
  <2>1. TypeOK' /\ LoopWhere' /\ LoopPlans'
    BY TypeStep, PlacesStep
  <2>2. CASE KeepsHolders
    BY <2>1, <2>2 DEF TInv, HolderSeesRow, KeepsHolders
  <2>3. ASSUME NEW a \in Loops \cup Players, Takes(a) PROVE HolderSeesRow'
    <3>1. PICK k \in {"round", "reset", "recover"}, t \in Teams, f \in 0..TotalRounds :
            Acquire(a, k, t, f) /\ UNCHANGED <<rows, orphans>>
      BY <2>3 DEF Takes
    <3>2. op'[a].team = t /\ \A b \in (Loops \cup Players) \ {a} : op'[b] = op[b]
      BY <3>1, AcquireTyped DEF TInv
    <3>3. t \in rows
      BY <3>1 DEF Acquire
    <3> QED
      BY <3>1, <3>2, <3>3 DEF TInv, HolderSeesRow, Holds
  <2> QED
    BY <2>1, <2>2, <2>3, HoldersStep DEF TInv
<1> QED
  BY <1>1, InitTInv, PTL DEF Spec

\* Every state of the model is of its type, and an instance that does not exist has
\* no container, through starts, stops and crashes (AwdpRoundService,
\* AwdpInstanceService).
THEOREM TypeCorrect == Spec => []TypeOK
<1>1. TInv => TypeOK
  BY DEF TInv
<1> QED
  BY <1>1, TypeInvariant, PTL

-----------------------------------------------------------------------------
(* The limit of the resets                                                 *)

LEMMA InitRInv == Init => RInv
BY AwdpAssumption DEF Init, RInv, OneHolder, UnderLimit, ResetsWithinLimit, Holds, NoOp, Held

LEMMA RStep == ASSUME TInv, RInv, [Next]_vars PROVE RInv'
<1> USE DEF RInv
<1>0. /\ MaxResetCount \in Nat /\ resets \in [Teams -> Nat]
      /\ \A x \in Loops \cup Players : op[x].team \in Teams
  BY AwdpAssumption DEF TInv, TypeOK, OpState
<1>1. CASE KeepsHolders /\ (UNCHANGED resets \/ \E a \in Loops \cup Players : Counts(a))
  <2>1. OneHolder'
    BY <1>1 DEF KeepsHolders, OneHolder
  <2>2. CASE UNCHANGED resets
    BY <1>1, <2>1, <2>2 DEF KeepsHolders, UnderLimit, ResetsWithinLimit
  <2>3. ASSUME NEW a \in Loops \cup Players, Counts(a)
        PROVE  UnderLimit' /\ ResetsWithinLimit'
    <3>1. resets[op[a].team] < MaxResetCount
      BY <2>3 DEF Counts, UnderLimit
    <3>2. /\ resets'[op[a].team] = resets[op[a].team] + 1
          /\ \A t \in Teams \ {op[a].team} : resets'[t] = resets[t]
      BY <1>0, <2>3 DEF Counts
    <3>3. ResetsWithinLimit'
      BY <1>0, <3>1, <3>2 DEF ResetsWithinLimit
    <3>4. \A x \in Loops \cup Players : Holds(x)' => op'[x].team # op[a].team
      BY <1>1, <2>3 DEF KeepsHolders, Counts, OneHolder, Holds, Held
    <3>5. UnderLimit'
      BY <1>0, <1>1, <3>2, <3>4 DEF KeepsHolders, UnderLimit
    <3> QED
      BY <3>3, <3>5
  <2> QED
    BY <1>1, <2>1, <2>2, <2>3
<1>2. ASSUME NEW a \in Loops \cup Players, Takes(a) PROVE RInv'
  <2>1. PICK k \in {"round", "reset", "recover"}, t \in Teams, f \in 0..TotalRounds :
          /\ Acquire(a, k, t, f) /\ (k = "reset" => resets[t] < MaxResetCount)
          /\ UNCHANGED <<rows, orphans, resets>>
    BY <1>2 DEF Takes
  <2>2. /\ op'[a].team = t /\ op'[a].kind = k
        /\ \A b \in (Loops \cup Players) \ {a} : op'[b] = op[b]
    BY <2>1, AcquireTyped DEF TInv
  <2>3. \A b \in Loops \cup Players : Holds(b) => op[b].team # t
    BY <2>1 DEF Acquire, Taken, Holds, TInv, TypeOK
  <2>4. OneHolder'
    BY <2>1, <2>2, <2>3 DEF OneHolder, Holds
  <2>5. UnderLimit' /\ ResetsWithinLimit'
    BY <2>1, <2>2 DEF UnderLimit, ResetsWithinLimit, Holds
  <2> QED
    BY <2>4, <2>5
<1> QED
  BY <1>1, <1>2, HoldersStep

\* No team resets its instance more often than MaxResetCount, for any number of
\* players and loops, although the count is read before the container is replaced
\* and the row may be deleted and created again meanwhile (ResetLoadedInstance under
\* RunWithInstanceLock, DestroyInstancesForGame).
THEOREM ResetsNeverExceed == Spec => []ResetsWithinLimit
<1>1. RInv => ResetsWithinLimit
  BY DEF RInv
<1> QED
  BY <1>1, TypeInvariant, InitRInv, RStep, PTL DEF Spec

-----------------------------------------------------------------------------
(* The order of the rounds                                                 *)

\* Nothing runs on a server that is down.
Asleep ==
    ~up => /\ registered = NoLoop /\ admin.start = "idle"
           /\ \A l \in Loops : At(l, "idle")

\* Until an entry is removed by the wrong loop, the loop that runs is registered.
LiveIsRegistered == registry = "kept" => \A l \in Loops : Live(l) => registered = l

\* Until a loop is then started beside it, it is the only one.
OneLoop ==
    registry # "doubled" => \A l, x \in Loops : Live(l) /\ Live(x) => l = x

InRound == {"instances", "add", "flags", "inject", "Attack", "Patch"}

\* That loop plays the last round there is, or is about to insert the next one.
Played ==
    registry # "doubled" => \A l \in Loops :
        /\ loop[l].pc \in InRound \cup {"insert"} =>
              \A m \in 1..(loop[l].cur - 1) : round[m] = "Finished"
        /\ loop[l].pc \in InRound =>
              \A m \in Rounds : m > loop[l].cur => round[m] = "None"
        /\ At(l, "insert") =>
              \A m \in Rounds : m >= loop[l].cur => round[m] = "None"

\* The round that a stop has read and will finish is there.
StopSees == admin.stop = "finish" => admin.cur \in Rounds /\ round[admin.cur] # "None"

OInv == Asleep /\ LiveIsRegistered /\ OneLoop /\ Played /\ StopSees /\ RoundsInOrder

LEMMA InitOInv == Init => OInv
BY AwdpAssumption
DEF Init, OInv, Asleep, LiveIsRegistered, OneLoop, Live, Played, InRound, StopSees, RoundsInOrder,
    NoLocals, NoAdmin, At, Rounds

\* A step that only ends loops and leaves the rounds alone.
Quiet ==
    /\ UNCHANGED <<round, registry>>
    /\ \A x \in Loops : loop'[x] = loop[x] \/ loop'[x].pc \in {"exit", "idle", "cancelled"}
    /\ \A x \in Loops : loop'[x].pc \in {"idle", "cancelled", "exit"} \/ registered' = registered

LEMMA QuietStep ==
  ASSUME OInv, Quiet
  PROVE  LiveIsRegistered' /\ OneLoop' /\ Played' /\ RoundsInOrder'
<1>1. LiveIsRegistered' /\ OneLoop'
  BY DEF OInv, Quiet, LiveIsRegistered, OneLoop, Live
<1>2. Played'
  BY DEF OInv, Quiet, Played, InRound, At
<1>3. RoundsInOrder'
  BY DEF OInv, Quiet, RoundsInOrder
<1> QED
  BY <1>1, <1>2, <1>3

LEMMA AsleepStep == ASSUME TInv, OInv, [Next]_vars PROVE Asleep'
<1> USE AwdpAssumption DEF OInv, Asleep
<1>0. /\ loop \in [Loops -> LoopState] /\ admin \in AdminState
      /\ \A x \in Loops : loop[x].pc = "idle" => op[x].at = "idle" /\ down[x].at = "idle"
  BY DEF TInv, TypeOK, LoopWhere, At
<1>1. CASE UNCHANGED vars
  BY <1>1 DEF vars, At
<1>2. CASE StartGame \/ StopGame
  BY <1>2 DEF StartGame, StopGame
<1>3. CASE StartLoop
  BY <1>3 DEF StartLoop
<1>4. CASE StopReadsRound \/ StopFinishesRound \/ AdminLeaves
  BY <1>0, <1>4 DEF StopReadsRound, StopFinishesRound, AdminLeaves, AdminState, At
<1>5. ASSUME NEW l \in Loops, LoopStep(l) PROVE up' = up /\ loop[l].pc # "idle"
  BY <1>5
  DEF LoopStep, LoopEnters, BeginRound, InsertRound, CheckInstance, AddInstance,
      GenerateFlags, Inject, ToPatch, FinishRound, LoopEnds, At
<1>6. CASE \E l \in Loops : LoopStep(l)
  BY <1>5, <1>6 DEF At
<1>7. ASSUME NEW a \in Loops \cup Players, InstanceStep(a) \/ (a \in Players /\ Leave(a))
      PROVE  Asleep'
  <2>1. UNCHANGED <<registered, admin, up>>
    BY <1>7
    DEF InstanceStep, DestroyOld, CreateNew, SaveNew, RecordRecovery, Leave
  <2>2. \A x \in Loops : loop'[x] = loop[x] \/ op[x].at # "idle"
    BY <1>7, InstanceLoops
  <2> QED
    BY <1>0, <2>1, <2>2 DEF At
<1>8. ASSUME NEW d \in Loops \cup {Admin}, DestroyStep(d) PROVE Asleep'
  <2>1. UNCHANGED <<registered, up>>
    BY <1>8 DEF DestroyStep, DestroyReads, DestroyContainers, DestroyRows
  <2>2. \A x \in Loops : loop'[x] = loop[x] \/ down[x].at # "idle"
    BY <1>8, DestroyLoops
  <2>3. admin'.start = admin.start
    <3>1. \/ admin' = admin
          \/ admin' = [admin EXCEPT !.stop = "idle", !.cur = 0]
      BY <1>8 DEF DestroyStep, DestroyReads, DestroyContainers, DestroyRows, EndDestroy
    <3> QED
      BY <1>0, <3>1 DEF AdminState
  <2> QED
    BY <1>0, <2>1, <2>2, <2>3 DEF At
<1>9. ASSUME NEW p \in Players, Reset(p) \/ Recover(p) PROVE Asleep'
  BY <1>9 DEF Reset, Recover
<1>10. CASE Crash
  BY <1>10 DEF Crash, NoLocals, NoAdmin, At
<1>11. CASE Boot
  BY <1>11 DEF Boot
<1> QED
  BY <1>1, <1>2, <1>3, <1>4, <1>6, <1>7, <1>8, <1>9, <1>10, <1>11 DEF Next, AdminStep

\* A round that is there stays there.
RoundsStay == \A m \in Rounds : round[m] # "None" => round'[m] # "None"

LEMMA RoundsStayStep == ASSUME TInv, [Next]_vars PROVE RoundsStay
<1> USE DEF RoundsStay, db
<1>0. round \in [Rounds -> {"None", "Attack", "Patch", "Finished"}]
  BY DEF TInv, TypeOK
<1>1. CASE UNCHANGED round
  BY <1>1
<1>2. CASE StopFinishesRound
  BY <1>0, <1>2 DEF StopFinishesRound
<1>3. ASSUME NEW l \in Loops, LoopStep(l) PROVE RoundsStay
  BY <1>0, <1>3
  DEF LoopStep, LoopEnters, BeginRound, InsertRound, CheckInstance, AddInstance,
      GenerateFlags, Inject, ToPatch, FinishRound, LoopEnds
<1>4. ASSUME NEW a \in Loops \cup Players, InstanceStep(a) PROVE UNCHANGED round
  BY <1>4 DEF InstanceStep, DestroyOld, CreateNew, SaveNew, RecordRecovery
<1>5. ASSUME NEW d \in Loops \cup {Admin}, DestroyStep(d) PROVE UNCHANGED round
  BY <1>5 DEF DestroyStep, DestroyReads, DestroyContainers, DestroyRows
<1>6. ASSUME NEW p \in Players, Reset(p) \/ Recover(p) \/ Leave(p) PROVE UNCHANGED round
  BY <1>6 DEF Reset, Recover, Leave
<1>7. CASE \/ StartGame \/ StopGame \/ StartLoop \/ StopReadsRound \/ AdminLeaves \/ Crash
           \/ Boot \/ UNCHANGED vars
  BY <1>1, <1>7
  DEF StartGame, StopGame, StartLoop, StopReadsRound, AdminLeaves, Crash, Boot, vars
<1> QED
  BY <1>1, <1>2, <1>3, <1>4, <1>5, <1>6, <1>7 DEF Next, AdminStep

LEMMA StopSeesStep == ASSUME TInv, OInv, [Next]_vars PROVE StopSees'
<1> USE AwdpAssumption
<1>0. admin \in AdminState /\ RoundsStay /\ StopSees
  BY RoundsStayStep DEF TInv, TypeOK, OInv
<1>1. ASSUME \/ admin'.stop = admin.stop /\ admin'.cur = admin.cur
             \/ admin'.stop # "finish"
      PROVE  StopSees'
  BY <1>0, <1>1 DEF StopSees, RoundsStay
<1>2. CASE UNCHANGED admin
  BY <1>1, <1>2
<1>3. CASE StartGame \/ StartLoop \/ StopGame \/ StopFinishesRound \/ AdminLeaves \/ Crash
  <2>1. \/ admin'.stop = admin.stop /\ admin'.cur = admin.cur
        \/ admin'.stop # "finish"
    <3>1. CASE StartGame \/ StartLoop
      BY <1>0, <3>1 DEF StartGame, StartLoop, AdminState
    <3>2. CASE StopGame \/ StopFinishesRound
      BY <1>0, <3>2 DEF StopGame, StopFinishesRound, AdminState
    <3>3. CASE AdminLeaves
      BY <1>0, <3>3 DEF AdminLeaves, AdminState
    <3>4. CASE Crash
      BY <3>4 DEF Crash, NoAdmin
    <3> QED
      BY <1>3, <3>1, <3>2, <3>3, <3>4
  <2> QED
    BY <1>1, <2>1
<1>4. CASE StopReadsRound
  <2>1. CASE OpenRounds = {}
    BY <1>0, <1>1, <1>4, <2>1 DEF StopReadsRound, AdminState
  <2>2. CASE OpenRounds # {}
    <3>1. admin'.cur = Max({0} \cup OpenRounds) /\ UNCHANGED round
      BY <1>0, <1>4 DEF StopReadsRound, AdminState, db
    <3>2. Max({0} \cup OpenRounds) \in OpenRounds
      BY <2>2, RoundNumbers DEF TInv
    <3> QED
      BY <3>1, <3>2 DEF StopSees, OpenRounds, Open
  <2> QED
    BY <2>1, <2>2
<1>5. ASSUME NEW l \in Loops, LoopStep(l) PROVE UNCHANGED admin
  BY <1>5
  DEF LoopStep, LoopEnters, BeginRound, InsertRound, CheckInstance, AddInstance,
      GenerateFlags, Inject, ToPatch, FinishRound, LoopEnds
<1>6. ASSUME NEW a \in Loops \cup Players, InstanceStep(a) PROVE UNCHANGED admin
  BY <1>6 DEF InstanceStep, DestroyOld, CreateNew, SaveNew, RecordRecovery
<1>7. ASSUME NEW d \in Loops \cup {Admin}, DestroyStep(d) PROVE StopSees'
  <2>1. \/ admin' = admin
        \/ admin' = [admin EXCEPT !.stop = "idle", !.cur = 0]
    BY <1>7 DEF DestroyStep, DestroyReads, DestroyContainers, DestroyRows, EndDestroy
  <2> QED
    BY <1>0, <1>1, <2>1 DEF AdminState
<1>8. ASSUME NEW p \in Players, Reset(p) \/ Recover(p) \/ Leave(p) PROVE UNCHANGED admin
  BY <1>8 DEF Reset, Recover, Leave
<1>9. CASE Boot \/ UNCHANGED vars
  BY <1>2, <1>9 DEF Boot, vars
<1> QED
  BY <1>2, <1>3, <1>4, <1>5, <1>6, <1>7, <1>8, <1>9 DEF Next, AdminStep

LEMMA OrderStep ==
  ASSUME TInv, OInv, [Next]_vars
  PROVE  LiveIsRegistered' /\ OneLoop' /\ Played' /\ RoundsInOrder'
<1> USE AwdpAssumption
<1>0. /\ loop \in [Loops -> LoopState] /\ registered \in Loops \cup {NoLoop}
      /\ round \in [Rounds -> {"None", "Attack", "Patch", "Finished"}]
      /\ \A x \in Loops : loop[x] \in LoopState /\ loop[x].cur \in Nat
      /\ Rounds = 1..TotalRounds /\ TotalRounds \in Nat
  BY DEF TInv, TypeOK, LoopState, Rounds
<1>1. CASE Quiet
  BY <1>1, QuietStep
<1>2. CASE UNCHANGED vars \/ StartGame \/ StopReadsRound \/ AdminLeaves
  BY <1>1, <1>2 DEF vars, StartGame, StopReadsRound, AdminLeaves, Quiet, db, history
<1>3. CASE StopGame
  <2>1. UNCHANGED <<round, registry>>
    BY <1>3 DEF StopGame, db
  <2>2. \A x \in Loops : IF x = registered THEN loop'[x].pc \in {"exit", "cancelled"}
                        ELSE loop'[x] = loop[x]
    BY <1>0, <1>3 DEF StopGame, NoLocals
  <2> QED
    BY <2>1, <2>2
    DEF OInv, LiveIsRegistered, OneLoop, Live, Played, InRound, RoundsInOrder, At
<1>4. ASSUME NEW l \in Loops, Spawn(l), registered = NoLoop, UNCHANGED round
      PROVE  LiveIsRegistered' /\ OneLoop' /\ Played' /\ RoundsInOrder'
  <2>1. \A x \in Loops : IF x = l THEN loop'[x].pc = "spawned" ELSE loop'[x] = loop[x]
    BY <1>0, <1>4 DEF Spawn, LoopState
  <2>2. registered' = l /\ (registry = "doubled" => registry' = "doubled")
    BY <1>4 DEF Spawn
  <2>3. CASE registry' = "doubled"
    BY <2>3 DEF LiveIsRegistered, OneLoop, Played, RoundsInOrder
  <2>4. CASE registry' # "doubled"
    <3>1. \A x \in Loops : ~Live(x)
      BY <1>0, <1>4, <2>2, <2>4 DEF Spawn, OInv, LiveIsRegistered, TInv, TypeOK
    <3>2. registry' = registry
      BY <1>4, <2>4 DEF Spawn
    <3>3. LiveIsRegistered' /\ OneLoop'
      BY <2>1, <2>2, <3>1 DEF LiveIsRegistered, OneLoop, Live
    <3>4. Played' /\ RoundsInOrder'
      BY <1>4, <2>1, <3>2 DEF OInv, Played, InRound, RoundsInOrder, At
    <3> QED
      BY <3>3, <3>4
  <2> QED
    BY <2>3, <2>4
<1>5. CASE StartLoop
  <2>1. CASE registered = NoLoop
    BY <1>4, <1>5, <2>1 DEF StartLoop, db, history
  <2>2. CASE registered # NoLoop
    BY <1>1, <1>5, <2>2 DEF StartLoop, db, history, Quiet
  <2> QED
    BY <2>1, <2>2
<1>6. CASE Boot
  <2>1. registered = NoLoop /\ UNCHANGED round
    BY <1>6 DEF Boot, OInv, Asleep, db
  <2>2. CASE OpenRounds # {}
    BY <1>4, <1>6, <2>1, <2>2 DEF Boot
  <2>3. CASE OpenRounds = {}
    BY <1>1, <1>6, <2>1, <2>3 DEF Boot, Quiet
  <2> QED
    BY <2>2, <2>3
<1>7. CASE StopFinishesRound
  <2>1. /\ UNCHANGED <<loop, registered, registry>>
        /\ round' = [round EXCEPT ![admin.cur] = "Finished"]
        /\ admin.cur \in Rounds /\ round[admin.cur] # "None"
    BY <1>7 DEF StopFinishesRound, OInv, StopSees, history
  <2>2. \A m \in Rounds :
            /\ round'[m] = "None" <=> round[m] = "None"
            /\ round[m] = "Finished" => round'[m] = "Finished"
    BY <1>0, <2>1
  <2>3. \A n \in Rounds : \A m \in 1..(n - 1) : m \in Rounds
    BY <1>0
  <2>4. \A x \in Loops : loop[x].pc \in InRound \cup {"insert"} =>
           \A m \in 1..(loop[x].cur - 1) : m \in Rounds
    BY <1>0 DEF LoopState
  <2>5. LiveIsRegistered' /\ OneLoop' /\ RoundsInOrder'
    BY <2>1, <2>2, <2>3 DEF OInv, LiveIsRegistered, OneLoop, Live, RoundsInOrder
  <2>6. Played'
    BY <2>1, <2>2, <2>4 DEF OInv, Played, At
  <2> QED
    BY <2>5, <2>6
<1>8. ASSUME NEW a \in Loops \cup Players, InstanceStep(a) \/ (a \in Players /\ Leave(a))
      PROVE  Quiet
  <2>1. UNCHANGED <<registered, round, registry>>
    BY <1>8
    DEF InstanceStep, DestroyOld, CreateNew, SaveNew, RecordRecovery, Leave, db, history
  <2>2. \A x \in Loops : loop'[x] = loop[x] \/ loop'[x].pc = "exit"
    BY <1>0, <1>8, InstanceLoops DEF LoopState
  <2> QED
    BY <2>1, <2>2 DEF Quiet
<1>9. ASSUME NEW d \in Loops \cup {Admin}, DestroyStep(d) PROVE Quiet
  <2>1. UNCHANGED <<registered, round, registry>>
    BY <1>9 DEF DestroyStep, DestroyReads, DestroyContainers, DestroyRows, db, history
  <2>2. \A x \in Loops : loop'[x] = loop[x] \/ loop'[x].pc = "exit"
    BY <1>0, <1>9, DestroyLoops DEF LoopState
  <2> QED
    BY <2>1, <2>2 DEF Quiet
<1>10. ASSUME NEW p \in Players, Reset(p) \/ Recover(p) PROVE Quiet
  BY <1>10 DEF Reset, Recover, db, history, Quiet
<1>11. CASE Crash
  <2>1. /\ UNCHANGED round /\ \A x \in Loops : loop'[x].pc = "idle"
        /\ registry = "doubled" => registry' = "doubled"
    BY <1>11 DEF Crash, NoLocals, db
  <2> QED
    BY <2>1 DEF OInv, LiveIsRegistered, OneLoop, Live, Played, InRound, RoundsInOrder, At
<1>12. ASSUME NEW l \in Loops, LoopStep(l)
       PROVE  LiveIsRegistered' /\ OneLoop' /\ Played' /\ RoundsInOrder'
  <2>1. CASE registry' = "doubled"
    BY <2>1 DEF LiveIsRegistered, OneLoop, Played, RoundsInOrder
  <2>2. CASE registry' # "doubled"
    <3>0. registry # "doubled" /\ loop'[l] \in LoopState
      <4>1. loop'[l] \in LoopState
        BY TypeStep DEF TypeOK
      <4>2. registry = "doubled" => registry' = "doubled"
        BY <1>12
        DEF LoopStep, LoopEnters, BeginRound, InsertRound, CheckInstance, AddInstance,
            GenerateFlags, Inject, ToPatch, FinishRound, LoopEnds, history
      <4> QED
        BY <2>2, <4>1, <4>2
    <3>1. \A x \in Loops \ {l} :
             \/ loop'[x] = loop[x]
             \/ LoopEnds(l) /\ loop[x].pc = "spawned" /\ loop'[x].pc = "disposed"
      BY <1>0, <1>12, OtherLoops DEF LoopState
    <3>2. CASE LoopEnds(l)
      <4>1. /\ UNCHANGED round /\ loop'[l].pc = "idle"
            /\ registry' = "kept" => registry = "kept" /\ registered \in {l, NoLoop}
        BY <1>0, <3>2 DEF LoopEnds, NoLocals, db
      <4>2. \A x \in Loops : Live(x)' => Live(x) /\ x # l
        BY <3>1, <4>1 DEF Live
      <4>3. LiveIsRegistered'
        BY <4>1, <4>2 DEF OInv, LiveIsRegistered
      <4>4. OneLoop'
        BY <3>0, <4>2 DEF OInv, OneLoop
      <4>5. \A x \in Loops : loop'[x] = loop[x] \/ loop'[x].pc \in {"idle", "disposed"}
        BY <3>1, <4>1
      <4>6. Played' /\ RoundsInOrder'
        BY <3>0, <4>1, <4>5 DEF OInv, Played, InRound, RoundsInOrder, At
      <4> QED
        BY <4>3, <4>4, <4>6
    <3>3. CASE LoopEnters(l) /\ loop[l].pc = "cancelled"
      <4>1. UNCHANGED <<round, registered, registry>> /\ loop'[l].pc \in {"exit", "idle"}
        BY <1>0, <3>3 DEF LoopEnters, db, history, LoopState
      <4>2. ~LoopEnds(l)
        BY <3>3 DEF LoopEnds, At
      <4> QED
        BY <1>1, <3>1, <4>1, <4>2 DEF Quiet
    <3>4. ASSUME Live(l), UNCHANGED <<registered, registry>>
          PROVE  /\ LiveIsRegistered' /\ OneLoop'
                 /\ \A x \in Loops \ {l} : ~Live(x) /\ ~Live(x)'
      <4>1. \A x \in Loops \ {l} : ~Live(x)
        BY <3>0, <3>4 DEF OInv, OneLoop
      <4>2. ~LoopEnds(l)
        BY <3>4 DEF LoopEnds, At, Live
      <4>3. \A x \in Loops \ {l} : ~Live(x)'
        BY <3>1, <4>1, <4>2 DEF Live
      <4>4. LiveIsRegistered' /\ OneLoop'
        BY <3>4, <4>3 DEF OInv, LiveIsRegistered, OneLoop
      <4> QED
        BY <4>1, <4>3, <4>4
    <3>5. CASE LoopEnters(l) /\ loop[l].pc # "cancelled"
      <4>1. /\ UNCHANGED <<round, registered, registry>>
            /\ loop'[l].pc \in {"begin", "idle"} /\ Live(l)
        BY <1>0, <3>5 DEF LoopEnters, db, history, LoopState, Live
      <4> QED
        BY <3>4, <4>1 DEF OInv, Played, Live, InRound, RoundsInOrder, At
    <3>6. CASE BeginRound(l)
      <4>1. UNCHANGED <<round, registered, registry>> /\ Live(l)
        BY <3>6 DEF BeginRound, db, history, Live, At
      <4>2. CASE loop'[l].pc = "exit"
        BY <3>4, <4>1, <4>2 DEF OInv, Played, Live, InRound, RoundsInOrder, At
      <4>3. CASE OpenRounds # {} /\ loop'[l].pc # "exit"
        <5>1. loop'[l].pc = "instances" /\ loop'[l].cur = Max(OpenRounds)
          BY <1>0, <3>6, <4>3 DEF BeginRound, NoLocals
        <5> DEFINE n == Max(OpenRounds)
        <5>2. /\ n \in Rounds /\ round[n] \in {"Attack", "Patch"}
              /\ \A m \in OpenRounds : n >= m
          <6>1. OpenRounds \in SUBSET (0..TotalRounds)
            BY <1>0 DEF OpenRounds
          <6> QED
            BY <1>0, <4>3, <6>1, MaxExists DEF OpenRounds, Open
        <5> HIDE DEF n
        <5>3. \A m \in 1..(n - 1) : round[m] = "Finished"
          BY <3>0, <5>2 DEF OInv, RoundsInOrder
        <5>4. \A m \in Rounds : m > n => round[m] = "None"
          <6> SUFFICES ASSUME NEW m \in Rounds, m > n, round[m] # "None" PROVE FALSE
            OBVIOUS
          <6>1. n \in 1..(m - 1)
            BY <1>0, <5>2
          <6> QED
            BY <3>0, <5>2, <6>1 DEF OInv, RoundsInOrder
        <5>5. loop'[l].cur = n
          BY <5>1 DEF n
        <5>6. Played'
          BY <3>4, <4>1, <5>1, <5>3, <5>4, <5>5 DEF Played, Live, InRound, At
        <5>7. LiveIsRegistered' /\ OneLoop'
          BY <3>4, <4>1
        <5>8. RoundsInOrder'
          BY <4>1 DEF OInv, RoundsInOrder
        <5> QED
          BY <5>6, <5>7, <5>8
      <4>4. CASE OpenRounds = {} /\ loop'[l].pc # "exit"
        <5>1. loop'[l].pc = "insert" /\ loop'[l].cur = LastRound + 1
          BY <1>0, <3>6, <4>4 DEF BeginRound, NoLocals
        <5>2. /\ LastRound \in {0} \cup {n \in Rounds : round[n] # "None"}
              /\ \A m \in Rounds : round[m] # "None" => LastRound >= m
          <6>1. {0} \cup {n \in Rounds : round[n] # "None"} \in SUBSET (0..TotalRounds)
            BY <1>0
          <6> QED
            BY <1>0, <6>1, MaxExists DEF LastRound
        <5> HIDE DEF LastRound
        <5>3. \A m \in 1..LastRound : round[m] = "Finished"
          <6> SUFFICES ASSUME NEW m \in 1..LastRound PROVE round[m] = "Finished"
            OBVIOUS
          <6>1. LastRound \in Rounds /\ round[LastRound] # "None" /\ m \in Rounds
            BY <1>0, <5>2
          <6>2. CASE m = LastRound
            BY <1>0, <4>4, <6>1, <6>2 DEF OpenRounds, Open
          <6>3. CASE m # LastRound
            <7>1. m \in 1..(LastRound - 1)
              BY <1>0, <6>1, <6>3
            <7> QED
              BY <3>0, <6>1, <7>1 DEF OInv, RoundsInOrder
          <6> QED
            BY <6>2, <6>3
        <5>4. \A m \in Rounds : m >= LastRound + 1 => round[m] = "None"
          BY <1>0, <5>2
        <5>5. 1..(loop'[l].cur - 1) = 1..LastRound
          BY <1>0, <5>1, <5>2
        <5>6. Played'
          BY <3>4, <4>1, <5>1, <5>3, <5>4, <5>5 DEF Played, Live, InRound, At
        <5>7. LiveIsRegistered' /\ OneLoop'
          BY <3>4, <4>1
        <5>8. RoundsInOrder'
          BY <4>1 DEF OInv, RoundsInOrder
        <5> QED
          BY <5>6, <5>7, <5>8
      <4> QED
        BY <4>2, <4>3, <4>4
    <3>7. CASE InsertRound(l)
      <4>1. /\ UNCHANGED <<registered, registry>> /\ Live(l) /\ loop[l].pc = "insert"
            /\ loop[l].cur \in Rounds
        BY <3>7 DEF InsertRound, history, Live, At, TInv, LoopPlans
      <4>2. /\ \A m \in 1..(loop[l].cur - 1) : round[m] = "Finished"
            /\ \A m \in Rounds : m >= loop[l].cur => round[m] = "None"
        BY <3>0, <4>1 DEF OInv, Played, At
      <4>3. /\ round' = [round EXCEPT ![loop[l].cur] = "Attack"]
            /\ loop'[l].pc = "instances" /\ loop'[l].cur = loop[l].cur
        BY <1>0, <3>7, <4>1, <4>2 DEF InsertRound, LoopState
      <4>4. \A m \in 1..(loop[l].cur - 1) : m \in Rounds /\ m # loop[l].cur
        BY <1>0, <4>1
      <4>5. \A m \in 1..(loop[l].cur - 1) : round'[m] = "Finished"
        BY <1>0, <4>2, <4>3, <4>4
      <4>6. \A m \in Rounds : m > loop[l].cur => round'[m] = "None"
        BY <1>0, <4>1, <4>2, <4>3
      <4>7. Played'
        BY <3>4, <4>1, <4>3, <4>5, <4>6 DEF Played, Live, InRound, At
      <4>8. RoundsInOrder'
        <5> SUFFICES ASSUME NEW n \in Rounds, round'[n] # "None", NEW m \in 1..(n - 1)
                     PROVE  round'[m] = "Finished"
          BY DEF RoundsInOrder
        <5>1. n <= loop[l].cur
          BY <1>0, <4>1, <4>6
        <5>2. m \in 1..(loop[l].cur - 1)
          BY <1>0, <4>1, <5>1
        <5> QED
          BY <4>5, <5>2
      <4> QED
        BY <3>4, <4>1, <4>7, <4>8
    <3>8. CASE CheckInstance(l) \/ AddInstance(l) \/ GenerateFlags(l) \/ Inject(l)
      <4>1. UNCHANGED <<round, registered, registry>> /\ Live(l) /\ loop[l].pc \in InRound
        BY <3>8
        DEF CheckInstance, AddInstance, GenerateFlags, Inject, db, history, Live, At, InRound
      <4>2. loop'[l].cur = loop[l].cur /\ loop'[l].pc # "insert"
        <5>1. CASE AddInstance(l) \/ GenerateFlags(l)
          BY <1>0, <5>1 DEF AddInstance, GenerateFlags, LoopState
        <5>2. CASE Inject(l)
          BY <1>0, <5>2 DEF Inject, LoopState, At
        <5>3. CASE CheckInstance(l) /\ loop[l].todo = {}
          <6>1. loop' = [loop EXCEPT ![l].todo = Teams,
                                     ![l].pc = IF loop[l].new THEN "flags" ELSE loop[l].stat]
            BY <5>3 DEF CheckInstance
          <6>2. loop[l].stat \in {"None", "Attack", "Patch"}
            BY <1>0 DEF LoopState
          <6> QED
            BY <1>0, <6>1, <6>2 DEF LoopState
        <5>4. CASE CheckInstance(l) /\ loop[l].todo # {}
          <6>1. PICK t \in loop[l].todo :
                  loop' = [loop EXCEPT ![l].pc = IF t \in rows THEN @ ELSE "add",
                                       ![l].todo = @ \ {t}]
            BY <5>4 DEF CheckInstance
          <6>2. loop[l].pc = "instances"
            BY <5>4 DEF CheckInstance, At
          <6> QED
            BY <1>0, <6>1, <6>2 DEF LoopState
        <5> QED
          BY <3>8, <5>1, <5>2, <5>3, <5>4
      <4> QED
        BY <3>0, <3>4, <4>1, <4>2 DEF OInv, Played, Live, InRound, RoundsInOrder, At
    <3>9. CASE ToPatch(l) \/ FinishRound(l)
      <4>1. /\ UNCHANGED <<registered, registry>> /\ Live(l) /\ loop[l].pc \in InRound
            /\ loop[l].cur \in Rounds
        BY <3>9 DEF ToPatch, FinishRound, history, Live, At, InRound, TInv, LoopPlans
      <4>2. /\ \A m \in 1..(loop[l].cur - 1) : round[m] = "Finished"
            /\ \A m \in Rounds : m > loop[l].cur => round[m] = "None"
        BY <3>0, <4>1 DEF OInv, Played
      <4>3. \E q \in {"Patch", "Finished"} : round' = [round EXCEPT ![loop[l].cur] = q]
        BY <3>9 DEF ToPatch, FinishRound
      <4>4. \A m \in 1..(loop[l].cur - 1) : m \in Rounds /\ m # loop[l].cur
        BY <1>0, <4>1
      <4>5. \A m \in 1..(loop[l].cur - 1) : round'[m] = "Finished"
        BY <1>0, <4>2, <4>3, <4>4
      <4>6. \A m \in Rounds : m > loop[l].cur => round'[m] = "None"
        BY <1>0, <4>1, <4>2, <4>3
      <4>7. \/ loop'[l].pc = "Patch" /\ loop'[l].cur = loop[l].cur
            \/ loop'[l].pc \in {"begin", "destroying"}
        BY <1>0, <3>9 DEF ToPatch, FinishRound, NoLocals, LoopState
      <4>8. Played'
        BY <3>4, <4>1, <4>5, <4>6, <4>7 DEF Played, Live, InRound, At
      <4>9. RoundsInOrder'
        <5> SUFFICES ASSUME NEW n \in Rounds, round'[n] # "None", NEW m \in 1..(n - 1)
                     PROVE  round'[m] = "Finished"
          BY DEF RoundsInOrder
        <5>1. n <= loop[l].cur
          BY <1>0, <4>1, <4>6
        <5>2. m \in 1..(loop[l].cur - 1)
          BY <1>0, <4>1, <5>1
        <5> QED
          BY <4>5, <5>2
      <4> QED
        BY <3>4, <4>1, <4>8, <4>9
    <3> QED
      BY <1>12, <3>2, <3>3, <3>5, <3>6, <3>7, <3>8, <3>9 DEF LoopStep
  <2> QED
    BY <2>1, <2>2
<1> QED
  BY <1>1, <1>2, <1>3, <1>5, <1>6, <1>7, <1>8, <1>9, <1>10, <1>11, <1>12 DEF Next, AdminStep

LEMMA OrderInvariant == Spec => []OInv
<1>1. TInv /\ OInv /\ [Next]_vars => OInv'
  BY AsleepStep, OrderStep, StopSeesStep DEF OInv
<1> QED
  BY <1>1, TypeInvariant, InitOInv, PTL DEF Spec

\* For any number of starts, stops and crashes a round is only opened when every
\* round before it is finished, until a start adds a second loop to one whose entry
\* another loop has removed (RunNextRoundStep, RunGameLoop's finally block).
THEOREM RoundsNeverOverlap == Spec => []RoundsInOrder
<1>1. OInv => RoundsInOrder
  BY DEF OInv
<1> QED
  BY <1>1, OrderInvariant, PTL

-----------------------------------------------------------------------------
(* No flag of an earlier round                                             *)

Old(l) == 1..(loop[l].cur - 1)

\* Team t has no old flag and will get none, unless l is about to remove it.
Clean(l, t) ==
    /\ box[t] \notin Old(l) \/ (op[l].at = "destroy" /\ op[l].team = t)
    /\ \A a \in Loops \cup Players : Holds(a) /\ op[a].team = t => op[a].flag \notin Old(l)

\* While l gives out the flags of its round the teams it has been to are clean.
Fresh ==
    registry # "doubled" => \A l \in Loops :
        /\ At(l, "flags") => loop[l].todo = Teams
        /\ loop[l].pc \in {"inject", "Attack", "Patch"} /\ loop[l].new =>
              \A t \in Teams : (At(l, "inject") /\ t \in loop[l].todo) \/ Clean(l, t)

LEMMA InitFresh == Init => Fresh
BY DEF Init, Fresh, NoLocals, At

LEMMA BoxStep ==
  ASSUME TInv, [Next]_vars, NEW t \in Teams
  PROVE  \/ box'[t] \in {box[t], NoBox, 0}
         \/ \E a \in Loops \cup Players :
               Holds(a) /\ op[a].team = t /\ box'[t] = op[a].flag
<1> USE AwdpAssumption DEF db
<1>0. box \in [Teams -> {NoBox} \cup 0..TotalRounds]
  BY DEF TInv, TypeOK
<1>1. CASE UNCHANGED box
  BY <1>1
<1>2. ASSUME NEW l \in Loops, LoopStep(l) PROVE UNCHANGED box \/ box'[t] \in {box[t], 0}
  <2>1. CASE AddInstance(l)
    BY <1>0, <2>1 DEF AddInstance
  <2>2. CASE ~AddInstance(l)
    BY <1>2, <2>2
    DEF LoopStep, LoopEnters, BeginRound, InsertRound, CheckInstance, GenerateFlags, Inject,
        ToPatch, FinishRound, LoopEnds
  <2> QED
    BY <2>1, <2>2
<1>3. ASSUME NEW a \in Loops \cup Players, InstanceStep(a)
      PROVE  \/ box'[t] \in {box[t], NoBox}
             \/ Holds(a) /\ op[a].team = t /\ box'[t] = op[a].flag
  <2>1. CASE DestroyOld(a)
    BY <1>0, <2>1 DEF DestroyOld
  <2>2. CASE SaveNew(a)
    <3>1. CASE a \in orphans
      BY <2>2, <3>1 DEF SaveNew
    <3>2. CASE a \notin orphans
      <4>1. box' = [box EXCEPT ![op[a].team] = op[a].flag] /\ Holds(a)
        BY <2>2, <3>2 DEF SaveNew, Holds, Held
      <4> QED
        BY <1>0, <4>1
    <3> QED
      BY <3>1, <3>2
  <2>3. CASE CreateNew(a) \/ RecordRecovery(a)
    BY <2>3 DEF CreateNew, RecordRecovery
  <2> QED
    BY <1>3, <2>1, <2>2, <2>3 DEF InstanceStep
<1>4. ASSUME NEW d \in Loops \cup {Admin}, DestroyStep(d) PROVE box'[t] \in {box[t], NoBox}
  BY <1>0, <1>4 DEF DestroyStep, DestroyReads, DestroyContainers, DestroyRows
<1>5. ASSUME NEW p \in Players, Reset(p) \/ Recover(p) \/ Leave(p) PROVE UNCHANGED box
  BY <1>5 DEF Reset, Recover, Leave
<1>6. CASE \/ StartGame \/ StopGame \/ StartLoop \/ StopReadsRound \/ StopFinishesRound
           \/ AdminLeaves \/ Crash \/ Boot \/ UNCHANGED vars
  BY <1>1, <1>6
  DEF StartGame, StopGame, StartLoop, StopReadsRound, StopFinishesRound, AdminLeaves, Crash,
      Boot, vars
<1> QED
  BY <1>1, <1>2, <1>3, <1>4, <1>5, <1>6 DEF Next, AdminStep

\* How a loop that is in its round goes on.
LEMMA GoesOnInRound ==
  ASSUME TInv, [Next]_vars, NEW l \in Loops, registry' # "doubled",
         loop'[l].pc \in {"flags", "inject", "Attack", "Patch"}
  PROVE  loop'[l] = loop[l] \/ LoopStep(l)
<1> USE AwdpAssumption
<1>0. loop \in [Loops -> LoopState] /\ loop[l] \in LoopState
  BY DEF TInv, TypeOK
<1>1. CASE UNCHANGED loop
  BY <1>1
<1>2. ASSUME NEW x \in Loops \ {l}, LoopStep(x) PROVE loop'[l] = loop[l]
  BY <1>0, <1>2, OtherLoops DEF LoopState
<1>3. ASSUME NEW a \in Loops \cup Players, InstanceStep(a) \/ (a \in Players /\ Leave(a))
      PROVE  loop'[l] = loop[l]
  <2>1. loop'[l] = loop[l] \/ loop'[l] = [loop[l] EXCEPT !.pc = "exit"]
    BY <1>3, InstanceLoops
  <2> QED
    BY <1>0, <2>1 DEF LoopState
<1>4. ASSUME NEW d \in Loops \cup {Admin}, DestroyStep(d) PROVE loop'[l] = loop[l]
  <2>1. loop'[l] = loop[l] \/ loop'[l] = [loop[l] EXCEPT !.pc = "exit"]
    BY <1>4, DestroyLoops
  <2> QED
    BY <1>0, <2>1 DEF LoopState
<1>5. CASE StopGame
  BY <1>0, <1>5 DEF StopGame, NoLocals
<1>6. ASSUME NEW x \in Loops, Spawn(x) PROVE loop'[l] = loop[l]
  BY <1>0, <1>6 DEF Spawn, LoopState
<1>7. CASE StartLoop \/ Boot
  BY <1>6, <1>7 DEF StartLoop, Boot
<1>8. CASE Crash
  BY <1>8 DEF Crash, NoLocals
<1>9. CASE \/ StartGame \/ StopReadsRound \/ StopFinishesRound \/ AdminLeaves
           \/ (\E p \in Players : Reset(p) \/ Recover(p)) \/ UNCHANGED vars
  BY <1>1, <1>9
  DEF StartGame, StopReadsRound, StopFinishesRound, AdminLeaves, Reset, Recover, vars
<1> QED
  BY <1>1, <1>2, <1>3, <1>4, <1>5, <1>7, <1>8, <1>9 DEF Next, AdminStep

\* A loop that is to remove a container does, or ends.
LEMMA OwnDestroy ==
  ASSUME TInv, [Next]_vars, NEW l \in Loops, op[l].at = "destroy", loop'[l] = loop[l]
  PROVE  op'[l] = op[l] \/ box'[op[l].team] = NoBox
<1> USE AwdpAssumption
<1>0. /\ op \in [Loops \cup Players -> OpState] /\ op[l] \in OpState
      /\ loop \in [Loops -> LoopState] /\ loop[l] \in LoopState
      /\ loop[l].pc = "inject" /\ op[l].team \in Teams
      /\ box \in [Teams -> {NoBox} \cup 0..TotalRounds]
  BY DEF TInv, TypeOK, LoopWhere, At, OpState
<1>1. CASE UNCHANGED op
  BY <1>1
<1>2. ASSUME NEW x \in Loops, LoopStep(x) PROVE op'[l] = op[l]
  <2>1. CASE x # l
    BY <1>2, <2>1, OtherLoops
  <2>2. CASE x = l
    <3>1. CASE Inject(l)
      BY <1>0, <3>1 DEF Inject
    <3>2. CASE ~Inject(l)
      BY <1>0, <1>2, <2>2, <3>2
      DEF LoopStep, LoopEnters, BeginRound, InsertRound, CheckInstance, AddInstance,
          GenerateFlags, ToPatch, FinishRound, LoopEnds, At
    <3> QED
      BY <3>1, <3>2
  <2> QED
    BY <2>1, <2>2
<1>3. ASSUME NEW a \in Loops \cup Players, InstanceStep(a) \/ (a \in Players /\ Leave(a))
      PROVE  op'[l] = op[l] \/ box'[op[l].team] = NoBox
  <2>1. CASE a # l
    BY <1>0, <1>3, <2>1, EndsTyped
    DEF TInv, InstanceStep, DestroyOld, CreateNew, SaveNew, RecordRecovery, Leave
  <2>2. CASE a = l
    <3>1. DestroyOld(l)
      BY <1>0, <1>3, <2>2 DEF InstanceStep, CreateNew, SaveNew, RecordRecovery
    <3>2. ~Abort(l)
      BY <1>0 DEF Abort, LoopState
    <3> QED
      BY <1>0, <3>1, <3>2 DEF DestroyOld
  <2> QED
    BY <2>1, <2>2
<1>4. ASSUME NEW d \in Loops \cup {Admin}, DestroyStep(d) PROVE UNCHANGED op
  BY <1>4 DEF DestroyStep, DestroyReads, DestroyContainers, DestroyRows
<1>5. CASE StopGame
  BY <1>0, <1>5 DEF StopGame, NoLocals
<1>6. ASSUME NEW p \in Players, Reset(p) \/ Recover(p) PROVE op'[l] = op[l]
  BY <1>0, <1>6 DEF Reset, Recover, Acquire
<1>7. CASE Crash
  BY <1>0, <1>7 DEF Crash, NoLocals
<1>8. CASE \/ StartGame \/ StartLoop \/ Boot \/ StopReadsRound \/ StopFinishesRound
           \/ AdminLeaves \/ UNCHANGED vars
  BY <1>1, <1>8
  DEF StartGame, StartLoop, Boot, StopReadsRound, StopFinishesRound, AdminLeaves, calls, vars
<1> QED
  BY <1>1, <1>2, <1>3, <1>4, <1>5, <1>6, <1>7, <1>8 DEF Next, AdminStep

\* In its round the flag in force is the round's own, if there is one.
LEMMA FlagInForce ==
  ASSUME TInv, OInv, NEW l \in Loops, registry # "doubled", loop[l].pc \in InRound
  PROVE  CurrentFlag \notin Old(l)
<1> USE AwdpAssumption
<1>1. /\ loop[l].cur \in Nat /\ Rounds = 1..TotalRounds
      /\ \A m \in 1..(loop[l].cur - 1) : round[m] = "Finished"
      /\ \A m \in Rounds : m > loop[l].cur => round[m] = "None"
  BY DEF TInv, TypeOK, LoopState, OInv, Played, Rounds
<1>2. \A m \in OpenRounds : m \notin Old(l)
  BY <1>1 DEF OpenRounds, Open, Old
<1>3. OpenRounds # {} => Max({0} \cup OpenRounds) \in OpenRounds
  BY RoundNumbers DEF TInv
<1>4. OpenRounds = {} => Max({0} \cup OpenRounds) = 0
  <2>1. Max({0}) \in {0}
    BY MaxExists
  <2>2. ASSUME OpenRounds = {} PROVE {0} \cup OpenRounds = {0}
    BY <2>2
  <2> QED
    BY <2>1, <2>2
<1>5. 0 \notin Old(l)
  BY DEF Old
<1> QED
  BY <1>2, <1>3, <1>4, <1>5 DEF CurrentFlag

\* Who holds a clean team's semaphore brings no old flag.
LEMMA HoldersStayClean ==
  ASSUME TInv, OInv, [Next]_vars, NEW l \in Loops, registry # "doubled",
         loop[l].pc \in {"inject", "Attack", "Patch"}, NEW t \in Teams, Clean(l, t)
  PROVE  \A a \in Loops \cup Players : Holds(a)' /\ op'[a].team = t => op'[a].flag \notin Old(l)
<1> SUFFICES ASSUME NEW a \in Loops \cup Players, Holds(a)', op'[a].team = t
             PROVE  op'[a].flag \notin Old(l)
  OBVIOUS
<1>1. CASE KeepsHolders
  BY <1>1 DEF KeepsHolders, Clean
<1>2. ASSUME NEW b \in Loops \cup Players, Takes(b) PROVE op'[a].flag \notin Old(l)
  <2>1. PICK k \in {"round", "reset", "recover"}, u \in Teams, f \in 0..TotalRounds :
          /\ Acquire(b, k, u, f) /\ UNCHANGED orphans
          /\ IF b \in Loops THEN At(b, "inject") /\ f = loop[b].cur ELSE f = CurrentFlag
    BY <1>2 DEF Takes
  <2>2. /\ op'[b].flag = f
        /\ \A x \in (Loops \cup Players) \ {b} : op'[x] = op[x]
    BY <2>1, AcquireTyped DEF TInv
  <2>3. CASE a # b
    BY <2>1, <2>2, <2>3 DEF Clean, Holds
  <2>4. CASE a = b /\ b \in Loops
    <3>1. b = l
      BY <2>1, <2>4 DEF OInv, OneLoop, Live, At
    <3>2. loop[l].cur \notin Old(l)
      BY DEF Old, TInv, TypeOK, LoopState
    <3> QED
      BY <2>1, <2>2, <2>4, <3>1, <3>2
  <2>5. CASE a = b /\ b \notin Loops
    BY <2>1, <2>2, <2>5, FlagInForce DEF InRound
  <2> QED
    BY <2>3, <2>4, <2>5
<1> QED
  BY <1>1, <1>2, HoldersStep

LEMMA FreshStep == ASSUME TInv, OInv, Fresh, [Next]_vars PROVE Fresh'
<1> USE AwdpAssumption
<1>0. registry = "doubled" => registry' = "doubled"
  <2>1. ASSUME NEW l \in Loops, LoopStep(l) PROVE registry = "doubled" => registry' = "doubled"
    BY <2>1
    DEF LoopStep, LoopEnters, BeginRound, InsertRound, CheckInstance, AddInstance,
        GenerateFlags, Inject, ToPatch, FinishRound, LoopEnds, history
  <2>2. ASSUME NEW a \in Loops \cup Players, InstanceStep(a) PROVE UNCHANGED registry
    BY <2>2 DEF InstanceStep, DestroyOld, CreateNew, SaveNew, RecordRecovery, history
  <2>3. ASSUME NEW d \in Loops \cup {Admin}, DestroyStep(d) PROVE UNCHANGED registry
    BY <2>3 DEF DestroyStep, DestroyReads, DestroyContainers, DestroyRows, history
  <2>4. ASSUME NEW p \in Players, Reset(p) \/ Recover(p) \/ Leave(p) PROVE UNCHANGED registry
    BY <2>4 DEF Reset, Recover, Leave, history
  <2>5. CASE \/ StartGame \/ StopGame \/ StartLoop \/ StopReadsRound \/ StopFinishesRound
             \/ AdminLeaves \/ Crash \/ Boot \/ UNCHANGED vars
    BY <2>5
    DEF StartGame, StopGame, StartLoop, StopReadsRound, StopFinishesRound, AdminLeaves,
        Crash, Boot, Spawn, history, vars
  <2> QED
    BY <2>1, <2>2, <2>3, <2>4, <2>5 DEF Next, AdminStep
<1> SUFFICES ASSUME registry' # "doubled", NEW l \in Loops
             PROVE  /\ At(l, "flags")' => loop'[l].todo = Teams
                    /\ loop'[l].pc \in {"inject", "Attack", "Patch"} /\ loop'[l].new =>
                          \A t \in Teams : \/ At(l, "inject")' /\ t \in loop'[l].todo
                                           \/ Clean(l, t)'
  BY DEF Fresh
<1>1. /\ registry # "doubled" /\ loop \in [Loops -> LoopState] /\ loop[l] \in LoopState
      /\ loop'[l] \in LoopState
      /\ At(l, "flags") => loop[l].todo = Teams
      /\ loop[l].pc \in {"inject", "Attack", "Patch"} /\ loop[l].new =>
            \A t \in Teams : (At(l, "inject") /\ t \in loop[l].todo) \/ Clean(l, t)
  BY <1>0, TypeStep DEF TInv, TypeOK, Fresh
<1>2. ASSUME loop'[l].cur = loop[l].cur, NEW t \in Teams, Clean(l, t),
             loop[l].pc \in {"inject", "Attack", "Patch"},
             loop'[l] = loop[l] \/ UNCHANGED <<op, box>>
      PROVE  Clean(l, t)'
  <2>0. Old(l)' = Old(l)
    BY <1>2 DEF Old
  <2>1. \A a \in Loops \cup Players : Holds(a)' /\ op'[a].team = t => op'[a].flag \notin Old(l)
    BY <1>1, <1>2, HoldersStayClean
  <2>2. 0 \notin Old(l) /\ NoBox \notin Old(l)
    BY <1>1 DEF Old, LoopState
  <2>3. CASE box[t] \notin Old(l)
    <3>1. box'[t] \notin Old(l)
      BY <1>2, <2>2, <2>3, BoxStep DEF Clean
    <3> QED
      BY <2>0, <2>1, <3>1 DEF Clean
  <2>4. CASE op[l].at = "destroy" /\ op[l].team = t
    <3>1. op'[l] = op[l] \/ box'[t] = NoBox
      BY <1>2, <2>4, OwnDestroy
    <3> QED
      BY <2>0, <2>1, <2>2, <2>4, <3>1 DEF Clean
  <2> QED
    BY <1>2, <2>3, <2>4 DEF Clean
<1>3. CASE loop'[l] = loop[l]
  BY <1>1, <1>2, <1>3 DEF At
<1>4. CASE CheckInstance(l)
  <2>1. CASE loop[l].todo = {}
    <3>1. loop' = [loop EXCEPT ![l].todo = Teams,
                               ![l].pc = IF loop[l].new THEN "flags" ELSE loop[l].stat]
      BY <1>4, <2>1 DEF CheckInstance
    <3>2. loop'[l].todo = Teams /\ loop'[l].new = loop[l].new
      BY <1>1, <3>1 DEF LoopState
    <3>3. loop'[l].pc = IF loop[l].new THEN "flags" ELSE loop[l].stat
      BY <1>1, <3>1 DEF LoopState
    <3> QED
      BY <3>2, <3>3
  <2>2. CASE loop[l].todo # {}
    <3>1. PICK t \in loop[l].todo :
            loop' = [loop EXCEPT ![l].pc = IF t \in rows THEN @ ELSE "add", ![l].todo = @ \ {t}]
      BY <1>4, <2>2 DEF CheckInstance
    <3>2. loop'[l].pc \in {"instances", "add"}
      BY <1>1, <1>4, <3>1 DEF LoopState, CheckInstance, At
    <3> QED
      BY <3>2 DEF At
  <2> QED
    BY <2>1, <2>2
<1>5. CASE GenerateFlags(l)
  <2>1. loop'[l].todo = Teams /\ loop'[l].pc = "inject"
    BY <1>1, <1>5 DEF GenerateFlags, LoopState
  <2> QED
    BY <2>1 DEF At
<1>6. CASE Inject(l)
  <2>0. /\ loop[l].pc = "inject" /\ op[l].at = "idle" /\ loop'[l].cur = loop[l].cur
        /\ loop'[l].new = loop[l].new /\ UNCHANGED box /\ loop[l].todo \subseteq Teams
    BY <1>1, <1>6 DEF Inject, LoopState, At, db
  <2>1. CASE loop[l].todo = {}
    <3>1. loop'[l].pc = "Attack" /\ UNCHANGED op
      BY <1>1, <1>6, <2>1 DEF Inject, LoopState
    <3> QED
      BY <1>1, <1>2, <2>0, <2>1, <3>1 DEF At
  <2>2. CASE loop[l].todo # {}
    <3>1. PICK u \in loop[l].todo :
            /\ loop' = [loop EXCEPT ![l].todo = @ \ {u}]
            /\ (u \notin rows /\ UNCHANGED op) \/ Acquire(l, "round", u, loop[l].cur)
      BY <1>6, <2>2 DEF Inject
    <3>2. /\ loop'[l].pc = "inject" /\ loop'[l].todo = loop[l].todo \ {u} /\ Old(l)' = Old(l)
          /\ u \in Teams /\ loop[l].cur \in 0..TotalRounds /\ UNCHANGED orphans
      BY <1>1, <1>6, <2>0, <3>1 DEF LoopState, Old, Inject
    <3>3. Clean(l, u)'
      <4>1. CASE u \notin rows /\ UNCHANGED op
        <5>1. box[u] = NoBox /\ NoBox \notin Old(l)
          BY <1>1, <3>2, <4>1 DEF TInv, TypeOK, Old, LoopState
        <5>2. \A a \in Loops \cup Players : Holds(a) => op[a].team # u
          BY <4>1 DEF TInv, HolderSeesRow
        <5> QED
          BY <2>0, <3>2, <4>1, <5>1, <5>2 DEF Clean, Holds
      <4>2. CASE Acquire(l, "round", u, loop[l].cur)
        <5>1. /\ op'[l].at \in {"create", "destroy"} /\ op'[l].team = u
              /\ op'[l].flag = loop[l].cur /\ (op'[l].at = "create" => box[u] = NoBox)
              /\ \A b \in (Loops \cup Players) \ {l} : op'[b] = op[b]
          BY <3>2, <4>2, AcquireTyped DEF TInv
        <5>2. \A b \in Loops \cup Players : Holds(b) => op[b].team # u
          BY <4>2 DEF Acquire, Taken, Holds, TInv, TypeOK
        <5>3. NoBox \notin Old(l) /\ loop[l].cur \notin Old(l)
          BY <1>1 DEF Old, LoopState
        <5>4. box'[u] \notin Old(l) \/ (op'[l].at = "destroy" /\ op'[l].team = u)
          BY <2>0, <5>1, <5>3
        <5>5. \A a \in Loops \cup Players :
                 Holds(a)' /\ op'[a].team = u => op'[a].flag \notin Old(l)
          BY <3>2, <5>1, <5>2, <5>3 DEF Holds
        <5> QED
          BY <3>2, <5>4, <5>5 DEF Clean
      <4> QED
        BY <3>1, <4>1, <4>2
    <3>4. ASSUME NEW t \in Teams \ {u}, Clean(l, t) PROVE Clean(l, t)'
      <4>1. \A a \in Loops \cup Players :
               Holds(a)' /\ op'[a].team = t => op'[a].flag \notin Old(l)
        BY <1>1, <2>0, <3>4, HoldersStayClean
      <4>2. box'[t] \notin Old(l)
        BY <2>0, <3>4 DEF Clean
      <4> QED
        BY <3>2, <4>1, <4>2 DEF Clean
    <3> QED
      BY <1>1, <2>0, <3>2, <3>3, <3>4 DEF At
  <2> QED
    BY <2>1, <2>2
<1>7. CASE ToPatch(l)
  <2>1. /\ loop[l].pc = "Attack" /\ loop'[l].pc = "Patch" /\ loop'[l].cur = loop[l].cur
        /\ loop'[l].new = loop[l].new /\ UNCHANGED <<op, box>>
    BY <1>1, <1>7 DEF ToPatch, LoopState, At, calls
  <2> QED
    BY <1>1, <1>2, <2>1 DEF At
<1>8. CASE LoopEnters(l) \/ BeginRound(l) \/ InsertRound(l) \/ AddInstance(l) \/ FinishRound(l)
           \/ LoopEnds(l)
  <2>1. loop'[l].pc \notin {"flags", "inject", "Attack", "Patch"}
    BY <1>1, <1>8
    DEF LoopEnters, BeginRound, InsertRound, AddInstance, FinishRound, LoopEnds, LoopState,
        NoLocals
  <2> QED
    BY <2>1 DEF At
<1>9. CASE loop'[l].pc \notin {"flags", "inject", "Attack", "Patch"}
  BY <1>9 DEF At
<1> QED
  BY <1>3, <1>4, <1>5, <1>6, <1>7, <1>8, <1>9, GoesOnInRound DEF LoopStep

\* For any number of players, teams and rounds no instance carries the flag of an
\* earlier round once the loop that opened a round has given out its flags, however
\* resets, recoveries, stops and crashes fall (GenerateFlagsAndInject,
\* ResetLoadedInstance).
THEOREM NoFlagSurvives == Spec => []NoStaleFlag
<1>1. TInv /\ OInv /\ Fresh /\ [Next]_vars => Fresh'
  BY FreshStep
<1>2. TInv /\ Fresh => NoStaleFlag
  <2> SUFFICES ASSUME TInv, Fresh, registry # "doubled", NEW l \in Loops, NEW t \in Teams,
                      loop[l].pc \in {"Attack", "Patch"}, loop[l].new
               PROVE  box[t] \notin 1..(loop[l].cur - 1)
    BY DEF NoStaleFlag
  <2>1. Clean(l, t) /\ op[l].at = "idle"
    BY DEF Fresh, At, TInv, LoopWhere
  <2> QED
    BY <2>1 DEF Clean, Old
<1> QED
  BY <1>1, <1>2, InitFresh, TypeInvariant, OrderInvariant, PTL DEF Spec

=============================================================================

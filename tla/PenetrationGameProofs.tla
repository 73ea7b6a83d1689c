----------------------- MODULE PenetrationGameProofs -----------------------
(***************************************************************************)
(* Proofs about PenetrationGame, for any number of requests, saves and     *)
(* deployments:                                                            *)
(*   TypeCorrect        TypeOK                                             *)
(*   SavesKeepTopology  TopologyNotLost                                    *)
(*   OneRuntimeNode     EnvironmentConsistent                              *)
(*   ResetLimit         ResetsWithinLimit                                  *)
(***************************************************************************)
EXTENDS PenetrationGame, TLAPS

\* What a request has at each of its steps.
Steps ==
    \A r \in Requests :
        /\ At(r, "insert") => \A s, t \in req[r].save : s = t
        /\ At(r, "publish") => req[r].version < MaxVersion
        /\ req[r].step \in {"read", "count", "pending", "create"} => req[r].kind # "stop"
        /\ At(r, "read") \/ Deploying(r) => req[r].version >= 1
        /\ At(r, "destroy") => req[r].env.status # "none"
        /\ At(r, "count") => req[r].kind = "reset" /\ req[r].env.status = "Stopped"
        /\ At(r, "pending") => req[r].env.status \in {"none", "Stopped"}
        /\ At(r, "create") => env.version >= 1
        /\ req[r].env.version >= 1 => env.version >= 1
        /\ req[r].kind = "reset" /\ req[r].step \in {"destroy", "count"} =>
              req[r].env.resets < MaxResetCount

NoRowBeforeEnv == env.status = "none" => env.version = 0

EnvStays == \A r \in Requests : At(r, "destroy") => env.status # "none"

\* Without overlap there is one deployment under way ...
OneDeployment ==
    ~overlapped => \A r, s \in Requests : Deploying(r) /\ Deploying(s) => r = s

\* ... and what it has read is still so.
View ==
    ~overlapped => \A r \in Requests : Deploying(r) =>
        /\ IF At(r, "destroy") THEN runtime \subseteq req[r].rows ELSE runtime = {}
        /\ IF At(r, "create") THEN env.version = req[r].version
                              ELSE req[r].env.version = env.version
        /\ At(r, "pending") /\ req[r].env.status = "none" => env.status = "none"
        /\ req[r].kind = "reset" /\ req[r].step \in {"destroy", "count"} =>
              req[r].env.resets = env.resets

\* Without overlap every reset was counted.
Counted == env.resets <= MaxResetCount /\ (~overlapped => resets = env.resets)

IInv == /\ TypeOK /\ Steps /\ NoRowBeforeEnv /\ EnvStays /\ TopologyNotLost
        /\ OneDeployment /\ View /\ EnvironmentConsistent /\ Counted

-----------------------------------------------------------------------------
LEMMA IdleTyped == Idle \in Requesting /\ NoTopology \in Topologies /\ NoEnv \in Envs
<1>1. NoTopology \in Topologies /\ NoEnv \in Envs
  BY PenetrationAssumption DEF NoTopology, Topologies, NoEnv, Envs, Statuses
<1> QED
  BY <1>1, PenetrationAssumption DEF Idle, Requesting, Parts

LEMMA GoesTyped ==
  ASSUME NEW r \in Requests, NEW next \in Requesting, req \in [Requests -> Requesting], Goes(r, next)
  PROVE  /\ req' \in [Requests -> Requesting]
         /\ req'[r] = next /\ \A q \in Requests \ {r} : req'[q] = req[q]
  BY DEF Goes

\* What the actions of one request do to it, each with its typing.
LEMMA TypeStep == ASSUME TypeOK, Steps, [Next]_vars PROVE TypeOK'
<1> USE IdleTyped, PenetrationAssumption
<1>1. CASE UNCHANGED vars
  BY <1>1 DEF vars, TypeOK
<1>2. ASSUME NEW r \in Requests, RequestNext(r) PROVE TypeOK'
  <2> DEFINE me == req[r]
  <2>0. me \in Requesting
    BY DEF TypeOK
  <2>1. CASE ReadTopology(r)
    <3>1. [Idle EXCEPT !.step = "erase", !.saved = topo] \in Requesting
      BY DEF TypeOK, Requesting
    <3> QED
      BY <2>1, <3>1, GoesTyped DEF ReadTopology, TypeOK
  <2>2. CASE Erase(r)
    <3>1. \A s \in Saves : [Idle EXCEPT !.step = "insert", !.save = {s}] \in Requesting
      BY DEF Requesting
    <3>2. req' \in [Requests -> Requesting]
      BY <2>2, <3>1, GoesTyped DEF Erase, FreshSaves, TypeOK
    <3>3. topo' \in Topologies
      BY <2>2 DEF Erase, TypeOK, Topologies, Remaining
    <3> QED
      BY <2>2, <3>2, <3>3 DEF Erase, TypeOK
  <2>3. CASE Insert(r)
    <3>1. me.part # Edges => [me EXCEPT !.part = @ + 1] \in Requesting
      BY <2>0 DEF Requesting, Edges, Parts
    <3>2. req' \in [Requests -> Requesting]
      BY <2>3, <3>1, GoesTyped DEF Insert, Ends, TypeOK
    <3>3. me.save \subseteq Saves /\ me.part \in Parts
      BY <2>0 DEF Requesting
    <3>4. topo' \in Topologies /\ \A s \in Saves : topo[s] \subseteq topo'[s]
      BY <2>3, <3>3 DEF Insert, TypeOK, Topologies
    <3>5. runtime' = runtime /\ \A row \in runtime : row.node \in Saves
      BY <2>3 DEF Insert, TypeOK, RuntimeRows
    <3> QED
      BY <2>3, <3>2, <3>4, <3>5 DEF Insert, TypeOK
  <2>4. CASE SaveFails(r)
    BY <2>4, GoesTyped DEF SaveFails, Ends, TypeOK
  <2>5. CASE ReadForPublish(r)
    <3>1. [Idle EXCEPT !.step = "publish", !.version = version] \in Requesting
      BY DEF TypeOK, Requesting
    <3> QED
      BY <2>5, <3>1, GoesTyped DEF ReadForPublish, TypeOK
  <2>6. CASE Publish(r)
    <3>1. me.version \in 0..MaxVersion /\ me.version < MaxVersion
      BY <2>0, <2>6 DEF Requesting, Publish, Steps
    <3> QED
      BY <2>6, <3>1, GoesTyped DEF Publish, Ends, TypeOK
  <2>7. CASE ReadConfig(r)
    <3>1. \A kind \in {"deploy", "reset"} :
             [Idle EXCEPT !.step = "read", !.kind = kind, !.version = version,
                          !.nodes = WithNodes(topo)] \in Requesting
      BY DEF TypeOK, Requesting, WithNodes
    <3> QED
      BY <2>7, <3>1, GoesTyped DEF ReadConfig, TypeOK
  <2>8. CASE ReadForStop(r)
    <3>1. [Idle EXCEPT !.step = "destroy", !.kind = "stop", !.env = env, !.rows = runtime]
             \in Requesting
      BY DEF TypeOK, Requesting
    <3> QED
      BY <2>8, <3>1, GoesTyped DEF ReadForStop, TypeOK
  <2>9. CASE ReadEnvironment(r)
    <3>1. [me EXCEPT !.step = IF env.status = "none" THEN "pending" ELSE "destroy",
                     !.env = env, !.rows = runtime] \in Requesting
      BY <2>0 DEF TypeOK, Requesting
    <3>2. overlapped' \in BOOLEAN
      BY <2>9 DEF ReadEnvironment
    <3> QED
      BY <2>9, <3>1, <3>2, GoesTyped DEF ReadEnvironment, TypeOK
  <2>10. CASE Destroy(r)
    <3>1. [me EXCEPT !.step = IF me.kind = "reset" THEN "count" ELSE "pending",
                     !.env.status = "Stopped", !.rows = {},
                     !.env.resets = IF me.kind = "reset" THEN @ ELSE 0] \in Requesting
      BY <2>0 DEF Requesting, Envs, Statuses
    <3>2. req' \in [Requests -> Requesting]
      BY <2>10, <3>1, GoesTyped DEF Destroy, Ends, TypeOK
    <3>3. env' \in Envs /\ env'.version = env.version
      BY <2>0, <2>10 DEF Destroy, Column, TypeOK, Envs, Statuses, Requesting
    <3> QED
      BY <2>10, <3>2, <3>3 DEF Destroy, TypeOK
  <2>11. CASE Count(r)
    <3>1. [me EXCEPT !.step = "pending", !.kind = "deploy", !.env.resets = 0] \in Requesting
      BY <2>0 DEF Requesting, Envs
    <3>2. env' \in Envs /\ env'.version = env.version
      BY <2>0, <2>11 DEF Count, TypeOK, Envs, Requesting
    <3> QED
      BY <2>11, <3>1, <3>2, GoesTyped DEF Count, TypeOK
  <2>12. CASE Prepare(r)
    <3>1. [me EXCEPT !.step = "create", !.env = NoEnv] \in Requesting
      BY <2>0 DEF Requesting
    <3>2. [me EXCEPT !.step = "create", !.env = NoEnv, !.rows = runtime] \in Requesting
      BY <2>0 DEF Requesting, TypeOK
    <3>3. req' \in [Requests -> Requesting]
      BY <2>12, <3>1, <3>2, GoesTyped DEF Prepare, TypeOK
    <3>4. me.version \in 1..MaxVersion /\ me.env \in Envs
      BY <2>0, <2>12 DEF Requesting, Prepare, Steps, Deploying, At
    <3>5. PICK st \in Statuses, v \in 0..MaxVersion :
             /\ env' = [env EXCEPT !.status = st, !.version = v]
             /\ v = 0 => env.version = 0
      <4>1. env.status \in Statuses /\ env.version \in 0..MaxVersion
        BY DEF TypeOK, Envs
      <4>2. Column(env.status, me.env.status, "Pending") \in Statuses
        BY <4>1 DEF Column, Statuses
      <4>3. /\ Column(env.version, me.env.version, me.version) \in 0..MaxVersion
            /\ Column(env.version, me.env.version, me.version) = 0 => env.version = 0
        BY <3>4, <4>1 DEF Column
      <4>4. me.version \in 0..MaxVersion /\ me.version # 0 /\ "Pending" \in Statuses
        BY <3>4 DEF Statuses
      <4> QED
        BY <2>12, <4>2, <4>3, <4>4 DEF Prepare
    <3>6. env' \in Envs /\ (env'.version = 0 => env.version = 0)
      BY <3>5 DEF TypeOK, Envs
    <3> QED
      BY <2>12, <3>3, <3>6 DEF Prepare, TypeOK
  <2>13. CASE Create(r)
    <3>1. me.version \in 1..MaxVersion /\ me.nodes \subseteq Saves
      BY <2>0, <2>13 DEF Requesting, Create, Steps, Deploying, At
    <3>2. env.version >= 1
      BY <2>13 DEF Create, Steps
    <3>3. env' \in Envs /\ env'.version = env.version
      BY <2>13 DEF Create, TypeOK, Envs, Statuses
    <3>4. runtime' \subseteq RuntimeRows /\ \A row \in runtime' : Nodes \in topo[row.node]
      BY <2>13, <3>1 DEF Create, TypeOK, RuntimeRows, FreshDeployments, WithNodes
    <3> QED
      BY <2>13, <3>2, <3>3, <3>4, GoesTyped DEF Create, Ends, TypeOK, Envs
  <2>14. CASE CreateFails(r)
    <3>1. env' \in Envs /\ env'.version = env.version
      BY <2>14 DEF CreateFails, TypeOK, Envs, Statuses
    <3> QED
      BY <2>14, <3>1, GoesTyped DEF CreateFails, Ends, TypeOK
  <2>15. CASE Cut(r)
    <3>1. interrupted' \in BOOLEAN
      BY <2>15 DEF Cut
    <3> QED
      BY <2>15, <3>1, GoesTyped DEF Cut, Ends, TypeOK
  <2> QED
    BY <1>2, <2>1, <2>2, <2>3, <2>4, <2>5, <2>6, <2>7, <2>8, <2>9, <2>10, <2>11, <2>12,
       <2>13, <2>14, <2>15 DEF RequestNext
<1> QED
  BY <1>1, <1>2 DEF Next

-----------------------------------------------------------------------------
(* The topology                                                            *)

LEMMA TopologyStep ==
  ASSUME TypeOK, Steps, TopologyNotLost, [Next]_vars
  PROVE  TopologyNotLost'
<1> USE IdleTyped DEF TypeOK
<1>1. CASE UNCHANGED vars
  BY <1>1 DEF vars, TopologyNotLost, Completing, At
<1>2. ASSUME NEW r \in Requests, RequestNext(r) PROVE TopologyNotLost'
  <2>0. TypeOK'
    BY <1>2, TypeStep DEF Next
  <2>1. ASSUME NEW q \in Requests, q # r, Completing(q), \A s \in Saves : topo[s] \subseteq topo'[s],
               NEW next, Goes(r, next)
        PROVE  Completing(q)'
    <3>1. req'[q] = req[q]
      BY <2>1 DEF Goes
    <3>2. req[q].save \subseteq Saves
      BY DEF Requesting
    <3> QED
      BY <2>1, <3>1, <3>2 DEF Completing, At
  <2>2. CASE Erase(r)
    <3>1. PICK s \in Saves : Goes(r, [Idle EXCEPT !.step = "insert", !.save = {s}])
      BY <2>2 DEF Erase, FreshSaves
    <3>2. req'[r] = [Idle EXCEPT !.step = "insert", !.save = {s}]
      BY <3>1 DEF Goes
    <3>3. req'[r].step = "insert" /\ s \in req'[r].save /\ req'[r].part = 1
      BY <3>2 DEF Idle
    <3>4. 1..(1 - 1) \subseteq topo'[s]
      OBVIOUS
    <3> QED
      BY <3>3, <3>4 DEF TopologyNotLost, Completing, At
  <2>3. CASE Insert(r)
    <3>1. req[r].save \subseteq Saves /\ req[r].part \in Parts
      BY DEF Requesting
    <3>2. PICK s \in req[r].save : topo' = [topo EXCEPT ![s] = @ \cup {req[r].part}]
      BY <2>3 DEF Insert
    <3>3. \A t \in Saves : topo[t] \subseteq topo'[t]
      BY <3>1, <3>2 DEF Topologies
    <3>4. PICK next : Goes(r, next)
      BY <2>3 DEF Insert, Ends
    <3>5. CASE interrupted
      BY <2>3, <3>5 DEF Insert, TopologyNotLost
    <3>6. CASE \E t \in Saves : topo[t] = Parts
      <4>1. PICK t \in Saves : topo[t] = Parts
        BY <3>6
      <4>2. topo'[t] \subseteq Parts
        BY <2>0 DEF Topologies
      <4> QED
        BY <3>3, <4>1, <4>2 DEF TopologyNotLost
    <3>7. CASE \E q \in Requests \ {r} : Completing(q)
      BY <2>1, <3>3, <3>4, <3>7 DEF TopologyNotLost
    <3>8. CASE Completing(r)
      <4>1. 1..(req[r].part - 1) \subseteq topo[s]
        BY <2>3, <3>8 DEF Completing, Insert, Steps
      <4>2. topo'[s] = topo[s] \cup {req[r].part}
        BY <3>1, <3>2 DEF Topologies
      <4>3. 1..req[r].part \subseteq topo'[s]
        BY <3>1, <4>1, <4>2 DEF Parts
      <4>4. CASE req[r].part = Edges
        <5>1. topo'[s] \subseteq Parts
          BY <2>0, <3>1 DEF Topologies
        <5> QED
          BY <3>1, <4>3, <4>4, <5>1 DEF Parts, Edges, TopologyNotLost
      <4>5. CASE req[r].part # Edges
        <5>1. Goes(r, [req[r] EXCEPT !.part = @ + 1])
          BY <2>3, <4>5 DEF Insert
        <5>2. req'[r] = [req[r] EXCEPT !.part = @ + 1]
          BY <5>1 DEF Goes
        <5>3. req'[r].step = "insert" /\ req'[r].save = req[r].save /\ req'[r].part = req[r].part + 1
          BY <2>3, <5>2 DEF Requesting, Insert, At
        <5>4. req'[r].part - 1 = req[r].part
          BY <3>1, <5>3 DEF Parts
        <5> QED
          BY <3>2, <4>3, <5>3, <5>4 DEF TopologyNotLost, Completing, At
      <4> QED
        BY <4>4, <4>5
    <3> QED
      BY <3>5, <3>6, <3>7, <3>8 DEF TopologyNotLost
  <2>4. CASE SaveFails(r)
    <3>1. ~Completing(r)
      <4>1. CASE At(r, "erase")
        BY <4>1 DEF Completing, At
      <4>2. CASE At(r, "insert")
        <5>1. PICK s \in req[r].save : ~(Needs(req[r].part) \subseteq topo[s])
          BY <2>4, <4>2 DEF SaveFails, At
        <5>2. Needs(req[r].part) \subseteq 1..(req[r].part - 1)
          BY DEF Needs
        <5> QED
          BY <4>2, <5>1, <5>2 DEF Completing, Steps
      <4> QED
        BY <2>4, <4>1, <4>2 DEF SaveFails
    <3> QED
      BY <2>1, <2>4, <3>1 DEF SaveFails, Ends, TopologyNotLost
  <2>5. CASE Cut(r)
    <3>1. CASE At(r, "insert")
      BY <2>5, <3>1 DEF Cut, TopologyNotLost
    <3>2. CASE ~At(r, "insert")
      <4>1. ~Completing(r)
        BY <3>2 DEF Completing
      <4>2. topo' = topo /\ interrupted' = interrupted /\ Goes(r, Idle)
        BY <2>5, <3>2 DEF Cut, Ends
      <4> QED
        BY <2>1, <4>1, <4>2 DEF TopologyNotLost
    <3> QED
      BY <3>1, <3>2
  <2>6. CASE ~Erase(r) /\ ~Insert(r) /\ ~SaveFails(r) /\ ~Cut(r)
    <3>1. ~At(r, "insert") /\ topo' = topo /\ interrupted' = interrupted /\ \E next : Goes(r, next)
      BY <1>2, <2>6 DEF RequestNext, ReadTopology, ReadForPublish, Publish, ReadConfig, ReadForStop,
         ReadEnvironment, Destroy, Count, Prepare, Create, CreateFails, Ends, At
    <3>2. ~Completing(r)
      BY <3>1 DEF Completing
    <3> QED
      BY <2>1, <3>1, <3>2 DEF TopologyNotLost
  <2> QED
    BY <2>2, <2>3, <2>4, <2>5, <2>6
<1> QED
  BY <1>1, <1>2 DEF Next

-----------------------------------------------------------------------------
(* The environment                                                         *)

\* What a request has at its step, as in Steps, given the version of the environment.
Step(q, v) ==
    /\ q.step = "insert" => \A s, t \in q.save : s = t
    /\ q.step = "publish" => q.version < MaxVersion
    /\ q.step \in {"read", "count", "pending", "create"} => q.kind # "stop"
    /\ q.step = "read" => q.version >= 1
    /\ q.step \in {"destroy", "count", "pending", "create"} /\ q.kind # "stop" => q.version >= 1
    /\ q.step = "destroy" => q.env.status # "none"
    /\ q.step = "count" => q.kind = "reset" /\ q.env.status = "Stopped"
    /\ q.step = "pending" => q.env.status \in {"none", "Stopped"}
    /\ q.step = "create" => v >= 1
    /\ q.env.version >= 1 => v >= 1
    /\ q.kind = "reset" /\ q.step \in {"destroy", "count"} => q.env.resets < MaxResetCount

LEMMA StepsAreSteps == Steps <=> \A r \in Requests : Step(req[r], env.version)
  BY DEF Steps, Step, Deploying, At

LEMMA StepsStep ==
  ASSUME TypeOK, Steps, NoRowBeforeEnv, Counted, [Next]_vars
  PROVE  Steps' /\ NoRowBeforeEnv'
<1> USE IdleTyped, PenetrationAssumption
<1>1. CASE UNCHANGED vars
  BY <1>1 DEF vars, Steps, NoRowBeforeEnv, Deploying, At
<1>2. ASSUME NEW r \in Requests, RequestNext(r) PROVE Steps' /\ NoRowBeforeEnv'
  <2> DEFINE me == req[r]
  <2>0. /\ me \in Requesting /\ Step(me, env.version) /\ req \in [Requests -> Requesting]
        /\ env \in Envs /\ version \in 0..MaxVersion
    BY StepsAreSteps DEF TypeOK
  <2>a. Step(Idle, env'.version)
    BY DEF Step, Idle, NoEnv
  <2>b. ASSUME NEW next, Goes(r, next), Step(next, env'.version),
               env.version >= 1 => env'.version >= 1
        PROVE  Steps'
    <3>1. SUFFICES ASSUME NEW q \in Requests PROVE Step(req'[q], env'.version)
      BY DEF Steps, Step, Deploying, At
    <3>2. CASE q = r
      BY <2>0, <2>b, <3>2 DEF Goes
    <3>3. CASE q # r
      <4>1. req'[q] = req[q] /\ Step(req[q], env.version)
        BY <2>0, <2>b, <3>3, StepsAreSteps DEF Goes
      <4> QED
        BY <2>b, <4>1 DEF Step
    <3> QED
      BY <3>2, <3>3
  <2>1. CASE ReadTopology(r)
    <3>1. Step([Idle EXCEPT !.step = "erase", !.saved = topo], env.version)
      BY DEF Step, Idle, NoEnv
    <3> QED
      BY <2>1, <2>b, <3>1 DEF ReadTopology, NoRowBeforeEnv
  <2>2. CASE Erase(r)
    <3>1. \A s \in Saves : Step([Idle EXCEPT !.step = "insert", !.save = {s}], env.version)
      BY DEF Step, Idle, NoEnv
    <3> QED
      BY <2>2, <2>b, <3>1 DEF Erase, FreshSaves, NoRowBeforeEnv
  <2>3. CASE Insert(r)
    <3>1. Step([me EXCEPT !.part = @ + 1], env.version)
      BY <2>0 DEF Step, Requesting
    <3> QED
      BY <2>3, <2>a, <2>b, <3>1 DEF Insert, Ends, NoRowBeforeEnv
  <2>4. CASE SaveFails(r)
    BY <2>4, <2>a, <2>b DEF SaveFails, Ends, NoRowBeforeEnv
  <2>5. CASE ReadForPublish(r)
    <3>1. Step([Idle EXCEPT !.step = "publish", !.version = version], env.version)
      BY <2>5 DEF Step, Idle, NoEnv, ReadForPublish
    <3> QED
      BY <2>5, <2>b, <3>1 DEF ReadForPublish, NoRowBeforeEnv
  <2>6. CASE Publish(r)
    BY <2>6, <2>a, <2>b DEF Publish, Ends, NoRowBeforeEnv
  <2>7. CASE ReadConfig(r)
    <3>1. ASSUME NEW kind \in {"deploy", "reset"}
          PROVE  Step([Idle EXCEPT !.step = "read", !.kind = kind, !.version = version,
                                   !.nodes = WithNodes(topo)], env.version)
      BY <2>0, <2>7 DEF Step, Idle, NoEnv, ReadConfig
    <3> QED
      BY <2>7, <2>b, <3>1 DEF ReadConfig, NoRowBeforeEnv
  <2>8. CASE ReadForStop(r)
    <3>1. Step([Idle EXCEPT !.step = "destroy", !.kind = "stop", !.env = env, !.rows = runtime],
               env.version)
      BY <2>8 DEF Step, Idle, ReadForStop
    <3> QED
      BY <2>8, <2>b, <3>1 DEF ReadForStop, NoRowBeforeEnv
  <2>9. CASE ReadEnvironment(r)
    <3> DEFINE next == [me EXCEPT !.step = IF env.status = "none" THEN "pending" ELSE "destroy",
                                  !.env = env, !.rows = runtime]
    <3>1. Step(next, env.version)
      BY <2>0, <2>9 DEF Step, Requesting, ReadEnvironment, At
    <3>2. env' = env /\ Goes(r, next)
      BY <2>9 DEF ReadEnvironment
    <3> QED
      BY <2>b, <3>1, <3>2 DEF NoRowBeforeEnv
  <2>10. CASE Destroy(r)
    <3> DEFINE next == [me EXCEPT !.step = IF me.kind = "reset" THEN "count" ELSE "pending",
                                  !.env.status = "Stopped", !.rows = {},
                                  !.env.resets = IF me.kind = "reset" THEN @ ELSE 0]
    <3>1. env'.version = env.version /\ (env'.status = "none" => env.status = "none")
      BY <2>0, <2>10 DEF Destroy, Column, Envs
    <3>2. me.kind # "stop" => Step(next, env.version)
      BY <2>0, <2>10 DEF Step, Requesting, Envs, Destroy, At
    <3>3. me.kind # "stop" => Goes(r, next)
      BY <2>10 DEF Destroy
    <3>4. me.kind = "stop" => Goes(r, Idle)
      BY <2>10 DEF Destroy, Ends
    <3>5. Steps'
      BY <2>a, <2>b, <3>1, <3>2, <3>3, <3>4
    <3> QED
      BY <3>1, <3>5 DEF NoRowBeforeEnv
  <2>11. CASE Count(r)
    <3> DEFINE next == [me EXCEPT !.step = "pending", !.kind = "deploy", !.env.resets = 0]
    <3>1. env'.version = env.version /\ env'.status = env.status /\ Goes(r, next)
      BY <2>0, <2>11 DEF Count, Envs
    <3>2. Step(next, env.version)
      BY <2>0, <2>11 DEF Step, Requesting, Envs, Count, At
    <3> QED
      BY <2>b, <3>1, <3>2 DEF NoRowBeforeEnv
  <2>12. CASE Prepare(r)
    <3> DEFINE a == [me EXCEPT !.step = "create", !.env = NoEnv]
               b == [me EXCEPT !.step = "create", !.env = NoEnv, !.rows = runtime]
    <3>1. me.version \in 1..MaxVersion /\ me.env.status \in {"none", "Stopped"} /\ me.kind # "stop"
      BY <2>0, <2>12 DEF Step, Requesting, Prepare, At
    <3>2. env'.status = "Pending" /\ env'.version >= 1
      <4>1. Column(env.status, me.env.status, "Pending") = "Pending"
        BY <3>1 DEF Column
      <4>2. Column(env.version, me.env.version, me.version) >= 1
        BY <2>0, <3>1 DEF Column, Step
      <4>3. me.version >= 1
        BY <3>1
      <4> QED
        BY <2>0, <2>12, <4>1, <4>2, <4>3 DEF Prepare, Envs
    <3>3. Step(a, env'.version) /\ Step(b, env'.version)
      BY <2>0, <3>1, <3>2 DEF Step, Requesting, NoEnv
    <3>4. Goes(r, a) \/ Goes(r, b)
      BY <2>12 DEF Prepare
    <3>5. Steps'
      BY <2>b, <3>2, <3>3, <3>4
    <3> QED
      BY <3>2, <3>5 DEF NoRowBeforeEnv
  <2>13. CASE Create(r) \/ CreateFails(r)
    <3>1. env'.version = env.version /\ env'.status # "none" /\ Goes(r, Idle)
      BY <2>0, <2>13 DEF Create, CreateFails, Ends, Envs
    <3> QED
      BY <2>a, <2>b, <3>1 DEF NoRowBeforeEnv
  <2>14. CASE Cut(r)
    BY <2>14, <2>a, <2>b DEF Cut, Ends, NoRowBeforeEnv
  <2> QED
    BY <1>2, <2>1, <2>2, <2>3, <2>4, <2>5, <2>6, <2>7, <2>8, <2>9, <2>10, <2>11, <2>12,
       <2>13, <2>14 DEF RequestNext
<1> QED
  BY <1>1, <1>2 DEF Next

\* The requests that save, publish or only read come to these steps.
LEMMA SavingStep ==
  ASSUME TypeOK, NEW r \in Requests,
         \/ ReadTopology(r) \/ Erase(r) \/ Insert(r) \/ SaveFails(r) \/ ReadForPublish(r)
         \/ Publish(r) \/ ReadConfig(r) \/ Cut(r)
  PROVE  \E next : /\ Goes(r, next)
                   /\ next.step \in {"erase", "insert", "publish", "read", "idle"}
<1>1. CASE Erase(r)
  <2>1. PICK s \in Saves : Goes(r, [Idle EXCEPT !.step = "insert", !.save = {s}])
    BY <1>1 DEF Erase, FreshSaves
  <2>2. [Idle EXCEPT !.step = "insert", !.save = {s}].step = "insert"
    BY DEF Idle
  <2> QED
    BY <2>1, <2>2
<1>2. CASE Insert(r)
  <2> DEFINE next == [req[r] EXCEPT !.part = @ + 1]
  <2>1. req[r] \in Requesting
    BY DEF TypeOK
  <2>2. next.step = req[r].step
    BY <2>1 DEF Requesting
  <2>3. Goes(r, next) \/ Goes(r, Idle)
    BY <1>2 DEF Insert, Ends
  <2>4. req[r].step = "insert" /\ Idle.step = "idle"
    BY <1>2 DEF Insert, At, Idle
  <2> HIDE DEF next
  <2> QED
    BY <2>2, <2>3, <2>4
<1>3. CASE SaveFails(r) \/ Publish(r) \/ Cut(r)
  BY <1>3 DEF SaveFails, Publish, Cut, Ends, Idle
<1>4. CASE ReadTopology(r)
  <2>1. [Idle EXCEPT !.step = "erase", !.saved = topo].step = "erase"
    BY DEF Idle
  <2> QED
    BY <1>4, <2>1 DEF ReadTopology
<1>5. CASE ReadForPublish(r)
  <2>1. [Idle EXCEPT !.step = "publish", !.version = version].step = "publish"
    BY DEF Idle
  <2> QED
    BY <1>5, <2>1 DEF ReadForPublish
<1>6. CASE ReadConfig(r)
  <2>1. PICK kind \in {"deploy", "reset"} :
           Goes(r, [Idle EXCEPT !.step = "read", !.kind = kind, !.version = version,
                                !.nodes = WithNodes(topo)])
    BY <1>6 DEF ReadConfig
  <2>2. [Idle EXCEPT !.step = "read", !.kind = kind, !.version = version,
                     !.nodes = WithNodes(topo)].step = "read"
    BY DEF Idle
  <2> QED
    BY <2>1, <2>2
<1> QED
  BY <1>1, <1>2, <1>3, <1>4, <1>5, <1>6

LEMMA EnvStaysStep == ASSUME TypeOK, Steps, EnvStays, [Next]_vars PROVE EnvStays'
<1>1. CASE UNCHANGED vars
  BY <1>1 DEF vars, EnvStays, At
<1>2. ASSUME NEW r \in Requests, RequestNext(r) PROVE EnvStays'
  <2> SUFFICES ASSUME NEW q \in Requests, At(q, "destroy")' PROVE env'.status # "none"
    BY DEF EnvStays
  <2>0. env \in Envs /\ req \in [Requests -> Requesting]
    BY DEF TypeOK
  <2>1. CASE Destroy(r)
    <3>1. env.status # "none"
      BY <2>1 DEF Destroy, EnvStays
    <3> QED
      BY <2>0, <2>1, <3>1 DEF Destroy, Column, Envs
  <2>2. CASE Prepare(r)
    <3>1. Column(env.status, req[r].env.status, "Pending") = "Pending"
      BY <2>2 DEF Prepare, Column, Steps
    <3> QED
      BY <2>0, <2>2, <3>1 DEF Prepare, Envs
  <2>3. CASE Create(r) \/ CreateFails(r)
    BY <2>0, <2>3 DEF Create, CreateFails, Envs
  <2>4. CASE Count(r)
    <3>1. env'.status = env.status
      BY <2>0, <2>4 DEF Count, Envs
    <3>2. q # r
      <4>1. req'[r] = [req[r] EXCEPT !.step = "pending", !.kind = "deploy", !.env.resets = 0]
        BY <2>0, <2>4 DEF Count, Goes
      <4>2. req'[r].step = "pending"
        BY <2>0, <4>1 DEF Requesting
      <4> QED
        BY <4>2 DEF At
    <3>3. req'[q] = req[q]
      BY <2>0, <2>4, <3>2 DEF Count, Goes
    <3> QED
      BY <3>1, <3>3 DEF EnvStays, At
  <2>5. CASE ReadForStop(r) \/ ReadEnvironment(r)
    <3>1. CASE q # r
      BY <2>0, <2>5, <3>1 DEF ReadForStop, ReadEnvironment, Goes, EnvStays, At
    <3>2. CASE q = r /\ ReadForStop(r)
      BY <3>2 DEF ReadForStop
    <3>3. CASE q = r /\ ReadEnvironment(r)
      <4>1. req'[r] = [req[r] EXCEPT !.step = IF env.status = "none" THEN "pending" ELSE "destroy",
                                     !.env = env, !.rows = runtime]
        BY <2>0, <3>3 DEF ReadEnvironment, Goes
      <4>2. req'[r].step = IF env.status = "none" THEN "pending" ELSE "destroy"
        BY <2>0, <4>1 DEF Requesting
      <4> QED
        BY <3>3, <4>2 DEF ReadEnvironment, At
    <3> QED
      BY <2>5, <3>1, <3>2, <3>3
  <2>6. CASE Insert(r)
    <3>1. req'[q].step = req[q].step \/ req'[q].step = "idle"
      BY <2>0, <2>6 DEF Insert, Ends, Goes, Idle, Requesting
    <3> QED
      BY <2>6, <3>1 DEF Insert, EnvStays, At
  <2>7. CASE ReadTopology(r) \/ Erase(r) \/ SaveFails(r) \/ ReadForPublish(r) \/ Publish(r)
             \/ ReadConfig(r) \/ Cut(r)
    <3>1. env' = env
      BY <2>7 DEF ReadTopology, Erase, SaveFails, ReadForPublish, Publish, ReadConfig, Cut
    <3>2. PICK next : Goes(r, next) /\ next.step # "destroy"
      BY <2>7, SavingStep
    <3>3. q # r /\ req'[q] = req[q]
      BY <2>0, <3>2 DEF Goes, At
    <3> QED
      BY <3>1, <3>3 DEF EnvStays, At
  <2> QED
    BY <1>2, <2>1, <2>2, <2>3, <2>4, <2>5, <2>6, <2>7 DEF RequestNext
<1> QED
  BY <1>1, <1>2 DEF Next

\* An action of a request that is no deployment afterwards, and that only takes rows away.
LEMMA NotDeploying ==
  ASSUME TypeOK, OneDeployment, View, EnvironmentConsistent, Counted,
         NEW r \in Requests, NEW next \in Requesting, Goes(r, next),
         next.step \notin {"destroy", "count", "pending", "create"} \/ next.kind = "stop",
         runtime' \subseteq runtime, env'.version = env.version, env'.resets = env.resets,
         env.status = "none" => env'.status = "none",
         UNCHANGED <<overlapped, resets>>
  PROVE  OneDeployment' /\ View' /\ EnvironmentConsistent' /\ Counted'
<1>1. \A q \in Requests : Deploying(q)' => req'[q] = req[q] /\ Deploying(q)
  BY GoesTyped DEF TypeOK, Deploying
<1>2. OneDeployment' /\ EnvironmentConsistent' /\ Counted'
  BY <1>1 DEF OneDeployment, EnvironmentConsistent, Counted
<1>3. View'
  BY <1>1 DEF View, At
<1> QED
  BY <1>2, <1>3

\* An action of the only deployment that stays one.
LEMMA StillDeploying ==
  ASSUME TypeOK, OneDeployment, NEW r \in Requests, NEW next \in Requesting, Goes(r, next),
         Deploying(r), UNCHANGED overlapped
  PROVE  ~overlapped => /\ OneDeployment'
                        /\ \A q \in Requests : Deploying(q)' => q = r
<1>1. \A q \in Requests \ {r} : Deploying(q)' => Deploying(q)
  BY GoesTyped DEF TypeOK, Deploying
<1> QED
  BY <1>1 DEF OneDeployment

LEMMA EnvironmentStep ==
  ASSUME IInv, [Next]_vars
  PROVE  OneDeployment' /\ View' /\ EnvironmentConsistent' /\ Counted'
<1> USE IdleTyped, PenetrationAssumption DEF IInv
<1>1. CASE UNCHANGED vars
  BY <1>1 DEF vars, OneDeployment, View, EnvironmentConsistent, Counted, Deploying, At
<1>2. ASSUME NEW r \in Requests, RequestNext(r)
      PROVE  OneDeployment' /\ View' /\ EnvironmentConsistent' /\ Counted'
  <2> DEFINE me == req[r]
             Goal == OneDeployment' /\ View' /\ EnvironmentConsistent' /\ Counted'
  <2>0. /\ me \in Requesting /\ req \in [Requests -> Requesting] /\ env \in Envs
        /\ runtime \subseteq RuntimeRows /\ resets \in Nat /\ TypeOK'
    BY <1>2, TypeStep DEF TypeOK, Next
  <2>0a. req' \in [Requests -> Requesting]
    BY <2>0 DEF TypeOK
  <2>1. CASE \/ ReadTopology(r) \/ Erase(r) \/ Insert(r) \/ SaveFails(r) \/ ReadForPublish(r)
             \/ Publish(r) \/ ReadConfig(r) \/ ReadForStop(r) \/ Cut(r)
    <3>1. runtime' \subseteq runtime /\ UNCHANGED <<env, overlapped, resets>>
      BY <2>1 DEF ReadTopology, Erase, Insert, SaveFails, ReadForPublish, Publish, ReadConfig,
         ReadForStop, Cut
    <3>2. PICK next : /\ Goes(r, next)
                      /\ \/ next.step \notin {"destroy", "count", "pending", "create"}
                         \/ next.kind = "stop"
      <4>1. CASE ~ReadForStop(r)
        BY <2>1, <4>1, SavingStep
      <4>2. CASE ReadForStop(r)
        <5>1. [Idle EXCEPT !.step = "destroy", !.kind = "stop", !.env = env, !.rows = runtime].kind
                 = "stop"
          BY DEF Idle
        <5> QED
          BY <4>2, <5>1 DEF ReadForStop
      <4> QED
        BY <2>1, <4>1, <4>2
    <3>3. next \in Requesting
      BY <2>0, <2>0a, <3>2 DEF Goes
    <3> HIDE DEF Goal
    <3>4. Goal
      BY <3>1, <3>2, <3>3, NotDeploying DEF Goal
    <3> QED
      BY <3>4 DEF Goal
  <2>2. CASE ReadEnvironment(r)
    <3> DEFINE next == [me EXCEPT !.step = IF env.status = "none" THEN "pending" ELSE "destroy",
                                  !.env = env, !.rows = runtime]
    <3>1. req'[r] = next /\ \A q \in Requests \ {r} : req'[q] = req[q]
      BY <2>0, <2>2 DEF ReadEnvironment, Goes
    <3>2. /\ req'[r].step = (IF env.status = "none" THEN "pending" ELSE "destroy")
          /\ req'[r].env = env /\ req'[r].rows = runtime
      BY <2>0, <3>1 DEF Requesting
    <3>3. UNCHANGED <<env, runtime, resets>> /\ (~overlapped' => ~overlapped)
      BY <2>2 DEF ReadEnvironment
    <3>4. ~overlapped' => \A q \in Requests : Deploying(q)' => q = r
      <4>1. ~overlapped' => \A q \in Requests \ {r} : ~Deploying(q)
        BY <2>2 DEF ReadEnvironment
      <4> QED
        BY <3>1, <4>1 DEF Deploying
    <3>5. env.status = "none" => runtime = {}
      BY DEF NoRowBeforeEnv, TypeOK
    <3>6. View'
      BY <3>2, <3>3, <3>4, <3>5 DEF View, At
    <3> QED
      BY <3>3, <3>4, <3>6 DEF OneDeployment, EnvironmentConsistent, Counted
  <2>3. CASE Destroy(r)
    <3> DEFINE next == [me EXCEPT !.step = IF me.kind = "reset" THEN "count" ELSE "pending",
                                  !.env.status = "Stopped", !.rows = {},
                                  !.env.resets = IF me.kind = "reset" THEN @ ELSE 0]
    <3>1. /\ env'.version = env.version /\ env'.resets = env.resets
          /\ runtime' = runtime \ me.rows /\ UNCHANGED <<resets, overlapped>>
      BY <2>0, <2>3 DEF Destroy, Envs
    <3>2. env.status # "none"
      BY <2>3 DEF Destroy, EnvStays
    <3>3. CASE me.kind = "stop"
      <4>1. Goes(r, Idle)
        BY <2>3, <3>3 DEF Destroy, Ends
      <4> QED
        BY <3>1, <3>2, <4>1, NotDeploying DEF Idle
    <3>4. CASE me.kind # "stop"
      <4>1. Goes(r, next) /\ next = req'[r]
        BY <2>0, <2>3, <3>4 DEF Destroy, Goes
      <4>2. /\ next.step = (IF me.kind = "reset" THEN "count" ELSE "pending")
            /\ next.env.status = "Stopped" /\ next.env.version = me.env.version /\ next.kind = me.kind
            /\ me.kind = "reset" => next.env.resets = me.env.resets
        BY <2>0 DEF Requesting, Envs
      <4>3. Deploying(r) /\ At(r, "destroy")
        BY <2>3, <3>4 DEF Destroy, Deploying, At
      <4>4. ~overlapped => OneDeployment' /\ \A q \in Requests : Deploying(q)' => q = r
        <5>1. next \in Requesting
          BY <2>0a, <4>1
        <5> HIDE DEF next
        <5> QED
          BY <3>1, <4>1, <4>3, <5>1, StillDeploying
      <4>5. ~overlapped => /\ runtime' = {} /\ me.env.version = env.version
                           /\ me.kind = "reset" => me.env.resets = env.resets
        BY <3>1, <4>3 DEF View, At
      <4>6. View'
        <5> HIDE DEF next
        <5> QED
          BY <3>1, <4>1, <4>2, <4>4, <4>5 DEF View, At
      <4> QED
        BY <3>1, <4>4, <4>5, <4>6 DEF OneDeployment, EnvironmentConsistent, Counted
    <3> QED
      BY <3>3, <3>4
  <2>4. CASE Count(r)
    <3> DEFINE next == [me EXCEPT !.step = "pending", !.kind = "deploy", !.env.resets = 0]
    <3>1. /\ env'.version = env.version /\ env'.resets = me.env.resets + 1 /\ runtime' = runtime
          /\ resets' = resets + 1 /\ UNCHANGED overlapped /\ Goes(r, next) /\ next = req'[r]
      BY <2>0, <2>4 DEF Count, Goes, Envs
    <3>2. next.step = "pending" /\ next.kind = "deploy" /\ next.env.status = me.env.status
          /\ next.env.version = me.env.version
      BY <2>0 DEF Requesting, Envs
    <3>3. me.env.status = "Stopped" /\ Deploying(r) /\ At(r, "count")
      BY <2>4 DEF Count, Steps, Deploying, At
    <3>4. next \in Requesting
      BY <2>0a, <3>1
    <3>5. me.env.resets \in Nat /\ me.kind = "reset"
      BY <2>0, <2>4 DEF Requesting, Envs, Count, Steps, At
    <3> HIDE DEF next
    <3>6. ~overlapped => OneDeployment' /\ \A q \in Requests : Deploying(q)' => q = r
      BY <3>1, <3>3, <3>4, StillDeploying
    <3>7. ~overlapped => runtime = {} /\ me.env.version = env.version /\ me.env.resets = env.resets
      BY <3>3, <3>5 DEF View, At
    <3>8. View'
      BY <3>1, <3>2, <3>3, <3>6, <3>7 DEF View, At
    <3>9. me.env.resets < MaxResetCount
      BY <3>3, <3>5 DEF Steps, At
    <3>10. Counted'
      BY <2>0, <3>1, <3>5, <3>7, <3>9 DEF Counted
    <3> QED
      BY <3>1, <3>6, <3>7, <3>8, <3>10 DEF OneDeployment, EnvironmentConsistent
  <2>5. CASE Prepare(r)
    <3> DEFINE a == [me EXCEPT !.step = "create", !.env = NoEnv]
               b == [me EXCEPT !.step = "create", !.env = NoEnv, !.rows = runtime]
    <3>1. /\ env'.resets = env.resets /\ runtime' = runtime /\ UNCHANGED <<resets, overlapped>>
      BY <2>0, <2>5 DEF Prepare, Envs
    <3>2. PICK next : Goes(r, next) /\ next = req'[r] /\ (next = a \/ next = b)
      BY <2>0, <2>5 DEF Prepare, Goes
    <3>3. next.step = "create" /\ next.version = me.version /\ next.kind = me.kind
      BY <2>0, <3>2 DEF Requesting
    <3>4. next \in Requesting
      BY <2>0a, <3>2
    <3>5. Deploying(r) /\ At(r, "pending")
      BY <2>5 DEF Prepare, Steps, Deploying, At
    <3>6. ~overlapped => OneDeployment' /\ \A q \in Requests : Deploying(q)' => q = r
      BY <3>1, <3>2, <3>4, <3>5, StillDeploying
    <3>7. ~overlapped => /\ runtime = {} /\ me.env.version = env.version
                         /\ me.env.status = "none" => env.status = "none"
      BY <3>5 DEF View, At
    <3>8. ~overlapped => env'.version = me.version
      BY <2>0, <2>5, <3>7 DEF Prepare, Column, Envs
    <3>9. View'
      BY <3>1, <3>2, <3>3, <3>6, <3>7, <3>8 DEF View, At
    <3> QED
      BY <3>1, <3>6, <3>7, <3>9 DEF OneDeployment, EnvironmentConsistent, Counted
  <2>6. CASE Create(r)
    <3>1. /\ env'.version = env.version /\ env'.resets = env.resets
          /\ Goes(r, Idle) /\ UNCHANGED <<resets, overlapped>>
      BY <2>0, <2>6 DEF Create, Ends, Envs
    <3>2. PICK d \in Deployments :
             runtime' = runtime \cup {[deployment |-> d, node |-> n, version |-> me.version]
                                        : n \in me.nodes}
      BY <2>6 DEF Create, FreshDeployments
    <3>3. Deploying(r) /\ At(r, "create")
      BY <2>6 DEF Create, Steps, Deploying, At
    <3>4. ~overlapped => runtime = {} /\ env.version = me.version
      BY <3>3 DEF View, At
    <3>5. EnvironmentConsistent'
      BY <3>1, <3>2, <3>4 DEF EnvironmentConsistent
    <3>6. \A q \in Requests : Deploying(q)' => q # r /\ req'[q] = req[q] /\ Deploying(q)
      BY <2>0, <3>1, GoesTyped DEF Deploying, Idle
    <3>7. ~overlapped => \A q \in Requests : ~Deploying(q)'
      BY <3>3, <3>6 DEF OneDeployment
    <3> QED
      BY <3>1, <3>5, <3>7 DEF OneDeployment, View, Counted
  <2>7. CASE CreateFails(r)
    <3>1. /\ env'.version = env.version /\ env'.resets = env.resets /\ runtime' \subseteq runtime
          /\ Goes(r, Idle) /\ UNCHANGED <<resets, overlapped>>
      BY <2>0, <2>7 DEF CreateFails, Ends, Envs
    <3>2. env.status # "none"
      BY <2>7 DEF CreateFails, Steps, NoRowBeforeEnv
    <3> QED
      BY <3>1, <3>2, NotDeploying DEF Idle
  <2> QED
    BY <1>2, <2>1, <2>2, <2>3, <2>4, <2>5, <2>6, <2>7 DEF RequestNext
<1> QED
  BY <1>1, <1>2 DEF Next

-----------------------------------------------------------------------------
LEMMA Invariance == Spec => []IInv
<1>1. Init => IInv
  <2> SUFFICES ASSUME Init PROVE IInv
    OBVIOUS
  <2>1. PICK s \in Saves : topo = [NoTopology EXCEPT ![s] = Parts]
    BY DEF Init
  <2>2. topo \in Topologies /\ topo[s] = Parts
    BY <2>1 DEF Topologies, NoTopology
  <2>3. TypeOK
    <3>1. env \in Envs /\ version \in 0..MaxVersion /\ resets \in Nat
      BY IdleTyped, PenetrationAssumption DEF Init
    <3>2. req \in [Requests -> Requesting]
      BY IdleTyped DEF Init
    <3>3. runtime = {} /\ interrupted \in BOOLEAN /\ overlapped \in BOOLEAN
      BY DEF Init
    <3> QED
      BY <2>2, <3>1, <3>2, <3>3 DEF TypeOK
  <2>4. \A r \in Requests : /\ req[r].step = "idle" /\ req[r].kind = "none"
                            /\ req[r].env.version = 0 /\ ~Deploying(r)
    BY DEF Init, Idle, NoEnv, Deploying
  <2>5. Steps /\ EnvStays
    BY <2>4 DEF Steps, EnvStays, At
  <2>6. NoRowBeforeEnv /\ TopologyNotLost
    BY <2>2 DEF Init, NoRowBeforeEnv, TopologyNotLost, NoEnv
  <2>7. OneDeployment /\ View /\ EnvironmentConsistent
    BY <2>4 DEF Init, OneDeployment, View, EnvironmentConsistent
  <2>8. Counted
    BY PenetrationAssumption DEF Init, Counted, NoEnv
  <2> QED
    BY <2>3, <2>5, <2>6, <2>7, <2>8 DEF IInv
<1>2. IInv /\ [Next]_vars => IInv'
  BY TypeStep, StepsStep, EnvStaysStep, TopologyStep, EnvironmentStep DEF IInv
<1> QED
  BY <1>1, <1>2, PTL DEF Spec

\* PenetrationService keeps runtime nodes that refer to nodes of the topology, and gives them
\* the version of an environment that was prepared.
THEOREM TypeCorrect == Spec => []TypeOK
<1>1. IInv => TypeOK
  BY DEF IInv
<1> QED
  BY <1>1, Invariance, PTL

\* However many saves of a topology overlap, it is lost only when one is cut short between
\* its transactions.
THEOREM SavesKeepTopology == Spec => []TopologyNotLost
<1>1. IInv => TopologyNotLost
  BY DEF IInv
<1> QED
  BY <1>1, Invariance, PTL

\* Deployments, rebuilds, resets and stops that do not overlap leave one runtime node per
\* node of the topology, with the version of the environment.
THEOREM OneRuntimeNode == Spec => []EnvironmentConsistent
<1>1. IInv => EnvironmentConsistent
  BY DEF IInv
<1> QED
  BY <1>1, Invariance, PTL

\* ResetCount stays within MaxResetCount, and so do the resets that do not overlap.
THEOREM ResetLimit == Spec => []ResetsWithinLimit
<1>1. IInv => ResetsWithinLimit
  BY PenetrationAssumption DEF IInv, Counted, ResetsWithinLimit
<1> QED
  BY <1>1, Invariance, PTL
=============================================================================

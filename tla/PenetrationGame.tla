-------------------------- MODULE PenetrationGame --------------------------
(***************************************************************************)
(* A penetration game and the environment of one team: PenetrationService  *)
(* behind PenetrationAdminController (save, publish, deploy, rebuild,      *)
(* stop) and the reset of PenetrationPlayerController.  No request is      *)
(* serialised with another: any number of them is under way, and each is a *)
(* sequence of reads and of SaveChanges, a transaction each.               *)
(*                                                                         *)
(* SaveConfig deletes the rows of the topology and inserts those of the    *)
(* posted one, under new ids, in five transactions.  A save is an id here, *)
(* and topo says which Parts of it are in the database: networks, nodes    *)
(* with their score items, interfaces and edges.  What refers to a deleted *)
(* row goes with it, the runtime nodes of the teams too, except for edges, *)
(* which name nodes without a foreign key.  EF Core throws when a row it   *)
(* deletes or updates is gone, and writes the columns that were changed.   *)
(*                                                                         *)
(* A topology has one node, and a deployment saves its runtime nodes at    *)
(* once.  Left out: the submissions (deleted with their score items), the  *)
(* containers and networks on the worker nodes, the status of the          *)
(* configuration (shown, never read).  SaveConfig also writes the posted   *)
(* MaxResetCount with its first SaveChanges: here every save posts the     *)
(* same one, so what a reset owes to a limit that was lowered meanwhile is *)
(* not claimed.  Ids are used again when no row and no request has them.   *)
(***************************************************************************)
EXTENDS Naturals, FiniteSets

CONSTANTS Requests,       \* requests that can be under way at once
          Saves,          \* ids of saved topologies
          Deployments,    \* ids of deployments, which their runtime nodes carry
          MaxResetCount,  \* of the configuration, the same in every save
          MaxVersion      \* bound: how often the topology is published

ASSUME PenetrationAssumption ==
    /\ IsFiniteSet(Requests) /\ IsFiniteSet(Saves) /\ IsFiniteSet(Deployments)
    /\ MaxResetCount \in Nat /\ MaxVersion \in Nat \ {0}

VARIABLES
    topo,         \* the parts of each save that are in the database
    version,      \* PublishedVersion
    env,          \* PenetrationTeamEnvironment, status "none" for no row
    runtime,      \* its PenetrationRuntimeNodes
    req,          \* each request, with what it has read
    resets,       \* resets by players that were carried out (history)
    interrupted,  \* a save was cut short after it had deleted the topology, and no other
                  \* has deleted it since (history)
    overlapped    \* two deployments of the team were under way at once (history)

vars == <<topo, version, env, runtime, req, resets, interrupted, overlapped>>

Networks == 1
Nodes == 2
Interfaces == 3
Edges == 4
Parts == 1..4

Topologies == [Saves -> SUBSET Parts]
NoTopology == [s \in Saves |-> {}]
NoEnv == [status |-> "none", version |-> 0, resets |-> 0]

\* The fields of a request that it does not use have these values.
Idle == [step |-> "idle", kind |-> "none", saved |-> NoTopology, save |-> {}, part |-> 1,
         nodes |-> {}, version |-> 0, env |-> NoEnv, rows |-> {}]

\* The topology has been saved for the first time.
Init ==
    /\ \E s \in Saves : topo = [NoTopology EXCEPT ![s] = Parts]
    /\ version = 0
    /\ env = NoEnv
    /\ runtime = {}
    /\ req = [r \in Requests |-> Idle]
    /\ resets = 0
    /\ interrupted = FALSE
    /\ overlapped = FALSE

-----------------------------------------------------------------------------
WithNodes(t) == {s \in Saves : Nodes \in t[s]}

\* Ids nobody knows.
FreshSaves ==
    {s \in Saves : /\ topo[s] = {}
                   /\ \A r \in Requests :
                         /\ req[r].saved[s] = {}
                         /\ s \notin req[r].save \cup req[r].nodes
                         /\ \A row \in req[r].rows : row.node # s}

FreshDeployments ==
    {d \in Deployments : \A row \in runtime \cup UNION {req[r].rows : r \in Requests} :
                            row.deployment # d}

At(r, step) == req[r].step = step
Goes(r, next) == req' = [req EXCEPT ![r] = next]
Ends(r) == Goes(r, Idle)

\* A column is written when the context has changed the value it read.
Column(current, read, wanted) == IF wanted # read THEN wanted ELSE current

-----------------------------------------------------------------------------
(* SaveConfig                                                              *)

ReadTopology(r) ==
    /\ At(r, "idle")
    /\ Goes(r, [Idle EXCEPT !.step = "erase", !.saved = topo])
    /\ UNCHANGED <<topo, version, env, runtime, resets, interrupted, overlapped>>

\* The rows that were read go, and those that refer to them.
Remaining(s, read) ==
    topo[s] \ (IF Networks \in read[s] THEN {Networks, Nodes, Interfaces} \cup read[s]
                                       ELSE read[s])

\* Mutant: runtime nodes survive the node they refer to.
BadErase(r) ==
    /\ At(r, "erase")
    /\ \A s \in Saves : req[r].saved[s] \subseteq topo[s]
    /\ topo' = [s \in Saves |-> Remaining(s, req[r].saved)]
    /\ \E s \in FreshSaves : Goes(r, [Idle EXCEPT !.step = "insert", !.save = {s}])
    /\ interrupted' = FALSE
    /\ UNCHANGED <<version, env, runtime, resets, overlapped>>

\* The first SaveChanges.
Erase(r) ==
    /\ At(r, "erase")
    /\ \A s \in Saves : req[r].saved[s] \subseteq topo[s]
    /\ topo' = [s \in Saves |-> Remaining(s, req[r].saved)]
    /\ runtime' = {row \in runtime : Nodes \in topo'[row.node]}
    /\ \E s \in FreshSaves : Goes(r, [Idle EXCEPT !.step = "insert", !.save = {s}])
    /\ interrupted' = FALSE
    /\ UNCHANGED <<version, env, resets, overlapped>>

\* Nodes refer to their networks, interfaces to both.
Needs(part) == IF part \in {Nodes, Interfaces} THEN 1..(part - 1) ELSE {}

\* Each of the other four.
Insert(r) ==
    /\ At(r, "insert")
    /\ \E s \in req[r].save :
          /\ Needs(req[r].part) \subseteq topo[s]
          /\ topo' = [topo EXCEPT ![s] = @ \cup {req[r].part}]
    /\ IF req[r].part = Edges THEN Ends(r) ELSE Goes(r, [req[r] EXCEPT !.part = @ + 1])
    /\ UNCHANGED <<version, env, runtime, resets, interrupted, overlapped>>

\* Mutant: a save that fails removes the topology it finds.
BadSaveFails(r) ==
    /\ \/ At(r, "erase") /\ \E s \in Saves : ~(req[r].saved[s] \subseteq topo[s])
       \/ At(r, "insert") /\ \E s \in req[r].save : ~(Needs(req[r].part) \subseteq topo[s])
    /\ Ends(r)
    /\ topo' = NoTopology
    /\ runtime' = {}
    /\ UNCHANGED <<version, env, resets, interrupted, overlapped>>

\* Rows it deletes, or refers to, are gone: DbUpdateException.
SaveFails(r) ==
    /\ \/ At(r, "erase") /\ \E s \in Saves : ~(req[r].saved[s] \subseteq topo[s])
       \/ At(r, "insert") /\ \E s \in req[r].save : ~(Needs(req[r].part) \subseteq topo[s])
    /\ Ends(r)
    /\ UNCHANGED <<topo, version, env, runtime, resets, interrupted, overlapped>>

-----------------------------------------------------------------------------
(* Publish                                                                 *)

ReadForPublish(r) ==
    /\ At(r, "idle") /\ WithNodes(topo) # {} /\ version < MaxVersion
    /\ Goes(r, [Idle EXCEPT !.step = "publish", !.version = version])
    /\ UNCHANGED <<topo, version, env, runtime, resets, interrupted, overlapped>>

Publish(r) ==
    /\ At(r, "publish")
    /\ version' = req[r].version + 1
    /\ Ends(r)
    /\ UNCHANGED <<topo, env, runtime, resets, interrupted, overlapped>>

-----------------------------------------------------------------------------
(* DeployGame for this team, RebuildTeam by an admin or by a player, and   *)
(* StopGame                                                                *)

\* The configuration is read.  DeployGame validates it, a rebuild by an admin ("deploy"
\* too) does not.
ReadConfig(r) ==
    /\ At(r, "idle") /\ version > 0
    /\ \E kind \in {"deploy", "reset"} :
          Goes(r, [Idle EXCEPT !.step = "read", !.kind = kind, !.version = version,
                                  !.nodes = WithNodes(topo)])
    /\ UNCHANGED <<topo, version, env, runtime, resets, interrupted, overlapped>>

ReadForStop(r) ==
    /\ At(r, "idle") /\ env.status # "none"
    /\ Goes(r, [Idle EXCEPT !.step = "destroy", !.kind = "stop", !.env = env, !.rows = runtime])
    /\ UNCHANGED <<topo, version, env, runtime, resets, interrupted, overlapped>>

Deploying(r) == req[r].step \in {"destroy", "count", "pending", "create"} /\ req[r].kind # "stop"

\* Mutant: one reset too many.
BadReadEnvironment(r) ==
    /\ At(r, "read")
    /\ req[r].kind = "reset" /\ env.status # "none" => env.resets <= MaxResetCount
    /\ Goes(r, [req[r] EXCEPT !.step = IF env.status = "none" THEN "pending" ELSE "destroy",
                              !.env = env, !.rows = runtime])
    /\ overlapped' = (overlapped \/ \E s \in Requests \ {r} : Deploying(s))
    /\ UNCHANGED <<topo, version, env, runtime, resets, interrupted>>

\* LoadTeamEnvironment; a reset by a player must be left.
ReadEnvironment(r) ==
    /\ At(r, "read")
    /\ req[r].kind = "reset" /\ env.status # "none" => env.resets < MaxResetCount
    /\ Goes(r, [req[r] EXCEPT !.step = IF env.status = "none" THEN "pending" ELSE "destroy",
                              !.env = env, !.rows = runtime])
    /\ overlapped' = (overlapped \/ \E s \in Requests \ {r} : Deploying(s))
    /\ UNCHANGED <<topo, version, env, runtime, resets, interrupted>>

\* Mutant: the runtime nodes stay, with their status.
BadDestroy(r) ==
    /\ At(r, "destroy") /\ req[r].rows \subseteq runtime
    /\ UNCHANGED runtime
    /\ env' = [env EXCEPT !.status = Column(@, req[r].env.status, "Stopped")]
    /\ IF req[r].kind = "stop" THEN Ends(r)
       ELSE Goes(r, [req[r] EXCEPT !.step = IF req[r].kind = "reset" THEN "count" ELSE "pending",
                                   !.env.status = "Stopped", !.rows = {},
                                   !.env.resets = IF req[r].kind = "reset" THEN @ ELSE 0])
    /\ UNCHANGED <<topo, version, resets, interrupted, overlapped>>

\* DestroyEnvironment.
Destroy(r) ==
    /\ At(r, "destroy") /\ req[r].rows \subseteq runtime
    /\ runtime' = runtime \ req[r].rows
    /\ env' = [env EXCEPT !.status = Column(@, req[r].env.status, "Stopped")]
    /\ IF req[r].kind = "stop" THEN Ends(r)
       ELSE Goes(r, [req[r] EXCEPT !.step = IF req[r].kind = "reset" THEN "count" ELSE "pending",
                                   !.env.status = "Stopped", !.rows = {},
                                   !.env.resets = IF req[r].kind = "reset" THEN @ ELSE 0])
    /\ UNCHANGED <<topo, version, resets, interrupted, overlapped>>

\* ResetCount++ of what was read.
Count(r) ==
    /\ At(r, "count")
    /\ env' = [env EXCEPT !.resets = req[r].env.resets + 1]
    /\ resets' = resets + 1
    /\ Goes(r, [req[r] EXCEPT !.step = "pending", !.kind = "deploy", !.env.resets = 0])
    /\ UNCHANGED <<topo, version, runtime, interrupted, overlapped>>

\* DeployTeam up to its first SaveChanges.  Without an environment it looks again: one
\* that has come is used as it is, and one that comes then makes its insert fail.
Prepare(r) ==
    /\ At(r, "pending")
    /\ \/ /\ req[r].env.status # "none" \/ env.status = "none"
          /\ env' = [env EXCEPT !.status = Column(@, req[r].env.status, "Pending"),
                                !.version = Column(@, req[r].env.version, req[r].version)]
          /\ Goes(r, [req[r] EXCEPT !.step = "create", !.env = NoEnv])
       \/ /\ req[r].env.status = "none" /\ env.status # "none"
          /\ env' = [env EXCEPT !.status = "Pending", !.version = req[r].version]
          /\ Goes(r, [req[r] EXCEPT !.step = "create", !.env = NoEnv, !.rows = runtime])
    /\ UNCHANGED <<topo, version, runtime, resets, interrupted, overlapped>>

\* Every container runs; the runtime nodes refer to nodes of the topology.
Create(r) ==
    /\ At(r, "create") /\ req[r].nodes \subseteq WithNodes(topo)
    /\ \E d \in FreshDeployments :
          runtime' = runtime \cup {[deployment |-> d, node |-> n, version |-> req[r].version]
                                     : n \in req[r].nodes}
    /\ env' = [env EXCEPT !.status = "Running"]
    /\ Ends(r)
    /\ UNCHANGED <<topo, version, resets, interrupted, overlapped>>

\* Some container does not: what there is is destroyed again.
CreateFails(r) ==
    /\ At(r, "create") /\ req[r].nodes # {} /\ req[r].nodes \subseteq WithNodes(topo)
    /\ req[r].rows \subseteq runtime
    /\ runtime' = runtime \ req[r].rows
    /\ env' = [env EXCEPT !.status = "Failed"]
    /\ Ends(r)
    /\ UNCHANGED <<topo, version, resets, interrupted, overlapped>>

-----------------------------------------------------------------------------
\* The client leaves, the server stops or an exception is thrown: no later step of the
\* request is taken.
Cut(r) ==
    /\ ~At(r, "idle")
    /\ Ends(r)
    /\ interrupted' = (interrupted \/ At(r, "insert"))
    /\ UNCHANGED <<topo, version, env, runtime, resets, overlapped>>

RequestNext(r) ==
    \/ ReadTopology(r) \/ Erase(r) \/ Insert(r) \/ SaveFails(r)
    \/ ReadForPublish(r) \/ Publish(r)
    \/ ReadConfig(r) \/ ReadForStop(r) \/ ReadEnvironment(r) \/ Destroy(r) \/ Count(r)
    \/ Prepare(r) \/ Create(r) \/ CreateFails(r)
    \/ Cut(r)

Next == \E r \in Requests : RequestNext(r)

Spec == Init /\ [][Next]_vars

-----------------------------------------------------------------------------
Statuses == {"none", "Pending", "Running", "Stopped", "Failed"}
Envs == [status : Statuses, version : 0..MaxVersion, resets : Nat]
RuntimeRows == [deployment : Deployments, node : Saves, version : 1..MaxVersion]

Requesting ==
    [step : {"idle", "erase", "insert", "publish", "read", "destroy", "count", "pending", "create"},
     kind : {"none", "deploy", "reset", "stop"}, saved : Topologies, save : SUBSET Saves,
     part : Parts, nodes : SUBSET Saves, version : 0..MaxVersion, env : Envs,
     rows : SUBSET RuntimeRows]

\* Types.  Runtime nodes refer to nodes there are, and carry a version only when their
\* environment was prepared.
TypeOK ==
    /\ topo \in Topologies
    /\ version \in 0..MaxVersion
    /\ env \in Envs /\ (env.version = 0 => runtime = {})
    /\ runtime \subseteq RuntimeRows /\ \A row \in runtime : Nodes \in topo[row.node]
    /\ resets \in Nat
    /\ interrupted \in BOOLEAN /\ overlapped \in BOOLEAN
    /\ req \in [Requests -> Requesting]

\* All that the save has inserted so far is there.
Completing(r) ==
    At(r, "insert") /\ \E s \in req[r].save : 1..(req[r].part - 1) \subseteq topo[s]

\* A save deletes the whole topology before it inserts the new one, and saves overlap: the
\* buttons stay enabled, and most of them save twice.  As long as none is cut short half-way
\* they do not lose the topology between them: it is whole, or some save is on its way to
\* make it whole.
TopologyNotLost ==
    \/ interrupted
    \/ \E s \in Saves : topo[s] = Parts
    \/ \E r \in Requests : Completing(r)

\* The workspace is a dictionary by node: two runtime nodes of one node make every request
\* for it fail.  Unless two deployments of the team were under way at once there is one for
\* each, and their flags are of the version the environment is shown with.
EnvironmentConsistent ==
    ~overlapped =>
        /\ \A a, b \in runtime : a.node = b.node => a = b
        /\ \A row \in runtime : row.version = env.version

\* ResetCount is read, checked and written much later, and can even fall; it stays within the
\* limit, and without overlap so do the resets.
ResetsWithinLimit ==
    /\ env.resets <= MaxResetCount
    /\ ~overlapped => resets <= MaxResetCount

\* Does not hold when resets overlap: players reset their environment MaxResetCount times
\* at most.
ResetsAreLimited == resets <= MaxResetCount
=============================================================================

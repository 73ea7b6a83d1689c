--------------------------- MODULE FleetScheduler ---------------------------
(***************************************************************************)
(* The worker-node fleet: FleetContainerManager places Docker containers   *)
(* on nodes through FleetManager, QueueManager assigns queued deployment   *)
(* targets, agents and LocalNodeMetricsService overwrite the counters, an  *)
(* administrator cancels targets and removes nodes.                        *)
(*                                                                         *)
(* A request r deploys one container and owns one DeploymentTarget; a kill *)
(* k destroys the container of Victim[k].  WorkerNode carries an xmin      *)
(* token: an Entity Framework context works on its own copies of the rows, *)
(* and a save that would write a copy somebody wrote over throws.  A copy  *)
(* is therefore [base, count, stale], base the counter as read.  Reading   *)
(* a row that the context already tracks does NOT refresh its copy.        *)
(*                                                                         *)
(* A node goes Offline here when MarkStaleNodesOfflineAsync writes so; the *)
(* capability bits, loads and IsSchedulable are not modelled: any node     *)
(* with room may be chosen, or none (the score threshold).                 *)
(***************************************************************************)
EXTENDS Naturals, FiniteSets

CONSTANTS Reqs, Kills,   \* creations and destructions, one-shot
          Nodes, Local,  \* the WorkerNode rows; the row of the server itself
          NoNode, NoOne, NoReport,
          Queue, Metrics,      \* QueueManager, LocalNodeMetricsService
          Capacity,      \* MaxContainers of each node
          Preferable,    \* the values PreferredNodeId takes in a request's config
          Victim         \* the request whose container a kill destroys

ASSUME FleetAssumption ==
    /\ IsFiniteSet(Reqs) /\ IsFiniteSet(Kills) /\ Local \in Nodes
    /\ NoNode \notin Nodes
    /\ Queue # NoOne /\ Metrics \notin {Queue, NoOne}
    /\ {Queue, Metrics, NoOne} \cap (Reqs \cup Kills) = {}
    /\ Reqs \cap Kills = {}
    /\ Capacity \in [Nodes -> Nat]
    /\ Preferable \in [Reqs -> SUBSET Nodes]
    /\ Victim \in [Kills -> Reqs]

VARIABLES
    row,      \* WorkerNodes: [status, count (CurrentContainers)]
    copy,     \* the copies each context tracks
    target,   \* DeploymentTargets: [status, node (TargetNodeId)]
    cont,     \* each container: [host: where it runs, node: its NodeId,
              \*                  stored: whether its row is in the database]
    lock,     \* who holds the distributed lock "fleet:scheduler"
    batch,    \* the pending targets ProcessPendingAsync read
    pc, kpc,  \* where each request and each kill is
    pick,     \* the node a request prefers, or the one it reserved
    found,    \* what the kill's destroy call found
    report,   \* the container count of a heartbeat under way
    blind     \* nodes whose counter may be below what they host (history)

vars == <<row, copy, target, cont, lock, batch, pc, kpc, pick, found, report, blind>>

Procs == Reqs \cup Kills \cup {Queue, Metrics}
Copies == [base : Nat, count : Nat, stale : BOOLEAN]
None == [n \in {} |-> n]

Live == {n \in Nodes : row[n].status # "Gone"}
Online == {n \in Nodes : row[n].status = "Online"}
Running(n) == {r \in Reqs : cont[r].host = n}

\* The deployments a node has to carry: those reserved on it and under way, and
\* whatever runs on it, the server's own containers without NodeId included.
Held(n) == {r \in Reqs : (pick[r] = n /\ pc[r] = "create") \/ cont[r].host = n}

Init ==
    /\ row = [n \in Nodes |-> [status |-> "Online", count |-> 0]]
    /\ copy = [p \in Procs |-> None]
    /\ target = [r \in Reqs |-> [status |-> "none", node |-> NoNode]]
    /\ cont = [r \in Reqs |-> [host |-> NoNode, node |-> NoNode, stored |-> FALSE]]
    /\ lock = NoOne
    /\ batch = {}
    /\ pc = [r \in Reqs |-> "idle"]
    /\ kpc = [k \in Kills |-> "idle"]
    /\ pick = [r \in Reqs |-> NoNode]
    /\ found = [k \in Kills |-> "none"]
    /\ report = [n \in Nodes |-> NoReport]
    /\ blind = {}

-----------------------------------------------------------------------------
(* Entity Framework contexts: copy[p] maps the rows p tracks to its copies *)

Tracked(p) == DOMAIN copy[p]

\* The copies of p after a query that returned the rows S.
Query(p, S) ==
    [n \in Tracked(p) \cup S |->
        IF n \in Tracked(p) THEN copy[p][n]
        ELSE [base |-> row[n].count, count |-> row[n].count, stale |-> FALSE]]

\* Of the copies c, those of the rows S.
Kept(c, S) == [n \in S \cap DOMAIN c |-> c[n]]

Modified(p) == {n \in Tracked(p) : copy[p][n].count # copy[p][n].base}
Fresh(p) == {n \in Tracked(p) : ~copy[p][n].stale}

\* The rows W were written: every other copy of them is behind, and p, whose
\* save was the last use of its context, keeps none.  A metrics refresh that
\* finds its row written over ends in a save that throws and is logged, which
\* comes to the same as dropping its copy here.
Behind(p, W) ==
    [q \in Procs |->
        IF q = p \/ (q = Metrics /\ Local \in W) THEN None
        ELSE [n \in Tracked(q) |-> [copy[q][n] EXCEPT !.stale = @ \/ n \in W]]]

\* SaveChanges writes the copies W of p.
Write(p, W) ==
    /\ row' = [n \in Nodes |->
                 IF n \in W THEN [row[n] EXCEPT !.count = copy[p][n].count]
                 ELSE row[n]]
    /\ copy' = Behind(p, W)

\* Somebody with a context of its own overwrites the row of n.
Overwrite(p, n, new) ==
    /\ row' = [row EXCEPT ![n] = new]
    /\ copy' = Behind(p, {n})

\* The copies of p after it saved one more reservation of n and lives on.
Saved(p, n) ==
    LET c == copy[p][n].count + 1
    IN  [copy[p] EXCEPT ![n] = [base |-> c, count |-> c, stale |-> FALSE]]

Drop(p) == copy' = [copy EXCEPT ![p] = None]

Reserved(c) == [c EXCEPT !.count = @ + 1]
Released(c) == [c EXCEPT !.count = IF @ = 0 THEN 0 ELSE @ - 1]

\* Mutant: a full node still has room.
BadCanHostAtLimit(c, n) == c.count <= Capacity[n]

CanHost(c, n) == c.count < Capacity[n]

-----------------------------------------------------------------------------
(* FleetContainerManager.CreateContainerAsync.  The server's own row is    *)
(* always among the online ones, so there is one to choose from.           *)

Go(r, s) == pc' = [pc EXCEPT ![r] = s]

\* GetOnlineNodesAsync: the copies read here are the ones used under the lock,
\* or, for a preferred node, by CreateOnPreferredNodeAsync.
Begin(r) ==
    /\ pc[r] = "idle"
    /\ \/ /\ copy' = [copy EXCEPT ![r] = Query(r, Online)]
          /\ Go(r, "select")
          /\ UNCHANGED pick
       \/ \E n \in Preferable[r] :
             /\ pick' = [pick EXCEPT ![r] = n]
             /\ copy' = [copy EXCEPT ![r] = Query(r, Online \cap {n})]
             /\ Go(r, "prefer")
    /\ UNCHANGED <<row, target, cont, lock, batch, kpc, found, report, blind>>

\* CreateOnPreferredNodeAsync: no lock, and the reservation stays in memory
\* until the final save.
Prefer(r) ==
    LET n == pick[r]
        mine == Query(r, {n} \cap Live)
    IN
    /\ pc[r] = "prefer"
    /\ n \in Live /\ row[n].status = "Online" /\ CanHost(mine[n], n)
    /\ copy' = [copy EXCEPT ![r] = [mine EXCEPT ![n] = Reserved(@)]]
    /\ blind' = blind \cup {n}
    /\ Go(r, "create")
    /\ UNCHANGED <<row, target, cont, lock, batch, kpc, pick, found, report>>

\* The preferred node cannot host the container: the target is saved as
\* Failed, except that a target that names a removed row cannot be inserted.
PreferFails(r) ==
    LET n == pick[r] IN
    /\ pc[r] = "prefer"
    /\ \/ n \notin Online
       \/ ~CanHost(Query(r, {n})[n], n)
    /\ target' = IF n \in Live
                 THEN [target EXCEPT ![r] = [status |-> "Failed", node |-> n]]
                 ELSE target
    /\ Drop(r)
    /\ Go(r, "done")
    /\ UNCHANGED <<row, cont, lock, batch, kpc, pick, found, report, blind>>

\* AcquireAsync, then SelectOptimalNodeAsync over the rows online now.  From
\* here on only the chosen row and, for the fallback, Local's are used.
Select(r) ==
    LET mine == Query(r, Online) IN
    /\ pc[r] = "select"
    /\ lock = NoOne
    /\ lock' = r
    /\ \E n \in {m \in Online : CanHost(mine[m], m)} \cup {NoNode} :
          /\ pick' = [pick EXCEPT ![r] = n]
          /\ copy' = [copy EXCEPT ![r] = Kept(mine, IF n = NoNode THEN {} ELSE {n, Local})]
    /\ Go(r, "place")
    /\ UNCHANGED <<row, target, cont, batch, kpc, found, report, blind>>

\* Ten seconds passed before the lock was free: the request fails.
LockTimeout(r) ==
    /\ pc[r] = "select"
    /\ lock # NoOne
    /\ Drop(r)
    /\ Go(r, "done")
    /\ UNCHANGED <<row, target, cont, lock, batch, kpc, pick, found, report, blind>>

Unlock(r) == lock = r /\ lock' = NoOne

Enqueue(r) ==
    /\ pc[r] = "place" /\ pick[r] = NoNode
    /\ target' = [target EXCEPT ![r] = [status |-> "Pending", node |-> NoNode]]
    /\ Unlock(r)
    /\ Go(r, "cancel")
    /\ UNCHANGED <<row, copy, cont, batch, kpc, pick, found, report, blind>>

\* GetNodeByIdAsync found no row: NotScheduled, without a target.
Vanished(r) ==
    /\ pc[r] = "place" /\ pick[r] \in Nodes \ Live
    /\ pick' = [pick EXCEPT ![r] = NoNode]
    /\ Unlock(r)
    /\ Go(r, "home")
    /\ UNCHANGED <<row, copy, target, cont, batch, kpc, found, report, blind>>

\* Mutant: last write wins, without the xmin token.
BadReserveLastWins(r) ==
    LET n == pick[r] IN
    /\ pc[r] = "place" /\ n \in Live
    /\ row' = [row EXCEPT ![n].count = copy[r][n].count + 1]
    /\ copy' = [Behind(r, {n}) EXCEPT ![r] = Saved(r, n)]
    /\ target' = [target EXCEPT ![r] = [status |-> "Running", node |-> n]]
    /\ Unlock(r)
    /\ Go(r, "create")
    /\ UNCHANGED <<cont, batch, kpc, pick, found, report, blind>>

\* ReserveCapacity and the target, in one save.
Reserve(r) ==
    LET n == pick[r] IN
    /\ pc[r] = "place" /\ n \in Live
    /\ ~copy[r][n].stale
    /\ row' = [row EXCEPT ![n].count = copy[r][n].count + 1]
    /\ copy' = [Behind(r, {n}) EXCEPT ![r] = Saved(r, n)]
    /\ target' = [target EXCEPT ![r] = [status |-> "Running", node |-> n]]
    /\ Unlock(r)
    /\ Go(r, "create")
    /\ UNCHANGED <<cont, batch, kpc, pick, found, report, blind>>

\* DbUpdateConcurrencyException: nothing catches it, the request fails.
Conflict(r) ==
    /\ pc[r] = "place" /\ pick[r] \in Live
    /\ copy[r][pick[r]].stale
    /\ pick' = [pick EXCEPT ![r] = NoNode]
    /\ Drop(r)
    /\ Unlock(r)
    /\ Go(r, "done")
    /\ UNCHANGED <<row, target, cont, batch, kpc, found, report, blind>>

\* The queued target is cancelled at once; only its status is written.
CancelQueued(r) ==
    /\ pc[r] = "cancel"
    /\ target' = [target EXCEPT ![r].status = "Cancelled"]
    /\ Drop(r)
    /\ Go(r, "home")
    /\ UNCHANGED <<row, cont, lock, batch, kpc, pick, found, report, blind>>

\* The server's own Docker, without a NodeId and without a reservation, though
\* LocalNodeMetricsService will count the container.  It may also fail, or
\* throw, before or after the container runs.
CreateHome(r) ==
    /\ pc[r] = "home"
    /\ \/ /\ cont' = [cont EXCEPT ![r].host = Local]
          /\ blind' = blind \cup {Local}
          /\ Go(r, "store") \/ Go(r, "done")
       \/ /\ Go(r, "done")
          /\ UNCHANGED <<cont, blind>>
    /\ Drop(r)
    /\ UNCHANGED <<row, target, lock, batch, kpc, pick, found, report>>

\* The local Docker or the agent started the container.
Created(r) ==
    LET n == pick[r] IN
    /\ pc[r] = "create"
    /\ cont' = [cont EXCEPT ![r].host = n, ![r].node = n]
    /\ Go(r, "save")
    /\ UNCHANGED <<row, copy, target, lock, batch, kpc, pick, found, report, blind>>

\* It answered with a failure: release the reservation, and fall back to the
\* local node when a scheduled remote node failed.
CreateFails(r) ==
    LET n == pick[r] IN
    /\ pc[r] = "create"
    /\ copy' = [copy EXCEPT ![r][n] = Released(@)]
    /\ Go(r, IF n # Local /\ target[r].status # "none" THEN "fallback" ELSE "save")
    /\ UNCHANGED <<row, target, cont, lock, batch, kpc, pick, found, report, blind>>

\* The HTTP call or the local Docker threw, before or after the container ran:
\* no handler catches it, a saved reservation and the Running target stay.
CreateThrows(r) ==
    LET n == pick[r] IN
    /\ pc[r] = "create"
    /\ \/ cont' = [cont EXCEPT ![r].host = n]
       \/ UNCHANGED cont
    /\ Drop(r)
    /\ Go(r, "done")
    /\ UNCHANGED <<row, target, lock, batch, kpc, pick, found, report, blind>>

\* TryCreateLocalFallback, with a reservation that is saved afterwards, unless
\* the local Docker throws: then the container it may have started is nobody's.
Fallback(r) ==
    LET mine == Query(r, {Local}) IN
    /\ pc[r] = "fallback"
    /\ \/ /\ row[Local].status = "Online" /\ CanHost(mine[Local], Local)
          /\ pick' = [pick EXCEPT ![r] = Local]
          /\ blind' = blind \cup {Local}
          /\ \/ /\ copy' = [copy EXCEPT ![r] = [mine EXCEPT ![Local] = Reserved(@)]]
                /\ cont' = [cont EXCEPT ![r].host = Local, ![r].node = Local]
                /\ Go(r, "saveMoved")
             \/ /\ cont' = [cont EXCEPT ![r].host = Local]
                /\ Drop(r)
                /\ Go(r, "done")
       \/ /\ Go(r, "save")
          /\ UNCHANGED <<copy, cont, pick, blind>>
       \/ /\ Go(r, "done")
          /\ Drop(r)
          /\ UNCHANGED <<cont, pick, blind>>
    /\ UNCHANGED <<row, target, lock, batch, kpc, found, report>>

\* Mutant: the fallback does not move the target to the local node.
BadOutcomeKeepsNode(r) ==
    [status |-> IF cont[r].host = NoNode THEN "Failed" ELSE "Completed",
     node |-> IF target[r].status = "none" THEN pick[r] ELSE target[r].node]

\* What the final save makes of r's target.
Outcome(r) ==
    [status |-> IF cont[r].host = NoNode THEN "Failed" ELSE "Completed",
     node |-> IF target[r].status = "none" \/ pc[r] = "saveMoved"
              THEN pick[r] ELSE target[r].node]

\* SaveFleetStateAsync: the copies that are behind are left out of the save.
Save(r) ==
    /\ pc[r] \in {"save", "saveMoved"}
    /\ target[r].status = "none" => pick[r] \in Live
    /\ Write(r, Modified(r) \cap Fresh(r))
    /\ target' = [target EXCEPT ![r] = Outcome(r)]
    /\ Go(r, IF cont[r].host = NoNode THEN "done" ELSE "store")
    /\ UNCHANGED <<cont, lock, batch, kpc, pick, found, report, blind>>

\* The target of a preferred deployment names a row that is gone by now.
SaveThrows(r) ==
    /\ pc[r] = "save"
    /\ target[r].status = "none" /\ pick[r] \notin Live
    /\ Drop(r)
    /\ Go(r, "done")
    /\ UNCHANGED <<row, target, cont, lock, batch, kpc, pick, found, report, blind>>

\* The caller inserts the container row, unless its node is gone by now.
Store(r) ==
    /\ pc[r] = "store"
    /\ cont' = [cont EXCEPT ![r].stored = cont[r].node \in Live \cup {NoNode}]
    /\ Go(r, "done")
    /\ UNCHANGED <<row, copy, target, lock, batch, kpc, pick, found, report, blind>>

-----------------------------------------------------------------------------
(* FleetContainerManager.DestroyContainerAsync, and the removal of the row *)

KGo(k, s) == kpc' = [kpc EXCEPT ![k] = s]

\* The caller has loaded the container; the node's row is read next.
ReadNode(k) ==
    LET c == cont[Victim[k]] IN
    /\ kpc[k] = "idle"
    /\ c.stored
    /\ copy' = [copy EXCEPT ![k] = Query(k, {c.node} \cap Live)]
    /\ KGo(k, "destroy")
    /\ UNCHANGED <<row, target, cont, lock, batch, pc, pick, found, report, blind>>

\* The machines the destroy call reaches: the node that was read, the server
\* itself without a NodeId, and none when the node's row is gone by now.
Asked(k) ==
    IF Tracked(k) = {} THEN {Local} ELSE Tracked(k) \cap Live

\* A container that is not there counts as destroyed.
Destroy(k) ==
    LET r == Victim[k]
        there == cont[r].host \in Asked(k)
    IN
    /\ kpc[k] = "destroy"
    /\ cont' = IF there THEN [cont EXCEPT ![r].host = NoNode] ELSE cont
    /\ found' = [found EXCEPT ![k] = IF there THEN "removed" ELSE "absent"]
    /\ KGo(k, "release")
    /\ UNCHANGED <<row, copy, target, lock, batch, pc, pick, report, blind>>

\* A failure is logged, never thrown; only the local Docker's one is noticed.
DestroyFails(k) ==
    /\ kpc[k] = "destroy"
    /\ found' = [found EXCEPT ![k] = IF Local \in Asked(k) THEN "failed" ELSE "absent"]
    /\ KGo(k, "release")
    /\ UNCHANGED <<row, copy, target, cont, lock, batch, pc, pick, report, blind>>

\* Mutant: without Math.Max(0, ...).
BadReleaseBelowZero(k) ==
    LET W == Fresh(k) IN
    /\ kpc[k] = "release"
    /\ row' = [n \in Nodes |-> IF n \in W THEN [row[n] EXCEPT !.count = @ - 1] ELSE row[n]]
    /\ copy' = Behind(k, W)
    /\ blind' = IF found[k] = "removed" THEN blind ELSE blind \cup W
    /\ cont' = [cont EXCEPT ![Victim[k]].stored = @ /\ found[k] = "failed"]
    /\ found' = [found EXCEPT ![k] = "none"]
    /\ KGo(k, "done")
    /\ UNCHANGED <<target, lock, batch, pc, pick, report>>

\* The counter is released whatever came of the destruction, unless its copy
\* is behind; then ContainerRepository removes the row of what was destroyed.
Release(k) ==
    LET W == {n \in Fresh(k) : copy[k][n].count > 0} IN
    /\ kpc[k] = "release"
    /\ row' = [n \in Nodes |-> IF n \in W THEN [row[n] EXCEPT !.count = @ - 1] ELSE row[n]]
    /\ copy' = Behind(k, W)
    /\ blind' = IF found[k] = "removed" THEN blind ELSE blind \cup W
    /\ cont' = [cont EXCEPT ![Victim[k]].stored = @ /\ found[k] = "failed"]
    /\ found' = [found EXCEPT ![k] = "none"]
    /\ KGo(k, "done")
    /\ UNCHANGED <<target, lock, batch, pc, pick, report>>

-----------------------------------------------------------------------------
(* QueueManager.ProcessPendingAsync                                        *)

\* Mutant: targets that are Running already are read as well.
BadReadPendingTakesRunning ==
    /\ lock = NoOne
    /\ batch' = {r \in Reqs : target[r].status \in {"Pending", "Running"}}
    /\ batch' # {}
    /\ lock' = Queue
    /\ copy' = [copy EXCEPT ![Queue] = Query(Queue, Online)]
    /\ UNCHANGED <<row, target, cont, pc, kpc, pick, found, report, blind>>

ReadPending ==
    /\ lock = NoOne
    /\ batch' = {r \in Reqs : target[r] = [status |-> "Pending", node |-> NoNode]}
    /\ batch' # {}
    /\ lock' = Queue
    /\ copy' = [copy EXCEPT ![Queue] = Query(Queue, Online)]
    /\ UNCHANGED <<row, target, cont, pc, kpc, pick, found, report, blind>>

\* Every target of the batch goes to a node that can still host it, or waits;
\* one save writes them all, or nothing when a copy is behind.
AssignPending ==
    /\ lock = Queue
    /\ \E f \in [batch -> Tracked(Queue) \cup {NoNode}] :
          LET more(n) == Cardinality({r \in batch : f[r] = n})
              used == {n \in Tracked(Queue) : more(n) > 0}
          IN
          /\ \A n \in used : copy[Queue][n].count + more(n) <= Capacity[n]
          /\ IF used \subseteq Fresh(Queue)
             THEN /\ row' = [n \in Nodes |-> IF n \in used
                                THEN [row[n] EXCEPT !.count = copy[Queue][n].count + more(n)]
                                ELSE row[n]]
                  /\ target' = [r \in Reqs |-> IF r \in batch /\ f[r] # NoNode
                                   THEN [status |-> "Running", node |-> f[r]]
                                   ELSE target[r]]
                  /\ copy' = Behind(Queue, used)
             ELSE /\ Drop(Queue)
                  /\ UNCHANGED <<row, target>>
    /\ batch' = {}
    /\ lock' = NoOne
    /\ UNCHANGED <<cont, pc, kpc, pick, found, report, blind>>

-----------------------------------------------------------------------------
(* NodesController, the health check, heartbeats and the local metrics     *)

\* The administrator cancels a deployment target; nothing else is told.
Cancel(r) ==
    /\ target[r].status \in {"Pending", "Running"}
    /\ target' = [target EXCEPT ![r].status = "Cancelled"]
    /\ UNCHANGED <<row, copy, cont, lock, batch, pc, kpc, pick, found, report, blind>>

\* One transaction: targets, containers, then the row itself.
Deregister(n) ==
    /\ n \in Live \ {Local}
    /\ target' = [r \in Reqs |->
         IF target[r].node # n THEN target[r]
         ELSE [status |-> IF target[r].status \in {"Pending", "Running"}
                          THEN "Cancelled" ELSE target[r].status,
               node |-> NoNode]]
    /\ cont' = [r \in Reqs |->
         IF cont[r].stored /\ cont[r].node = n THEN [cont[r] EXCEPT !.node = NoNode]
         ELSE cont[r]]
    /\ Overwrite(NoOne, n, [status |-> "Gone", count |-> 0])
    /\ report' = [report EXCEPT ![n] = NoReport]
    /\ blind' = blind \ {n}
    /\ UNCHANGED <<lock, batch, pc, kpc, pick, found>>

\* MarkStaleNodesOfflineAsync: no heartbeat for DefaultHeartbeatTimeout.
MarkOffline(n) ==
    /\ n \in Online \ {Local}
    /\ Overwrite(NoOne, n, [row[n] EXCEPT !.status = "Offline"])
    /\ UNCHANGED <<target, cont, lock, batch, pc, kpc, pick, found, report, blind>>

\* HeartbeatWorker counts the containers of its Docker...
Measure(n) ==
    /\ n \in Live \ {Local}
    /\ report[n] = NoReport
    /\ report' = [report EXCEPT ![n] = Cardinality(Running(n))]
    /\ UNCHANGED <<row, copy, target, cont, lock, batch, pc, kpc, pick, found, blind>>

\* ... and posts the count, which may get lost ...
Lose(n) ==
    /\ report[n] # NoReport
    /\ report' = [report EXCEPT ![n] = NoReport]
    /\ UNCHANGED <<row, copy, target, cont, lock, batch, pc, kpc, pick, found, blind>>

\* History: a counter overwritten with what covers the node's load makes up for
\* whatever happened to it before; one that does not is below it.
Counted(n, count) ==
    blind' = IF Cardinality(Held(n)) > count THEN blind \cup {n}
             ELSE IF Cardinality(Held(n)) > Capacity[n] THEN blind
             ELSE blind \ {n}

\* Mutant: a heartbeat may only raise the counter.
BadHeartbeatKeepsMax(n) ==
    /\ n \in Live /\ report[n] # NoReport
    /\ Overwrite(NoOne, n, [status |-> "Online",
                     count |-> IF report[n] > row[n].count THEN report[n] ELSE row[n].count])
    /\ report' = [report EXCEPT ![n] = NoReport]
    /\ UNCHANGED <<target, cont, lock, batch, pc, kpc, pick, found, blind>>

\* ... and overwrites the counter, reservations included.
Heartbeat(n) ==
    /\ n \in Live /\ report[n] # NoReport
    /\ report' = [report EXCEPT ![n] = NoReport]
    /\ Overwrite(NoOne, n, [status |-> "Online", count |-> report[n]])
    /\ Counted(n, report[n])
    /\ UNCHANGED <<target, cont, lock, batch, pc, kpc, pick, found>>

\* The container rows the database attributes to the server itself.
AtHome == {r \in Reqs : cont[r].stored /\ cont[r].node \in {NoNode, Local}}

\* RefreshLocalNodeMetricsAsync, every 30 s: it reads the server's row, counts
\* the containers of the database and assigns their number to its copy...
RefreshCount ==
    LET c == Cardinality(AtHome) IN
    /\ Tracked(Metrics) = {}
    /\ copy' = [copy EXCEPT ![Metrics] =
                   [n \in {Local} |-> [base |-> c, count |-> c, stale |-> FALSE]]]
    /\ UNCHANGED <<row, target, cont, lock, batch, pc, kpc, pick, found, report, blind>>

\* ... and saves the row, unless somebody wrote it meanwhile (see Behind).
RefreshSave ==
    LET c == copy[Metrics][Local].count IN
    /\ Tracked(Metrics) # {}
    /\ Overwrite(Metrics, Local, [status |-> "Online", count |-> c])
    /\ Counted(Local, c)
    /\ UNCHANGED <<target, cont, lock, batch, pc, kpc, pick, found, report>>

-----------------------------------------------------------------------------
Create(r) ==
    \/ Begin(r) \/ Prefer(r) \/ PreferFails(r) \/ Select(r) \/ LockTimeout(r)
    \/ Enqueue(r) \/ Vanished(r) \/ Reserve(r) \/ Conflict(r) \/ CancelQueued(r)
    \/ CreateHome(r) \/ Created(r) \/ CreateFails(r) \/ CreateThrows(r)
    \/ Fallback(r) \/ Save(r) \/ SaveThrows(r) \/ Store(r)

Kill(k) == ReadNode(k) \/ Destroy(k) \/ DestroyFails(k) \/ Release(k)

Node(n) ==
    \/ Deregister(n) \/ MarkOffline(n) \/ Measure(n) \/ Lose(n) \/ Heartbeat(n)

Next ==
    \/ \E r \in Reqs : Create(r) \/ Cancel(r)
    \/ \E k \in Kills : Kill(k)
    \/ \E n \in Nodes : Node(n)
    \/ ReadPending \/ AssignPending \/ RefreshCount \/ RefreshSave

Spec == Init /\ [][Next]_vars

\* Agents keep reporting and not every report is lost; to measure and to report
\* always change report.  Nothing is asked of
\* requests, destructions and the queue, which may stop anywhere.
FairSpec ==
    Spec /\ \A n \in Nodes \ {Local} : WF_report(Measure(n)) /\ SF_report(Heartbeat(n))

-----------------------------------------------------------------------------
(* Properties                                                              *)

TypeOK ==
    /\ row \in [Nodes -> [status : {"Online", "Offline", "Gone"}, count : Nat]]
    /\ \A p \in Procs :
          /\ Tracked(p) \subseteq Nodes
          /\ copy[p] \in [Tracked(p) -> Copies]
    /\ target \in [Reqs -> [status : {"none", "Pending", "Running", "Completed",
                                     "Failed", "Cancelled"},
                           node : Nodes \cup {NoNode}]]
    /\ cont \in [Reqs -> [host : Nodes \cup {NoNode}, node : Nodes \cup {NoNode},
                         stored : BOOLEAN]]
    /\ lock \in Reqs \cup {Queue, NoOne}
    /\ batch \subseteq Reqs
    /\ pc \in [Reqs -> {"idle", "prefer", "select", "place", "cancel", "home",
                       "create", "fallback", "save", "saveMoved", "store", "done"}]
    /\ kpc \in [Kills -> {"idle", "destroy", "release", "done"}]
    /\ pick \in [Reqs -> Nodes \cup {NoNode}]
    /\ found \in [Kills -> {"none", "removed", "absent", "failed"}]
    /\ report \in [Nodes -> Nat \cup {NoReport}]
    /\ blind \subseteq Nodes

\* A counter covers the deployments its node carries, whatever schedulers,
\* saves, destructions, the queue, heartbeats and deregistrations interleave,
\* from the last time it was overwritten with a count that covered them until
\* one of the causes recorded in blind occurs: a heartbeat or a metrics refresh
\* that had not seen a container or a reservation, a reservation kept in memory
\* until a later save (preferred node, local fallback), a container run on the
\* server's own Docker without a reservation, or a counter released for a
\* container that was not removed by that call.
CountersCover ==
    \A n \in Live \ blind : Cardinality(Held(n)) <= row[n].count

\* Such a node never carries more containers than MaxContainers, although
\* schedulers choose from copies that they read before they took the lock.
\* (A node that does, through one of those causes, is blind until a report
\* finds it within its capacity again.)
CapacityRespected ==
    \A n \in Live \ blind : Cardinality(Held(n)) <= Capacity[n]

\* A stored container whose deployment target is Completed is recorded on that
\* target's node, also when the node is deregistered while the agent works or
\* another node took over after a failure.
TargetsNameTheirNode ==
    \A r \in Reqs :
        cont[r].stored /\ target[r].status = "Completed" => target[r].node = cont[r].node

\* A target becomes Running on a node, booked by its scheduler or by the queue
\* from an old read, only while no worker carries a container for it.
PlacedNotBookedAgain ==
    [][\A r \in Reqs : target'[r].status = "Running" /\ target'[r] # target[r]
            => cont[r].node = NoNode /\ cont[r].host \in {NoNode, Local}]_vars

\* However many reservations were leaked by failed calls, races and dropped
\* saves, the counter of a worker comes to be what the worker really runs.
CountersConverge ==
    \A n \in Nodes \ {Local} :
        <>[](row[n].status = "Gone" \/ row[n].count = Cardinality(Running(n)))
=============================================================================

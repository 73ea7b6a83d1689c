------------------------ MODULE FleetSchedulerProofs ------------------------
(***************************************************************************)
(* FleetScheduler for any number of requests, destructions and nodes.      *)
(*                                                                         *)
(* That a counter covers what its node carries is not inductive: counters  *)
(* are written from copies.  So every copy that can still be saved covers  *)
(* it too (CopiesCover), the copy a scheduler chose by has room when it    *)
(* reserves, without the lock having been held when it was read            *)
(* (PlaceHasRoom), a destruction lowers a counter it still reads           *)
(* (KillReadsCounter), by a container that is still counted                *)
(* (RemovedStillCounted), for it asked the node that its victim was placed *)
(* on (KillFollowsVictim).                                                 *)
(*                                                                         *)
(* Control ties where a request is to its container and its target; the    *)
(* pending targets matter to the counters as well: what the queue assigns  *)
(* belongs to requests that hold nothing (LeftToQueue).                    *)
(*                                                                         *)
(* The last parts prove what the xmin token gives, that a copy which can   *)
(* still be saved was read from the row as it is, and that nothing is      *)
(* booked for a container that runs already.                               *)
(***************************************************************************)
EXTENDS FleetScheduler, FiniteSetTheorems, TLAPS

-----------------------------------------------------------------------------
(* The inductive invariant                                                 *)

\* Every context has a table of copies; the local metrics have one row only.
CopyTables == DOMAIN copy = Procs /\ Tracked(Metrics) \subseteq {Local}

\* MarkStaleNodesOfflineAsync and Deregister leave the server's own row alone.
LocalStays == Local \in Live

\* Before its container exists a request has none.
Preparing == {"idle", "prefer", "select", "place", "cancel", "home", "create", "fallback"}

\* A container runs and is recorded where its request decided, or it is the
\* server's own, and its row is stored last.
ContainerFollows(r) ==
    /\ cont[r].node \in {NoNode, pick[r]}
    /\ cont[r].host \in {NoNode, pick[r]} \/ (pick[r] = NoNode /\ cont[r].host = Local)
    /\ cont[r].stored => pc[r] = "done"
    /\ pc[r] \in Preparing => cont[r].host = NoNode /\ cont[r].node = NoNode
    /\ pc[r] \in {"save", "saveMoved"} => cont[r].node = cont[r].host
    /\ pc[r] \in {"cancel", "home"} => pick[r] = NoNode

\* What the queue reads, its owner gave up.
LeftToQueue(r) ==
    /\ target[r].status = "Pending" => pc[r] = "cancel"
    /\ r \in batch => pick[r] = NoNode /\ pc[r] \in {"cancel", "home", "store", "done"}

\* The node a request works on is its target's, unless the row was removed.
TargetFollows(r) ==
    /\ pc[r] \in {"idle", "prefer", "select", "place"} => target[r].status = "none"
    /\ target[r].status = "Completed" => pc[r] \in {"store", "done"}
    /\ pc[r] = "create" \/ (pc[r] = "save" /\ cont[r].host # NoNode) =>
          \/ target[r].status = "none"
          \/ pick[r] \notin Live
          \/ target[r].node = pick[r]
    /\ pc[r] = "store" /\ target[r].status = "Completed" =>
          \/ cont[r].node \notin Live \cup {NoNode}
          \/ target[r].node = cont[r].node
    /\ cont[r].stored /\ target[r].status = "Completed" => target[r].node = cont[r].node

\* The copy a scheduler chose by is the one it reserves on.
PlaceHasRoom ==
    \A r \in Reqs :
        pc[r] = "place" /\ pick[r] # NoNode =>
            pick[r] \in Tracked(r) /\ CanHost(copy[r][pick[r]], pick[r])

\* A destruction reads the row of the node that its victim was placed on.
KillFollowsVictim ==
    \A k \in Kills :
        kpc[k] \in {"destroy", "release"} \/ Tracked(k) # {} =>
            pc[Victim[k]] = "done" /\ Tracked(k) \subseteq {pick[Victim[k]]}

\* Until the release a destruction only reads.
KillReadsCounter ==
    \A k \in Kills : \A n \in Fresh(k) : copy[k][n].count = row[n].count

\* A copy that can still be saved covers what the node carries; only the local
\* metrics put a count of their own into theirs.
CopiesCover ==
    \A p \in Procs \ {Metrics} : \A n \in Fresh(p) \cap (Live \ blind) :
        Cardinality(Held(n)) <= copy[p][n].count

\* What was removed is still counted until the release is saved.
RemovedStillCounted ==
    \A k \in Kills : kpc[k] = "release" /\ found[k] = "removed" =>
        \A n \in Fresh(k) \cap (Live \ blind) :
            Cardinality(Held(n)) < copy[k][n].count

Control(r) == ContainerFollows(r) /\ LeftToQueue(r) /\ TargetFollows(r)

Counting ==
    /\ PlaceHasRoom
    /\ KillFollowsVictim
    /\ KillReadsCounter
    /\ CopiesCover
    /\ RemovedStillCounted
    /\ CountersCover
    /\ CapacityRespected

IInv == CopyTables /\ TypeOK /\ LocalStays /\ (\A r \in Reqs : Control(r)) /\ Counting

-----------------------------------------------------------------------------
(* Finite sets                                                             *)

LEMMA HeldFinite ==
    \A n : /\ IsFiniteSet(Held(n))
           /\ Cardinality(Held(n)) \in Nat
<1> TAKE n
<1>1. Held(n) \in SUBSET Reqs
  BY DEF Held
<1>2. IsFiniteSet(Held(n))
  BY <1>1, FS_Subset, FleetAssumption
<1> QED
  BY <1>2, FS_CardinalityType

LEMMA HeldFiniteNext ==
    \A n : /\ IsFiniteSet(Held(n)')
           /\ Cardinality(Held(n)') \in Nat
<1> TAKE n
<1>1. Held(n)' \in SUBSET Reqs
  BY DEF Held
<1>2. IsFiniteSet(Held(n)')
  BY <1>1, FS_Subset, FleetAssumption
<1> QED
  BY <1>2, FS_CardinalityType

LEMMA HeldShrinks ==
    ASSUME NEW n, Held(n)' \subseteq Held(n)
    PROVE  Cardinality(Held(n)') <= Cardinality(Held(n))
<1>1. Held(n)' \in SUBSET Held(n)
  OBVIOUS
<1> QED
  BY <1>1, HeldFinite, FS_Subset

LEMMA HeldGrows ==
    ASSUME NEW n, NEW r, Held(n)' \subseteq Held(n) \cup {r}
    PROVE  Cardinality(Held(n)') <= Cardinality(Held(n)) + 1
<1>1. /\ IsFiniteSet(Held(n) \cup {r})
      /\ Cardinality(Held(n) \cup {r}) <= Cardinality(Held(n)) + 1
  BY HeldFinite, FS_AddElement
<1>2. Held(n)' \in SUBSET (Held(n) \cup {r})
  OBVIOUS
<1>3. Cardinality(Held(n)') <= Cardinality(Held(n) \cup {r})
  BY <1>1, <1>2, FS_Subset
<1>4. Cardinality(Held(n) \cup {r}) \in Nat
  BY <1>1, FS_CardinalityType
<1> QED
  BY <1>1, <1>3, <1>4, HeldFinite, HeldFiniteNext

LEMMA HeldDrops ==
    ASSUME NEW n, NEW r \in Held(n), Held(n)' \subseteq Held(n) \ {r}
    PROVE  Cardinality(Held(n)') < Cardinality(Held(n))
<1>1. /\ IsFiniteSet(Held(n) \ {r})
      /\ Cardinality(Held(n) \ {r}) = Cardinality(Held(n)) - 1
  BY HeldFinite, FS_RemoveElement
<1>2. Held(n)' \in SUBSET (Held(n) \ {r})
  OBVIOUS
<1>3. Cardinality(Held(n)') <= Cardinality(Held(n) \ {r})
  BY <1>1, <1>2, FS_Subset
<1> QED
  BY <1>1, <1>3, HeldFinite, HeldFiniteNext

-----------------------------------------------------------------------------
(* Copies                                                                  *)

\* A table of copies as TypeOK has it.
Table(c) == DOMAIN c \subseteq Nodes /\ c \in [DOMAIN c -> Copies]

LEMMA Distinct ==
    /\ Queue \in Procs /\ Queue # Metrics /\ NoOne \notin Procs
    /\ Metrics \in Procs /\ Metrics \notin Reqs /\ Metrics \notin Kills
    /\ \A r \in Reqs : r \in Procs /\ r # Queue /\ r # Metrics /\ r \notin Kills
    /\ \A k \in Kills : k \in Procs /\ k # Queue /\ k # Metrics /\ k \notin Reqs
  BY FleetAssumption DEF Procs

\* A query leaves the copies alone that the context has, and reads the rest.
LEMMA QueryCopies ==
    ASSUME TypeOK, NEW p \in Procs, NEW S \in SUBSET Nodes
    PROVE  /\ Table(Query(p, S))
           /\ DOMAIN Query(p, S) = Tracked(p) \cup S
           /\ \A n \in Tracked(p) : Query(p, S)[n] = copy[p][n]
           /\ \A n \in S \ Tracked(p) :
                 Query(p, S)[n] = [base |-> row[n].count, count |-> row[n].count, stale |-> FALSE]
<1>1. DOMAIN Query(p, S) = Tracked(p) \cup S
  BY DEF Query
<1>2. \A n \in Tracked(p) : Query(p, S)[n] = copy[p][n] /\ copy[p][n] \in Copies
  BY DEF TypeOK, Query
<1>3. \A n \in S \ Tracked(p) :
         /\ Query(p, S)[n] = [base |-> row[n].count, count |-> row[n].count, stale |-> FALSE]
         /\ row[n].count \in Nat
  BY DEF TypeOK, Query
<1>4. \A n \in Tracked(p) \cup S : Query(p, S)[n] \in Copies
  <2>1. \A c \in Nat : [base |-> c, count |-> c, stale |-> FALSE] \in Copies
    BY DEF Copies
  <2> QED
    BY <1>2, <1>3, <2>1
<1>5. Tracked(p) \subseteq Nodes
  BY DEF TypeOK
<1>6. Query(p, S) \in [Tracked(p) \cup S -> Copies]
  BY <1>4 DEF Query
<1> QED
  BY <1>1, <1>2, <1>3, <1>5, <1>6 DEF Table

\* A write puts the other copies of the rows behind and changes no other; the
\* local metrics may lose theirs.
LEMMA BehindCopies ==
    ASSUME TypeOK, NEW p, NEW W
    PROVE  /\ DOMAIN Behind(p, W) = Procs
           /\ \A q \in Procs : q = p => Behind(p, W)[q] = None
           /\ \A q \in Procs \ {p} :
                 /\ Table(Behind(p, W)[q])
                 /\ DOMAIN Behind(p, W)[q] \subseteq Tracked(q)
                 /\ q # Metrics => DOMAIN Behind(p, W)[q] = Tracked(q)
                 /\ \A n \in DOMAIN Behind(p, W)[q] :
                       /\ Behind(p, W)[q][n].count = copy[q][n].count
                       /\ Behind(p, W)[q][n].stale <=> (copy[q][n].stale \/ n \in W)
<1>1. DOMAIN Behind(p, W) = Procs /\ \A q \in Procs : q = p => Behind(p, W)[q] = None
  BY DEF Behind
<1>2. ASSUME NEW q \in Procs \ {p}, ~(q = Metrics /\ Local \in W)
      PROVE  /\ Table(Behind(p, W)[q])
             /\ DOMAIN Behind(p, W)[q] = Tracked(q)
             /\ \A n \in Tracked(q) :
                   /\ Behind(p, W)[q][n].count = copy[q][n].count
                   /\ Behind(p, W)[q][n].stale <=> (copy[q][n].stale \/ n \in W)
  <2>1. Behind(p, W)[q] =
           [n \in Tracked(q) |-> [copy[q][n] EXCEPT !.stale = @ \/ n \in W]]
    BY <1>2 DEF Behind
  <2>2. /\ Tracked(q) \subseteq Nodes
        /\ \A n \in Tracked(q) : copy[q][n] \in Copies
    BY <1>2 DEF TypeOK
  <2>3. \A n \in Tracked(q) : [copy[q][n] EXCEPT !.stale = @ \/ n \in W] \in Copies
    BY <2>2 DEF Copies
  <2>4. Behind(p, W)[q] \in [Tracked(q) -> Copies]
    BY <2>1, <2>3
  <2>5. \A n \in Tracked(q) :
           /\ Behind(p, W)[q][n].count = copy[q][n].count
           /\ Behind(p, W)[q][n].stale <=> (copy[q][n].stale \/ n \in W)
    <3> TAKE n \in Tracked(q)
    <3>1. Behind(p, W)[q][n] = [copy[q][n] EXCEPT !.stale = @ \/ n \in W]
      BY <2>1
    <3>2. copy[q][n] \in Copies
      BY <2>2
    <3>3. DOMAIN copy[q][n] = {"base", "count", "stale"}
      BY <3>2 DEF Copies
    <3> QED
      BY <3>1, <3>3
  <2> QED
    BY <2>1, <2>2, <2>4, <2>5 DEF Table
<1>3. ASSUME Metrics \in Procs \ {p}, Local \in W
      PROVE  Behind(p, W)[Metrics] = None
  BY <1>3 DEF Behind
<1>4. Table(None) /\ DOMAIN None = {}
  BY DEF Table, None
<1> QED
  BY <1>1, <1>2, <1>3, <1>4

LEMMA QueryFresh ==
    ASSUME TypeOK, NEW p \in Procs, NEW S \in SUBSET Nodes, copy'[p] = Query(p, S),
           NEW n \in Fresh(p)'
    PROVE  \/ n \in Fresh(p) /\ copy'[p][n].count = copy[p][n].count
           \/ copy'[p][n].count = row[n].count
<1>1. n \in DOMAIN Query(p, S) /\ ~Query(p, S)[n].stale
  BY DEF Fresh, Tracked
<1>2. CASE n \in Tracked(p)
  <2>1. Query(p, S)[n] = copy[p][n]
    BY <1>2, QueryCopies
  <2> QED
    BY <1>1, <1>2, <2>1 DEF Fresh
<1>3. CASE n \notin Tracked(p)
  <2>1. n \in S
    BY <1>1, <1>3, QueryCopies
  <2>2. Query(p, S)[n] = [base |-> row[n].count, count |-> row[n].count, stale |-> FALSE]
    BY <1>3, <2>1, QueryCopies
  <2> QED
    BY <2>2
<1> QED
  BY <1>2, <1>3

\* The copies that are kept are as they were.
LEMMA KeptCopies ==
    ASSUME NEW c, Table(c), NEW S
    PROVE  /\ Table(Kept(c, S))
           /\ DOMAIN Kept(c, S) = S \cap DOMAIN c
           /\ \A n \in S \cap DOMAIN c : Kept(c, S)[n] = c[n]
  BY DEF Table, Kept

LEMMA KeptFresh ==
    ASSUME TypeOK, NEW p \in Procs, NEW S \in SUBSET Nodes, NEW T,
           copy'[p] = Kept(Query(p, S), T), NEW n \in Fresh(p)'
    PROVE  \/ n \in Fresh(p) /\ copy'[p][n].count = copy[p][n].count
           \/ copy'[p][n].count = row[n].count
<1>1. Table(Query(p, S))
  BY QueryCopies
<1>2. n \in DOMAIN Query(p, S) /\ copy'[p][n] = Query(p, S)[n] /\ ~copy'[p][n].stale
  <2>1. n \in DOMAIN Kept(Query(p, S), T) /\ ~copy'[p][n].stale
    BY DEF Fresh, Tracked
  <2>2. /\ DOMAIN Kept(Query(p, S), T) = T \cap DOMAIN Query(p, S)
        /\ \A m \in T \cap DOMAIN Query(p, S) : Kept(Query(p, S), T)[m] = Query(p, S)[m]
    BY DEF Kept
  <2> QED
    BY <2>1, <2>2
<1>3. CASE n \in Tracked(p)
  BY <1>2, <1>3, QueryCopies DEF Fresh
<1>4. CASE n \notin Tracked(p)
  <2>1. n \in S
    BY <1>2, <1>4, QueryCopies
  <2>2. Query(p, S)[n] = [base |-> row[n].count, count |-> row[n].count, stale |-> FALSE]
    BY <1>4, <2>1, QueryCopies
  <2> QED
    BY <1>2, <2>2
<1> QED
  BY <1>3, <1>4

LEMMA ReservedCopy == \A c \in Copies : Reserved(c) \in Copies /\ Released(c) \in Copies
  BY DEF Reserved, Released, Copies

LEMMA NoCopies == Table(None) /\ DOMAIN None = {}
  BY DEF Table, None

-----------------------------------------------------------------------------
(* How a step changes the copies                                           *)

\* The types of everything but the copies.
Plain ==
    /\ row \in [Nodes -> [status : {"Online", "Offline", "Gone"}, count : Nat]]
    /\ target \in [Reqs -> [status : {"none", "Pending", "Running", "Completed",
                                     "Failed", "Cancelled"},
                           node : Nodes \cup {NoNode}]]
    /\ cont \in [Reqs -> [host : Nodes \cup {NoNode}, node : Nodes \cup {NoNode},
                         stored : BOOLEAN]]
    /\ lock \in Reqs \cup {Queue, NoOne}
    /\ batch \subseteq Reqs
    /\ pc \in [Reqs -> {"idle", "prefer", "select", "place", "cancel", "home",
                       "create", "fallback", "save", "saveMoved", "store", "done"}]
    /\ kpc \in [Kills -> {"idle", "destroy", "release", "done"}]
    /\ pick \in [Reqs -> Nodes \cup {NoNode}]
    /\ found \in [Kills -> {"none", "removed", "absent", "failed"}]
    /\ report \in [Nodes -> Nat \cup {NoReport}]
    /\ blind \subseteq Nodes

Targets == [status : {"none", "Pending", "Running", "Completed", "Failed", "Cancelled"},
            node : Nodes \cup {NoNode}]

LEMMA CancelledTarget ==
    \A t \in Targets : [t EXCEPT !.status = "Cancelled"] \in Targets
  BY DEF Targets

Containers == [host : Nodes \cup {NoNode}, node : Nodes \cup {NoNode}, stored : BOOLEAN]

LEMMA ContainerFields ==
    \A c \in Containers : \A n \in Nodes \cup {NoNode} : \A b \in BOOLEAN :
        /\ [c EXCEPT !.host = n] \in Containers
        /\ [c EXCEPT !.node = n] \in Containers
        /\ [c EXCEPT !.stored = b] \in Containers
  BY DEF Containers

LEMMA TypeParts == TypeOK <=> Plain /\ \A p \in Procs : Table(copy[p])
  BY DEF TypeOK, Plain, Table, Tracked

LEMMA TypePartsNext == TypeOK' <=> Plain' /\ \A p \in Procs : Table(copy'[p])
  BY DEF TypeOK, Plain, Table, Tracked

\* Only p changes its copies, the others may fall behind.
Mine(p) ==
    /\ DOMAIN copy' = Procs
    /\ \A q \in Procs : Table(copy'[q])
    /\ \A q \in Procs \ {p} :
          /\ DOMAIN copy'[q] \subseteq Tracked(q)
          /\ q # Metrics => DOMAIN copy'[q] = Tracked(q)
          /\ \A n \in DOMAIN copy'[q] :
                /\ copy'[q][n].count = copy[q][n].count
                /\ copy[q][n].stale => copy'[q][n].stale

LEMMA KeepMine ==
    ASSUME TypeOK, CopyTables, UNCHANGED copy, NEW p
    PROVE  Mine(p)
  BY TypeParts DEF Mine, CopyTables, Tracked

LEMMA SetMine ==
    ASSUME TypeOK, CopyTables, NEW p \in Procs, NEW c, Table(c), copy' = [copy EXCEPT ![p] = c]
    PROVE  Mine(p) /\ copy'[p] = c
  BY TypeParts DEF Mine, CopyTables, Tracked

LEMMA DropMine ==
    ASSUME TypeOK, CopyTables, NEW p \in Procs, Drop(p)
    PROVE  Mine(p) /\ copy'[p] = None
  BY SetMine, NoCopies DEF Drop

LEMMA WriteMine ==
    ASSUME TypeOK, CopyTables, NEW p, NEW W, copy' = Behind(p, W)
    PROVE  /\ Mine(p)
           /\ p \in Procs => copy'[p] = None
           /\ \A q \in Procs \ {p} : \A n \in W : n \in DOMAIN copy'[q] => copy'[q][n].stale
<1>1. \A q \in Procs : Table(copy'[q])
  BY BehindCopies, NoCopies
<1>2. DOMAIN copy' = Procs /\ (p \in Procs => copy'[p] = None)
  BY BehindCopies
<1>3. \A q \in Procs \ {p} :
         /\ DOMAIN copy'[q] \subseteq Tracked(q)
         /\ q # Metrics => DOMAIN copy'[q] = Tracked(q)
         /\ \A n \in DOMAIN copy'[q] :
               /\ copy'[q][n].count = copy[q][n].count
               /\ copy'[q][n].stale <=> (copy[q][n].stale \/ n \in W)
  BY BehindCopies
<1> QED
  BY <1>1, <1>2, <1>3 DEF Mine

-----------------------------------------------------------------------------
(* What a step keeps                                                       *)

LEMMA FreshOfOthers ==
    ASSUME NEW p, Mine(p), NEW q \in Procs \ {p}, NEW n \in Fresh(q)'
    PROVE  n \in Fresh(q) /\ copy'[q][n].count = copy[q][n].count
  BY DEF Mine, Fresh, Tracked

\* Destructions go on reading the counters while nobody writes what they read.
LEMMA KillReadsKept ==
    ASSUME KillReadsCounter, NEW p, p \notin Kills, Mine(p),
           \A k \in Kills : \A n \in Fresh(k)' : row'[n].count = row[n].count
    PROVE  KillReadsCounter'
  BY FreshOfOthers, Distinct DEF KillReadsCounter

\* What the counters promise of one node.
CoveredAt(n) ==
    /\ Cardinality(Held(n)) <= row[n].count
    /\ Cardinality(Held(n)) <= Capacity[n]
    /\ \A p \in Procs \ {Metrics} : n \in Fresh(p) => Cardinality(Held(n)) <= copy[p][n].count

LEMMA CoverParts ==
    (\A n \in Live \ blind : CoveredAt(n)) <=>
        CountersCover /\ CapacityRespected /\ CopiesCover
  BY DEF CoveredAt, CountersCover, CapacityRespected, CopiesCover

LEMMA CoverPartsNext ==
    (\A n \in Live' \ blind' : CoveredAt(n)') <=>
        CountersCover' /\ CapacityRespected' /\ CopiesCover'
  BY DEF CoveredAt, CountersCover, CapacityRespected, CopiesCover

\* A step of p keeps the counter of a node covering if it adds no deployment to
\* the node and lowers neither the counter nor a copy below what is held.
LEMMA CoverKeptAt ==
    ASSUME IInv, NEW p, Mine(p), NEW n \in Live \ blind,
           Held(n)' \subseteq Held(n),
           row'[n].count = row[n].count \/ Cardinality(Held(n)') <= row'[n].count,
           p \in Procs \ {Metrics} /\ n \in Fresh(p)' =>
              \/ n \in Fresh(p) /\ copy'[p][n].count = copy[p][n].count
              \/ copy'[p][n].count = row[n].count
              \/ Cardinality(Held(n)') <= copy'[p][n].count
    PROVE  CoveredAt(n)'
<1>1. CoveredAt(n) /\ n \in Nodes
  BY CoverParts DEF IInv, Counting, Live
<1>2. /\ Cardinality(Held(n)') <= Cardinality(Held(n))
      /\ Cardinality(Held(n)) \in Nat
      /\ Cardinality(Held(n)') \in Nat
      /\ row[n].count \in Nat
      /\ Capacity[n] \in Nat
  BY <1>1, HeldShrinks, HeldFinite, HeldFiniteNext, FleetAssumption DEF IInv, TypeOK
<1>3. /\ Cardinality(Held(n)') <= row'[n].count
      /\ Cardinality(Held(n)') <= Capacity[n]
  BY <1>1, <1>2 DEF CoveredAt
<1>4. ASSUME NEW q \in Procs \ {Metrics}, n \in Fresh(q)'
      PROVE  Cardinality(Held(n)') <= copy'[q][n].count
  <2>1. CASE n \in Fresh(q) /\ copy'[q][n].count = copy[q][n].count
    <3>1. Cardinality(Held(n)) <= copy[q][n].count
      BY <1>1, <2>1 DEF CoveredAt
    <3>2. copy[q][n].count \in Nat
      BY <2>1 DEF IInv, TypeOK, Fresh, Copies
    <3> QED
      BY <1>2, <2>1, <3>1, <3>2
  <2>2. CASE copy'[q][n].count = row[n].count
    BY <1>1, <1>2, <2>2 DEF CoveredAt
  <2> QED
    BY <1>4, <2>1, <2>2, FreshOfOthers
<1> QED
  BY <1>3, <1>4 DEF CoveredAt

LEMMA CoverKept ==
    ASSUME IInv, NEW p, Mine(p),
           Live' \ blind' \subseteq Live \ blind,
           \A n \in Live' \ blind' : Held(n)' \subseteq Held(n),
           \A n \in Live' \ blind' :
              \/ row'[n].count = row[n].count
              \/ Cardinality(Held(n)') <= row'[n].count,
           p \in Procs \ {Metrics} => \A n \in Fresh(p)' \cap (Live' \ blind') :
              \/ n \in Fresh(p) /\ copy'[p][n].count = copy[p][n].count
              \/ copy'[p][n].count = row[n].count
              \/ Cardinality(Held(n)') <= copy'[p][n].count
    PROVE  CountersCover' /\ CapacityRespected' /\ CopiesCover'
<1>1. ASSUME NEW n \in Live' \ blind' PROVE CoveredAt(n)'
  BY CoverKeptAt
<1> QED
  BY <1>1, CoverPartsNext

\* Removals stay uncounted while neither their destruction nor, upwards, the
\* load of the node moves.
LEMMA RemovedKept ==
    ASSUME IInv, NEW p, Mine(p),
           \A n \in Live' \ blind' :
              \/ n \in Live \ blind /\ Held(n)' \subseteq Held(n)
              \/ \A k \in Kills : n \notin Fresh(k)',
           \A k \in Kills : kpc'[k] = "release" /\ found'[k] = "removed" =>
              \/ k # p /\ kpc[k] = "release" /\ found[k] = "removed"
              \/ \A n \in Fresh(k)' \cap (Live' \ blind') :
                    Cardinality(Held(n)') < copy'[k][n].count
    PROVE  RemovedStillCounted'
<1> SUFFICES ASSUME NEW k \in Kills, kpc'[k] = "release", found'[k] = "removed",
                    NEW n \in Fresh(k)' \cap (Live' \ blind'),
                    k # p, kpc[k] = "release", found[k] = "removed"
             PROVE  Cardinality(Held(n)') < copy'[k][n].count
  BY DEF RemovedStillCounted
<1>1. n \in Fresh(k) /\ copy'[k][n].count = copy[k][n].count
  BY FreshOfOthers, Distinct
<1>2. n \in Live \ blind /\ Held(n)' \subseteq Held(n) /\ Cardinality(Held(n)) < copy[k][n].count
  BY <1>1 DEF IInv, Counting, RemovedStillCounted
<1>3. Cardinality(Held(n)') <= Cardinality(Held(n))
  BY <1>2, HeldShrinks
<1>4. copy[k][n].count \in Nat
  BY <1>1, Distinct DEF IInv, TypeOK, Fresh, Copies
<1> QED
  BY <1>1, <1>2, <1>3, <1>4, HeldFinite, HeldFiniteNext

-----------------------------------------------------------------------------
(* A step of a request, under way as it is, concerns no other request      *)

RequestStep(r) ==
    /\ Mine(r)
    /\ \A q \in Reqs \ {r} :
          pc'[q] = pc[q] /\ pick'[q] = pick[q] /\ cont'[q] = cont[q] /\ target'[q] = target[q]
    /\ Live' = Live
    /\ blind \subseteq blind'
    /\ pc[r] # "done"
    /\ UNCHANGED <<batch, kpc, found>>

\* A scheduler that goes to reserve has a copy with room.
HasRoom(r) ==
    pc[r] = "place" /\ pick[r] # NoNode =>
        pick[r] \in Tracked(r) /\ CanHost(copy[r][pick[r]], pick[r])

LEMMA HeldKept ==
    ASSUME NEW r \in Reqs, RequestStep(r), NEW n, r \in Held(n)' => r \in Held(n)
    PROVE  Held(n)' \subseteq Held(n)
  BY DEF RequestStep, Held

LEMMA RequestKeeps ==
    ASSUME IInv, NEW r \in Reqs, RequestStep(r), Plain', Control(r)', HasRoom(r)'
    PROVE  /\ CopyTables'
           /\ TypeOK'
           /\ LocalStays'
           /\ \A q \in Reqs : Control(q)'
           /\ PlaceHasRoom'
           /\ KillFollowsVictim'
<1>1. CopyTables' /\ TypeOK'
  BY TypePartsNext, Distinct DEF IInv, CopyTables, RequestStep, Mine, Tracked
<1>2. LocalStays'
  BY DEF IInv, LocalStays, RequestStep
<1>3. ASSUME NEW q \in Reqs \ {r} PROVE Control(q)'
  BY <1>3 DEF IInv, Control, ContainerFollows, LeftToQueue, TargetFollows, RequestStep
<1>4. ASSUME NEW q \in Reqs \ {r}, pc'[q] = "place", pick'[q] # NoNode
      PROVE  pick'[q] \in Tracked(q)' /\ CanHost(copy'[q][pick'[q]], pick'[q])
  <2>1. pick[q] \in Tracked(q) /\ CanHost(copy[q][pick[q]], pick[q])
    BY <1>4 DEF IInv, Counting, PlaceHasRoom, RequestStep
  <2>2. q \in Procs \ {r} /\ q # Metrics
    BY Distinct
  <2>3. DOMAIN copy'[q] = Tracked(q) /\ copy'[q][pick[q]].count = copy[q][pick[q]].count
    BY <2>1, <2>2 DEF RequestStep, Mine
  <2>4. pick'[q] = pick[q]
    BY DEF RequestStep
  <2> QED
    BY <2>1, <2>3, <2>4 DEF Tracked, CanHost
<1>5. PlaceHasRoom'
  BY <1>4 DEF PlaceHasRoom, HasRoom
<1>6. ASSUME NEW k \in Kills, kpc'[k] \in {"destroy", "release"} \/ Tracked(k)' # {}
      PROVE  pc'[Victim[k]] = "done" /\ Tracked(k)' \subseteq {pick'[Victim[k]]}
  <2>0. Tracked(k)' = Tracked(k) /\ kpc'[k] = kpc[k]
    BY Distinct DEF RequestStep, Mine, Tracked
  <2>1. pc[Victim[k]] = "done" /\ Tracked(k) \subseteq {pick[Victim[k]]}
    BY <1>6, <2>0 DEF IInv, Counting, KillFollowsVictim
  <2>2. Victim[k] \in Reqs \ {r} /\ k \in Procs \ {r}
    BY <2>1, Distinct, FleetAssumption DEF RequestStep
  <2> QED
    BY <2>0, <2>1, <2>2 DEF RequestStep
<1>7. KillFollowsVictim'
  BY <1>6 DEF KillFollowsVictim
<1> QED
  BY <1>1, <1>2, <1>3, <1>5, <1>7

\* ... and counts as before if it writes no row and adds no deployment that
\* must be covered.
LEMMA RequestCounts ==
    ASSUME IInv, NEW r \in Reqs, RequestStep(r), Plain', Control(r)', HasRoom(r)',
           UNCHANGED row,
           \A n \in Live \ blind' : r \in Held(n)' => r \in Held(n),
           \A n \in Fresh(r)' \cap (Live \ blind') :
              \/ n \in Fresh(r) /\ copy'[r][n].count = copy[r][n].count
              \/ copy'[r][n].count = row[n].count
              \/ Cardinality(Held(n)') <= copy'[r][n].count
    PROVE  IInv'
<1>1. Mine(r) /\ Live' = Live /\ Live' \ blind' \subseteq Live \ blind
  BY DEF RequestStep
<1>2. r \notin Kills
  BY Distinct
<1>6. \A n \in Live \ blind' : Held(n)' \subseteq Held(n)
  BY HeldKept
<1>3. CountersCover' /\ CapacityRespected' /\ CopiesCover'
  BY <1>1, <1>6, CoverKept
<1>4. RemovedStillCounted'
  BY <1>1, <1>2, <1>6, RemovedKept DEF RequestStep
<1>5. KillReadsCounter'
  BY <1>1, <1>2, KillReadsKept DEF IInv, Counting
<1> QED
  BY <1>3, <1>4, <1>5, RequestKeeps DEF IInv, Counting

-----------------------------------------------------------------------------
(* FleetContainerManager.CreateContainerAsync                              *)

LEMMA BeginIInv == ASSUME IInv, NEW r \in Reqs, Begin(r) PROVE IInv'
<1>1. r \in Procs
  BY Distinct
<1>2. PICK S \in SUBSET Nodes : copy' = [copy EXCEPT ![r] = Query(r, S)]
  <2>1. Online \in SUBSET Nodes /\ \A n : Online \cap {n} \in SUBSET Nodes
    BY DEF Online
  <2> QED
    BY <2>1 DEF Begin
<1>3. Mine(r) /\ copy'[r] = Query(r, S)
  BY <1>1, <1>2, QueryCopies, SetMine DEF IInv
<1>4. /\ pick' \in [Reqs -> Nodes \cup {NoNode}]
      /\ \A q \in Reqs \ {r} : pick'[q] = pick[q]
  <2>1. pick' = pick \/ \E n \in Preferable[r] : pick' = [pick EXCEPT ![r] = n]
    BY DEF Begin
  <2>2. Preferable[r] \subseteq Nodes
    BY FleetAssumption
  <2> QED
    BY <2>1, <2>2 DEF IInv, TypeOK
<1>5. pc[r] = "idle" /\ \E s \in {"select", "prefer"} : pc' = [pc EXCEPT ![r] = s]
  BY DEF Begin, Go
<1>6. Plain'
  BY <1>4, <1>5 DEF IInv, TypeOK, Plain, Begin
<1>7. RequestStep(r)
  BY <1>3, <1>4, <1>5 DEF IInv, TypeOK, RequestStep, Begin, Live
<1>8. Control(r)' /\ HasRoom(r)'
  BY <1>4, <1>5 DEF IInv, TypeOK, Control, ContainerFollows, LeftToQueue, TargetFollows, HasRoom,
     Preparing, Begin, Live
<1>9. \A n \in Nodes : r \notin Held(n)'
  BY <1>5, FleetAssumption
  DEF IInv, TypeOK, Control, ContainerFollows, Preparing, Begin, Held
<1> QED
  BY <1>1, <1>3, <1>6, <1>7, <1>8, <1>9, QueryFresh, RequestCounts DEF IInv, Begin, Live

LEMMA PreferIInv == ASSUME IInv, NEW r \in Reqs, Prefer(r) PROVE IInv'
<1> DEFINE n == pick[r]
           mine == Query(r, {n} \cap Live)
           c == [mine EXCEPT ![n] = Reserved(@)]
<1>1. r \in Procs /\ n \in Nodes /\ {n} \cap Live \in SUBSET Nodes /\ n \in DOMAIN mine
  <2>1. r \in Procs /\ n \in Nodes /\ n \in Live /\ {n} \cap Live \in SUBSET Nodes
    BY Distinct DEF Prefer, Live
  <2>2. DOMAIN mine = Tracked(r) \cup ({n} \cap Live)
    BY DEF Query
  <2> QED
    BY <2>1, <2>2
<1>2. /\ Table(mine)
      /\ DOMAIN mine = Tracked(r) \cup ({n} \cap Live)
      /\ \A m \in Tracked(r) : mine[m] = copy[r][m]
  BY <1>1, QueryCopies DEF IInv
<1>3. Table(c) /\ DOMAIN c = DOMAIN mine /\ \A m \in DOMAIN mine \ {n} : c[m] = mine[m]
  BY <1>1, <1>2, ReservedCopy DEF Table
<1>4. copy' = [copy EXCEPT ![r] = c]
  BY DEF Prefer
<1> HIDE DEF c
<1>5. Mine(r) /\ copy'[r] = c
  BY <1>1, <1>3, <1>4, SetMine DEF IInv
<1>6. Plain'
  BY <1>1 DEF IInv, TypeOK, Plain, Prefer, Go
<1>7. RequestStep(r)
  BY <1>5 DEF IInv, TypeOK, RequestStep, Prefer, Go, Live
<1>8. Control(r)' /\ HasRoom(r)'
  BY DEF IInv, TypeOK, Control, ContainerFollows, LeftToQueue, TargetFollows, HasRoom,
     Preparing, Prefer, Go, Live
<1>9. \A m \in Live \ blind' : r \notin Held(m)'
  BY FleetAssumption DEF IInv, TypeOK, Control, ContainerFollows, Preparing, Prefer, Go, Held, Live
<1>10. ASSUME NEW m \in Fresh(r)' \cap (Live \ blind')
       PROVE  \/ m \in Fresh(r) /\ copy'[r][m].count = copy[r][m].count
              \/ copy'[r][m].count = row[m].count
  <2>1. m # n /\ m \in DOMAIN c
    BY <1>5 DEF Prefer, Fresh, Tracked
  <2>2. m \in Tracked(r) /\ mine[m] = copy[r][m]
    BY <1>2, <1>3, <2>1
  <2>3. c[m] = copy[r][m]
    BY <1>3, <2>1, <2>2
  <2> QED
    BY <1>5, <2>2, <2>3 DEF Fresh, Tracked
<1> QED
  BY <1>6, <1>7, <1>8, <1>9, <1>10, RequestCounts DEF Prefer

LEMMA PreferFailsIInv == ASSUME IInv, NEW r \in Reqs, PreferFails(r) PROVE IInv'
<1>1. r \in Procs
  BY Distinct
<1>2. Mine(r) /\ copy'[r] = None
  BY <1>1, DropMine DEF IInv, PreferFails
<1>3. Plain'
  BY DEF IInv, TypeOK, Plain, PreferFails, Go
<1>4. RequestStep(r)
  BY <1>2 DEF IInv, TypeOK, RequestStep, PreferFails, Go, Live
<1>5. Control(r)' /\ HasRoom(r)'
  BY DEF IInv, TypeOK, Control, ContainerFollows, LeftToQueue, TargetFollows, HasRoom,
     Preparing, PreferFails, Go, Live
<1>6. \A n \in Nodes : r \in Held(n)' => r \in Held(n)
  BY DEF IInv, TypeOK, PreferFails, Go, Held
<1> QED
  BY <1>2, <1>3, <1>4, <1>5, <1>6, NoCopies, RequestCounts DEF PreferFails, Live, Fresh, Tracked

LEMMA SelectIInv == ASSUME IInv, NEW r \in Reqs, Select(r) PROVE IInv'
<1>1. Online \in SUBSET Nodes /\ r \in Procs
  BY Distinct DEF Online
<1> DEFINE mine == Query(r, Online)
           used(n) == IF n = NoNode THEN {} ELSE {n, Local}
<1>2. PICK n \in {m \in Online : CanHost(mine[m], m)} \cup {NoNode} :
         /\ pick' = [pick EXCEPT ![r] = n]
         /\ copy' = [copy EXCEPT ![r] = Kept(mine, used(n))]
  BY DEF Select
<1>3. Table(mine) /\ DOMAIN mine = Tracked(r) \cup Online
  BY <1>1, QueryCopies DEF IInv
<1>4. Table(Kept(mine, used(n)))
  BY <1>3, KeptCopies
<1>5. Mine(r) /\ copy'[r] = Kept(mine, used(n))
  BY <1>1, <1>2, <1>4, SetMine DEF IInv
<1>6. \A m \in Fresh(r)' :
          \/ m \in Fresh(r) /\ copy'[r][m].count = copy[r][m].count
          \/ copy'[r][m].count = row[m].count
  BY <1>1, <1>5, KeptFresh DEF IInv
<1> HIDE DEF mine
<1>7. n \in Nodes \cup {NoNode} /\ pick'[r] = n
  BY <1>2 DEF IInv, TypeOK, Online
<1>8. Plain'
  BY <1>2, <1>7 DEF IInv, TypeOK, Plain, Select, Go
<1>9. RequestStep(r)
  BY <1>2, <1>5 DEF IInv, TypeOK, RequestStep, Select, Go, Live
<1>10. Control(r)'
  BY <1>2 DEF IInv, TypeOK, Control, ContainerFollows, LeftToQueue, TargetFollows,
     Preparing, Select, Go, Live
<1>11. HasRoom(r)'
  <2> SUFFICES ASSUME n # NoNode
               PROVE  n \in DOMAIN copy'[r] /\ CanHost(copy'[r][n], n)
    BY <1>7 DEF HasRoom, Tracked, CanHost
  <2>1. n \in Online /\ CanHost(mine[n], n)
    BY <1>2
  <2>2. n \in used(n) \cap DOMAIN mine
    BY <1>3, <2>1
  <2>3. n \in DOMAIN copy'[r] /\ copy'[r][n] = mine[n]
    BY <1>5, <2>2 DEF Kept
  <2> QED
    BY <2>1, <2>3
<1>12. \A m \in Nodes : r \notin Held(m)'
  BY FleetAssumption DEF IInv, TypeOK, Control, ContainerFollows, Preparing, Select, Go, Held
<1> QED
  BY <1>8, <1>9, <1>10, <1>11, <1>12, <1>6, RequestCounts DEF IInv, Select, Live

LEMMA LockTimeoutIInv == ASSUME IInv, NEW r \in Reqs, LockTimeout(r) PROVE IInv'
<1>1. r \in Procs
  BY Distinct
<1>2. Mine(r) /\ copy'[r] = None
  BY <1>1, DropMine DEF IInv, LockTimeout
<1>3. Plain'
  BY DEF IInv, TypeOK, Plain, LockTimeout, Go
<1>4. RequestStep(r)
  BY <1>2 DEF IInv, TypeOK, RequestStep, LockTimeout, Go, Live
<1>5. Control(r)' /\ HasRoom(r)'
  BY DEF IInv, TypeOK, Control, ContainerFollows, LeftToQueue, TargetFollows, HasRoom,
     Preparing, LockTimeout, Go, Live
<1>6. \A n \in Nodes : r \in Held(n)' => r \in Held(n)
  BY DEF IInv, TypeOK, LockTimeout, Go, Held
<1> QED
  BY <1>2, <1>3, <1>4, <1>5, <1>6, NoCopies, RequestCounts DEF LockTimeout, Live, Fresh, Tracked

LEMMA EnqueueIInv == ASSUME IInv, NEW r \in Reqs, Enqueue(r) PROVE IInv'
<1>1. Mine(r)
  BY KeepMine DEF IInv, Enqueue
<1>2. Plain'
  BY DEF IInv, TypeOK, Plain, Enqueue, Unlock, Go
<1>3. RequestStep(r)
  BY <1>1 DEF IInv, TypeOK, RequestStep, Enqueue, Go, Live
<1>4. Control(r)' /\ HasRoom(r)'
  BY DEF IInv, TypeOK, Control, ContainerFollows, LeftToQueue, TargetFollows, HasRoom,
     Preparing, Enqueue, Go, Live
<1>5. \A n \in Nodes : r \in Held(n)' => r \in Held(n)
  BY DEF IInv, TypeOK, Enqueue, Go, Held
<1> QED
  BY <1>2, <1>3, <1>4, <1>5, RequestCounts DEF Enqueue, Live, Fresh, Tracked

LEMMA VanishedIInv == ASSUME IInv, NEW r \in Reqs, Vanished(r) PROVE IInv'
<1>1. Mine(r)
  BY KeepMine DEF IInv, Vanished
<1>2. Plain'
  BY DEF IInv, TypeOK, Plain, Vanished, Unlock, Go
<1>3. RequestStep(r)
  BY <1>1 DEF IInv, TypeOK, RequestStep, Vanished, Go, Live
<1>4. Control(r)' /\ HasRoom(r)'
  BY DEF IInv, TypeOK, Control, ContainerFollows, LeftToQueue, TargetFollows, HasRoom,
     Preparing, Vanished, Go, Live
<1>5. \A n \in Nodes : r \notin Held(n)'
  BY FleetAssumption
  DEF IInv, TypeOK, Control, ContainerFollows, Preparing, Vanished, Go, Held
<1> QED
  BY <1>2, <1>3, <1>4, <1>5, RequestCounts DEF Vanished, Live, Fresh, Tracked

LEMMA ConflictIInv == ASSUME IInv, NEW r \in Reqs, Conflict(r) PROVE IInv'
<1>1. r \in Procs
  BY Distinct
<1>2. Mine(r) /\ copy'[r] = None
  BY <1>1, DropMine DEF IInv, Conflict
<1>3. Plain'
  BY DEF IInv, TypeOK, Plain, Conflict, Unlock, Go
<1>4. RequestStep(r)
  BY <1>2 DEF IInv, TypeOK, RequestStep, Conflict, Go, Live
<1>5. Control(r)' /\ HasRoom(r)'
  BY DEF IInv, TypeOK, Control, ContainerFollows, LeftToQueue, TargetFollows, HasRoom,
     Preparing, Conflict, Go, Live
<1>6. \A n \in Nodes : r \notin Held(n)'
  BY FleetAssumption
  DEF IInv, TypeOK, Control, ContainerFollows, Preparing, Conflict, Go, Held
<1> QED
  BY <1>2, <1>3, <1>4, <1>5, <1>6, NoCopies, RequestCounts DEF Conflict, Live, Fresh, Tracked

LEMMA CancelQueuedIInv == ASSUME IInv, NEW r \in Reqs, CancelQueued(r) PROVE IInv'
<1>1. r \in Procs
  BY Distinct
<1>2. Mine(r) /\ copy'[r] = None
  BY <1>1, DropMine DEF IInv, CancelQueued
<1>3. Plain'
  <2>1. target[r] \in Targets
    BY DEF IInv, TypeOK, Targets
  <2>2. target' = [target EXCEPT ![r] = [target[r] EXCEPT !.status = "Cancelled"]]
    BY DEF CancelQueued
  <2>3. target' \in [Reqs -> Targets]
    BY <2>1, <2>2, CancelledTarget DEF IInv, TypeOK, Targets
  <2> QED
    BY <2>3 DEF IInv, TypeOK, Plain, Targets, CancelQueued, Go
<1>4. RequestStep(r)
  BY <1>2 DEF IInv, TypeOK, RequestStep, CancelQueued, Go, Live
<1>5. Control(r)' /\ HasRoom(r)'
  BY DEF IInv, TypeOK, Control, ContainerFollows, LeftToQueue, TargetFollows, HasRoom,
     Preparing, CancelQueued, Go, Live
<1>6. \A n \in Nodes : r \in Held(n)' => r \in Held(n)
  BY DEF IInv, TypeOK, CancelQueued, Go, Held
<1> QED
  BY <1>2, <1>3, <1>4, <1>5, <1>6, NoCopies, RequestCounts DEF CancelQueued, Live, Fresh, Tracked

LEMMA ReserveIInv == ASSUME IInv, NEW r \in Reqs, Reserve(r) PROVE IInv'
<1>0. PICK n \in Nodes : n = pick[r] /\ n \in Live
  BY DEF Reserve, Live
<1> DEFINE mine == Saved(r, n)
<1>1. r \in Procs /\ n # NoNode /\ n \in Tracked(r) /\ n \in Fresh(r)
  BY <1>0, Distinct, FleetAssumption DEF IInv, Counting, PlaceHasRoom, Reserve, Fresh
<1>2. copy[r][n].count \in Nat /\ copy[r][n].count < Capacity[n] /\ Capacity[n] \in Nat
  <2>1. CanHost(copy[r][n], n)
    BY <1>0, <1>1 DEF IInv, Counting, PlaceHasRoom, Reserve
  <2>2. copy[r][n] \in Copies
    BY <1>1 DEF IInv, TypeOK
  <2> QED
    BY <2>1, <2>2, FleetAssumption DEF CanHost, Copies
<1>3. /\ Table(mine) /\ DOMAIN mine = Tracked(r)
      /\ mine[n].count = copy[r][n].count + 1
      /\ \A m \in Tracked(r) \ {n} : mine[m] = copy[r][m]
  <2> DEFINE c == copy[r][n].count + 1
             x == [base |-> c, count |-> c, stale |-> FALSE]
  <2>1. mine = [copy[r] EXCEPT ![n] = x]
    BY DEF Saved
  <2>2. x \in Copies /\ x.count = c
    BY <1>2 DEF Copies
  <2>3. Table(copy[r])
    BY <1>1, TypeParts DEF IInv
  <2> HIDE DEF x, mine
  <2> QED
    BY <1>1, <2>1, <2>2, <2>3 DEF Table, Tracked
<1> HIDE DEF mine
<1>4. /\ Mine(r) /\ copy'[r] = mine
      /\ \A q \in Procs \ {r} : n \in DOMAIN copy'[q] => copy'[q][n].stale
  <2>1. copy' = [Behind(r, {n}) EXCEPT ![r] = mine]
    BY <1>0 DEF Reserve, mine
  <2>2. DOMAIN copy' = Procs /\ copy'[r] = mine
    BY <1>1, <2>1, BehindCopies DEF IInv
  <2>3. \A q \in Procs \ {r} : copy'[q] = Behind(r, {n})[q]
    BY <2>1, BehindCopies DEF IInv
  <2>4. \A q \in Procs \ {r} :
           /\ Table(copy'[q])
           /\ DOMAIN copy'[q] \subseteq Tracked(q)
           /\ q # Metrics => DOMAIN copy'[q] = Tracked(q)
           /\ \A m \in DOMAIN copy'[q] :
                 /\ copy'[q][m].count = copy[q][m].count
                 /\ copy'[q][m].stale <=> (copy[q][m].stale \/ m \in {n})
    BY <2>3, BehindCopies DEF IInv
  <2> QED
    BY <1>3, <2>2, <2>4 DEF Mine
<1>5. /\ row' \in [Nodes -> [status : {"Online", "Offline", "Gone"}, count : Nat]]
      /\ row'[n].count = copy[r][n].count + 1
      /\ \A m \in Nodes \ {n} : row'[m] = row[m]
      /\ Live' = Live
  <2>1. row' = [row EXCEPT ![n] = [row[n] EXCEPT !.count = copy[r][n].count + 1]]
    BY <1>0 DEF Reserve
  <2> QED
    BY <1>2, <2>1 DEF IInv, TypeOK, Live
<1>6. Plain'
  BY <1>0, <1>5 DEF IInv, TypeOK, Plain, Reserve, Unlock, Go
<1>7. RequestStep(r)
  BY <1>4, <1>5 DEF IInv, TypeOK, RequestStep, Reserve, Go
<1>8. Control(r)' /\ HasRoom(r)'
  <2>1. /\ pc[r] = "place" /\ pc'[r] = "create"
        /\ target'[r] = [status |-> "Running", node |-> n]
        /\ UNCHANGED <<cont, pick, batch>>
    BY <1>0 DEF IInv, TypeOK, Reserve, Go
  <2> QED
    BY <1>0, <2>1 DEF IInv, Control, ContainerFollows, LeftToQueue, TargetFollows, HasRoom,
       Preparing
<1>9. /\ Held(n)' \subseteq Held(n) \cup {r}
      /\ \A m \in Nodes \ {n} : Held(m)' \subseteq Held(m)
  BY <1>0 DEF IInv, TypeOK, Reserve, Go, Held
<1>10. ASSUME n \notin blind PROVE CoveredAt(n)'
  <2>1. Cardinality(Held(n)') <= Cardinality(Held(n)) + 1
    BY <1>9, HeldGrows
  <2>2. Cardinality(Held(n)) <= copy[r][n].count
    BY <1>0, <1>1, <1>10, Distinct DEF IInv, Counting, CopiesCover
  <2>3. Cardinality(Held(n)') <= copy[r][n].count + 1
    BY <1>2, <2>1, <2>2, HeldFinite, HeldFiniteNext
  <2>4. Cardinality(Held(n)') <= Capacity[n]
    BY <1>2, <2>3, HeldFiniteNext
  <2>5. \A q \in Procs : n \in Fresh(q)' => q = r
    BY <1>4 DEF Mine, Fresh, Tracked
  <2> QED
    BY <1>3, <1>4, <1>5, <2>3, <2>4, <2>5 DEF CoveredAt
<1>11. ASSUME NEW m \in Live \ blind, m # n PROVE CoveredAt(m)'
  <2>1. m \in Fresh(r)' => m \in Fresh(r) /\ copy'[r][m].count = copy[r][m].count
    BY <1>3, <1>4, <1>11 DEF Fresh, Tracked
  <2>2. m \in Nodes
    BY DEF Live
  <2> QED
    BY <1>4, <1>5, <1>9, <1>11, <2>1, <2>2, CoverKeptAt
<1>12. CountersCover' /\ CapacityRespected' /\ CopiesCover'
  BY <1>5, <1>10, <1>11, CoverPartsNext DEF Reserve
<1>13. \A k \in Kills : n \notin Fresh(k)'
  BY <1>1, <1>4, Distinct DEF Mine, Fresh, Tracked
<1>14. RemovedStillCounted'
  BY <1>4, <1>5, <1>9, <1>13, RemovedKept, Distinct DEF Reserve, Live
<1>15. KillReadsCounter'
  <2>1. \A k \in Kills : \A m \in Fresh(k)' : m \in Nodes \ {n}
    BY <1>4, <1>13, Distinct DEF Mine, Table, Fresh, Tracked
  <2> QED
    BY <1>4, <1>5, <2>1, KillReadsKept, Distinct DEF IInv, Counting
<1> QED
  BY <1>6, <1>7, <1>8, <1>12, <1>14, <1>15, RequestKeeps DEF IInv, Counting

\* What a step made of the container of r, with the types it keeps.
LEMMA SetContainer ==
    ASSUME TypeOK, NEW r \in Reqs, NEW c \in Containers, cont' = [cont EXCEPT ![r] = c]
    PROVE  /\ cont' \in [Reqs -> Containers]
           /\ cont'[r] = c
           /\ \A q \in Reqs \ {r} : cont'[q] = cont[q]
  BY DEF TypeOK, Containers

LEMMA CreateHomeIInv == ASSUME IInv, NEW r \in Reqs, CreateHome(r) PROVE IInv'
<1>1. r \in Procs
  BY Distinct
<1>2. Mine(r) /\ copy'[r] = None
  BY <1>1, DropMine DEF IInv, CreateHome
<1>3. PICK c \in {cont[r], [cont[r] EXCEPT !.host = Local]} :
         /\ cont' = [cont EXCEPT ![r] = c]
         /\ c # cont[r] => Local \in blind'
  <2>1. cont' = cont \/ cont' = [cont EXCEPT ![r] = [cont[r] EXCEPT !.host = Local]]
    BY DEF CreateHome
  <2>2. cont = [cont EXCEPT ![r] = cont[r]]
    BY DEF IInv, TypeOK
  <2>3. cont' # cont => Local \in blind'
    BY DEF CreateHome
  <2> QED
    BY <2>1, <2>2, <2>3
<1>4. c \in Containers /\ c.host \in {cont[r].host, Local} /\ c.node = cont[r].node
         /\ c.stored = cont[r].stored
  <2>1. cont[r] \in Containers
    BY DEF IInv, TypeOK, Containers
  <2> QED
    BY <1>3, <2>1, ContainerFields, FleetAssumption DEF Containers
<1>5. cont' \in [Reqs -> Containers] /\ cont'[r] = c /\ \A q \in Reqs \ {r} : cont'[q] = cont[q]
  BY <1>3, <1>4, SetContainer DEF IInv
<1>6. /\ pc[r] = "home" /\ \E s \in {"store", "done"} : pc' = [pc EXCEPT ![r] = s]
       /\ blind \subseteq blind' /\ blind' \subseteq blind \cup {Local}
       /\ UNCHANGED <<row, target, lock, batch, kpc, pick, found, report>>
  BY DEF CreateHome, Go
<1>7. Plain'
  BY <1>5, <1>6, FleetAssumption DEF IInv, TypeOK, Plain, Containers
<1>8. RequestStep(r)
  BY <1>2, <1>5, <1>6 DEF IInv, TypeOK, RequestStep, Live
<1>9. Control(r)' /\ HasRoom(r)'
  <2>1. pc[r] = "home" /\ pc'[r] \in {"store", "done"} /\ UNCHANGED <<row, target, pick, batch>>
    BY <1>6 DEF IInv, TypeOK
  <2> QED
    BY <1>4, <1>5, <2>1 DEF IInv, Control, ContainerFollows, LeftToQueue, TargetFollows, HasRoom,
       Preparing, Live
<1>10. \A n \in Live \ blind' : r \notin Held(n)'
  <2>1. cont[r].host = NoNode /\ pc'[r] # "create"
    BY <1>6 DEF IInv, TypeOK, Control, ContainerFollows, Preparing
  <2>2. cont'[r].host = NoNode \/ (cont'[r].host = Local /\ Local \in blind')
    BY <1>3, <1>4, <1>5, <2>1
  <2> QED
    BY <2>1, <2>2, FleetAssumption DEF Held, Live
<1> QED
  BY <1>2, <1>7, <1>8, <1>9, <1>10, <1>6, NoCopies, RequestCounts DEF Fresh, Tracked

LEMMA CreatedIInv == ASSUME IInv, NEW r \in Reqs, Created(r) PROVE IInv'
<1>1. Mine(r)
  BY KeepMine DEF IInv, Created
<1> DEFINE c == [[cont[r] EXCEPT !.host = pick[r]] EXCEPT !.node = pick[r]]
<1>2. c \in Containers /\ c.host = pick[r] /\ c.node = pick[r] /\ c.stored = cont[r].stored
  <2>1. cont[r] \in Containers /\ pick[r] \in Nodes \cup {NoNode}
    BY DEF IInv, TypeOK, Containers
  <2> QED
    BY <2>1, ContainerFields DEF Containers
<1>3. cont' = [cont EXCEPT ![r] = c]
  BY DEF IInv, TypeOK, Created
<1> HIDE DEF c
<1>4. cont' \in [Reqs -> Containers] /\ cont'[r] = c /\ \A q \in Reqs \ {r} : cont'[q] = cont[q]
  BY <1>2, <1>3, SetContainer DEF IInv
<1>5. Plain'
  BY <1>4 DEF IInv, TypeOK, Plain, Containers, Created, Go
<1>6. RequestStep(r)
  BY <1>1, <1>4 DEF IInv, TypeOK, RequestStep, Created, Go, Live
<1>7. Control(r)' /\ HasRoom(r)'
  <2>1. pc[r] = "create" /\ pc'[r] = "save" /\ UNCHANGED <<row, target, pick, batch>>
    BY DEF IInv, TypeOK, Created, Go
  <2> QED
    BY <1>2, <1>4, <2>1 DEF IInv, Control, ContainerFollows, LeftToQueue, TargetFollows, HasRoom,
       Preparing, Live
<1>8. \A n \in Nodes : r \in Held(n)' => r \in Held(n)
  BY <1>2, <1>4 DEF IInv, TypeOK, Created, Go, Held
<1> QED
  BY <1>5, <1>6, <1>7, <1>8, RequestCounts DEF Created, Live, Fresh, Tracked

LEMMA CreateThrowsIInv == ASSUME IInv, NEW r \in Reqs, CreateThrows(r) PROVE IInv'
<1>1. r \in Procs
  BY Distinct
<1>2. Mine(r) /\ copy'[r] = None
  BY <1>1, DropMine DEF IInv, CreateThrows
<1>3. PICK c \in {cont[r], [cont[r] EXCEPT !.host = pick[r]]} : cont' = [cont EXCEPT ![r] = c]
  <2>1. cont' = cont \/ cont' = [cont EXCEPT ![r] = [cont[r] EXCEPT !.host = pick[r]]]
    BY DEF CreateThrows
  <2>2. cont = [cont EXCEPT ![r] = cont[r]]
    BY DEF IInv, TypeOK
  <2> QED
    BY <2>1, <2>2
<1>4. c \in Containers /\ c.host \in {cont[r].host, pick[r]} /\ c.node = cont[r].node
         /\ c.stored = cont[r].stored
  <2>1. cont[r] \in Containers /\ pick[r] \in Nodes \cup {NoNode}
    BY DEF IInv, TypeOK, Containers
  <2> QED
    BY <1>3, <2>1, ContainerFields DEF Containers
<1>5. cont' \in [Reqs -> Containers] /\ cont'[r] = c /\ \A q \in Reqs \ {r} : cont'[q] = cont[q]
  BY <1>3, <1>4, SetContainer DEF IInv
<1>6. Plain'
  BY <1>5 DEF IInv, TypeOK, Plain, Containers, CreateThrows, Go
<1>7. RequestStep(r)
  BY <1>2, <1>5 DEF IInv, TypeOK, RequestStep, CreateThrows, Go, Live
<1>8. Control(r)' /\ HasRoom(r)'
  <2>1. pc[r] = "create" /\ pc'[r] = "done" /\ UNCHANGED <<row, target, pick, batch>>
    BY DEF IInv, TypeOK, CreateThrows, Go
  <2> QED
    BY <1>4, <1>5, <2>1 DEF IInv, Control, ContainerFollows, LeftToQueue, TargetFollows, HasRoom,
       Preparing, Live
<1>9. \A n \in Nodes : r \in Held(n)' => r \in Held(n)
  BY <1>4, <1>5 DEF IInv, TypeOK, CreateThrows, Go, Held
<1> QED
  BY <1>2, <1>6, <1>7, <1>8, <1>9, NoCopies, RequestCounts DEF CreateThrows, Live, Fresh, Tracked

\* The copy is released before the row is, and so is the deployment.
LEMMA CreateFailsIInv == ASSUME IInv, NEW r \in Reqs, CreateFails(r) PROVE IInv'
<1>1. PICK n \in Nodes \cup {NoNode} : n = pick[r]
  BY DEF IInv, TypeOK
<1> DEFINE c == [copy[r] EXCEPT ![n] = Released(copy[r][n])]
<1>2. r \in Procs /\ Table(copy[r])
  BY Distinct, TypeParts DEF IInv
<1>3. /\ Table(c) /\ DOMAIN c = Tracked(r)
      /\ n \in Tracked(r) => c[n] = Released(copy[r][n]) /\ copy[r][n] \in Copies
      /\ \A m \in Tracked(r) \ {n} : c[m] = copy[r][m]
  BY <1>2, ReservedCopy DEF Table, Tracked
<1>4. copy' = [copy EXCEPT ![r] = c]
  BY <1>1 DEF CreateFails
<1> HIDE DEF c
<1>5. Mine(r) /\ copy'[r] = c
  BY <1>2, <1>3, <1>4, SetMine DEF IInv
<1>6. Plain'
  BY DEF IInv, TypeOK, Plain, CreateFails, Go
<1>7. RequestStep(r)
  BY <1>5 DEF IInv, TypeOK, RequestStep, CreateFails, Go, Live
<1>8. Control(r)' /\ HasRoom(r)'
  <2>1. /\ pc[r] = "create" /\ pc'[r] \in {"fallback", "save"}
        /\ UNCHANGED <<row, target, cont, pick, batch>>
    BY DEF IInv, TypeOK, CreateFails, Go
  <2> QED
    BY <2>1 DEF IInv, Control, ContainerFollows, LeftToQueue, TargetFollows, HasRoom,
       Preparing, Live
<1>9. \A m \in Nodes : r \notin Held(m)'
  BY FleetAssumption
  DEF IInv, TypeOK, Control, ContainerFollows, Preparing, CreateFails, Go, Held
<1>10. ASSUME NEW m \in Fresh(r)' \cap (Live \ blind')
       PROVE  \/ m \in Fresh(r) /\ copy'[r][m].count = copy[r][m].count
              \/ Cardinality(Held(m)') <= copy'[r][m].count
  <2>1. m \in Tracked(r) /\ m \in Nodes /\ m \in Live \ blind
    BY <1>3, <1>5 DEF Fresh, Tracked, Live, CreateFails
  <2>2. CASE m # n
    BY <1>3, <1>5, <2>1, <2>2 DEF Fresh, Tracked
  <2>3. CASE m = n
    <3>1. c[n] = Released(copy[r][n]) /\ copy[r][n] \in Copies
      BY <1>3, <2>1, <2>3
    <3>2. n \in Fresh(r) /\ copy[r][n].count \in Nat
      BY <1>5, <2>1, <2>3, <3>1 DEF Fresh, Tracked, Released, Copies
    <3>3. Cardinality(Held(n)) <= copy[r][n].count
      BY <1>2, <2>1, <2>3, <3>2, Distinct DEF IInv, Counting, CopiesCover
    <3>4. r \in Held(n) /\ Held(n)' \subseteq Held(n) \ {r}
      BY <1>1, <1>7, <1>9, <2>1, <2>3 DEF RequestStep, Held, CreateFails
    <3>5. Cardinality(Held(n)') < Cardinality(Held(n))
      BY <3>4, HeldDrops
    <3>6. c[n].count = copy[r][n].count - 1
      BY <3>1, <3>2, <3>3, <3>5, HeldFinite, HeldFiniteNext DEF Released, Copies
    <3> QED
      BY <1>5, <2>3, <3>2, <3>3, <3>5, <3>6, HeldFinite, HeldFiniteNext
  <2> QED
    BY <2>2, <2>3
<1> QED
  BY <1>6, <1>7, <1>8, <1>9, <1>10, RequestCounts DEF CreateFails, Live

LEMMA FallbackIInv == ASSUME IInv, NEW r \in Reqs, Fallback(r) PROVE IInv'
<1>1. r \in Procs /\ Local \in Nodes
  BY Distinct, FleetAssumption
<1>2. CASE pc'[r] = "saveMoved"
  <2> DEFINE mine == Query(r, {Local})
             c == [mine EXCEPT ![Local] = Reserved(mine[Local])]
             d == [[cont[r] EXCEPT !.host = Local] EXCEPT !.node = Local]
  <2>1. /\ copy' = [copy EXCEPT ![r] = c]
        /\ cont' = [cont EXCEPT ![r] = d]
        /\ pick' = [pick EXCEPT ![r] = Local]
        /\ blind' = blind \cup {Local}
        /\ pc[r] = "fallback" /\ pc' = [pc EXCEPT ![r] = "saveMoved"]
    BY <1>2 DEF IInv, TypeOK, Fallback, Go
  <2>2. /\ Table(mine) /\ DOMAIN mine = Tracked(r) \cup {Local}
        /\ \A m \in Tracked(r) : mine[m] = copy[r][m]
    BY <1>1, QueryCopies DEF IInv
  <2>3. Table(c) /\ DOMAIN c = DOMAIN mine /\ \A m \in DOMAIN mine \ {Local} : c[m] = mine[m]
    BY <2>2, ReservedCopy DEF Table
  <2>4. d \in Containers /\ d.host = Local /\ d.node = Local /\ d.stored = cont[r].stored
    <3>1. cont[r] \in Containers
      BY DEF IInv, TypeOK, Containers
    <3> QED
      BY <1>1, <3>1, ContainerFields DEF Containers
  <2> HIDE DEF c, d
  <2>5. Mine(r) /\ copy'[r] = c
    BY <1>1, <2>1, <2>3, SetMine DEF IInv
  <2>6. cont' \in [Reqs -> Containers] /\ cont'[r] = d /\ \A q \in Reqs \ {r} : cont'[q] = cont[q]
    BY <2>1, <2>4, SetContainer DEF IInv
  <2>7. Plain'
    BY <1>1, <2>1, <2>6 DEF IInv, TypeOK, Plain, Containers, Fallback
  <2>8. RequestStep(r)
    BY <2>1, <2>5, <2>6 DEF IInv, TypeOK, RequestStep, Fallback, Live
  <2>9. Control(r)' /\ HasRoom(r)'
    <3>1. pc'[r] = "saveMoved" /\ pick'[r] = Local /\ UNCHANGED <<row, target, batch>>
      BY <2>1 DEF IInv, TypeOK, Fallback
    <3> QED
      BY <2>1, <2>4, <2>6, <3>1 DEF IInv, Control, ContainerFollows, LeftToQueue, TargetFollows,
         HasRoom, Preparing
  <2>10. \A m \in Nodes \ {Local} : r \notin Held(m)'
    <3>1. pc'[r] = "saveMoved" /\ cont'[r].host = Local
      BY <1>2, <2>4, <2>6
    <3> QED
      BY <3>1 DEF Held
  <2>11. ASSUME NEW m \in Fresh(r)' \cap (Live \ blind')
         PROVE  m \in Fresh(r) /\ copy'[r][m].count = copy[r][m].count
    <3>1. m # Local /\ m \in Tracked(r) /\ c[m] = copy[r][m]
      BY <2>1, <2>2, <2>3, <2>5 DEF Fresh, Tracked
    <3> QED
      BY <2>5, <3>1 DEF Fresh, Tracked
  <2> QED
    BY <2>1, <2>7, <2>8, <2>9, <2>10, <2>11, RequestCounts DEF Fallback, Live
<1>3. CASE pc'[r] = "save"
  <2>1. /\ UNCHANGED <<row, copy, target, cont, batch, pick, blind>>
        /\ pc[r] = "fallback" /\ pc' = [pc EXCEPT ![r] = "save"]
    BY <1>3 DEF IInv, TypeOK, Fallback, Go
  <2>2. Mine(r)
    BY <2>1, KeepMine DEF IInv
  <2>3. Plain'
    BY <2>1 DEF IInv, TypeOK, Plain, Fallback
  <2>4. RequestStep(r)
    BY <2>1, <2>2 DEF IInv, TypeOK, RequestStep, Fallback, Live
  <2>5. Control(r)' /\ HasRoom(r)'
    BY <2>1 DEF IInv, TypeOK, Control, ContainerFollows, LeftToQueue, TargetFollows, HasRoom,
       Preparing, Live
  <2>6. \A n \in Nodes : r \in Held(n)' => r \in Held(n)
    BY <2>1 DEF IInv, TypeOK, Held
  <2> QED
    BY <2>1, <2>3, <2>4, <2>5, <2>6, RequestCounts DEF Live, Fresh, Tracked
<1>4. CASE pc'[r] = "done"
  <2>1. /\ UNCHANGED <<row, target, lock, batch, kpc, found, report>>
        /\ pc[r] = "fallback" /\ pc' = [pc EXCEPT ![r] = "done"]
        /\ Drop(r)
        /\ blind \subseteq blind' /\ blind' \subseteq blind \cup {Local}
    BY <1>4 DEF IInv, TypeOK, Fallback, Go
  <2>2. PICK c \in {cont[r], [cont[r] EXCEPT !.host = Local]} :
           /\ cont' = [cont EXCEPT ![r] = c]
           /\ \/ pick' = pick /\ c = cont[r]
              \/ pick' = [pick EXCEPT ![r] = Local] /\ Local \in blind'
    <3>1. \/ pick' = pick /\ cont' = cont
          \/ /\ pick' = [pick EXCEPT ![r] = Local] /\ Local \in blind'
             /\ cont' = [cont EXCEPT ![r] = [cont[r] EXCEPT !.host = Local]]
      BY <1>4 DEF IInv, TypeOK, Fallback, Go
    <3>2. cont = [cont EXCEPT ![r] = cont[r]]
      BY DEF IInv, TypeOK
    <3> QED
      BY <3>1, <3>2
  <2>3. c \in Containers /\ c.host \in {cont[r].host, Local} /\ c.node = cont[r].node
           /\ c.stored = cont[r].stored
    <3>1. cont[r] \in Containers
      BY DEF IInv, TypeOK, Containers
    <3> QED
      BY <1>1, <2>2, <3>1, ContainerFields DEF Containers
  <2>4. cont' \in [Reqs -> Containers] /\ cont'[r] = c /\ \A q \in Reqs \ {r} : cont'[q] = cont[q]
    BY <2>2, <2>3, SetContainer DEF IInv
  <2>5. Mine(r) /\ copy'[r] = None
    BY <1>1, <2>1, DropMine DEF IInv
  <2>6. Plain'
    BY <1>1, <2>1, <2>2, <2>4 DEF IInv, TypeOK, Plain, Containers
  <2>7. RequestStep(r)
    BY <2>1, <2>2, <2>4, <2>5 DEF IInv, TypeOK, RequestStep, Live
  <2>8. cont[r].host = NoNode /\ cont[r].node = NoNode /\ ~cont[r].stored
    BY <2>1 DEF IInv, TypeOK, Control, ContainerFollows, Preparing
  <2>9. c.host \in {NoNode, pick'[r]}
    BY <2>2, <2>3, <2>8 DEF IInv, TypeOK
  <2>10. Control(r)' /\ HasRoom(r)'
    <3>1. pc'[r] = "done" /\ target[r].status # "Completed" /\ target[r].status # "Pending"
      BY <2>1 DEF IInv, TypeOK, Control, LeftToQueue, TargetFollows
    <3>2. r \notin batch
      BY <2>1 DEF IInv, Control, LeftToQueue
    <3> QED
      BY <2>1, <2>3, <2>4, <2>8, <2>9, <3>1, <3>2
      DEF Control, ContainerFollows, LeftToQueue, TargetFollows, HasRoom, Preparing
  <2>11. \A n \in Live \ blind' : r \notin Held(n)'
    <3>1. cont'[r].host = NoNode \/ (cont'[r].host = Local /\ Local \in blind')
      BY <2>2, <2>3, <2>4, <2>8
    <3> QED
      BY <2>1, <3>1, FleetAssumption DEF IInv, TypeOK, Held, Live
  <2> QED
    BY <2>1, <2>5, <2>6, <2>7, <2>10, <2>11, NoCopies, RequestCounts DEF Fresh, Tracked
<1>5. pc'[r] \in {"saveMoved", "save", "done"}
  BY DEF IInv, TypeOK, Fallback, Go
<1> QED
  BY <1>2, <1>3, <1>4, <1>5

LEMMA SaveIInv == ASSUME IInv, NEW r \in Reqs, Save(r) PROVE IInv'
<1> DEFINE W == Modified(r) \cap Fresh(r)
<1>1. r \in Procs /\ r \notin Kills /\ Fresh(r) \subseteq Tracked(r) /\ Tracked(r) \subseteq Nodes
  BY Distinct DEF IInv, TypeOK, Fresh
<1>2. /\ \A n \in W : n \in Fresh(r)
      /\ copy' = Behind(r, W)
      /\ row' = [n \in Nodes |->
                   IF n \in W THEN [row[n] EXCEPT !.count = copy[r][n].count] ELSE row[n]]
  BY DEF Save, Write
<1> HIDE DEF W
<1>3. /\ Mine(r) /\ copy'[r] = None
      /\ \A q \in Procs \ {r} : \A n \in W : n \in DOMAIN copy'[q] => copy'[q][n].stale
  BY <1>1, <1>2, WriteMine DEF IInv
<1>4. /\ row' \in [Nodes -> [status : {"Online", "Offline", "Gone"}, count : Nat]]
      /\ \A n \in Nodes : row'[n].status = row[n].status
      /\ \A n \in W : row'[n].count = copy[r][n].count
      /\ \A n \in Nodes \ W : row'[n] = row[n]
  <2>1. \A n \in W : n \in Nodes /\ copy[r][n].count \in Nat
    BY <1>1, <1>2 DEF IInv, TypeOK, Copies
  <2>2. \A n \in Nodes : row[n] \in [status : {"Online", "Offline", "Gone"}, count : Nat]
    BY DEF IInv, TypeOK
  <2> QED
    BY <1>2, <2>1, <2>2
<1>5. Live' = Live
  BY <1>4 DEF Live
<1>6. /\ Outcome(r) \in Targets
      /\ target' = [target EXCEPT ![r] = Outcome(r)]
      /\ pc[r] \in {"save", "saveMoved"} /\ pc'[r] \in {"store", "done"}
      /\ Outcome(r).status = "Completed" => cont[r].host # NoNode
      /\ Outcome(r).status # "Pending"
      /\ Outcome(r).node = IF target[r].status = "none" \/ pc[r] = "saveMoved"
                           THEN pick[r] ELSE target[r].node
      /\ UNCHANGED <<cont, pick, batch>>
      /\ cont[r].host # NoNode => pc'[r] = "store"
  BY DEF IInv, TypeOK, Save, Go, Outcome, Targets
<1>7. target' \in [Reqs -> Targets] /\ target'[r] = Outcome(r)
         /\ \A q \in Reqs \ {r} : target'[q] = target[q]
  BY <1>6 DEF IInv, TypeOK, Targets
<1>8. Plain'
  BY <1>4, <1>7 DEF IInv, TypeOK, Plain, Targets, Save, Go
<1>9. RequestStep(r)
  BY <1>3, <1>5, <1>7 DEF IInv, TypeOK, RequestStep, Save, Go
<1>10. Control(r)'
  <2>1. ContainerFollows(r)' /\ LeftToQueue(r)'
    BY <1>6, <1>7 DEF IInv, Control, ContainerFollows, LeftToQueue, Preparing
  <2>2. cont[r].host # NoNode => cont[r].node = cont[r].host /\ pick[r] = cont[r].node
    BY <1>6, FleetAssumption DEF IInv, TypeOK, Control, ContainerFollows
  <2>3. TargetFollows(r)'
    BY <1>5, <1>6, <1>7, <2>2 DEF IInv, Control, ContainerFollows, TargetFollows
  <2> QED
    BY <2>1, <2>3 DEF Control
<1>11. HasRoom(r)'
  BY <1>6 DEF HasRoom
<1>12. \A n \in Nodes : Held(n)' \subseteq Held(n)
  BY <1>6, <1>9 DEF Held, RequestStep
<1>13. \A n \in Live' \ blind' :
         \/ row'[n].count = row[n].count
         \/ Cardinality(Held(n)') <= row'[n].count
  <2> TAKE n \in Live' \ blind'
  <2>1. n \in Nodes /\ n \in Live \ blind
    BY <1>5 DEF Live, Save
  <2>2. CASE n \in W
    <3>1. Cardinality(Held(n)) <= copy[r][n].count
      BY <1>1, <1>2, <2>1, <2>2, Distinct DEF IInv, Counting, CopiesCover
    <3>2. copy[r][n].count \in Nat
      BY <1>1, <1>2, <2>2 DEF IInv, TypeOK, Copies
    <3> QED
      BY <1>4, <1>12, <2>1, <2>2, <3>1, <3>2, HeldShrinks, HeldFinite, HeldFiniteNext
  <2> QED
    BY <1>4, <2>1, <2>2
<1>14. Live' \ blind' \subseteq Live \ blind /\ Live \subseteq Nodes
  BY <1>5 DEF Save, Live
<1>15. CountersCover' /\ CapacityRespected' /\ CopiesCover'
  BY <1>3, <1>5, <1>12, <1>13, <1>14, NoCopies, CoverKept DEF Fresh, Tracked
<1>16. RemovedStillCounted'
  BY <1>1, <1>3, <1>5, <1>12, <1>14, RemovedKept DEF Save
<1>17. KillReadsCounter'
  <2>1. \A k \in Kills : \A n \in Fresh(k)' : n \in Nodes \ W
    BY <1>3, <1>1, Distinct DEF Mine, Table, Fresh, Tracked
  <2> QED
    BY <1>1, <1>3, <1>4, <2>1, KillReadsKept DEF IInv, Counting
<1> QED
  BY <1>8, <1>9, <1>10, <1>11, <1>15, <1>16, <1>17, RequestKeeps DEF IInv, Counting

LEMMA SaveThrowsIInv == ASSUME IInv, NEW r \in Reqs, SaveThrows(r) PROVE IInv'
<1>1. r \in Procs
  BY Distinct
<1>2. Mine(r) /\ copy'[r] = None
  BY <1>1, DropMine DEF IInv, SaveThrows
<1>3. Plain'
  BY DEF IInv, TypeOK, Plain, SaveThrows, Go
<1>4. RequestStep(r)
  BY <1>2 DEF IInv, TypeOK, RequestStep, SaveThrows, Go, Live
<1>5. Control(r)' /\ HasRoom(r)'
  BY DEF IInv, TypeOK, Control, ContainerFollows, LeftToQueue, TargetFollows, HasRoom,
     Preparing, SaveThrows, Go, Live
<1>6. \A n \in Nodes : r \in Held(n)' => r \in Held(n)
  BY DEF IInv, TypeOK, SaveThrows, Go, Held
<1> QED
  BY <1>2, <1>3, <1>4, <1>5, <1>6, NoCopies, RequestCounts DEF SaveThrows, Live, Fresh, Tracked

LEMMA StoreIInv == ASSUME IInv, NEW r \in Reqs, Store(r) PROVE IInv'
<1>1. Mine(r)
  BY KeepMine DEF IInv, Store
<1>0. PICK b \in BOOLEAN : b = (cont[r].node \in Live \cup {NoNode})
  <2>1. (cont[r].node \in Live \cup {NoNode}) \in BOOLEAN
    OBVIOUS
  <2> QED
    BY <2>1, Zenon
<1> DEFINE c == [cont[r] EXCEPT !.stored = b]
<1>2. /\ c \in Containers /\ c.host = cont[r].host /\ c.node = cont[r].node
      /\ c.stored = b
  <2>1. cont[r] \in Containers
    BY DEF IInv, TypeOK, Containers
  <2>2. c \in Containers
    BY <2>1, ContainerFields, FleetAssumption
  <2> QED
    BY <2>1, <2>2 DEF Containers
<1>3. cont' = [cont EXCEPT ![r] = c]
  BY <1>0 DEF Store
<1> HIDE DEF c
<1>4. cont' \in [Reqs -> Containers] /\ cont'[r] = c /\ \A q \in Reqs \ {r} : cont'[q] = cont[q]
  BY <1>2, <1>3, SetContainer DEF IInv
<1>5. Plain'
  BY <1>4 DEF IInv, TypeOK, Plain, Containers, Store, Go
<1>6. RequestStep(r)
  BY <1>1, <1>4 DEF IInv, TypeOK, RequestStep, Store, Go, Live
<1>7. Control(r)' /\ HasRoom(r)'
  <2>1. pc[r] = "store" /\ pc'[r] = "done" /\ UNCHANGED <<row, target, pick, batch>>
    BY DEF IInv, TypeOK, Store, Go
  <2> QED
    BY <1>0, <1>2, <1>4, <2>1 DEF IInv, Control, ContainerFollows, LeftToQueue, TargetFollows,
       HasRoom, Preparing, Live
<1>8. \A n \in Nodes : r \in Held(n)' => r \in Held(n)
  BY <1>2, <1>4 DEF IInv, TypeOK, Store, Go, Held
<1> QED
  BY <1>5, <1>6, <1>7, <1>8, RequestCounts DEF Store, Live, Fresh, Tracked
-----------------------------------------------------------------------------
(* Steps of everybody else                                                 *)

\* A step of p, not a request, that moves no request.
LEMMA OthersKeep ==
    ASSUME IInv, NEW p, p \notin Reqs, Mine(p), Plain', UNCHANGED <<pc, pick>>,
           p = Metrics => Tracked(Metrics)' \subseteq {Local},
           Local \in Live', \A r \in Reqs : Control(r)',
           \A k \in Kills :
              \/ k # p /\ kpc'[k] = kpc[k]
              \/ pc[Victim[k]] = "done" /\ Tracked(k)' \subseteq {pick[Victim[k]]}
    PROVE  /\ CopyTables'
           /\ TypeOK'
           /\ LocalStays'
           /\ PlaceHasRoom'
           /\ KillFollowsVictim'
<1>1. CopyTables' /\ TypeOK'
  BY TypePartsNext, Distinct DEF IInv, CopyTables, Mine, Tracked
<1>2. LocalStays'
  BY DEF LocalStays
<1>3. ASSUME NEW r \in Reqs, pc'[r] = "place", pick'[r] # NoNode
      PROVE  pick'[r] \in Tracked(r)' /\ CanHost(copy'[r][pick'[r]], pick'[r])
  <2>1. pick[r] \in Tracked(r) /\ CanHost(copy[r][pick[r]], pick[r])
    BY <1>3 DEF IInv, Counting, PlaceHasRoom
  <2>2. r \in Procs \ {p} /\ r # Metrics
    BY Distinct
  <2>3. DOMAIN copy'[r] = Tracked(r) /\ copy'[r][pick[r]].count = copy[r][pick[r]].count
    BY <2>1, <2>2 DEF Mine
  <2> QED
    BY <2>1, <2>3 DEF Tracked, CanHost
<1>4. PlaceHasRoom'
  BY <1>3 DEF PlaceHasRoom
<1>5. ASSUME NEW k \in Kills, k # p, kpc'[k] = kpc[k]
      PROVE  kpc'[k] \in {"destroy", "release"} \/ Tracked(k)' # {} =>
                pc'[Victim[k]] = "done" /\ Tracked(k)' \subseteq {pick'[Victim[k]]}
  <2>1. Tracked(k)' = Tracked(k)
    BY <1>5, Distinct DEF Mine, Tracked
  <2> QED
    BY <1>5, <2>1 DEF IInv, Counting, KillFollowsVictim
<1>6. KillFollowsVictim'
  BY <1>5 DEF KillFollowsVictim
<1> QED
  BY <1>1, <1>2, <1>4, <1>6

-----------------------------------------------------------------------------
(* FleetContainerManager.DestroyContainerAsync                             *)

\* A destruction takes from a container that its request has finished.
KillStep(k) ==
    /\ Mine(k)
    /\ UNCHANGED <<target, lock, batch, pc, pick, report>>
    /\ blind \subseteq blind' /\ Live' = Live
    /\ pc[Victim[k]] = "done" /\ Tracked(k)' \subseteq {pick[Victim[k]]}
    /\ \A r \in Reqs \ {Victim[k]} : cont'[r] = cont[r]
    /\ cont'[Victim[k]].host \in {cont[Victim[k]].host, NoNode}
    /\ cont'[Victim[k]].node = cont[Victim[k]].node
    /\ cont'[Victim[k]].stored => cont[Victim[k]].stored
    /\ \A j \in Kills \ {k} : kpc'[j] = kpc[j] /\ found'[j] = found[j]

LEMMA KillKeeps ==
    ASSUME IInv, NEW k \in Kills, KillStep(k), Plain'
    PROVE  /\ CopyTables'
           /\ TypeOK'
           /\ LocalStays'
           /\ \A r \in Reqs : Control(r)'
           /\ PlaceHasRoom'
           /\ KillFollowsVictim'
<1>1. Victim[k] \in Reqs /\ k \notin Reqs /\ k # Metrics
  BY Distinct, FleetAssumption
<1>2. Control(Victim[k])'
  BY <1>1 DEF IInv, Control, ContainerFollows, LeftToQueue, TargetFollows, Preparing, KillStep
<1>3. ASSUME NEW r \in Reqs \ {Victim[k]} PROVE Control(r)'
  BY <1>3 DEF IInv, Control, ContainerFollows, LeftToQueue, TargetFollows, KillStep
<1>4. Local \in Live'
  BY DEF IInv, LocalStays, KillStep
<1> QED
  BY <1>1, <1>2, <1>3, <1>4, OthersKeep DEF KillStep

LEMMA KillHeld ==
    ASSUME IInv, NEW k \in Kills, KillStep(k), NEW n \in Nodes
    PROVE  Held(n)' \subseteq Held(n)
  BY FleetAssumption DEF KillStep, Held

LEMMA ReadNodeIInv == ASSUME IInv, NEW k \in Kills, ReadNode(k) PROVE IInv'
<1>1. PICK v \in Reqs : v = Victim[k]
  BY FleetAssumption
<1> DEFINE S == {cont[v].node} \cap Live
<1>2. /\ S \in SUBSET Nodes /\ k \in Procs /\ NoNode \notin Live
      /\ copy' = [copy EXCEPT ![k] = Query(k, S)]
      /\ UNCHANGED <<row, target, cont, lock, batch, pc, pick, found, report, blind>>
      /\ cont[v].stored
      /\ kpc' = [kpc EXCEPT ![k] = "destroy"]
  BY <1>1, Distinct, FleetAssumption DEF ReadNode, KGo, Live
<1> HIDE DEF S
<1>3. Mine(k) /\ copy'[k] = Query(k, S) /\ DOMAIN copy'[k] = Tracked(k) \cup S
  <2>1. Table(Query(k, S)) /\ DOMAIN Query(k, S) = Tracked(k) \cup S
    BY <1>2, QueryCopies DEF IInv
  <2> QED
    BY <1>2, <2>1, SetMine DEF IInv
<1>4. pc[v] = "done" /\ cont[v].node \in {NoNode, pick[v]}
  BY <1>2 DEF IInv, Control, ContainerFollows
<1>5. Tracked(k)' \subseteq {pick[v]}
  <2>1. Tracked(k) \subseteq {pick[v]}
    BY <1>1 DEF IInv, Counting, KillFollowsVictim
  <2> QED
    BY <1>2, <1>3, <1>4, <2>1 DEF Tracked, S
<1>6. Plain'
  BY <1>2 DEF IInv, TypeOK, Plain
<1>7. KillStep(k)
  BY <1>1, <1>2, <1>3, <1>4, <1>5 DEF IInv, TypeOK, KillStep, Live
<1>8. Live' = Live /\ Live \subseteq Nodes
  BY <1>2 DEF Live
<1>9. \A n \in Fresh(k)' :
         \/ n \in Fresh(k) /\ copy'[k][n].count = copy[k][n].count
         \/ copy'[k][n].count = row[n].count
  BY <1>2, <1>3, QueryFresh DEF IInv
<1>10. CountersCover' /\ CapacityRespected' /\ CopiesCover'
  BY <1>2, <1>3, <1>7, <1>8, <1>9, KillHeld, CoverKept
<1>11. RemovedStillCounted'
  BY <1>2, <1>3, <1>7, <1>8, KillHeld, RemovedKept DEF IInv, TypeOK
<1>12. KillReadsCounter'
  <2> SUFFICES ASSUME NEW j \in Kills, NEW n \in Fresh(j)' PROVE copy'[j][n].count = row[n].count
    BY <1>2 DEF KillReadsCounter
  <2>1. CASE j = k
    BY <1>9, <2>1 DEF IInv, Counting, KillReadsCounter
  <2>2. CASE j # k
    BY <1>3, <2>2, FreshOfOthers, Distinct DEF IInv, Counting, KillReadsCounter
  <2> QED
    BY <2>1, <2>2
<1> QED
  BY <1>6, <1>7, <1>10, <1>11, <1>12, KillKeeps DEF IInv, Counting

LEMMA DestroyIInv == ASSUME IInv, NEW k \in Kills, Destroy(k) PROVE IInv'
<1>1. PICK v \in Reqs : v = Victim[k]
  BY FleetAssumption
<1>2. /\ k \in Procs /\ k \notin Reqs
      /\ UNCHANGED <<row, copy, target, lock, batch, pc, pick, report, blind>>
      /\ kpc[k] = "destroy" /\ kpc' = [kpc EXCEPT ![k] = "release"]
      /\ pc[v] = "done" /\ Tracked(k) \subseteq {pick[v]}
  BY <1>1, Distinct DEF IInv, Counting, KillFollowsVictim, Destroy, KGo
<1>3. Mine(k)
  BY <1>2, KeepMine DEF IInv
<1> DEFINE there == cont[v].host \in Asked(k)
<1>4. PICK h \in {cont[v].host, NoNode} :
         /\ cont' = [cont EXCEPT ![v] = [cont[v] EXCEPT !.host = h]]
         /\ there => h = NoNode
         /\ found' = [found EXCEPT ![k] = IF there THEN "removed" ELSE "absent"]
  <2>1. CASE there
    BY <1>1, <2>1 DEF Destroy
  <2>2. CASE ~there
    <3>1. cont = [cont EXCEPT ![v] = [cont[v] EXCEPT !.host = cont[v].host]]
      BY DEF IInv, TypeOK
    <3> QED
      BY <1>1, <2>2, <3>1 DEF Destroy
  <2> QED
    BY <2>1, <2>2
<1> DEFINE c == [cont[v] EXCEPT !.host = h]
<1>5. c \in Containers /\ c.host = h /\ c.node = cont[v].node /\ c.stored = cont[v].stored
  <2>1. cont[v] \in Containers
    BY DEF IInv, TypeOK, Containers
  <2> QED
    BY <1>4, <2>1, ContainerFields DEF Containers
<1>6. cont' = [cont EXCEPT ![v] = c]
  BY <1>4
<1> HIDE DEF c, there
<1>7. cont' \in [Reqs -> Containers] /\ cont'[v] = c /\ \A q \in Reqs \ {v} : cont'[q] = cont[q]
  BY <1>5, <1>6, SetContainer DEF IInv
<1>8. Plain'
  BY <1>2, <1>4, <1>7 DEF IInv, TypeOK, Plain, Containers
<1>9. KillStep(k)
  BY <1>1, <1>2, <1>3, <1>4, <1>5, <1>7 DEF IInv, TypeOK, KillStep, Live, Tracked
<1>10. Live' = Live /\ Live \subseteq Nodes /\ blind' = blind
  BY <1>2 DEF Live
<1>11. CountersCover' /\ CapacityRespected' /\ CopiesCover'
  BY <1>2, <1>3, <1>9, <1>10, KillHeld, CoverKept DEF Fresh, Tracked
<1>12. ASSUME found'[k] = "removed", NEW n \in Fresh(k)' \cap (Live' \ blind')
       PROVE  Cardinality(Held(n)') < copy'[k][n].count
  <2>1. n \in Fresh(k) /\ n \in Live \ blind /\ n \in Nodes
    BY <1>2, <1>10, <1>12 DEF Fresh, Tracked
  <2>2. there
    BY <1>4, <1>12 DEF IInv, TypeOK
  <2>3. cont[v].host = n
    BY <1>2, <2>1, <2>2 DEF Asked, Fresh, there
  <2>4. v \in Held(n)
    BY <2>3 DEF Held
  <2>5. v \notin Held(n)'
    BY <1>2, <1>4, <1>5, <1>7, <2>1, <2>2, FleetAssumption DEF Held
  <2>6. Held(n)' \subseteq Held(n) \ {v}
    BY <1>9, <2>1, <2>5, KillHeld
  <2>7. Cardinality(Held(n)') < Cardinality(Held(n))
    BY <2>4, <2>6, HeldDrops
  <2>8. Cardinality(Held(n)) <= copy[k][n].count /\ copy[k][n].count \in Nat
    BY <1>2, <2>1, Distinct DEF IInv, TypeOK, Counting, CopiesCover, Fresh, Copies
  <2> QED
    BY <1>2, <2>7, <2>8, HeldFinite, HeldFiniteNext
<1>13. RemovedStillCounted'
  BY <1>2, <1>3, <1>4, <1>9, <1>10, <1>12, KillHeld, RemovedKept DEF IInv, TypeOK
<1>14. KillReadsCounter'
  BY <1>2 DEF IInv, Counting, KillReadsCounter, Fresh, Tracked
<1> QED
  BY <1>8, <1>9, <1>11, <1>13, <1>14, KillKeeps DEF IInv, Counting

LEMMA DestroyFailsIInv == ASSUME IInv, NEW k \in Kills, DestroyFails(k) PROVE IInv'
<1>1. PICK v \in Reqs : v = Victim[k]
  BY FleetAssumption
<1>2. /\ k \in Procs /\ k \notin Reqs
      /\ UNCHANGED <<row, copy, target, cont, lock, batch, pc, pick, report, blind>>
      /\ kpc[k] = "destroy" /\ kpc' = [kpc EXCEPT ![k] = "release"]
      /\ pc[v] = "done" /\ Tracked(k) \subseteq {pick[v]}
  BY <1>1, Distinct DEF IInv, Counting, KillFollowsVictim, DestroyFails, KGo
<1>3. PICK f \in {"failed", "absent"} : found' = [found EXCEPT ![k] = f]
  BY DEF DestroyFails
<1>4. Mine(k)
  BY <1>2, KeepMine DEF IInv
<1>5. Plain'
  BY <1>2, <1>3 DEF IInv, TypeOK, Plain
<1>6. KillStep(k)
  BY <1>1, <1>2, <1>3, <1>4 DEF IInv, TypeOK, KillStep, Live, Tracked
<1>7. Live' = Live /\ Live \subseteq Nodes /\ blind' = blind
  BY <1>2 DEF Live
<1>8. CountersCover' /\ CapacityRespected' /\ CopiesCover'
  BY <1>2, <1>4, <1>6, <1>7, KillHeld, CoverKept DEF Fresh, Tracked
<1>9. RemovedStillCounted'
  BY <1>2, <1>3, <1>4, <1>6, <1>7, KillHeld, RemovedKept DEF IInv, TypeOK
<1>10. KillReadsCounter'
  BY <1>2 DEF IInv, Counting, KillReadsCounter, Fresh, Tracked
<1> QED
  BY <1>5, <1>6, <1>8, <1>9, <1>10, KillKeeps DEF IInv, Counting

\* A counter is lowered under a copy that no write has put behind: it still
\* counts what the destruction removed.
LEMMA ReleaseIInv == ASSUME IInv, NEW k \in Kills, Release(k) PROVE IInv'
<1>1. PICK v \in Reqs : v = Victim[k]
  BY FleetAssumption
<1> DEFINE W == {n \in Fresh(k) : copy[k][n].count > 0}
<1>2. /\ k \in Procs /\ k \notin Reqs
      /\ UNCHANGED <<target, lock, batch, pc, pick, report>>
      /\ kpc[k] = "release" /\ kpc' = [kpc EXCEPT ![k] = "done"]
      /\ pc[v] = "done" /\ Tracked(k) \subseteq {pick[v]}
      /\ found' = [found EXCEPT ![k] = "none"]
      /\ blind' = IF found[k] = "removed" THEN blind ELSE blind \cup W
  BY <1>1, Distinct DEF IInv, Counting, KillFollowsVictim, Release, KGo
<1>3. /\ row' = [n \in Nodes |->
                   IF n \in W THEN [row[n] EXCEPT !.count = @ - 1] ELSE row[n]]
      /\ copy' = Behind(k, W)
  BY DEF Release
<1>4. \A n \in W : /\ n \in Fresh(k) /\ n \in Nodes
                   /\ row[n].count = copy[k][n].count
                   /\ row[n].count \in Nat /\ row[n].count > 0
  BY <1>2 DEF IInv, TypeOK, Counting, KillReadsCounter, Fresh, Copies
<1> HIDE DEF W
<1>5. /\ Mine(k) /\ copy'[k] = None
      /\ \A q \in Procs \ {k} : \A n \in W : n \in DOMAIN copy'[q] => copy'[q][n].stale
  BY <1>2, <1>3, WriteMine DEF IInv
<1>6. /\ row' \in [Nodes -> [status : {"Online", "Offline", "Gone"}, count : Nat]]
      /\ \A n \in Nodes : row'[n].status = row[n].status
      /\ \A n \in W : row'[n].count = row[n].count - 1
      /\ \A n \in Nodes \ W : row'[n] = row[n]
  <2>1. \A n \in Nodes : row[n] \in [status : {"Online", "Offline", "Gone"}, count : Nat]
    BY DEF IInv, TypeOK
  <2> QED
    BY <1>3, <1>4, <2>1
<1>7. Live' = Live /\ Live \subseteq Nodes /\ blind \subseteq blind' /\ blind' \subseteq Nodes
  BY <1>2, <1>4, <1>6 DEF IInv, TypeOK, Live
<1>8. PICK b \in BOOLEAN : b = (cont[v].stored /\ found[k] = "failed")
  <2>1. (cont[v].stored /\ found[k] = "failed") \in BOOLEAN
    OBVIOUS
  <2> QED
    BY <2>1, Zenon
<1> DEFINE c == [cont[v] EXCEPT !.stored = b]
<1>9. c \in Containers /\ c.host = cont[v].host /\ c.node = cont[v].node
         /\ (c.stored => cont[v].stored)
  <2>1. cont[v] \in Containers
    BY DEF IInv, TypeOK, Containers
  <2>2. c \in Containers
    BY <2>1, ContainerFields, FleetAssumption
  <2> QED
    BY <1>8, <2>1, <2>2 DEF Containers
<1>10. cont' = [cont EXCEPT ![v] = c]
  BY <1>1, <1>8 DEF Release
<1> HIDE DEF c
<1>11. cont' \in [Reqs -> Containers] /\ cont'[v] = c /\ \A q \in Reqs \ {v} : cont'[q] = cont[q]
  BY <1>9, <1>10, SetContainer DEF IInv
<1>12. Plain'
  BY <1>2, <1>6, <1>7, <1>11 DEF IInv, TypeOK, Plain, Containers
<1>13. KillStep(k)
  BY <1>1, <1>2, <1>5, <1>7, <1>9, <1>11, NoCopies DEF IInv, TypeOK, KillStep, Tracked
<1>14. ASSUME NEW n \in Live' \ blind', n \in W
       PROVE  Cardinality(Held(n)') <= row'[n].count
  <2>1. found[k] = "removed" /\ n \in Fresh(k) \cap (Live \ blind) /\ n \in Nodes
    BY <1>2, <1>4, <1>7, <1>14
  <2>2. Cardinality(Held(n)) < copy[k][n].count
    BY <1>2, <2>1 DEF IInv, Counting, RemovedStillCounted
  <2>3. Cardinality(Held(n)') <= Cardinality(Held(n))
    BY <1>13, <2>1, KillHeld, HeldShrinks
  <2> QED
    BY <1>4, <1>6, <1>14, <2>2, <2>3, HeldFinite, HeldFiniteNext
<1>15. CountersCover' /\ CapacityRespected' /\ CopiesCover'
  <2>1. \A n \in Live' \ blind' :
           row'[n].count = row[n].count \/ Cardinality(Held(n)') <= row'[n].count
    BY <1>6, <1>7, <1>14
  <2>2. Fresh(k)' = {}
    BY <1>5, NoCopies DEF Fresh, Tracked
  <2>3. /\ Live' \ blind' \subseteq Live \ blind
        /\ \A n \in Live' \ blind' : Held(n)' \subseteq Held(n)
    BY <1>7, <1>13, KillHeld
  <2> QED
    BY <1>5, <2>1, <2>2, <2>3, CoverKept
<1>16. RemovedStillCounted'
  BY <1>2, <1>5, <1>7, <1>13, KillHeld, RemovedKept DEF IInv, TypeOK
<1>17. KillReadsCounter'
  <2> SUFFICES ASSUME NEW j \in Kills, NEW n \in Fresh(j)'
               PROVE  copy'[j][n].count = row'[n].count
    BY DEF KillReadsCounter
  <2>1. j # k /\ j \in Procs
    BY <1>5, NoCopies, Distinct DEF Fresh, Tracked
  <2>2. n \in Fresh(j) /\ copy'[j][n].count = copy[j][n].count
    BY <1>5, <2>1, FreshOfOthers
  <2>3. n \in Nodes \ W
    BY <1>5, <2>1, <2>2 DEF IInv, TypeOK, Fresh, Tracked
  <2> QED
    BY <1>6, <2>2, <2>3 DEF IInv, Counting, KillReadsCounter
<1> QED
  BY <1>12, <1>13, <1>15, <1>16, <1>17, KillKeeps DEF IInv, Counting

-----------------------------------------------------------------------------
(* QueueManager.ProcessPendingAsync                                        *)

LEMMA ReadPendingIInv == ASSUME IInv, ReadPending PROVE IInv'
<1>1. Online \in SUBSET Nodes /\ Queue \in Procs /\ Queue \notin Reqs
         /\ Queue \notin Kills /\ Queue # Metrics
  BY Distinct DEF Online
<1>2. /\ UNCHANGED <<row, target, cont, pc, kpc, pick, found, report, blind>>
      /\ copy' = [copy EXCEPT ![Queue] = Query(Queue, Online)]
      /\ lock' = Queue
      /\ batch' = {r \in Reqs : target[r] = [status |-> "Pending", node |-> NoNode]}
  BY DEF ReadPending
<1>3. Mine(Queue) /\ copy'[Queue] = Query(Queue, Online)
  BY <1>1, <1>2, QueryCopies, SetMine DEF IInv
<1>4. Plain'
  BY <1>2 DEF IInv, TypeOK, Plain
<1>5. Live' = Live /\ \A n : Held(n)' = Held(n)
  BY <1>2 DEF Live, Held
<1>6. ASSUME NEW r \in Reqs PROVE Control(r)'
  <2>1. r \in batch' => target[r].status = "Pending"
    BY <1>2
  <2> QED
    BY <1>2, <1>5, <2>1 DEF IInv, Control, ContainerFollows, LeftToQueue, TargetFollows
<1>7. CountersCover' /\ CapacityRespected' /\ CopiesCover'
  BY <1>1, <1>2, <1>3, <1>5, QueryFresh, CoverKept DEF IInv
<1>8. RemovedStillCounted'
  BY <1>1, <1>2, <1>3, <1>5, RemovedKept
<1>9. KillReadsCounter'
  BY <1>1, <1>2, <1>3, KillReadsKept DEF IInv, Counting
<1> QED
  BY <1>1, <1>2, <1>3, <1>4, <1>5, <1>6, <1>7, <1>8, <1>9, OthersKeep DEF IInv, LocalStays, Counting

\* The queue adds to a counter what it assigns, and no deployment: the owners
\* of the targets it reads hold nothing.
LEMMA AssignPendingIInv == ASSUME IInv, AssignPending PROVE IInv'
<1> DEFINE more(f, n) == Cardinality({r \in batch : f[r] = n})
           used(f) == {n \in Tracked(Queue) : more(f, n) > 0}
<1>1. Queue \in Procs /\ Queue # Metrics /\ Queue \notin Reqs /\ Queue \notin Kills
  BY Distinct
<1>2. /\ UNCHANGED <<cont, pc, kpc, pick, found, report, blind>>
      /\ batch' = {} /\ lock' = NoOne
  BY DEF AssignPending
<1>3. \A n : Held(n)' = Held(n)
  BY <1>2 DEF Held
<1>4. CASE Drop(Queue) /\ UNCHANGED <<row, target>>
  <2>1. Mine(Queue) /\ copy'[Queue] = None
    BY <1>1, <1>4, DropMine DEF IInv
  <2>2. Plain'
    BY <1>2, <1>4 DEF IInv, TypeOK, Plain
  <2>3. Live' = Live
    BY <1>4 DEF Live
  <2>4. \A r \in Reqs : Control(r)'
    BY <1>2, <1>4, <2>3 DEF IInv, Control, ContainerFollows, LeftToQueue, TargetFollows
  <2>5. CountersCover' /\ CapacityRespected' /\ CopiesCover'
    BY <1>1, <1>2, <1>3, <1>4, <2>1, <2>3, NoCopies, CoverKept DEF Fresh, Tracked
  <2>6. RemovedStillCounted'
    BY <1>1, <1>2, <1>3, <2>1, <2>3, RemovedKept
  <2>7. KillReadsCounter'
    BY <1>1, <1>4, <2>1, KillReadsKept DEF IInv, Counting
  <2> QED
    BY <1>1, <1>2, <2>1, <2>2, <2>3, <2>4, <2>5, <2>6, <2>7, OthersKeep
    DEF IInv, LocalStays, Counting
<1>5. ASSUME NEW f \in [batch -> Tracked(Queue) \cup {NoNode}],
             used(f) \subseteq Fresh(Queue),
             row' = [n \in Nodes |-> IF n \in used(f)
                        THEN [row[n] EXCEPT !.count = copy[Queue][n].count + more(f, n)]
                        ELSE row[n]],
             target' = [r \in Reqs |-> IF r \in batch /\ f[r] # NoNode
                           THEN [status |-> "Running", node |-> f[r]]
                           ELSE target[r]],
             copy' = Behind(Queue, used(f))
      PROVE  IInv'
  <2>1. PICK W \in SUBSET Nodes : W = used(f)
    BY <1>1 DEF IInv, TypeOK
  <2>2. /\ Mine(Queue) /\ copy'[Queue] = None
        /\ \A q \in Procs \ {Queue} : \A n \in W : n \in DOMAIN copy'[q] => copy'[q][n].stale
    BY <1>1, <1>5, <2>1, WriteMine DEF IInv
  <2>3. \A n : more(f, n) \in Nat
    <3> TAKE n
    <3>1. {r \in batch : f[r] = n} \in SUBSET Reqs
      BY DEF IInv, TypeOK
    <3> QED
      BY <3>1, FS_Subset, FS_CardinalityType, FleetAssumption
  <2>4. \A n \in W : n \in Fresh(Queue) /\ copy[Queue][n].count \in Nat
    BY <1>1, <1>5, <2>1 DEF IInv, TypeOK, Fresh, Copies
  <2> HIDE DEF more
  <2>5. /\ row' \in [Nodes -> [status : {"Online", "Offline", "Gone"}, count : Nat]]
        /\ \A n \in Nodes : row'[n].status = row[n].status
        /\ \A n \in W : row'[n].count = copy[Queue][n].count + more(f, n)
        /\ \A n \in Nodes \ W : row'[n] = row[n]
    <3>1. \A n \in Nodes : row[n] \in [status : {"Online", "Offline", "Gone"}, count : Nat]
      BY DEF IInv, TypeOK
    <3>2. \A n \in W : copy[Queue][n].count + more(f, n) \in Nat
      BY <2>3, <2>4
    <3>3. row' = [n \in Nodes |-> IF n \in W
                     THEN [row[n] EXCEPT !.count = copy[Queue][n].count + more(f, n)]
                     ELSE row[n]]
      BY <1>5, <2>1
    <3> QED
      BY <2>1, <3>1, <3>2, <3>3
  <2>6. Live' = Live /\ Live \subseteq Nodes
    BY <2>5 DEF Live
  <2>7. \A r \in Reqs :
           \/ target'[r] = target[r]
           \/ r \in batch /\ target'[r].status = "Running"
    BY <1>5
  <2>8. target' \in [Reqs -> Targets]
    <3>1. \A r \in batch : f[r] \in Nodes \cup {NoNode}
      BY <1>1, <1>5 DEF IInv, TypeOK
    <3>2. \A n \in Nodes \cup {NoNode} : [status |-> "Running", node |-> n] \in Targets
      BY DEF Targets
    <3>3. \A r \in Reqs : target[r] \in Targets
      BY DEF IInv, TypeOK, Targets
    <3> QED
      BY <1>5, <3>1, <3>2, <3>3
  <2>9. Plain'
    BY <1>2, <2>5, <2>8 DEF IInv, TypeOK, Plain, Targets
  <2>10. ASSUME NEW r \in Reqs PROVE Control(r)'
    <3>1. CASE target'[r] = target[r]
      BY <1>2, <2>6, <3>1 DEF IInv, Control, ContainerFollows, LeftToQueue, TargetFollows
    <3>2. CASE r \in batch /\ target'[r].status = "Running"
      BY <1>2, <2>6, <3>2 DEF IInv, Control, ContainerFollows, LeftToQueue, TargetFollows
    <3> QED
      BY <2>7, <3>1, <3>2
  <2>11. \A n \in Live' \ blind' :
           row'[n].count = row[n].count \/ Cardinality(Held(n)') <= row'[n].count
    <3> SUFFICES ASSUME NEW n \in Live' \ blind', n \in W
                 PROVE  Cardinality(Held(n)') <= row'[n].count
      BY <2>5, <2>6
    <3>1. Cardinality(Held(n)) <= copy[Queue][n].count
      BY <1>1, <1>2, <2>4, <2>6, Distinct DEF IInv, Counting, CopiesCover
    <3> QED
      BY <1>3, <2>3, <2>4, <2>5, <3>1, HeldFinite
  <2>12. CountersCover' /\ CapacityRespected' /\ CopiesCover'
    BY <1>1, <1>2, <1>3, <2>2, <2>6, <2>11, NoCopies, CoverKept DEF Fresh, Tracked
  <2>13. RemovedStillCounted'
    BY <1>1, <1>2, <1>3, <2>2, <2>6, RemovedKept
  <2>14. KillReadsCounter'
    <3>1. \A k \in Kills : \A n \in Fresh(k)' : n \in Nodes \ W
      BY <1>1, <2>2, Distinct DEF Mine, Table, Fresh, Tracked
    <3> QED
      BY <1>1, <2>2, <2>5, <3>1, KillReadsKept DEF IInv, Counting
  <2> QED
    BY <1>1, <1>2, <2>2, <2>6, <2>9, <2>10, <2>12, <2>13, <2>14, OthersKeep
    DEF IInv, LocalStays, Counting
<1> QED
  BY <1>4, <1>5 DEF AssignPending

-----------------------------------------------------------------------------
(* NodesController, the health check, heartbeats and the local metrics     *)

LEMMA CancelIInv == ASSUME IInv, NEW r \in Reqs, Cancel(r) PROVE IInv'
<1>1. NoOne \notin Procs /\ NoOne \notin Reqs /\ NoOne \notin Kills /\ NoOne # Metrics
  BY FleetAssumption DEF Procs
<1>2. /\ UNCHANGED <<row, copy, cont, lock, batch, pc, kpc, pick, found, report, blind>>
      /\ target[r].status \in {"Pending", "Running"}
      /\ target' = [target EXCEPT ![r] = [target[r] EXCEPT !.status = "Cancelled"]]
  BY DEF Cancel
<1>3. /\ target' \in [Reqs -> Targets]
      /\ target'[r].status = "Cancelled" /\ target'[r].node = target[r].node
      /\ \A q \in Reqs \ {r} : target'[q] = target[q]
  <2>1. target[r] \in Targets
    BY DEF IInv, TypeOK, Targets
  <2> QED
    BY <1>2, <2>1, CancelledTarget DEF IInv, TypeOK, Targets
<1>4. Mine(NoOne) /\ Live' = Live /\ \A n : Held(n)' = Held(n)
  BY <1>2, KeepMine DEF IInv, Live, Held
<1>5. Plain'
  BY <1>2, <1>3 DEF IInv, TypeOK, Plain, Targets
<1>6. \A q \in Reqs : Control(q)'
  BY <1>2, <1>3, <1>4 DEF IInv, Control, ContainerFollows, LeftToQueue, TargetFollows
<1>7. CountersCover' /\ CapacityRespected' /\ CopiesCover' /\ RemovedStillCounted'
         /\ KillReadsCounter'
  BY <1>2, <1>4 DEF IInv, Counting, CountersCover, CapacityRespected, CopiesCover,
     RemovedStillCounted, KillReadsCounter, Fresh, Tracked
<1> QED
  BY <1>1, <1>2, <1>4, <1>5, <1>6, <1>7, OthersKeep DEF IInv, LocalStays, Counting

\* Whoever overwrites a row keeps the invariant if the counter he writes covers
\* what the node carries, and its capacity does, where anything is promised.
LEMMA OverwriteIInv ==
    ASSUME IInv, NEW n \in Nodes, NEW p \in {NoOne, Metrics},
           NEW new \in [status : {"Online", "Offline", "Gone"}, count : Nat],
           Overwrite(p, n, new), Plain', \A r \in Reqs : Control(r)',
           UNCHANGED <<pc, kpc, pick, found>>, blind \subseteq blind' \cup {n},
           \A r \in Reqs : cont'[r].host = cont[r].host,
           n = Local => new.status # "Gone",
           new.status # "Gone" => n \in Live,
           new.status # "Gone" /\ n \notin blind' =>
              \/ n \notin blind /\ new.count = row[n].count
              \/ Cardinality(Held(n)) <= new.count /\ Cardinality(Held(n)) <= Capacity[n]
    PROVE  IInv'
<1>1. /\ p \notin Reqs /\ p \notin Kills /\ NoOne \notin Procs /\ Metrics \in Procs
      /\ p \in Procs => p = Metrics
  BY FleetAssumption DEF Procs
<1>2. row'[n] = new /\ \A m \in Nodes \ {n} : row'[m] = row[m]
  BY DEF IInv, TypeOK, Overwrite
<1>3. /\ Mine(p)
      /\ p \in Procs => copy'[p] = None
      /\ \A q \in Procs \ {p} : n \in DOMAIN copy'[q] => copy'[q][n].stale
  BY WriteMine DEF IInv, Overwrite
<1>4. \A q \in Procs : n \notin Fresh(q)'
  BY <1>3, NoCopies DEF Fresh, Tracked
<1>5. /\ Live' \subseteq Live /\ Live \subseteq Nodes /\ Local \in Live'
      /\ n \in Live' => new.status # "Gone"
      /\ \A m \in Live' \ blind' : m # n => m \in Live \ blind
  BY <1>2, FleetAssumption DEF IInv, LocalStays, Live
<1>6. \A m : Held(m)' = Held(m)
  BY DEF Held
<1>7. ASSUME NEW m \in Live' \ blind', m # n PROVE CoveredAt(m)'
  <2>1. m \in Live \ blind /\ row'[m].count = row[m].count
    BY <1>2, <1>5, <1>7
  <2> QED
    BY <1>1, <1>3, <1>6, <2>1, CoverKeptAt
<1>8. ASSUME n \in Live' \ blind' PROVE CoveredAt(n)'
  <2>1. n \in Live
    BY <1>5, <1>8
  <2>2. n \notin blind => /\ Cardinality(Held(n)) <= row[n].count
                          /\ Cardinality(Held(n)) <= Capacity[n]
    BY <2>1 DEF IInv, Counting, CountersCover, CapacityRespected
  <2>3. Cardinality(Held(n)) <= new.count /\ Cardinality(Held(n)) <= Capacity[n]
    BY <1>5, <1>8, <2>2
  <2> QED
    BY <1>2, <1>4, <1>6, <2>3 DEF CoveredAt
<1>9. CountersCover' /\ CapacityRespected' /\ CopiesCover'
  BY <1>7, <1>8, CoverPartsNext
<1>10. RemovedStillCounted'
  BY <1>1, <1>3, <1>4, <1>5, <1>6, RemovedKept, Distinct
<1>11. KillReadsCounter'
  <2>1. \A k \in Kills : \A m \in Fresh(k)' : m \in Nodes \ {n}
    BY <1>3, <1>4, Distinct DEF Mine, Table, Fresh, Tracked
  <2> QED
    BY <1>1, <1>2, <1>3, <2>1, KillReadsKept DEF IInv, Counting
<1>12. p = Metrics => Tracked(Metrics)' \subseteq {Local}
  BY <1>1, <1>3, NoCopies DEF Tracked
<1> QED
  BY <1>1, <1>3, <1>5, <1>9, <1>10, <1>11, <1>12, OthersKeep DEF IInv, Counting

\* What Counted records of a node keeps the promise of its counter.
LEMMA CountedPromise ==
    ASSUME IInv, NEW n \in Live, NEW c \in Nat, Counted(n, c)
    PROVE  /\ blind \subseteq blind' \cup {n} /\ blind' \subseteq Nodes
           /\ n \notin blind' =>
                 Cardinality(Held(n)) <= c /\ Cardinality(Held(n)) <= Capacity[n]
<1>1. /\ Cardinality(Held(n)) \in Nat /\ n \in Nodes /\ Capacity[n] \in Nat
      /\ blind \subseteq Nodes
  BY HeldFinite, FleetAssumption DEF IInv, TypeOK, Live
<1>2. n \notin blind => Cardinality(Held(n)) <= Capacity[n]
  BY DEF IInv, Counting, CapacityRespected
<1>3. CASE Cardinality(Held(n)) > c
  BY <1>1, <1>3 DEF Counted
<1>4. CASE Cardinality(Held(n)) <= c
  <2>1. ~(Cardinality(Held(n)) > c)
    BY <1>1, <1>4
  <2>2. CASE Cardinality(Held(n)) > Capacity[n]
    BY <1>1, <1>2, <2>1, <2>2 DEF Counted
  <2>3. CASE Cardinality(Held(n)) <= Capacity[n]
    BY <1>1, <1>4, <2>3 DEF Counted
  <2> QED
    BY <1>1, <2>2, <2>3
<1> QED
  BY <1>1, <1>3, <1>4

\* Who finds his node removed keeps a container without NodeId, and a target
\* that follows it.
LEMMA DeregisterIInv == ASSUME IInv, NEW n \in Nodes, Deregister(n) PROVE IInv'
<1> DEFINE new == [status |-> "Gone", count |-> 0]
<1>1. /\ n \in Live \ {Local}
      /\ Overwrite(NoOne, n, new)
      /\ report' = [report EXCEPT ![n] = NoReport]
      /\ blind' = blind \ {n}
      /\ UNCHANGED <<lock, batch, pc, kpc, pick, found>>
  BY DEF Deregister
<1>2. new \in [status : {"Online", "Offline", "Gone"}, count : Nat] /\ new.status = "Gone"
  OBVIOUS
<1>3. /\ row' \in [Nodes -> [status : {"Online", "Offline", "Gone"}, count : Nat]]
      /\ Live' = Live \ {n} /\ NoNode \notin Live
  <2>1. row' = [row EXCEPT ![n] = new]
    BY <1>1 DEF Overwrite
  <2> HIDE DEF new
  <2> QED
    BY <1>1, <1>2, <2>1, FleetAssumption DEF IInv, TypeOK, Live
<1> HIDE DEF new
<1>4. \A r \in Reqs :
         /\ target'[r] \in Targets
         /\ target[r].node # n => target'[r] = target[r]
         /\ target[r].node = n =>
               /\ target'[r].node = NoNode
               /\ target'[r].status \in {target[r].status, "Cancelled"}
               /\ target'[r].status \notin {"Pending"}
               /\ target[r].status = "none" => target'[r].status = "none"
  BY DEF IInv, TypeOK, Targets, Deregister
<1>5. \A r \in Reqs :
         /\ cont'[r] \in Containers
         /\ cont'[r].host = cont[r].host /\ cont'[r].stored = cont[r].stored
         /\ cont[r].stored /\ cont[r].node = n => cont'[r].node = NoNode
         /\ ~(cont[r].stored /\ cont[r].node = n) => cont'[r].node = cont[r].node
  <2> TAKE r \in Reqs
  <2>1. cont'[r] = IF cont[r].stored /\ cont[r].node = n THEN [cont[r] EXCEPT !.node = NoNode]
                   ELSE cont[r]
    BY DEF Deregister
  <2>2. cont[r] \in Containers
    BY DEF IInv, TypeOK, Containers
  <2> QED
    BY <2>1, <2>2, ContainerFields DEF Containers
<1>6. Plain'
  <2>1. target' \in [Reqs -> Targets] /\ cont' \in [Reqs -> Containers]
    BY <1>4, <1>5 DEF Deregister
  <2> QED
    BY <1>1, <1>3, <2>1 DEF IInv, TypeOK, Plain, Targets, Containers
<1>7. ASSUME NEW r \in Reqs PROVE Control(r)'
  <2>1. ContainerFollows(r)' /\ LeftToQueue(r)'
    BY <1>1, <1>4, <1>5 DEF IInv, Control, ContainerFollows, LeftToQueue, Preparing
  <2>2. TargetFollows(r)'
    BY <1>1, <1>3, <1>4, <1>5 DEF IInv, Control, ContainerFollows, TargetFollows
  <2> QED
    BY <2>1, <2>2 DEF Control
<1> QED
  BY <1>1, <1>2, <1>5, <1>6, <1>7, OverwriteIInv

LEMMA MarkOfflineIInv == ASSUME IInv, NEW n \in Nodes, MarkOffline(n) PROVE IInv'
<1> DEFINE new == [row[n] EXCEPT !.status = "Offline"]
<1>1. /\ n \in Online /\ n # Local /\ n \in Live
      /\ Overwrite(NoOne, n, new)
      /\ UNCHANGED <<target, cont, lock, batch, pc, kpc, pick, found, report, blind>>
  BY DEF MarkOffline, Online, Live
<1>2. /\ new \in [status : {"Online", "Offline", "Gone"}, count : Nat]
      /\ new.status = "Offline" /\ new.count = row[n].count
  BY DEF IInv, TypeOK
<1>3. row' = [row EXCEPT ![n] = new]
  BY <1>1 DEF Overwrite
<1> HIDE DEF new
<1>4. Plain' /\ Live' = Live
  BY <1>1, <1>2, <1>3 DEF IInv, TypeOK, Plain, Live
<1>5. \A r \in Reqs : Control(r)'
  BY <1>1, <1>4 DEF IInv, Control, ContainerFollows, LeftToQueue, TargetFollows
<1> QED
  BY <1>1, <1>2, <1>4, <1>5, OverwriteIInv

\* What an agent measures is nobody's until it arrives.
LEMMA ReportIInv ==
    ASSUME IInv, report' \in [Nodes -> Nat \cup {NoReport}],
           UNCHANGED <<row, copy, target, cont, lock, batch, pc, kpc, pick, found, blind>>
    PROVE  IInv'
<1>1. NoOne \notin Reqs /\ NoOne \notin Kills /\ NoOne # Metrics
  BY FleetAssumption
<1>2. Mine(NoOne) /\ Live' = Live /\ \A n : Held(n)' = Held(n)
  BY KeepMine DEF IInv, Live, Held
<1>3. Plain'
  BY DEF IInv, TypeOK, Plain
<1>4. \A r \in Reqs : Control(r)'
  BY <1>2 DEF IInv, Control, ContainerFollows, LeftToQueue, TargetFollows
<1>5. CountersCover' /\ CapacityRespected' /\ CopiesCover' /\ RemovedStillCounted'
         /\ KillReadsCounter'
  BY <1>2 DEF IInv, Counting, CountersCover, CapacityRespected, CopiesCover,
     RemovedStillCounted, KillReadsCounter, Fresh, Tracked
<1> QED
  BY <1>1, <1>2, <1>3, <1>4, <1>5, OthersKeep DEF IInv, LocalStays, Counting

LEMMA MeasureIInv == ASSUME IInv, NEW n \in Nodes, Measure(n) PROVE IInv'
<1>1. UNCHANGED <<row, copy, target, cont, lock, batch, pc, kpc, pick, found, blind>>
         /\ report' = [report EXCEPT ![n] = Cardinality(Running(n))]
  BY DEF Measure
<1>2. Running(n) \in SUBSET Reqs
  BY DEF Running
<1>3. Cardinality(Running(n)) \in Nat
  BY <1>2, FS_Subset, FS_CardinalityType, FleetAssumption
<1> QED
  BY <1>1, <1>3, ReportIInv DEF IInv, TypeOK

LEMMA LoseIInv == ASSUME IInv, NEW n \in Nodes, Lose(n) PROVE IInv'
  BY ReportIInv DEF Lose, IInv, TypeOK

LEMMA HeartbeatIInv == ASSUME IInv, NEW n \in Nodes, Heartbeat(n) PROVE IInv'
<1> DEFINE new == [status |-> "Online", count |-> report[n]]
<1>1. /\ report[n] # NoReport /\ n \in Live
      /\ Overwrite(NoOne, n, new)
      /\ Counted(n, report[n])
      /\ report' = [report EXCEPT ![n] = NoReport]
      /\ UNCHANGED <<target, cont, lock, batch, pc, kpc, pick, found>>
  BY DEF Heartbeat
<1>2. /\ new \in [status : {"Online", "Offline", "Gone"}, count : Nat]
      /\ new.status = "Online" /\ new.count = report[n] /\ report[n] \in Nat
  BY <1>1 DEF IInv, TypeOK
<1>3. row' = [row EXCEPT ![n] = new]
  BY <1>1 DEF Overwrite
<1> HIDE DEF new
<1>4. Plain' /\ Live' = Live
  BY <1>1, <1>2, <1>3, CountedPromise DEF IInv, TypeOK, Plain, Live
<1>5. \A r \in Reqs : Control(r)'
  BY <1>1, <1>4 DEF IInv, Control, ContainerFollows, LeftToQueue, TargetFollows
<1>6. /\ blind \subseteq blind' \cup {n}
      /\ n \notin blind' =>
            Cardinality(Held(n)) <= new.count /\ Cardinality(Held(n)) <= Capacity[n]
  BY <1>1, <1>2, CountedPromise
<1> QED
  BY <1>1, <1>2, <1>4, <1>5, <1>6, OverwriteIInv

\* The metrics' copy is nobody else's concern until it is saved.
LEMMA RefreshCountIInv == ASSUME IInv, RefreshCount PROVE IInv'
<1>1. PICK c \in Nat : c = Cardinality(AtHome)
  <2>1. AtHome \in SUBSET Reqs
    BY DEF AtHome
  <2> QED
    BY <2>1, FS_Subset, FS_CardinalityType, FleetAssumption
<1> DEFINE mine == [n \in {Local} |-> [base |-> c, count |-> c, stale |-> FALSE]]
<1>2. /\ UNCHANGED <<row, target, cont, lock, batch, pc, kpc, pick, found, report, blind>>
      /\ copy' = [copy EXCEPT ![Metrics] = mine]
  BY <1>1 DEF RefreshCount
<1>3. Table(mine) /\ DOMAIN mine = {Local}
  BY FleetAssumption DEF Table, Copies
<1> HIDE DEF mine
<1>4. Mine(Metrics) /\ Tracked(Metrics)' = {Local}
  BY <1>2, <1>3, SetMine, Distinct DEF IInv, Tracked
<1>5. Live' = Live /\ \A n : Held(n)' = Held(n)
  BY <1>2 DEF Live, Held
<1>6. Plain'
  BY <1>2 DEF IInv, TypeOK, Plain
<1>7. \A r \in Reqs : Control(r)'
  BY <1>2, <1>5 DEF IInv, Control, ContainerFollows, LeftToQueue, TargetFollows
<1>8. CountersCover' /\ CapacityRespected' /\ CopiesCover'
  BY <1>2, <1>4, <1>5, CoverKept
<1>9. RemovedStillCounted'
  BY <1>2, <1>4, <1>5, RemovedKept, Distinct
<1>10. KillReadsCounter'
  BY <1>2, <1>4, KillReadsKept, Distinct DEF IInv, Counting
<1> QED
  BY <1>2, <1>4, <1>5, <1>6, <1>7, <1>8, <1>9, <1>10, OthersKeep, Distinct
  DEF IInv, LocalStays, Counting

LEMMA RefreshSaveIInv == ASSUME IInv, RefreshSave PROVE IInv'
<1>1. PICK c \in Nat : c = copy[Metrics][Local].count
  <2>1. Local \in Tracked(Metrics) /\ Metrics \in Procs
    BY Distinct DEF IInv, CopyTables, RefreshSave
  <2> QED
    BY <2>1 DEF IInv, TypeOK, Copies
<1> DEFINE new == [status |-> "Online", count |-> c]
<1>2. /\ Local \in Nodes /\ Local \in Live
      /\ Overwrite(Metrics, Local, new)
      /\ Counted(Local, c)
      /\ UNCHANGED <<target, cont, lock, batch, pc, kpc, pick, found, report>>
  BY <1>1, FleetAssumption DEF IInv, LocalStays, RefreshSave
<1>3. /\ new \in [status : {"Online", "Offline", "Gone"}, count : Nat]
      /\ new.status = "Online" /\ new.count = c
  OBVIOUS
<1>4. row' = [row EXCEPT ![Local] = new]
  BY <1>2 DEF Overwrite
<1> HIDE DEF new
<1>5. Plain' /\ Live' = Live
  BY <1>2, <1>3, <1>4, CountedPromise DEF IInv, TypeOK, Plain, Live
<1>6. \A r \in Reqs : Control(r)'
  BY <1>2, <1>5 DEF IInv, Control, ContainerFollows, LeftToQueue, TargetFollows
<1>7. /\ blind \subseteq blind' \cup {Local}
      /\ Local \notin blind' =>
            Cardinality(Held(Local)) <= new.count /\ Cardinality(Held(Local)) <= Capacity[Local]
  BY <1>2, <1>3, CountedPromise
<1> QED
  BY <1>2, <1>3, <1>5, <1>6, <1>7, OverwriteIInv

-----------------------------------------------------------------------------
(* The specification                                                       *)

LEMMA InitIInv == ASSUME Init PROVE IInv
<1>1. Local \in Live
  BY FleetAssumption DEF Init, Live
<1>2. TypeOK /\ CopyTables
  <2>1. \A p \in Procs : copy[p] = None
    BY DEF Init
  <2>2. Plain
    BY FleetAssumption DEF Init, Plain
  <2> QED
    BY <2>1, <2>2, NoCopies, TypeParts, Distinct DEF Init, CopyTables, Tracked
<1>3. \A r \in Reqs : Control(r)
  BY DEF Init, Control, ContainerFollows, LeftToQueue, TargetFollows
<1>4. /\ \A p \in Procs : Tracked(p) = {} /\ Fresh(p) = {}
      /\ \A n \in Nodes : Held(n) = {}
  BY NoCopies, FleetAssumption DEF Init, Tracked, Fresh, Held
<1>5. CountersCover /\ CapacityRespected
  <2>1. \A n \in Live : n \in Nodes /\ row[n].count = 0
    BY DEF Init, Live
  <2>2. \A n \in Nodes : Capacity[n] >= 0
    BY FleetAssumption
  <2>3. \A n \in Nodes : Cardinality(Held(n)) = 0
    BY <1>4, FS_EmptySet, Zenon
  <2> QED
    BY <2>1, <2>2, <2>3 DEF CountersCover, CapacityRespected
<1>6. PlaceHasRoom /\ KillFollowsVictim /\ KillReadsCounter /\ CopiesCover /\ RemovedStillCounted
  BY <1>4, Distinct DEF Init, PlaceHasRoom, KillFollowsVictim, KillReadsCounter, CopiesCover,
     RemovedStillCounted
<1> QED
  BY <1>1, <1>2, <1>3, <1>5, <1>6 DEF IInv, LocalStays, Counting

LEMMA NextIInv == ASSUME IInv, [Next]_vars PROVE IInv'
<1>1. ASSUME NEW r \in Reqs, Create(r) PROVE IInv'
  BY <1>1, BeginIInv, PreferIInv, PreferFailsIInv, SelectIInv, LockTimeoutIInv, EnqueueIInv,
     VanishedIInv, ReserveIInv, ConflictIInv, CancelQueuedIInv, CreateHomeIInv, CreatedIInv,
     CreateFailsIInv, CreateThrowsIInv, FallbackIInv, SaveIInv, SaveThrowsIInv, StoreIInv
  DEF Create
<1>2. ASSUME NEW k \in Kills, Kill(k) PROVE IInv'
  BY <1>2, ReadNodeIInv, DestroyIInv, DestroyFailsIInv, ReleaseIInv DEF Kill
<1>3. ASSUME NEW n \in Nodes, Node(n) PROVE IInv'
  BY <1>3, DeregisterIInv, MarkOfflineIInv, MeasureIInv, LoseIInv, HeartbeatIInv DEF Node
<1>4. CASE UNCHANGED vars
  BY <1>4, ReportIInv DEF vars, IInv, TypeOK
<1> QED
  BY <1>1, <1>2, <1>3, <1>4, CancelIInv, ReadPendingIInv, AssignPendingIInv, RefreshCountIInv,
     RefreshSaveIInv
  DEF Next

LEMMA Invariance == Spec => []IInv
<1>1. Init => IInv
  BY InitIInv
<1>2. IInv /\ [Next]_vars => IInv'
  BY NextIInv
<1> QED
  BY <1>1, <1>2, PTL DEF Spec

\* The rows, the tracked copies and the processes keep their types, through
\* saves of stale contexts and removals of nodes.
THEOREM TypeCorrect == Spec => []TypeOK
<1>1. IInv => TypeOK
  BY DEF IInv
<1> QED
  BY <1>1, Invariance, PTL

\* Nobody who writes WorkerNode.CurrentContainers - a scheduler, a late save,
\* a destruction, the queue, a heartbeat, the metrics of the server itself -
\* leaves it below what the node carries, however many of them work on copies
\* of the row at once, outside the causes that blind records (reservations kept
\* in memory, counts that miss a container or a reservation, releases for
\* nothing, and containers run on the server's own Docker without a reservation).
THEOREM CountersAlwaysCover == Spec => []CountersCover
<1>1. IInv => CountersCover
  BY DEF IInv, Counting
<1> QED
  BY <1>1, Invariance, PTL

\* A node carries no more than MaxContainers outside those causes, although a
\* scheduler decides on a copy that it read before it had the lock
\* "fleet:scheduler": the xmin token refuses its reservation when the row was
\* written since.
THEOREM CapacityAlwaysRespected == Spec => []CapacityRespected
<1>1. IInv => CapacityRespected
  BY DEF IInv, Counting
<1> QED
  BY <1>1, Invariance, PTL

\* A finished target and the stored container it stands for name the same node,
\* whether the node was kept, replaced by the fallback or removed meanwhile.
THEOREM TargetsAlwaysNameTheirNode == Spec => []TargetsNameTheirNode
<1>1. IInv => TargetsNameTheirNode
  BY DEF IInv, Control, TargetFollows, TargetsNameTheirNode
<1> QED
  BY <1>1, Invariance, PTL

-----------------------------------------------------------------------------
(* The xmin token                                                          *)

\* A copy that can still be saved was read from the row as it is now; that of
\* the local metrics holds their own count.
FreshIsCurrent ==
    \A p \in Procs \ {Metrics} : \A n \in Fresh(p) : n \in Live /\ copy[p][n].base = row[n].count

CInv == IInv /\ FreshIsCurrent

LEMMA CurrentUnchanged ==
    ASSUME CInv, UNCHANGED <<row, copy>>
    PROVE  FreshIsCurrent'
  BY DEF CInv, FreshIsCurrent, Fresh, Tracked, Live

\* Only p has new copies, and they are of the rows as they are.
LEMMA CurrentSet ==
    ASSUME CInv, UNCHANGED row, NEW p \in Procs, NEW c, copy' = [copy EXCEPT ![p] = c],
           p # Metrics => \A n \in DOMAIN c : ~c[n].stale => n \in Live /\ c[n].base = row[n].count
    PROVE  FreshIsCurrent'
<1>1. copy'[p] = c /\ \A q \in Procs \ {p} : copy'[q] = copy[q]
  BY DEF CInv, IInv, CopyTables
<1>2. Live' = Live
  BY DEF Live
<1> QED
  BY <1>1, <1>2 DEF CInv, FreshIsCurrent, Fresh, Tracked

LEMMA CurrentDropped ==
    ASSUME CInv, UNCHANGED row, NEW p \in Procs, Drop(p)
    PROVE  FreshIsCurrent'
  BY NoCopies, CurrentSet DEF Drop

LEMMA QueryIsCurrent ==
    ASSUME CInv, NEW p \in Procs \ {Metrics}, NEW S \in SUBSET Live
    PROVE  /\ DOMAIN Query(p, S) = Tracked(p) \cup S
           /\ \A n \in DOMAIN Query(p, S) : ~Query(p, S)[n].stale =>
                 n \in Live /\ Query(p, S)[n].base = row[n].count
<1>1. S \in SUBSET Nodes
  BY DEF Live
<1>2. /\ DOMAIN Query(p, S) = Tracked(p) \cup S
      /\ \A n \in Tracked(p) : Query(p, S)[n] = copy[p][n]
      /\ \A n \in S \ Tracked(p) :
            Query(p, S)[n] = [base |-> row[n].count, count |-> row[n].count, stale |-> FALSE]
  BY <1>1, QueryCopies DEF CInv, IInv
<1>3. \A n \in Tracked(p) : ~copy[p][n].stale => n \in Live /\ copy[p][n].base = row[n].count
  BY DEF CInv, FreshIsCurrent, Fresh
<1> QED
  BY <1>2, <1>3

LEMMA CurrentQueried ==
    ASSUME CInv, UNCHANGED row, NEW p \in Procs \ {Metrics}, NEW S \in SUBSET Live,
           copy' = [copy EXCEPT ![p] = Query(p, S)]
    PROVE  FreshIsCurrent'
<1> DEFINE c == Query(p, S)
<1>1. \A n \in DOMAIN c : ~c[n].stale => n \in Live /\ c[n].base = row[n].count
  BY QueryIsCurrent
<1> HIDE DEF c
<1>2. copy' = [copy EXCEPT ![p] = c]
  BY DEF c
<1> QED
  BY <1>1, <1>2, CurrentSet

\* Changing the counter of a copy in memory changes neither mark.
LEMMA CountedCopy ==
    \A c \in Copies :
        /\ Reserved(c).base = c.base /\ Reserved(c).stale = c.stale
        /\ Released(c).base = c.base /\ Released(c).stale = c.stale
  BY DEF Reserved, Released, Copies

\* The rows of W are written and nobody has a fresh copy of them any more.
LEMMA CurrentWritten ==
    ASSUME CInv, NEW p, NEW W, copy' = Behind(p, W),
           \A n \in Nodes \ W : row'[n] = row[n]
    PROVE  FreshIsCurrent'
<1> SUFFICES ASSUME NEW q \in Procs \ {Metrics}, NEW n \in Fresh(q)'
             PROVE  n \in Live' /\ copy'[q][n].base = row'[n].count
  BY DEF FreshIsCurrent
<1>1. q # p
  BY NoCopies DEF Behind, Fresh, Tracked
<1>2. copy'[q] = [m \in Tracked(q) |-> [copy[q][m] EXCEPT !.stale = @ \/ m \in W]]
  BY <1>1 DEF Behind
<1>3. n \in Tracked(q) /\ copy[q][n] \in Copies
  BY <1>2 DEF CInv, IInv, TypeOK, Fresh, Tracked
<1>4. ~copy[q][n].stale /\ n \notin W /\ copy'[q][n].base = copy[q][n].base
  BY <1>2, <1>3 DEF Fresh, Tracked, Copies
<1>5. n \in Live /\ copy[q][n].base = row[n].count /\ n \in Nodes
  BY <1>3, <1>4 DEF CInv, FreshIsCurrent, Fresh, Live
<1> QED
  BY <1>4, <1>5 DEF Live

LEMMA ReserveIsCurrent ==
    ASSUME CInv, NEW r \in Reqs, Reserve(r)
    PROVE  FreshIsCurrent'
<1>1. PICK n \in Nodes : n = pick[r] /\ n \in Live
  BY DEF Reserve, Live
<1> DEFINE c == copy[r][n].count + 1
           x == [base |-> c, count |-> c, stale |-> FALSE]
<1>2. r \in Procs \ {Metrics}
  BY Distinct
<1>3. /\ copy' = [Behind(r, {n}) EXCEPT ![r] = [copy[r] EXCEPT ![n] = x]]
      /\ row' = [row EXCEPT ![n] = [row[n] EXCEPT !.count = c]]
  BY <1>1 DEF Reserve, Saved
<1>4. /\ row'[n].count = c /\ row'[n].status = row[n].status
      /\ \A m \in Nodes \ {n} : row'[m] = row[m]
  BY <1>3 DEF CInv, IInv, TypeOK
<1>5. Live' = Live
  BY <1>4 DEF Live
<1>6. DOMAIN Behind(r, {n}) = Procs
  BY DEF Behind
<1>7. copy'[r] = [copy[r] EXCEPT ![n] = x] /\ x.base = c
  BY <1>2, <1>3, <1>6
<1> HIDE DEF x, c
<1>8. ASSUME NEW m \in Fresh(r)' PROVE m \in Live' /\ copy'[r][m].base = row'[m].count
  <2>1. CASE m = n
    BY <1>1, <1>4, <1>5, <1>7, <2>1 DEF Fresh, Tracked
  <2>2. CASE m # n
    <3>1. m \in Fresh(r) /\ copy'[r][m] = copy[r][m]
      BY <1>7, <2>2 DEF Fresh, Tracked
    <3> QED
      BY <1>2, <1>4, <1>5, <2>2, <3>1 DEF CInv, FreshIsCurrent, Live
  <2> QED
    BY <2>1, <2>2
<1>9. ASSUME NEW q \in Procs \ {r, Metrics}, NEW m \in Fresh(q)'
      PROVE  m \in Live' /\ copy'[q][m].base = row'[m].count
  <2>1. copy'[q] = [k \in Tracked(q) |-> [copy[q][k] EXCEPT !.stale = @ \/ k \in {n}]]
    BY <1>3 DEF Behind
  <2>2. m \in Tracked(q) /\ copy[q][m] \in Copies
    BY <2>1 DEF CInv, IInv, TypeOK, Fresh, Tracked
  <2>3. ~copy[q][m].stale /\ m # n /\ copy'[q][m].base = copy[q][m].base
    BY <2>1, <2>2 DEF Fresh, Tracked, Copies
  <2>4. m \in Live /\ copy[q][m].base = row[m].count /\ m \in Nodes
    BY <2>2, <2>3 DEF CInv, FreshIsCurrent, Fresh, Live
  <2> QED
    BY <1>4, <1>5, <2>3, <2>4
<1> QED
  BY <1>8, <1>9 DEF FreshIsCurrent

LEMMA CreateIsCurrent ==
    ASSUME CInv, NEW r \in Reqs, Create(r)
    PROVE  FreshIsCurrent'
<1>1. r \in Procs \ {Metrics} /\ Online \in SUBSET Live /\ {Local} \in SUBSET Live
  BY Distinct DEF CInv, IInv, LocalStays, Online, Live
<1>2. CASE Begin(r)
  <2>1. \A n : Online \cap {n} \in SUBSET Live
    BY <1>1
  <2> QED
    BY <1>1, <1>2, <2>1, CurrentQueried DEF Begin
<1>3. CASE Select(r)
  <2> DEFINE mine == Query(r, Online)
  <2>1. UNCHANGED row /\ \E S : copy' = [copy EXCEPT ![r] = Kept(mine, S)]
    BY <1>3 DEF Select
  <2>2. \A m \in DOMAIN mine : ~mine[m].stale => m \in Live /\ mine[m].base = row[m].count
    BY <1>1, QueryIsCurrent
  <2> HIDE DEF mine
  <2>3. ASSUME NEW S, copy' = [copy EXCEPT ![r] = Kept(mine, S)] PROVE FreshIsCurrent'
    <3> DEFINE c == Kept(mine, S)
    <3>1. \A m \in DOMAIN c : ~c[m].stale => m \in Live /\ c[m].base = row[m].count
      BY <2>2 DEF Kept
    <3> HIDE DEF c
    <3>2. copy' = [copy EXCEPT ![r] = c]
      BY <2>3 DEF c
    <3> QED
      BY <1>1, <2>1, <3>1, <3>2, CurrentSet
  <2> QED
    BY <2>1, <2>3
<1>4. CASE Prefer(r)
  <2> DEFINE n == pick[r]
             mine == Query(r, {n} \cap Live)
             c == [mine EXCEPT ![n] = Reserved(mine[n])]
  <2>1. copy' = [copy EXCEPT ![r] = c] /\ n \in Live /\ UNCHANGED row
    BY <1>4 DEF Prefer
  <2>2. /\ {n} \cap Live \in SUBSET Nodes
        /\ n \in DOMAIN mine
        /\ \A m \in DOMAIN mine : ~mine[m].stale => m \in Live /\ mine[m].base = row[m].count
    <3>1. {n} \cap Live \in SUBSET Live
      OBVIOUS
    <3>2. /\ DOMAIN mine = Tracked(r) \cup ({n} \cap Live)
          /\ \A m \in DOMAIN mine : ~mine[m].stale => m \in Live /\ mine[m].base = row[m].count
      BY <1>1, <3>1, QueryIsCurrent
    <3> QED
      BY <2>1, <3>2 DEF Live
  <2>3. mine[n] \in Copies
    BY <1>1, <2>2, QueryCopies DEF CInv, IInv, Table
  <2> HIDE DEF mine
  <2>4. \A m \in DOMAIN c : ~c[m].stale => m \in Live /\ c[m].base = row[m].count
    BY <2>2, <2>3, CountedCopy
  <2> QED
    BY <1>1, <2>1, <2>4, CurrentSet
<1>5. CASE Fallback(r)
  <2> DEFINE mine == Query(r, {Local})
             c == [mine EXCEPT ![Local] = Reserved(mine[Local])]
  <2>1. UNCHANGED row /\ (UNCHANGED copy \/ Drop(r) \/ copy' = [copy EXCEPT ![r] = c])
    BY <1>5 DEF Fallback
  <2>2. /\ {Local} \in SUBSET Nodes
        /\ Local \in DOMAIN mine
        /\ \A m \in DOMAIN mine : ~mine[m].stale => m \in Live /\ mine[m].base = row[m].count
    <3>1. DOMAIN mine = Tracked(r) \cup {Local}
      BY <1>1, QueryIsCurrent
    <3>2. \A m \in DOMAIN mine : ~mine[m].stale => m \in Live /\ mine[m].base = row[m].count
      BY <1>1, QueryIsCurrent
    <3> QED
      BY <3>1, <3>2, FleetAssumption
  <2>3. mine[Local] \in Copies
    BY <1>1, <2>2, QueryCopies DEF CInv, IInv, Table
  <2> HIDE DEF mine
  <2>4. \A m \in DOMAIN c : ~c[m].stale => m \in Live /\ c[m].base = row[m].count
    BY <2>2, <2>3, CountedCopy
  <2> QED
    BY <1>1, <2>1, <2>4, CurrentSet, CurrentUnchanged, CurrentDropped
<1>6. CASE CreateFails(r)
  <2> DEFINE n == pick[r]
             c == [copy[r] EXCEPT ![n] = Released(copy[r][n])]
  <2>1. copy' = [copy EXCEPT ![r] = c] /\ UNCHANGED row
    BY <1>6 DEF CreateFails
  <2>2. \A m \in Tracked(r) : copy[r][m] \in Copies
    BY <1>1 DEF CInv, IInv, TypeOK
  <2>3. DOMAIN c = Tracked(r)
    BY DEF Tracked
  <2>4. \A m \in Tracked(r) : c[m].stale = copy[r][m].stale /\ c[m].base = copy[r][m].base
    BY <2>2, CountedCopy DEF Tracked
  <2> HIDE DEF c
  <2>5. \A m \in DOMAIN c : ~c[m].stale => m \in Live /\ c[m].base = row[m].count
    BY <1>1, <2>3, <2>4 DEF CInv, FreshIsCurrent, Fresh
  <2> QED
    BY <1>1, <2>1, <2>5, CurrentSet
<1>7. CASE Save(r)
  BY <1>7, CurrentWritten DEF Save, Write
<1>8. CASE PreferFails(r) \/ LockTimeout(r) \/ Conflict(r) \/ CancelQueued(r) \/ CreateHome(r)
           \/ CreateThrows(r) \/ SaveThrows(r)
  BY <1>1, <1>8, CurrentDropped
  DEF PreferFails, LockTimeout, Conflict, CancelQueued, CreateHome, CreateThrows, SaveThrows
<1>9. CASE Enqueue(r) \/ Vanished(r) \/ Created(r) \/ Store(r)
  BY <1>9, CurrentUnchanged DEF Enqueue, Vanished, Created, Store
<1> QED
  BY <1>2, <1>3, <1>4, <1>5, <1>6, <1>7, <1>8, <1>9, ReserveIsCurrent DEF Create

LEMMA KillIsCurrent ==
    ASSUME CInv, NEW k \in Kills, Kill(k)
    PROVE  FreshIsCurrent'
<1>1. k \in Procs \ {Metrics}
  BY Distinct
<1>2. CASE ReadNode(k)
  <2>1. {cont[Victim[k]].node} \cap Live \in SUBSET Live
    OBVIOUS
  <2> QED
    BY <1>1, <1>2, <2>1, CurrentQueried DEF ReadNode
<1>3. CASE Destroy(k) \/ DestroyFails(k)
  BY <1>3, CurrentUnchanged DEF Destroy, DestroyFails
<1>4. CASE Release(k)
  BY <1>4, CurrentWritten DEF Release
<1> QED
  BY <1>2, <1>3, <1>4 DEF Kill

LEMMA OverwriteIsCurrent ==
    ASSUME CInv, NEW p, NEW n \in Nodes, NEW new, Overwrite(p, n, new)
    PROVE  FreshIsCurrent'
<1>1. \A m \in Nodes \ {n} : row'[m] = row[m]
  BY DEF Overwrite, CInv, IInv, TypeOK
<1> QED
  BY <1>1, CurrentWritten DEF Overwrite

LEMMA NodeIsCurrent ==
    ASSUME CInv, NEW n \in Nodes, Node(n)
    PROVE  FreshIsCurrent'
<1>1. CASE Measure(n) \/ Lose(n)
  BY <1>1, CurrentUnchanged DEF Measure, Lose
<1>2. CASE Deregister(n) \/ MarkOffline(n) \/ Heartbeat(n)
  BY <1>2, OverwriteIsCurrent DEF Deregister, MarkOffline, Heartbeat
<1> QED
  BY <1>1, <1>2 DEF Node

LEMMA QueueIsCurrent ==
    ASSUME CInv, ReadPending \/ AssignPending
    PROVE  FreshIsCurrent'
<1>1. Queue \in Procs \ {Metrics} /\ Online \in SUBSET Live
  BY Distinct DEF Online, Live
<1>2. CASE ReadPending
  BY <1>1, <1>2, CurrentQueried DEF ReadPending
<1>3. CASE AssignPending
  <2>1. CASE Drop(Queue) /\ UNCHANGED row
    BY <1>1, <2>1, CurrentDropped
  <2>2. CASE \E W : copy' = Behind(Queue, W) /\ \A n \in Nodes \ W : row'[n] = row[n]
    BY <2>2, CurrentWritten
  <2> QED
    BY <1>3, <2>1, <2>2 DEF AssignPending
<1> QED
  BY <1>2, <1>3

LEMMA NextIsCurrent == ASSUME CInv, [Next]_vars PROVE FreshIsCurrent'
<1>1. Local \in Nodes
  BY FleetAssumption
<1>2. CASE RefreshSave
  BY <1>1, <1>2, OverwriteIsCurrent DEF RefreshSave
<1>5. CASE RefreshCount
  BY <1>5, CurrentSet, Distinct DEF RefreshCount
<1>3. CASE \E r \in Reqs : Cancel(r)
  BY <1>3, CurrentUnchanged DEF Cancel
<1>4. CASE UNCHANGED vars
  BY <1>4, CurrentUnchanged DEF vars
<1> QED
  BY <1>2, <1>3, <1>4, <1>5, CreateIsCurrent, KillIsCurrent, NodeIsCurrent, QueueIsCurrent DEF Next

LEMMA CurrentInvariance == Spec => []CInv
<1>1. Init => CInv
  BY InitIInv, NoCopies DEF Init, CInv, FreshIsCurrent, Fresh, Tracked
<1>2. CInv /\ [Next]_vars => CInv'
  BY NextIInv, NextIsCurrent DEF CInv
<1> QED
  BY <1>1, <1>2, PTL DEF Spec

\* No update of a counter is lost: whoever can still save a copy of a row works
\* on the row's present value, and the row exists.
THEOREM NoLostUpdate == Spec => []FreshIsCurrent
<1>1. CInv => FreshIsCurrent
  BY DEF CInv
<1> QED
  BY <1>1, CurrentInvariance, PTL

\* A removed row is written by nobody: neither a late save of an old context nor
\* a heartbeat under way brings a node back that the administrator deregistered.
RemovedRowsUntouched == [][\A n \in Nodes \ Live : row'[n] = row[n]]_vars

\* RemovedRowsUntouched, for saves that started before the removal.
THEOREM RemovedStayRemoved == Spec => RemovedRowsUntouched
<1>1. ASSUME CInv, [Next]_vars, NEW n \in Nodes \ Live PROVE row'[n] = row[n]
  <2>1. \A p \in Procs \ {Metrics} : n \notin Fresh(p)
    BY <1>1 DEF CInv, FreshIsCurrent
  <2>2. Local # n /\ Queue \in Procs \ {Metrics}
    BY <1>1, Distinct DEF CInv, IInv, LocalStays
  <2>3. \A m \in Nodes : m # n => \A p, new : Overwrite(p, m, new) => row'[n] = row[n]
    BY <1>1 DEF Overwrite, CInv, IInv, TypeOK
  <2>4. ASSUME NEW r \in Reqs, Create(r) PROVE row'[n] = row[n]
    <3>1. r \in Procs \ {Metrics}
      BY Distinct
    <3>2. Save(r) => row'[n] = row[n]
      BY <2>1, <3>1 DEF Save, Write
    <3>3. Reserve(r) => row'[n] = row[n]
      BY <1>1 DEF Reserve, CInv, IInv, TypeOK
    <3> QED
      BY <2>4, <3>2, <3>3 DEF Create, Begin, Prefer, PreferFails, Select, LockTimeout, Enqueue,
         Vanished, Conflict, CancelQueued, CreateHome, Created, CreateFails, CreateThrows,
         Fallback, SaveThrows, Store
  <2>5. ASSUME NEW k \in Kills, Kill(k) PROVE row'[n] = row[n]
    BY <2>1, <2>5, Distinct DEF Kill, ReadNode, Destroy, DestroyFails, Release
  <2>6. ASSUME NEW m \in Nodes, Node(m) PROVE row'[n] = row[n]
    BY <2>3, <2>6 DEF Node, Deregister, MarkOffline, Measure, Lose, Heartbeat, Online, Live
  <2>7. AssignPending => row'[n] = row[n]
    BY <2>1, <2>2 DEF AssignPending
  <2>8. RefreshSave => row'[n] = row[n]
    BY <2>2, <2>3, FleetAssumption DEF RefreshSave
  <2> QED
    BY <1>1, <2>4, <2>5, <2>6, <2>7, <2>8 DEF Next, Cancel, ReadPending, RefreshCount, vars
<1>2. CInv /\ [Next]_vars => [\A n \in Nodes \ Live : row'[n] = row[n]]_vars
  BY <1>1
<1> QED
  BY <1>2, CurrentInvariance, PTL DEF Spec, RemovedRowsUntouched

-----------------------------------------------------------------------------
(* The queue                                                               *)

\* PlacedNotBookedAgain, for any number of requests and nodes.  The queue may
\* assign a target that its owner cancelled after the queue had read it: a
\* request whose target was ever queued went on to the server's own Docker, so
\* no worker is booked for a container that another one already runs.
THEOREM PlacedStayBookedOnce == Spec => PlacedNotBookedAgain
<1>1. ASSUME IInv, [Next]_vars, NEW r \in Reqs,
             target'[r].status = "Running", target'[r] # target[r]
      PROVE  cont[r].node = NoNode /\ cont[r].host \in {NoNode, Local}
  <2>1. Control(r)
    BY <1>1 DEF IInv
  <2>2. CASE pc[r] = "place"
    BY <2>1, <2>2 DEF Control, ContainerFollows, Preparing
  <2>3. CASE r \in batch
    BY <2>1, <2>3 DEF Control, ContainerFollows, LeftToQueue
  <2>4. target \in [Reqs -> [status : {"none", "Pending", "Running", "Completed",
                                       "Failed", "Cancelled"},
                             node : Nodes \cup {NoNode}]]
    BY <1>1 DEF IInv, TypeOK
  <2>5. ASSUME NEW q \in Reqs, Create(q) PROVE pc[r] = "place"
    <3>1. Reserve(q) => pc[r] = "place"
      BY <1>1, <2>4 DEF Reserve
    <3>2. Save(q) => target'[r] = target[r] \/ target'[r].status # "Running"
      BY <2>4 DEF Save, Outcome
    <3>3. PreferFails(q) \/ Enqueue(q) \/ CancelQueued(q)
            => target'[r] = target[r] \/ target'[r].status # "Running"
      BY <2>4 DEF PreferFails, Enqueue, CancelQueued
    <3> QED
      BY <1>1, <2>5, <3>1, <3>2, <3>3 DEF Create, Begin, Prefer, Select, LockTimeout, Vanished,
         Conflict, CreateHome, Created, CreateFails, CreateThrows, Fallback, SaveThrows, Store
  <2>6. ASSUME NEW q \in Reqs, Cancel(q) PROVE FALSE
    BY <1>1, <2>4, <2>6 DEF Cancel
  <2>7. ASSUME NEW n \in Nodes, Deregister(n) PROVE FALSE
    BY <1>1, <2>4, <2>7 DEF Deregister
  <2>8. AssignPending => r \in batch
    BY <1>1, <2>4 DEF AssignPending
  <2> QED
    BY <1>1, <2>2, <2>3, <2>5, <2>6, <2>7, <2>8 DEF Next, Kill, ReadNode, Destroy, DestroyFails,
       Release, Node, MarkOffline, Measure, Lose, Heartbeat, ReadPending, RefreshCount,
       RefreshSave, vars
<1>2. IInv /\ [Next]_vars
      => [\A r \in Reqs : target'[r].status = "Running" /\ target'[r] # target[r]
             => cont[r].node = NoNode /\ cont[r].host \in {NoNode, Local}]_vars
  BY <1>1
<1> QED
  BY <1>2, Invariance, PTL DEF Spec, PlacedNotBookedAgain
=============================================================================

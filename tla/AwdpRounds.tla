----------------------------- MODULE AwdpRounds -----------------------------
(***************************************************************************)
(* The round engine of an AWDP game: AwdpRoundService runs a loop that     *)
(* opens the rounds one after another, gives every team a fresh flag by    *)
(* replacing the container of its service, and survives restarts; the      *)
(* administrator starts and stops the game and the teams reset or recover  *)
(* their instances meanwhile (AwdpInstanceService).                        *)
(*                                                                         *)
(* One game with one service on one server.  A loop l is a task and its    *)
(* cancellation source; registered is the entry of the game in _gameLoops. *)
(* A cancelled token lets no further call through, so that a cancelled     *)
(* loop only has its finally block left.  A container is named by the flag *)
(* it was started with: the number of a round, or 0 for none.              *)
(*                                                                         *)
(* The semaphores of RunWithInstanceLock belong to the id of an instance   *)
(* row; orphans holds who works for a row that was deleted since, and      *)
(* behind who will delete a container row that was deleted since: both     *)
(* make SaveChanges throw.                                                 *)
(***************************************************************************)
EXTENDS Naturals, FiniteSets, FiniteSetsExt

CONSTANTS Loops, NoLoop, Players, Admin, Teams, NoBox,
          TeamOf,          \* the team whose instance each player's requests are about
          Kinds,           \* what each player asks for: "reset", "recover"
          TotalRounds,     \* AwdpService.TotalRounds, at least 1 (TryGetSchedule)
          MaxResetCount, MaxRecoveryCount,
          MaxStarts, MaxStops, MaxCrashes    \* bounds of the model

ASSUME AwdpAssumption ==
    /\ NoLoop \notin Loops
    /\ Loops \cap Players = {} /\ Admin \notin Loops \cup Players
    /\ IsFiniteSet(Teams) /\ Teams # {} /\ TeamOf \in [Players -> Teams]
    /\ Kinds \in [Players -> SUBSET {"reset", "recover"}]
    /\ TotalRounds \in Nat \ {0}
    /\ NoBox \notin Nat
    /\ {MaxResetCount, MaxRecoveryCount, MaxStarts, MaxStops, MaxCrashes} \subseteq Nat

VARIABLES
    up,            \* the server runs
    registered,    \* _gameLoops: the loop of the game, if any
    loop,          \* where each loop is, and its local variables
    round,         \* AwdpRounds: the status of each round
    flags,         \* AwdpFlags: the rounds whose flags exist
    rows,          \* AwdpServiceInstances: the teams that have an instance
    box,           \* the container each instance names, while it IsRunning
    resets,        \* AwdpResetRecords of type Player, per team
    recoveries,    \* AwdpRecoveryRecords, per team
    op,            \* the reset or recovery each loop and player is executing
    down,          \* the DestroyInstancesForGame each loop and Admin executes
    admin,         \* where the administrator's start and stop requests are
    orphans, behind,
    registry,      \* ghost: whether _gameLoops can be relied on
    starts, stops, crashes

vars == <<up, registered, loop, round, flags, rows, box, resets, recoveries,
          op, down, admin, orphans, behind, registry, starts, stops, crashes>>

records == <<resets, recoveries>>
db == <<round, flags, rows, box, records>>
calls == <<op, down, orphans, behind>>
history == <<registry, starts, stops, crashes>>

Rounds == 1..TotalRounds
Open(n) == round[n] \in {"Attack", "Patch"}
OpenRounds == {n \in Rounds : Open(n)}
LastRound == Max({0} \cup {n \in Rounds : round[n] # "None"})
\* GetCurrentRound, whose flags a reset uses; 0 when there are none.
CurrentFlag == LET n == Max({0} \cup OpenRounds) IN IF n \in flags THEN n ELSE 0

NoLocals == [pc |-> "idle", cur |-> 0, stat |-> "None", new |-> FALSE, todo |-> {}]
NoOp(a) == [at |-> "idle", kind |-> "round",
            team |-> IF a \in Players THEN TeamOf[a] ELSE CHOOSE t \in Teams : TRUE,
            flag |-> 0]
NoDown == [at |-> "idle", all |-> {}, boxed |-> {}]
NoAdmin == [start |-> "idle", stop |-> "idle", cur |-> 0]

Init ==
    /\ up = TRUE /\ registered = NoLoop
    /\ loop = [l \in Loops |-> NoLocals]
    /\ round = [n \in Rounds |-> "None"]
    /\ flags = {} /\ rows = {}
    /\ box = [t \in Teams |-> NoBox]
    /\ resets = [t \in Teams |-> 0]
    /\ recoveries = [t \in Teams |-> 0]
    /\ op = [a \in Loops \cup Players |-> NoOp(a)]
    /\ down = [d \in Loops \cup {Admin} |-> NoDown]
    /\ admin = NoAdmin
    /\ orphans = {} /\ behind = {} /\ registry = "kept"
    /\ starts = 0 /\ stops = 0 /\ crashes = 0

-----------------------------------------------------------------------------
(* AwdpInstanceService: resets and recoveries of one instance              *)

Held == {"destroy", "create", "save", "record"}

\* RunWithInstanceLock: the semaphore of the team's instance is taken.
Taken(t) == \E b \in DOMAIN op \ orphans : op[b].at \in Held /\ op[b].team = t

\* a has the semaphore and has loaded the instance; it brings flag f.
Acquire(a, k, t, f) ==
    /\ t \in rows /\ ~Taken(t)
    /\ op' = [op EXCEPT ![a] = [at |-> IF box[t] = NoBox THEN "create" ELSE "destroy",
                               kind |-> k, team |-> t, flag |-> f]]

-----------------------------------------------------------------------------
(* AwdpRoundService.StartGame and StartLoop                                *)

\* A loop that runs, or will.
Live(l) == loop[l].pc \notin {"idle", "cancelled", "exit"}

\* An entry that was lost lets a loop start beside one that runs.
Spawn(l) ==
    /\ loop[l].pc = "idle"
    /\ registered' = l
    /\ loop' = [loop EXCEPT ![l].pc = "spawned"]
    /\ registry' = IF registry = "lost" /\ \E x \in Loops : Live(x) THEN "doubled"
                   ELSE registry

\* StartGame refuses a game whose rounds are over.
StartGame ==
    /\ up /\ admin.start = "idle" /\ starts < MaxStarts
    /\ OpenRounds # {} \/ LastRound < TotalRounds
    /\ starts' = starts + 1
    /\ admin' = [admin EXCEPT !.start = "add"]
    /\ UNCHANGED <<up, registered, loop, db, calls, registry, stops, crashes>>

\* Mutant: the entry is overwritten.
BadStartLoop ==
    /\ admin.start = "add"
    /\ admin' = [admin EXCEPT !.start = "idle"]
    /\ \E l \in Loops : Spawn(l)
    /\ UNCHANGED <<up, db, calls, starts, stops, crashes>>

\* TryAdd fails while a loop is registered.
StartLoop ==
    /\ admin.start = "add"
    /\ admin' = [admin EXCEPT !.start = "idle"]
    /\ IF registered = NoLoop
       THEN \E l \in Loops : Spawn(l)
       ELSE UNCHANGED <<registered, loop, registry>>
    /\ UNCHANGED <<up, db, calls, starts, stops, crashes>>

-----------------------------------------------------------------------------
(* RunGameLoop and RunNextRoundStep                                        *)

At(l, s) == loop[l].pc = s

\* The task reads the token from its source when it first runs.  A source that is
\* disposed by then throws, outside the try block; one that is only cancelled lets
\* the task run to its finally block, and one that is about to be disposed by
\* another loop lets it run.
LoopEnters(l) ==
    /\ \/ /\ loop[l].pc \in {"spawned", "disposed"}
          /\ loop' = [loop EXCEPT ![l].pc = "begin"]
       \/ /\ loop[l].pc = "cancelled"
          /\ loop' = [loop EXCEPT ![l].pc = "exit"]
       \/ /\ loop[l].pc \in {"cancelled", "disposed"}
          /\ loop' = [loop EXCEPT ![l].pc = "idle"]
    /\ UNCHANGED <<up, registered, db, calls, admin, history>>

\* Mutant: the number of rounds is not looked at.
BadBeginRound(l) ==
    /\ At(l, "begin")
    /\ LET open == OpenRounds
           n == IF open # {} THEN Max(open) ELSE LastRound + 1
       IN  loop' = [loop EXCEPT ![l] =
             [pc |-> IF open # {} THEN "instances" ELSE "insert", cur |-> n,
              stat |-> IF open # {} THEN round[n] ELSE "Attack",
              new |-> open = {}, todo |-> Teams]]
    /\ UNCHANGED <<up, registered, db, calls, admin, history>>

\* An open round is taken up where it is; otherwise the next one is opened.
BeginRound(l) ==
    /\ At(l, "begin")
    /\ LET open == OpenRounds
           n == IF open # {} THEN Max(open) ELSE LastRound + 1
       IN  loop' = [loop EXCEPT ![l] =
             IF n > TotalRounds THEN [NoLocals EXCEPT !.pc = "exit"]
             ELSE [pc |-> IF open # {} THEN "instances" ELSE "insert", cur |-> n,
                   stat |-> IF open # {} THEN round[n] ELSE "Attack",
                   new |-> open = {}, todo |-> Teams]]
    /\ UNCHANGED <<up, registered, db, calls, admin, history>>

\* (GameId, RoundNumber) is unique: a second insert throws.
InsertRound(l) ==
    /\ At(l, "insert")
    /\ IF round[loop[l].cur] = "None"
       THEN /\ round' = [round EXCEPT ![loop[l].cur] = "Attack"]
            /\ loop' = [loop EXCEPT ![l].pc = "instances"]
       ELSE /\ loop' = [loop EXCEPT ![l].pc = "exit"]
            /\ UNCHANGED round
    /\ UNCHANGED <<up, registered, flags, rows, box, records, calls, admin, history>>

\* CreateInstancesForGame looks whether the team has an instance ...
CheckInstance(l) ==
    /\ At(l, "instances")
    /\ IF loop[l].todo = {}
       THEN /\ loop' = [loop EXCEPT ![l].todo = Teams,
                                    ![l].pc = IF loop[l].new THEN "flags"
                                              ELSE loop[l].stat]
            /\ UNCHANGED op
       ELSE \E t \in loop[l].todo :
              /\ loop' = [loop EXCEPT ![l].pc = IF t \in rows THEN @ ELSE "add",
                                      ![l].todo = @ \ {t}]
              /\ op' = [op EXCEPT ![l].team = IF t \in rows THEN @ ELSE t]
    /\ UNCHANGED <<up, registered, db, down, admin, orphans, behind, history>>

\* ... and creates a container without a flag and the row, unless the creation
\* fails or throws; the row is unique.
AddInstance(l) ==
    /\ At(l, "add")
    /\ LET t == op[l].team
       IN  \/ /\ t \notin rows
              /\ rows' = rows \cup {t}
              /\ box' = [box EXCEPT ![t] = 0]
              /\ loop' = [loop EXCEPT ![l].pc = "instances"]
           \/ /\ \E s \in {"instances", "exit"} : loop' = [loop EXCEPT ![l].pc = s]
              /\ UNCHANGED <<rows, box>>
    /\ UNCHANGED <<up, registered, round, flags, records, calls, admin, history>>

\* GenerateFlagsAndInject saves the flags of all teams at once ...
GenerateFlags(l) ==
    /\ At(l, "flags")
    /\ flags' = flags \cup {loop[l].cur}
    /\ loop' = [loop EXCEPT ![l].pc = "inject"]
    /\ UNCHANGED <<up, registered, round, rows, box, records, calls, admin, history>>

\* Mutant: an instance that is being reset is passed over.
BadInject(l) ==
    /\ At(l, "inject") /\ op[l].at = "idle"
    /\ IF loop[l].todo = {}
       THEN loop' = [loop EXCEPT ![l].pc = "Attack"] /\ UNCHANGED op
       ELSE \E t \in loop[l].todo :
              /\ loop' = [loop EXCEPT ![l].todo = @ \ {t}]
              /\ \/ (t \notin rows \/ Taken(t)) /\ UNCHANGED op
                 \/ Acquire(l, "round", t, loop[l].cur)
    /\ UNCHANGED <<up, registered, db, down, admin, orphans, behind, history>>

\* ... and resets the instances one by one, whether a reset succeeds or not.
Inject(l) ==
    /\ At(l, "inject") /\ op[l].at = "idle"
    /\ IF loop[l].todo = {}
       THEN loop' = [loop EXCEPT ![l].pc = "Attack"] /\ UNCHANGED op
       ELSE \E t \in loop[l].todo :
              /\ loop' = [loop EXCEPT ![l].todo = @ \ {t}]
              /\ \/ t \notin rows /\ UNCHANGED op
                 \/ Acquire(l, "round", t, loop[l].cur)
    /\ UNCHANGED <<up, registered, db, down, admin, orphans, behind, history>>

\* The checkers run and the phase lasts; the status is then written over
\* whatever the row has.
ToPatch(l) ==
    /\ At(l, "Attack")
    /\ round' = [round EXCEPT ![loop[l].cur] = "Patch"]
    /\ loop' = [loop EXCEPT ![l].pc = "Patch"]
    /\ UNCHANGED <<up, registered, flags, rows, box, records, calls, admin, history>>

FinishRound(l) ==
    /\ At(l, "Patch")
    /\ round' = [round EXCEPT ![loop[l].cur] = "Finished"]
    /\ IF loop[l].cur < TotalRounds
       THEN /\ loop' = [loop EXCEPT ![l] = [NoLocals EXCEPT !.pc = "begin"]]
            /\ UNCHANGED down
       ELSE /\ loop' = [loop EXCEPT ![l] = [NoLocals EXCEPT !.pc = "destroying"]]
            /\ down' = [down EXCEPT ![l].at = "read"]
    /\ UNCHANGED <<up, registered, flags, rows, box, records, op, admin, orphans, behind, history>>

\* The finally block removes the entry of the game, whose loop it may not be, and
\* disposes the source.
LoopEnds(l) ==
    /\ At(l, "exit")
    /\ registered' = NoLoop
    /\ registry' = IF registry = "kept" /\ registered \notin {l, NoLoop} THEN "lost"
                   ELSE registry
    /\ loop' = [x \in Loops |->
         IF x = l THEN NoLocals
         ELSE IF x = registered /\ loop[x].pc = "spawned" THEN [loop[x] EXCEPT !.pc = "disposed"]
         ELSE loop[x]]
    /\ UNCHANGED <<up, db, calls, admin, starts, stops, crashes>>

-----------------------------------------------------------------------------
(* AwdpInstanceService: the steps of a reset or a recovery                 *)

\* The limit and the flag in force are read under the semaphore.
Reset(p) ==
    /\ up /\ op[p].at = "idle" /\ "reset" \in Kinds[p]
    /\ resets[TeamOf[p]] < MaxResetCount
    /\ Acquire(p, "reset", TeamOf[p], CurrentFlag)
    /\ UNCHANGED <<up, registered, loop, db, down, admin, orphans, behind, history>>

Recover(p) ==
    /\ up /\ op[p].at = "idle" /\ "recover" \in Kinds[p]
    /\ recoveries[TeamOf[p]] < MaxRecoveryCount
    /\ Acquire(p, "recover", TeamOf[p], CurrentFlag)
    /\ UNCHANGED <<up, registered, loop, db, down, admin, orphans, behind, history>>

\* An exception ends the request; in the loop it ends the loop.
Abort(a) ==
    /\ op' = [op EXCEPT ![a] = NoOp(a)]
    /\ orphans' = orphans \ {a} /\ behind' = behind \ {a}
    /\ loop' = IF a \in Loops THEN [loop EXCEPT ![a].pc = "exit"] ELSE loop

Return(a) ==
    /\ op' = [op EXCEPT ![a] = NoOp(a)]
    /\ orphans' = orphans \ {a} /\ behind' = behind \ {a}
    /\ UNCHANGED loop

\* Those that will delete the containers of the teams T as well.
Deleters(T) ==
    {a \in DOMAIN op : op[a].at = "destroy" /\ op[a].team \in T}
        \cup {d \in DOMAIN down : down[d].at = "containers" /\ down[d].boxed \cap T # {}}

\* DestroyInstanceContainer and SaveChanges.  A removal that throws leaves the
\* container to the instance, which is saved with IsRunning = false.  SaveChanges
\* may also throw in a loop whose context holds the container it created, which a
\* player has replaced since.
DestroyOld(a) ==
    /\ op[a].at = "destroy"
    /\ LET t == op[a].team
       IN  \/ a \in behind \cup orphans \cup Loops /\ Abort(a) /\ UNCHANGED box
           \/ /\ a \notin orphans
              /\ box' = [box EXCEPT ![t] = NoBox]
              /\ \/ a \notin behind /\ behind' = behind \cup (Deleters({t}) \ {a})
                 \/ behind' = behind \ {a}
              /\ op' = [op EXCEPT ![a].at = "create"]
              /\ UNCHANGED <<loop, orphans>>
    /\ UNCHANGED <<up, registered, round, flags, rows, records, down, admin, history>>

\* CreateContainer gives no container or throws when the provider fails.
CreateNew(a) ==
    /\ op[a].at = "create"
    /\ \/ /\ op' = [op EXCEPT ![a].at = "save"]
          /\ UNCHANGED <<loop, orphans, behind>>
       \/ Return(a)
       \/ Abort(a)
    /\ UNCHANGED <<up, registered, db, down, admin, history>>

\* Mutant: the record of the reset is saved by itself.
BadSaveNew(a) ==
    /\ op[a].at = "save"
    /\ LET t == op[a].team
       IN  /\ box' = IF a \in orphans THEN box ELSE [box EXCEPT ![t] = op[a].flag]
           /\ resets' = IF op[a].kind = "reset"
                        THEN [resets EXCEPT ![t] = @ + 1] ELSE resets
           /\ Return(a)
    /\ UNCHANGED <<up, registered, round, flags, rows, recoveries, down, admin, history>>

\* The instance and the record of a reset are saved together.
SaveNew(a) ==
    /\ op[a].at = "save"
    /\ LET t == op[a].team
       IN  IF a \in orphans
           THEN Abort(a) /\ UNCHANGED <<box, resets>>
           ELSE /\ box' = [box EXCEPT ![t] = op[a].flag]
                /\ resets' = IF op[a].kind = "reset"
                             THEN [resets EXCEPT ![t] = @ + 1] ELSE resets
                /\ IF op[a].kind = "recover"
                   THEN /\ op' = [op EXCEPT ![a].at = "record"]
                        /\ UNCHANGED <<loop, orphans, behind>>
                   ELSE Return(a)
    /\ UNCHANGED <<up, registered, round, flags, rows, recoveries, down, admin, history>>

\* A recovery is recorded by a later save.
RecordRecovery(a) ==
    /\ op[a].at = "record"
    /\ recoveries' = [recoveries EXCEPT ![op[a].team] = @ + 1]
    /\ Return(a)
    /\ UNCHANGED <<up, registered, round, flags, rows, box, resets, down, admin, history>>

\* The client leaves: the token is RequestAborted.
Leave(p) ==
    /\ op[p].at # "idle"
    /\ Return(p)
    /\ UNCHANGED <<up, registered, db, down, admin, history>>

-----------------------------------------------------------------------------
(* AwdpRoundService.StopGame and DestroyInstancesForGame                   *)

\* Cancel: the loop has nothing left but its finally block.  Its semaphore is
\* released a little later than here, which only delays others.
StopGame ==
    /\ up /\ admin.stop = "idle" /\ stops < MaxStops
    /\ stops' = stops + 1
    /\ admin' = [admin EXCEPT !.stop = "read"]
    /\ registered' = NoLoop
    /\ LET l == registered
       IN  IF l = NoLoop
           THEN UNCHANGED <<loop, op, down, orphans, behind>>
           ELSE /\ loop' = [loop EXCEPT ![l] = [NoLocals EXCEPT !.pc =
                             IF loop[l].pc = "spawned" THEN "cancelled" ELSE "exit"]]
                /\ op' = [op EXCEPT ![l] = NoOp(l)]
                /\ down' = [down EXCEPT ![l] = NoDown]
                /\ orphans' = orphans \ {l} /\ behind' = behind \ {l}
    /\ UNCHANGED <<up, db, registry, starts, crashes>>

StopReadsRound ==
    /\ admin.stop = "read"
    /\ admin' = [admin EXCEPT !.cur = Max({0} \cup OpenRounds),
                              !.stop = IF OpenRounds = {} THEN "destroying" ELSE "finish"]
    /\ down' = IF OpenRounds = {} THEN [down EXCEPT ![Admin].at = "read"] ELSE down
    /\ UNCHANGED <<up, registered, loop, db, op, orphans, behind, history>>

StopFinishesRound ==
    /\ admin.stop = "finish"
    /\ round' = [round EXCEPT ![admin.cur] = "Finished"]
    /\ admin' = [admin EXCEPT !.stop = "destroying"]
    /\ down' = [down EXCEPT ![Admin].at = "read"]
    /\ UNCHANGED <<up, registered, loop, flags, rows, box, records, op, orphans, behind, history>>

EndDestroy(d) ==
    /\ down' = [down EXCEPT ![d] = NoDown]
    /\ IF d = Admin
       THEN admin' = [admin EXCEPT !.stop = "idle", !.cur = 0] /\ UNCHANGED loop
       ELSE loop' = [loop EXCEPT ![d].pc = "exit"] /\ UNCHANGED admin

DestroyReads(d) ==
    /\ down[d].at = "read"
    /\ down' = [down EXCEPT ![d] = [at |-> "containers", all |-> rows,
                                    boxed |-> {t \in rows : box[t] # NoBox}]]
    /\ UNCHANGED <<up, registered, loop, db, op, admin, orphans, behind, history>>

\* One SaveChanges for all the containers, without their semaphores.
DestroyContainers(d) ==
    /\ down[d].at = "containers"
    /\ LET T == down[d].boxed
       IN  IF d \in behind \cup orphans
           THEN /\ EndDestroy(d)
                /\ behind' = behind \ {d} /\ orphans' = orphans \ {d}
                /\ UNCHANGED box
           ELSE /\ box' = [t \in Teams |-> IF t \in T THEN NoBox ELSE box[t]]
                /\ behind' = behind \cup (Deleters(T) \ {d})
                /\ down' = [down EXCEPT ![d].at = "rows"]
                /\ UNCHANGED <<loop, admin, orphans>>
    /\ UNCHANGED <<up, registered, round, flags, rows, records, op, history>>

\* Then one for all the rows.
DestroyRows(d) ==
    /\ down[d].at = "rows"
    /\ LET T == down[d].all
       IN  IF d \in orphans
           THEN orphans' = orphans \ {d} /\ UNCHANGED <<rows, box>>
           ELSE /\ rows' = rows \ T
                /\ box' = [t \in Teams |-> IF t \in T THEN NoBox ELSE box[t]]
                /\ orphans' = orphans
                     \cup {a \in DOMAIN op : op[a].at # "idle" /\ op[a].team \in T}
                     \cup {e \in DOMAIN down \ {d} : down[e].all \cap T # {}}
    /\ EndDestroy(d)
    /\ behind' = behind \ {d}
    /\ UNCHANGED <<up, registered, round, flags, records, op, history>>

\* The administrator's client leaves in the middle of StopGame.
AdminLeaves ==
    /\ admin.stop # "idle"
    /\ admin' = [admin EXCEPT !.stop = "idle", !.cur = 0]
    /\ down' = [down EXCEPT ![Admin] = NoDown]
    /\ orphans' = orphans \ {Admin} /\ behind' = behind \ {Admin}
    /\ UNCHANGED <<up, registered, loop, db, op, history>>

-----------------------------------------------------------------------------
(* The server stops, or crashes, and starts again                          *)

Crash ==
    /\ up /\ crashes < MaxCrashes
    /\ crashes' = crashes + 1
    /\ up' = FALSE /\ registered' = NoLoop
    /\ loop' = [l \in Loops |-> NoLocals]
    /\ op' = [a \in Loops \cup Players |-> NoOp(a)]
    /\ down' = [d \in Loops \cup {Admin} |-> NoDown]
    /\ admin' = NoAdmin
    /\ orphans' = {} /\ behind' = {}
    /\ registry' = IF registry = "lost" THEN "kept" ELSE registry
    /\ UNCHANGED <<db, starts, stops>>

\* StartAsync takes up the games with an open round.
Boot ==
    /\ ~up
    /\ up' = TRUE
    /\ IF OpenRounds # {}
       THEN \E l \in Loops : Spawn(l)
       ELSE UNCHANGED <<registered, loop, registry>>
    /\ UNCHANGED <<db, calls, admin, starts, stops, crashes>>

-----------------------------------------------------------------------------
LoopStep(l) ==
    \/ LoopEnters(l) \/ BeginRound(l) \/ InsertRound(l) \/ CheckInstance(l) \/ AddInstance(l)
    \/ GenerateFlags(l) \/ Inject(l) \/ ToPatch(l) \/ FinishRound(l)
    \/ LoopEnds(l)

InstanceStep(a) == DestroyOld(a) \/ CreateNew(a) \/ SaveNew(a) \/ RecordRecovery(a)

DestroyStep(d) == DestroyReads(d) \/ DestroyContainers(d) \/ DestroyRows(d)

AdminStep == StartLoop \/ StopReadsRound \/ StopFinishesRound

Next ==
    \/ StartGame \/ StopGame \/ AdminStep \/ AdminLeaves
    \/ \E l \in Loops : LoopStep(l)
    \/ \E a \in Loops \cup Players : InstanceStep(a)
    \/ \E d \in Loops \cup {Admin} : DestroyStep(d)
    \/ \E p \in Players : Reset(p) \/ Recover(p) \/ Leave(p)
    \/ Crash \/ Boot

Spec == Init /\ [][Next]_vars

-----------------------------------------------------------------------------
(* Properties                                                              *)

Points == {"idle", "spawned", "cancelled", "disposed", "begin", "insert", "instances", "add",
           "flags", "inject", "Attack", "Patch", "destroying", "exit"}

LoopState ==
    [pc : Points, cur : 0..TotalRounds, stat : {"None", "Attack", "Patch"}, new : BOOLEAN,
     todo : SUBSET Teams]

OpState ==
    [at : {"idle"} \cup Held, kind : {"round", "reset", "recover"}, team : Teams,
     flag : 0..TotalRounds]

DownState ==
    [at : {"idle", "read", "containers", "rows"}, all : SUBSET Teams, boxed : SUBSET Teams]

AdminState ==
    [start : {"idle", "add"}, stop : {"idle", "read", "finish", "destroying"},
     cur : 0..TotalRounds]

\* Every variable has its type, and only an instance that exists has a container.
TypeOK ==
    /\ up \in BOOLEAN /\ registered \in Loops \cup {NoLoop}
    /\ loop \in [Loops -> LoopState]
    /\ round \in [Rounds -> {"None", "Attack", "Patch", "Finished"}]
    /\ flags \subseteq Rounds /\ rows \subseteq Teams
    /\ box \in [Teams -> {NoBox} \cup 0..TotalRounds]
    /\ resets \in [Teams -> Nat] /\ recoveries \in [Teams -> Nat]
    /\ op \in [Loops \cup Players -> OpState]
    /\ down \in [Loops \cup {Admin} -> DownState]
    /\ admin \in AdminState
    /\ orphans \subseteq Loops \cup Players \cup {Admin}
    /\ behind \subseteq Loops \cup Players \cup {Admin}
    /\ registry \in {"kept", "lost", "doubled"} /\ {starts, stops, crashes} \subseteq Nat
    /\ \A t \in Teams \ rows : box[t] = NoBox

\* A round is only opened when every round before it is finished, through stops,
\* starts and crashes at any moment (RunNextRoundStep, RunGameLoop).  Only one thing
\* breaks this: when the finally block of a stopped loop removes the entry of the loop
\* started after it, a later start runs a second loop beside that one, and each writes
\* over the rounds of the other.
RoundsInOrder ==
    registry # "doubled" =>
        \A n \in Rounds : round[n] # "None" => \A m \in 1..(n - 1) : round[m] = "Finished"

\* Once the loop that opened a round has given out its flags, no running instance
\* carries the flag of an earlier round, whatever resets the teams asked for meanwhile: a
\* team's reset that overlaps the change of the round brings no old flag back
\* (RunWithInstanceLock, GenerateFlagsAndInject), with the same exception.
NoStaleFlag ==
    \A l \in Loops : registry # "doubled" /\ loop[l].pc \in {"Attack", "Patch"} /\ loop[l].new
        => \A t \in Teams : box[t] \notin 1..(loop[l].cur - 1)

\* No team resets its instance more often than MaxResetCount, however its members'
\* requests overlap and however often the instance is replaced meanwhile.
ResetsWithinLimit == \A t \in Teams : resets[t] <= MaxResetCount

\* A round is in its attack phase only when its flags have been generated
\* (RunNextRoundStep, for rounds that were taken up again after a restart as well).
\* Does not hold after a crash between InsertRound and GenerateFlags.
EveryRoundHasFlags ==
    \A l \in Loops : At(l, "Attack") => loop[l].cur \in flags
=============================================================================

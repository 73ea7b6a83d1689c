------------------------- MODULE ContainerLifecycle -------------------------
(***************************************************************************)
(* The challenge containers of one team: GameController and                *)
(* GameInstanceRepository create them, users and ContainerChecker destroy  *)
(* them through ContainerRepository.DestroyContainer, and the rows are     *)
(* changed by several requests at once.                                    *)
(*                                                                         *)
(* A creation p starts at most one container, which p also stands for; a   *)
(* deletion works on the instance of its challenge, Chal[p].  Every        *)
(* GameInstance carries an xmin token, and SaveAsync answers a conflict by *)
(* reloading the instance and saving the REST once more; behind holds the  *)
(* requests whose instance was written since they read it.  Any request    *)
(* may be cut off between two steps: its client left (the token of every   *)
(* call is RequestAborted) or its process died.                            *)
(*                                                                         *)
(* A container runs on the server's own Docker or, when it is in remote,   *)
(* on a worker node: FleetContainerManager chooses, and swallows the       *)
(* failures of the worker's agent to remove it.                            *)
(*                                                                         *)
(* A refused request changes nothing and is not modelled; times are        *)
(* whether ten seconds have passed since the last operation (recent) and   *)
(* whether ExpectStopAt has passed (expired).                              *)
(***************************************************************************)
EXTENDS Naturals, FiniteSets

CONSTANTS Chals, Creates, Deletes, Cron, NoCont,
          Chal,          \* the challenge each request is about
          Named,         \* challenges whose flag, one per team, names the container
          Limit,         \* Game.ContainerCountLimit, 0 for none
          AutoDestroy    \* the values AutoDestroyOnLimitReached has over time

ASSUME LifecycleAssumption ==
    /\ Creates \cap Deletes = {} /\ Cron \notin Creates \cup Deletes
    /\ NoCont \notin Creates
    /\ IsFiniteSet(Chals)
    /\ Chal \in [Creates \cup Deletes -> Chals]
    /\ Named \subseteq Chals
    /\ Limit \in Nat /\ AutoDestroy \subseteq BOOLEAN

VARIABLES
    inst,       \* GameInstances: the ContainerId of each challenge
    rows,       \* Containers: the rows
    ended,      \* rows saved with the Status Destroyed, which their removal missed
    up,         \* the containers the provider runs
    remote,     \* those of them that run on a worker
    before,     \* the containers with an earlier StartedAt, among those that have
                \* a row or are about to have one
    recent,     \* challenges with a LastContainerOperation in the last 10 s
    expired,    \* rows whose ExpectStopAt has passed
    behind,     \* requests whose copy of their instance is stale
    pc,         \* where each request and the cron job are
    victim,     \* the container each of them is destroying
    renewing,   \* creations that destroy the ended container of their instance
    doomed,     \* what the cron job has still to destroy
    cut,        \* containers that run though their creation broke off before they
                \* were recorded (history)
    swallowed   \* containers that run although an agent's failure to remove them
                \* was taken for success (history)

vars == <<inst, rows, ended, up, remote, before, recent, expired, behind, pc, victim,
          renewing, doomed, cut, swallowed>>
db == <<inst, rows, ended>>
provider == <<up, remote>>
clocks == <<recent, expired>>
history == <<cut, swallowed>>

Requests == Creates \cup Deletes
Procs == Requests \cup {Cron}

Init ==
    /\ inst = [c \in Chals |-> NoCont]
    /\ rows = {} /\ ended = {} /\ up = {} /\ remote = {}
    /\ before = [p \in Creates |-> {}]
    /\ recent = {} /\ expired = {} /\ behind = {}
    /\ pc = [p \in Procs |-> "idle"]
    /\ victim = [p \in Procs |-> NoCont]
    /\ renewing = {} /\ doomed = {}
    /\ cut = {} /\ swallowed = {}

Go(p, s) == pc' = [pc EXCEPT ![p] = s]

Referenced == {inst[c] : c \in Chals} \ {NoCont}

Forget(x) == [y \in Creates |-> IF y = x THEN {} ELSE before[y] \ {x}]

\* The requests under way that read one of the instances C.
Readers(C) == {q \in Requests : Chal[q] \in C /\ pc[q] \notin {"idle", "done"}}

-----------------------------------------------------------------------------
(* GameController.CreateContainer, GameInstanceRepository.CreateContainer  *)

\* GetInstance, with the container of the instance; one that runs is kept.
LoadForCreate(p) ==
    /\ pc[p] = "idle"
    /\ Chal[p] \notin recent /\ inst[Chal[p]] = NoCont
    /\ behind' = behind \ {p}
    /\ Go(p, "check")
    /\ UNCHANGED <<db, provider, before, clocks, victim, renewing, doomed, history>>

\* One whose row says that it does not run is destroyed first.
LoadEnded(p) ==
    /\ pc[p] = "idle"
    /\ Chal[p] \notin recent /\ inst[Chal[p]] \in ended
    /\ behind' = behind \ {p}
    /\ victim' = [victim EXCEPT ![p] = inst[Chal[p]]]
    /\ renewing' = renewing \cup {p}
    /\ Go(p, "remove")
    /\ UNCHANGED <<db, provider, before, clocks, doomed, history>>

Full == Limit > 0 /\ Cardinality({c \in Chals : inst[c] # NoCont}) >= Limit

WithinLimit(p) ==
    /\ pc[p] = "check" /\ ~Full
    /\ Go(p, "provide")
    /\ UNCHANGED <<db, provider, before, clocks, behind, victim, renewing, doomed, history>>

LimitDenies(p) ==
    /\ pc[p] = "check" /\ Full /\ FALSE \in AutoDestroy
    /\ Go(p, "done")
    /\ UNCHANGED <<db, provider, before, clocks, behind, victim, renewing, doomed, history>>

\* The team's container that started first makes room; whether its destruction
\* succeeds is not looked at.
LimitDestroys(p) ==
    /\ pc[p] = "check" /\ Full /\ TRUE \in AutoDestroy
    /\ \E x \in Referenced :
          /\ before[x] \cap Referenced = {}
          /\ victim' = [victim EXCEPT ![p] = x]
    /\ Go(p, "remove")
    /\ UNCHANGED <<db, provider, before, clocks, behind, renewing, doomed, history>>

\* Containers on the server's Docker that bear the name p's one is to get.
Namesakes(p) == {q \in up \ remote : Chal[q] = Chal[p] /\ Chal[p] \in Named}

\* IContainerManager.CreateContainerAsync: on a worker, or on the server, whose
\* DockerManager answers a name that is taken by removing whoever has it.
\* lost are the containers it starts for nobody.
Start(p, lost) ==
    \/ /\ up' = up \cup {p} /\ remote' = remote \cup {p}
       /\ cut' = cut \cup lost
    \/ /\ up' = (up \ Namesakes(p)) \cup {p}
       /\ cut' = (cut \ Namesakes(p)) \cup lost
       /\ UNCHANGED remote

Provide(p) ==
    /\ pc[p] = "provide"
    /\ Start(p, {})
    /\ before' = [before EXCEPT ![p] = rows \cup {q \in Creates : pc[q] = "save"}]
    /\ Go(p, "save")
    /\ UNCHANGED <<db, clocks, behind, victim, renewing, doomed, swallowed>>

\* It returned null, or threw and left a container that runs behind.
ProvideFails(p) ==
    /\ pc[p] = "provide"
    /\ \/ UNCHANGED <<provider, cut>>
       \/ up' = up \ Namesakes(p) /\ cut' = cut \ Namesakes(p) /\ UNCHANGED remote
       \/ Start(p, {p})
    /\ victim' = [victim EXCEPT ![p] = NoCont]
    /\ Go(p, "done")
    /\ UNCHANGED <<db, before, clocks, behind, renewing, doomed, swallowed>>

\* Mutant: a conflict makes the request fail.
BadSaveConflictFails(p) ==
    /\ pc[p] = "save"
    /\ IF p \in behind
       THEN UNCHANGED <<inst, rows, recent, behind>>
       ELSE /\ inst' = [inst EXCEPT ![Chal[p]] = p]
            /\ rows' = rows \cup {p}
            /\ recent' = recent \cup {Chal[p]}
            /\ behind' = (behind \cup Readers({Chal[p]})) \ {p}
    /\ victim' = [victim EXCEPT ![p] = NoCont]
    /\ Go(p, "done")
    /\ UNCHANGED <<ended, provider, before, expired, renewing, doomed, history>>

\* SaveAsync.  When the instance is behind it is reloaded, and what is left to
\* save is the new container's row: no instance refers to it.  With it goes the
\* Status of a container that p removed without clearing its references.
Save(p) ==
    /\ pc[p] = "save"
    /\ rows' = rows \cup {p}
    /\ ended' = ended \cup ({victim[p]} \cap rows)
    /\ IF p \in behind
       THEN /\ behind' = behind \ {p}
            /\ UNCHANGED <<inst, recent>>
       ELSE /\ inst' = [inst EXCEPT ![Chal[p]] = p]
            /\ recent' = recent \cup {Chal[p]}
            /\ behind' = (behind \cup Readers({Chal[p]})) \ {p}
    /\ victim' = [victim EXCEPT ![p] = NoCont]
    /\ Go(p, "done")
    /\ UNCHANGED <<provider, before, expired, renewing, doomed, history>>

-----------------------------------------------------------------------------
(* GameController.DeleteContainer                                          *)

LoadForDelete(p) ==
    /\ pc[p] = "idle"
    /\ Chal[p] \notin recent /\ inst[Chal[p]] # NoCont
    /\ behind' = behind \ {p}
    /\ victim' = [victim EXCEPT ![p] = inst[Chal[p]]]
    /\ Go(p, "remove")
    /\ UNCHANGED <<db, provider, before, clocks, renewing, doomed, history>>

\* LastContainerOperation is saved along with the event, unless the instance
\* was written in between and is reloaded.
Finish(p) ==
    /\ pc[p] = "finish"
    /\ IF p \in behind
       THEN /\ behind' = behind \ {p}
            /\ UNCHANGED recent
       ELSE /\ recent' = recent \cup {Chal[p]}
            /\ behind' = (behind \cup Readers({Chal[p]})) \ {p}
    /\ Go(p, "done")
    /\ UNCHANGED <<db, provider, before, expired, victim, renewing, doomed, history>>

-----------------------------------------------------------------------------
(* RuntimeCronJobs.ContainerChecker                                        *)

\* Mutant: only containers an instance refers to are looked for.
BadListDyingReferenced ==
    /\ pc[Cron] = "idle" /\ doomed = {}
    /\ doomed' = expired \cap Referenced
    /\ doomed' # {}
    /\ UNCHANGED <<db, provider, before, clocks, behind, pc, victim, renewing, history>>

\* GetDyingContainers.
ListDying ==
    /\ pc[Cron] = "idle" /\ doomed = {}
    /\ doomed' = expired
    /\ doomed' # {}
    /\ UNCHANGED <<db, provider, before, clocks, behind, pc, victim, renewing, history>>

TakeDying ==
    /\ pc[Cron] = "idle"
    /\ \E x \in doomed :
          /\ victim' = [victim EXCEPT ![Cron] = x]
          /\ doomed' = doomed \ {x}
    /\ Go(Cron, "remove")
    /\ UNCHANGED <<db, provider, before, clocks, behind, renewing, history>>

-----------------------------------------------------------------------------
(* ContainerRepository.DestroyContainer, for whoever called it             *)

\* Where p goes on: a creation that made room or renewed its container, the
\* cron job, a deletion.
Onwards(p, renewed, deleted) ==
    IF p = Cron THEN "idle"
    ELSE IF p \in Deletes THEN deleted
    ELSE IF p \in renewing THEN renewed ELSE "provide"

\* The victim of p does not run any more.
Gone(p) ==
    /\ up' = up \ {victim[p]}
    /\ remote' = remote \ {victim[p]}
    /\ swallowed' = swallowed \ {victim[p]}

\* It returned false, which only a deletion reports.
GiveUp(p, renewed) ==
    /\ renewing' = renewing \ {p}
    /\ Go(p, Onwards(p, renewed, "done"))

\* Mutant: the row goes before the references to it.
BadRemoveThenDrop(p) ==
    /\ pc[p] = "remove"
    /\ Gone(p)
    /\ Go(p, "drop")
    /\ UNCHANGED <<db, before, clocks, behind, victim, renewing, doomed, cut>>

\* The provider removed the container, or does not know it any more.
Remove(p) ==
    /\ pc[p] = "remove"
    /\ Gone(p)
    /\ Go(p, "clear")
    /\ UNCHANGED <<db, before, clocks, behind, victim, renewing, doomed, cut>>

\* The agent could not be reached, or failed: FleetContainerManager sets
\* Destroyed all the same.
RemoveSwallowed(p) ==
    /\ pc[p] = "remove"
    /\ victim[p] \in remote
    /\ swallowed' = swallowed \cup {victim[p]}
    /\ Go(p, "clear")
    /\ UNCHANGED <<db, provider, before, clocks, behind, victim, renewing, doomed, cut>>

\* It reported another error or threw, and may have removed it: everything
\* else stays.
RemoveFails(p) ==
    /\ pc[p] = "remove"
    /\ Gone(p) \/ UNCHANGED <<provider, swallowed>>
    /\ victim' = [victim EXCEPT ![p] = NoCont]
    /\ GiveUp(p, "done")
    /\ UNCHANGED <<db, before, clocks, behind, doomed, cut>>

\* Mutant: the caller's instance loses whatever container it has by now.
BadClearInstance(p) ==
    LET C == IF p \in Requests THEN {Chal[p]} ELSE {c \in Chals : inst[c] = victim[p]} IN
    /\ pc[p] = "clear"
    /\ inst' = [c \in Chals |-> IF c \in C THEN NoCont ELSE inst[c]]
    /\ behind' = behind \cup Readers(C)
    /\ Go(p, "drop")
    /\ UNCHANGED <<rows, ended, provider, before, clocks, victim, renewing, doomed, history>>

\* ExecuteUpdate on the instances that refer to the container; p's own copy of
\* its instance does not learn of it.
Clear(p) ==
    LET C == {c \in Chals : inst[c] = victim[p]} IN
    /\ pc[p] = "clear"
    /\ inst' = [c \in Chals |-> IF c \in C THEN NoCont ELSE inst[c]]
    /\ behind' = behind \cup Readers(C)
    /\ Go(p, "drop")
    /\ UNCHANGED <<rows, ended, provider, before, clocks, victim, renewing, doomed, history>>

\* The cache or the database failed before that, which is caught.  The Status
\* Destroyed stays in p's context: the save of a creation that made room
\* writes it, and the cron job's next one, if it comes to that.
ClearFails(p) ==
    /\ pc[p] = "clear"
    /\ victim' = IF p \in Creates \ renewing THEN victim ELSE [victim EXCEPT ![p] = NoCont]
    /\ \/ p = Cron /\ ended' = ended \cup ({victim[p]} \cap rows)
       \/ UNCHANGED ended
    /\ GiveUp(p, "done")
    /\ UNCHANGED <<inst, rows, provider, before, clocks, behind, doomed, history>>

\* The row is removed.  A request that had the container as its instance's also
\* tries to write its copy of the instance, which Clear left behind, and so
\* comes to reload it.
Drop(p) ==
    /\ pc[p] = "drop"
    /\ rows' = rows \ {victim[p]}
    /\ ended' = ended \ {victim[p]}
    /\ expired' = expired \ {victim[p]}
    /\ before' = Forget(victim[p])
    /\ behind' = IF p \in Deletes \cup renewing THEN behind \ {p} ELSE behind
    /\ victim' = [victim EXCEPT ![p] = NoCont]
    /\ renewing' = renewing \ {p}
    /\ Go(p, Onwards(p, IF inst[Chal[p]] = NoCont THEN "check" ELSE "done", "finish"))
    /\ UNCHANGED <<inst, provider, recent, doomed, history>>

\* An error between the references and the row is caught as well.  (If p's
\* context comes to save again, a deletion pending there goes with it: that is
\* Drop, a little earlier.)
DropFails(p) ==
    /\ pc[p] = "drop"
    /\ victim' = [victim EXCEPT ![p] = NoCont]
    /\ GiveUp(p, "check") \/ GiveUp(p, "done")
    /\ UNCHANGED <<db, provider, before, clocks, behind, doomed, history>>

-----------------------------------------------------------------------------
(* Time, extensions and requests that are cut off                          *)

Settle(c) ==
    /\ c \in recent
    /\ recent' = recent \ {c}
    /\ UNCHANGED <<db, provider, before, expired, behind, pc, victim, renewing, doomed, history>>

Expire(x) ==
    /\ x \in rows \ expired
    /\ expired' = expired \cup {x}
    /\ UNCHANGED <<db, provider, before, recent, behind, pc, victim, renewing, doomed, history>>

\* ExtendContainerLifetime, allowed near and after the end of the lifetime.
Extend(c) ==
    /\ inst[c] \in expired
    /\ expired' = expired \ {inst[c]}
    /\ UNCHANGED <<db, provider, before, recent, behind, pc, victim, renewing, doomed, history>>

CutOff(p) ==
    /\ pc[p] \notin {"idle", "done"}
    /\ cut' = IF pc[p] = "save" THEN cut \cup ({p} \cap up) ELSE cut
    /\ before' = IF pc[p] = "save" THEN Forget(p) ELSE before
    /\ behind' = behind \ {p}
    /\ victim' = [victim EXCEPT ![p] = NoCont]
    /\ renewing' = renewing \ {p}
    /\ Go(p, "done")
    /\ UNCHANGED <<db, provider, clocks, doomed, swallowed>>

-----------------------------------------------------------------------------
Destroy(p) ==
    \/ Remove(p) \/ RemoveSwallowed(p) \/ RemoveFails(p)
    \/ Clear(p) \/ ClearFails(p) \/ Drop(p) \/ DropFails(p)

Create(p) ==
    \/ LoadForCreate(p) \/ LoadEnded(p) \/ WithinLimit(p) \/ LimitDenies(p) \/ LimitDestroys(p)
    \/ Provide(p) \/ ProvideFails(p) \/ Save(p)

ContainerChecker == ListDying \/ TakeDying \/ Destroy(Cron)

Next ==
    \/ \E p \in Creates : Create(p)
    \/ \E p \in Deletes : LoadForDelete(p) \/ Finish(p)
    \/ \E p \in Requests : Destroy(p) \/ CutOff(p)
    \/ ContainerChecker
    \/ \E c \in Chals : Settle(c) \/ Extend(c)
    \/ \E x \in Creates : Expire(x)

Spec == Init /\ [][Next]_vars

\* Lifetimes end, the cron job runs for ever, and neither the provider nor the
\* cache nor the database fails for ever when it destroys a container.
FairSpec ==
    /\ Spec
    /\ WF_vars(ContainerChecker)
    /\ \A x \in Creates :
          /\ WF_vars(Expire(x))
          /\ SF_vars(Remove(Cron) /\ victim[Cron] = x)
          /\ SF_vars(Clear(Cron) /\ victim[Cron] = x)
          /\ SF_vars(Drop(Cron) /\ victim[Cron] = x)

-----------------------------------------------------------------------------
(* Properties                                                              *)

TypeOK ==
    /\ rows \subseteq Creates /\ up \subseteq Creates
    /\ ended \subseteq rows /\ remote \subseteq up
    /\ cut \subseteq up /\ swallowed \subseteq remote
    /\ inst \in [Chals -> rows \cup {NoCont}]
    /\ before \in [Creates -> SUBSET Creates]
    /\ recent \subseteq Chals
    /\ expired \subseteq rows
    /\ behind \subseteq Requests /\ renewing \subseteq Creates
    /\ pc \in [Procs -> {"idle", "check", "provide", "save", "remove", "clear",
                        "drop", "finish", "done"}]
    /\ victim \in [Procs -> Creates \cup {NoCont}]
    /\ doomed \subseteq Creates

\* A container that runs has its row, or its request is about to save it:
\* conflicts between requests of a team never lose a container, although they
\* leave some without an instance.  Two things do: the request broke off after
\* the provider had started the container (cut), or an agent failed to remove
\* it (swallowed, on workers only).
RunningIsRecorded ==
    \A x \in up : x \in rows \/ pc[x] = "save" \/ x \in cut \/ x \in swallowed

\* An instance loses or changes its container only when the provider has
\* removed it: a deletion that is late never takes the next container away.
\* On a worker it also does when the agent failed and nobody was told.
LosesOnlyRemoved ==
    [][\A c \in Chals : inst[c] # NoCont /\ inst'[c] # inst[c]
            => inst[c] \notin up \/ inst[c] \in swallowed]_vars

\* A container row no instance refers to, which nobody can delete or extend
\* by its challenge, is removed in the end.
StrandedAreRemoved ==
    \A x \in Creates : x \in rows \ Referenced ~> x \notin rows

\* "Limit on the number of containers a team can have simultaneously."  Does not
\* hold: two requests pass the count together.
LimitRespected ==
    Limit > 0 => Cardinality({c \in Chals : inst[c] # NoCont}) <= Limit
=============================================================================

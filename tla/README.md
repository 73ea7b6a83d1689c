# A verification project for YINYU CTF (GZCTF fork)

TLA+ models of the platform's server (`src/src/GZCTF`, C# over ASP.NET, Entity
Framework Core and PostgreSQL) and of those pages of its web client whose state
matters, the TLC runs that check them on small instances,
and TLAPS proofs of what matters most for every instance. Paths below are
relative to the repository.

The server is a set of request handlers, hosted services and timers that share
one database. Almost nothing is done under a lock: correctness rests on row
versions (`xmin` tokens on some entities), on unique indexes, on three kinds of
locks, and on the order in which a handler reads, calls out and saves. That is
what is modelled: who read what before whom, what a save does when it meets a
conflict, and what is left when a client leaves or a process dies in between.

## 1. Inventory

| Component | State | Operations | What must hold |
|---|---|---|---|
| **Locks** `Services/Concurrency/LocalSemaphoreLock.cs`, `Services/Fleet/RedisDistributedLock.cs` | pool of semaphores by key; a Redis key with a lease | acquire with a timeout, release | one holder; nobody is locked out for ever |
| **Flag pipeline** `GameController.Submit`, `GameInstanceRepository.VerifyAnswer`, `FlagChecker`, `CheckCheat`, `RepositoryBase.SaveAsync` | `Submissions`, `FirstSolves`, in-memory queue of each process | submit, verify, recheck at start, detect cheating, publish | one verdict per submission, one solve per team, bloods in order, nothing lost at a restart |
| **Fleet** `FleetManager`, `FleetContainerManager`, `QueueManager`, heartbeats, `LocalNodeMetricsService` | `WorkerNodes` with counters, `DeploymentTargets`, containers | place, deploy, cancel, destroy, assign queued, report, (de)register | capacity respected, counters match reality, a target names the node that serves it |
| **Challenge containers** `GameController.CreateContainer / DeleteContainer / ExtendContainerLifetime`, `GameInstanceRepository.CreateContainer`, `ContainerRepository`, `RuntimeCronJobs` | `GameInstances`, `Containers`, the provider | create with a limit, destroy, extend, clean up | no container lost, no wrong one destroyed, limit respected |
| **AWDP rounds** `AwdpRoundService`, `AwdpInstanceService`, `AwdpCheckerService` | `AwdpRounds`, `AwdpFlags`, `AwdpServiceInstances`, reset records, the dictionary of loops | start, stop, the round loop, reset, recover, restart | rounds one at a time, fresh flags in every round, limits respected |
| **Score cache** `CacheHelper`, `CacheMaker` | distributed cache with update locks, 5 s memory cache | read or compute, request an update, update | an old board is about to be replaced, readers are not stuck |
| **Scoreboard** `GameRepository.GenScoreboard` | none (pure) | compute | ranks and bloods agree with the rules |
| **Cron leadership** `CronJobService` | a cache entry with a sliding expiry | take, refresh, drop, watchdog | one leader, a leader in the end |
| **Dynamic flags** `GameInstanceRepository.GetInstance` | `FlagContexts.IsOccupied` | dispatch on the first read | a flag goes to one team |
| **AWDP attacks, patches, scores** | `AwdpFlags.IsSubmitted`, patch submissions | submit a captured flag, verify a patch, score | a flag is captured once, within its phase |
| **Penetration games** `PenetrationService`, its controllers and pages | the topology, the environment and runtime nodes of each team | save, publish, deploy, rebuild, reset, stop, submit per node | the topology survives overlapping saves, one runtime node per node, limits respected |
| **Theory exams** `TheoryExamService`, its controllers and pages | the paper and its questions, answer sheets with their rows, each page's copy | save, publish, regrade; draft, submit | a submission is final, the page tells the truth, one row per question |
| **Scenarios, checkpoints, IR, manual submissions, leaderboards** | instances, slots, submissions, scores | start, verify, review, sum | slots within capacity, scores once |
| **Training and courses** | database rows | CRUD | access rules |
| **Teams and participations** | `Teams`, `Participations` | join, leave, lock, join a game | locked teams do not change |
| **Blobs** `BlobRepository` | files by hash with a reference count | store, reference, delete | a referenced file exists |
| **VMs, nodes, agent** `VmManager`, `KvmProvider`, `NodeDeployService`, `GZCTF.Agent` | VM instances, hosts | create, snapshot, connect, install | a VM is recorded while it runs |
| **Accounts, mail, captcha, transfer, administration** | Identity tables, files | CRUD and I/O | mostly the libraries' |
| **Web client** `ClientApp` | React state of each page | load, edit, send, show | what a page allows and tells agrees with the server |

How they interact: a solve goes from `Submit` through the flag pipeline to
`FirstSolves`, which the scoreboard reads; every verdict empties the score cache
and asks for an update. Challenge containers and AWDP instances are created through
`IContainerManager`, which is Docker, Kubernetes or, in Fleet mode,
`FleetContainerManager`, which schedules under the distributed lock and calls the
agents. Cron jobs destroy containers behind everybody's back. Servers share the
database and, with Redis, caches, locks and the SignalR backplane.

The hard behaviours, each with its line, are the `hazards` of `PROJECT.json`. Further
ones, which no property is about: the cron job that destroys what it listed
(`RuntimeCronJobs.cs:16`), targets cancelled or assigned under the queue's hands
(`QueueManager.cs:61`, `FleetContainerManager.cs:60`), recoveries recorded by a second
save (`AwdpInstanceService.cs:250`), instances destroyed without their semaphore
(`AwdpInstanceService.cs:79`), the leader's lock of the cron jobs
(`CronJobService.cs:116`), flags dispatched twice (`GameInstanceRepository.cs:91`),
reference counts of files (`BlobRepository.cs:42`), attempts at a score item counted
before the insert (`PenetrationService.cs:536`), two submissions of a theory sheet at
once (`TheoryPlayerController.cs:115`), a topology editor that shows a fallback after
a failed load and saves it (`pages/admin/games/[id]/Penetration.tsx:686`), and a live
screen whose first answer overwrites events that came before it
(`useCTFScreenData.ts:579`).

## 2. What is modelled

### Locks: `Mutex`, `NamedLock`, `RedisLock`

`Mutex` is what `IDistributedLockService` promises ("Acquire an exclusive lock for
the given key"). `NamedLock` is `LocalSemaphoreLock`: `GetOrCreate` and `WaitAsync`
are separate steps, semaphores have identities, and `Dispose` looks the semaphore
up again by key. `RedisLock` is `RedisDistributedLock`: `LockTake` polled, a lease
that nothing renews, a release fenced by the caller's token, which may be lost.

- `named_lock`: the pool never keeps an entry whose semaphore nobody will release
  (`EntryHasActiveCaller`, `TakenEntryHasHolder`), and who waits on the registered
  semaphore is served (`RegisteredWaiterServed`). Three callers make the case that
  matters: one releases between the lookup and the wait of another, and a third
  arrives. Semaphore identities are reused, so nothing is bounded but the callers.
- `named_lock_exclusion` (violation): in that case two callers hold the key.
- `redis_lock`: `RedisLock` implements `Mutex` (`LeasesExclude`, a refinement). A caller
  is "in" from the moment it takes the key until it releases or its own lease ends,
  whatever the key holds meanwhile: the history variable `overrun` remembers whose lease
  ended inside. A release that deleted the next holder's key would let a third caller
  in beside that holder, a step `Mutex` does not have. Four callers: one that overran,
  its successor, and two that try to follow. What overran callers do to each other is
  not promised (section 5). The types, the inductive invariant (`HolderOwnsKey`),
  `ExclusiveWithinLease` and `ReleaseIsFenced` are proved only.

### Flag pipeline: `FlagPipeline`, `Judge`

One challenge and one target flag per team. A worker is a request handler or a
`FlagChecker` worker; `Home` places workers in processes. Each read that decides
something is a step and a transaction's writes appear at its commit. A worker's
`snap` is the submission as its `DbContext` tracks it; `SaveAsync` reloads on a
conflict, which silently drops the update and saves the rest. Instances are not
modelled: they go only with their challenge or participation, as the submissions do,
so the branch of `VerifyAnswer` for a missing instance is left out. Advisory locks are
per process because `string.GetHashCode` is seeded per process. `Start` queues
what is unchecked, `Crash` loses queues and requests at any step.

`Judge` is what the users are promised: every submission judged at most once, in
one step, the first accepted one of a team is its solve. `ImplementsJudge` maps
the rows of `Submissions` to its entries.

- `flag_replicas`: two processes. Every accepted answer has a solve, blood ranks
  are backed by earlier solves, notices tell recorded solves. Two teams, two
  submissions, two requests and a worker in the other process: the second process
  takes a submission under verification by the first.
- `flag_recovery`: one process that crashes once at any step. The lock serialises,
  the pipeline implements `Judge`, verdicts are published once, and
  `CrashLeavesNothing`: what the crash left unchecked is judged after the restart.
- `flag_limit` (violation): see findings.

Fairness (`flag_recovery`): a stopped process is started again, and running
requests and workers go on. Requests may still be aborted, and nobody has to submit.

### Fleet: `FleetScheduler`

Every context keeps copies of `WorkerNode` rows: `[base, count, stale]`. A save of
a changed copy whose row was written since throws. A container has the node it
runs on and the node its row names. What a node carries (`Held`) is what is reserved
on it and under way and all that runs on it; on the server's node also the containers
without a `NodeId` that the home fallback runs there, which `LocalNodeMetricsService`
counts but nobody reserved. That service counts and saves in two steps. `blind` is the
set of nodes whose counter may be below what they carry because of one of the causes
found while modelling (`CountersCover` lists them, those containers among them; see
section 5), until a count that covers the node's load makes up for it.

- `fleet`: outside those causes counters cover what nodes carry and capacities
  hold although schedulers choose from copies read before they took the lock;
  a completed target names its container's node; what the queue assigns from an old
  read is never on a worker already (`PlacedNotBookedAgain`); heartbeats make the counters
  converge (`CountersConverge`, with weak fairness of measuring and strong fairness
  of the report: agents report periodically and not all reports are lost). Two
  requests, a destruction, the server's own node and one worker with room for one
  container each; the worker may be removed or lost, and one of the requests may prefer
it. With about 1.02 million states this is what TLC does in the time of a build; the
proofs do not have the bound.

### Challenge containers: `ContainerLifecycle`

The containers of one team. `behind` holds the requests whose instance was
written since they read it: their save is reloaded and loses its change. `CutOff`
stops any request between two steps (the client's `RequestAborted` token is passed
to every call). A container runs on the server's Docker or on a worker (`remote`):
without Kubernetes the manager is always `FleetContainerManager`, whose removal from a
worker swallows a failure of the agent and sets the status Destroyed
(`RemoveSwallowed`), while a failure of the local Docker is an exception
(`RemoveFails`). The clean-up of references and rows that follows a removal may fail
too (`ClearFails`, `DropFails`), which leaves the row as `ended`; a creation for such an
instance first destroys it, and answers with it when it is still there (`LoadEnded`,
`renewing`). Challenges whose flag is part of the container's name are `Named`: there
Docker refuses a second container of that name and the creation removes the first.

- `container_lifecycle`: a running container has a row, is about to get one, was left
  by a creation that broke off just there (`cut`), or runs on because the agent's
  failure was taken for success (`swallowed`); an instance only loses containers that
  were removed or are `swallowed`; rows no instance refers to are removed in the end. One
  challenge, two creations, a deletion and the cron job (91,796 states): a creation
  conflicts with a deletion of the same instance, the removal of one fails while the
  other renews it, and the cron job destroys under both. More challenges meet only in
  the limit, and are covered by the proofs. Fairness: lifetimes end, the cron job runs
  for ever, and neither the provider nor the cache nor the database fails for ever
  when a container is destroyed.

### AWDP rounds: `AwdpRounds`

One game, one service, one server. `loop[l]` is a task of `RunGameLoop` with its
locals; `registered` is the entry in `_gameLoops`. The states `cancelled` and
`disposed` of a loop that has not run yet are those of its token source. Resets and
recoveries of players and of the loop are the same steps under the instance
semaphore (`Taken`); `orphans` and `behind` say whose save will throw because an
instance or container row was deleted meanwhile by `DestroyInstancesForGame`,
which takes no semaphore. Creating a container gives none or throws, which ends the loop
or fails the request; a removal that fails leaves the instance its container and marks
it not running, and what a player can attack is the container named while `IsRunning`.
Under the semaphore a loop may find its own earlier copy of an instance instead of the
row. Cancellation takes effect at once: a command that is
already on its way to the database is not distinguished from one that was
executed before.

- `awdp_rounds`: rounds never overlap, a round leaves no flag of an earlier one in
  an instance, and the reset limit holds. Two rounds, two starts, a stop and a
  crash make a second loop run while the first ends, a reset overlap the change of
  the round, and an instance vanish and come back under a reset. One team is
  enough: instances of different teams share nothing but the loop.

The ghost `registry` marks the one way in which both properties of the rounds break
(section 5): it becomes `lost` when the `finally` block of a stopped loop removes the
entry of the loop started after it, and `doubled` when a start then adds a second
running loop to that one. `RoundsInOrder` and `NoStaleFlag` speak of the time before
`doubled`, which two starts never reach: in the run they hold without exception, and
section 3 proves them for any number of starts.

### Theory exams: `TheoryExam`

One player, whose page (`Theory.tsx`) is open in several tabs, `TheoryPlayerController`
behind it, and admins who save, publish and regrade. No row has a concurrency
token: a request computes the sheet it wants from the one it read (`snap`), and
`Written` says what EF makes of that: only changed columns are written, to the row as
it stands by then. A saved paper is an edition, since a save replaces all questions,
and the answers go with them. `Open` is what the disabled buttons leave to click.

- `theory_exam`: `StaysSubmitted`, although `SaveDraft` assigns `Draft` after a read that
  another tab's submission has overtaken; `SubmittedViewIsTrue` relates what any tab
  shows to the sheet; `DuplicatesNeedRepublish` bounds when a question may have two
  answer rows; `OneSaveSlipsIn` counts the saves that take effect after a submission
  in spite of the check of `SavePaper`. Two tabs and two admins make two requests of
  each kind overlap; three editions, of which nobody opens the last, are two
  replacements of the paper under way at once; a question has one right choice and
  one wrong one, and an edition one question: questions of a paper do not influence
  each other but through the score.

### Penetration games: `PenetrationGame`

One game and the environment of one team. Requests overlap freely: nothing
serialises them and most buttons of the admin's page stay enabled. `topo` says
which parts of each saved topology are in the database while `SaveConfig` deletes the
old one and inserts the new one in five transactions; `env` and `runtime` are the
team's rows; `req` is where each request stands and what it has read. `Cut` stops a
request anywhere.

- `penetration_game`: `TopologyNotLost`, `EnvironmentConsistent`, `ResetsWithinLimit`.
  The history variables `interrupted` and `overlapped` name the two things the code
  does not survive, so that the properties say that nothing else does harm. Two
  requests of any kind at a time, three ids of saves (two being replaced and one being inserted), two of deployments, two resets, one version. The proofs cover
  every value of these. A save also writes `MaxResetCount`; here it is the same in every
  save, so nothing is claimed of a limit lowered while a reset is under way. `Create`
  saves the runtime nodes in one step, a topology having one node.

### Score cache: `ScoreCache`

The board of one game in Redis, the lock key beside it and, on each server, the
`CacheMaker` with its channel; readers fill the cache when they miss it, writers
commit a score, remove the board and send a request. A board is the set of the
writes it contains. The times that debounce requests become one bit per request,
and reading and writing the time of the last update are one step: apart they could
only let one more generation through. A client may leave at any step and a server may
stop: the release of the lock and the flush use the request's token, so both are then
left undone. `MakerEnds` is an exception of the cache outside the inner `try` of
`CacheMaker` (reading the lock or the time, writing the time, the release in the
`finally`): only cancellation is caught there, so the worker ends for good.

- `score_cache`: `StaleIsAnnounced` is what the two classes achieve together: a board
  that lacks a score is about to be replaced. `lapses` records the six ways in which
  they do not, each of which breaks the property when it is not excepted: a request
  dropped because the lock was found, overlapping generations, a failed generation, a
  writer gone before its flush, a worker's end, a stopped server. `WaitersServed`: who
  polls the lock goes on, unless a client, a worker or a server left it behind. One
  worker or server ends, once. Two servers with a reader, a
  writer and a worker each, each request once: two generations on different servers
  can overlap, and a request can be skipped because of the other server's update.
  The system may end, so deadlock is not checked. Fairness: requests and workers that
  can go on do, and Redis lets a lock expire that nobody reads for a minute; nobody
  has to ask or to write.

## 3. Proofs

Checked by TLAPS; 8 modules hold theorems. All are for every value of the
constants, under the named assumptions of the modules.

- `LockProofs`, `NamedLock`: `TypeCorrect`, `EntryIsActive`, `TakenEntryIsHeld`. The
  inductive invariant adds that the queue of a semaphore is exactly its waiting
  callers, without repetition (`QueueOfWaiters`): releasing by key hands the
  semaphore to the head of a queue, which must be one of its own waiters.
- `LockProofs`, `RedisLock` (instance `R`): `HolderOwnsKey` is inductive with
  the types (`HolderOwnsKeyAlways`): the key is the token of every caller inside whose own
  lease has not run out. From it mutual exclusion of those callers
  (`ExclusiveWithinLeaseAlways`), the refinement of `Mutex` (`LeasesExcludeAlways`), in which
  only that invariant keeps a second caller out, the fenced release (`FencedRelease`) and
  the type invariant (`RedisTypeCorrect`).
- `FlagPipelineProofs`: `TypeCorrect` and, for any number of processes,
  `AcceptedAlwaysSolves`, `RanksNeverSkipped` and `NoticesAnnounceSolves`. Under `OneProcess` (all workers share a home):
  `LockSerialises`, `SolvesStayAccepted`, `EventsAnnounceVerdicts` and `RefinesJudge`. `TInv` adds to the types
  what each worker has tracked and decided (`Tracking`, `Decided`); `SInv` says that
  a submission has at most one worker or queue entry (`Apart`), that no row changed
  behind its worker (`Synced`) and that only running workers work (`Awake`). With
  two processes `Synced` fails, which is why the theorems need the assumption and
  what section 5 describes. For ranks and notices `RInv` adds that a solve refers to a
  stored submission of its team, that notices do, and that the solves a verification
  counted are still there when it commits (`Ranked`): `FirstSolves` only grows.
  `OverrunIsBounded` says what is left of the limit that `flag_limit` refutes: a team
  stores fewer than `SubmissionLimit` plus the number of request handlers
  (`LimitOverrunBounded`), because what is stored and what has passed the check grow
  together (`LInv`); with one request at a time the limit holds.
- `FleetSchedulerProofs`: the safety properties of the run, for any number of
  requests, destructions and nodes of any capacity: `TypeCorrect`,
  `CountersAlwaysCover` (`CountersCover`), `CapacityAlwaysRespected`
  (`CapacityRespected`) and `TargetsAlwaysNameTheirNode` (`TargetsNameTheirNode`). None
  is inductive: a node is protected by what others hold in memory. `CopiesCover` says
  that a copy which can still be saved covers what its node carries, and
  `PlaceHasRoom` that the copy a scheduler chose by is the one it saves; what carries the
  argument is the `xmin` token. A
  destruction only reads until it releases (`KillReadsCounter`), on the row of its
  victim's node (`KillFollowsVictim`), and what it removed is counted until then
  (`RemovedStillCounted`). `Control` says where the rows of a request stand at each of
  its steps. From it follows `PlacedStayBookedOnce`
  (`PlacedNotBookedAgain`): neither a scheduler nor the queue, with whatever old batch,
  books a node for a container that a worker runs. Two results go beyond the run:
  `NoLostUpdate` (`FreshIsCurrent`), whoever can still save a copy works on the row's
  present count, and `RemovedStayRemoved`, nobody writes the row of a removed node, late
  saves and heartbeats included.
- `ContainerLifecycleProofs`: `TypeCorrect`, `NoneIsLost` (`RunningIsRecorded`) and
  `OnlyRemovedAreLost` (`LosesOnlyRemoved`), for any number of challenges, requests and
  any limit. `IInv` adds what a reader of the code has to keep in mind: a container
  with a row, or one being destroyed, belongs to a creation that is over
  (`RowsAreDone`, `VictimsAreDone`), so a destruction never meets the container that
  is being started; the provider comes first, then the references, then the row
  (`RemovedFirst`, which has to except `swallowed`, and `ClearedNext`), so no reference
  dangles; what a broken-off creation left has no row (`CutHasNoRow`), so nobody finds
  and destroys it; and a creation whose copy of the instance is not stale still finds it
  empty or naming the ended container it was renewing (`FreshIsEmpty`), which is what
  the `xmin` token buys and why no save overwrites another request's container.
- `TheoryExamProofs`: all five properties of the run, for any number of tabs, admins,
  choices and editions: `TypeCorrect`, `SubmittedForGood` (`StaysSubmitted`), `ViewIsTrue`
  (`SubmittedViewIsTrue`), `OnlyOneSlips` (`OneSaveSlipsIn`) and `FirstEditionIsSingle`
  (`DuplicatesNeedRepublish`). The first four rest on one fact: whoever is about to
  write read a sheet that was not submitted, unless it regrades a submitted one, so a
  draft's status column is never a changed one; for the slips, an admin who has
  passed the check read an edition, and only one of those that did finds it still
  there. The last rests on ids: while the paper is in its first edition a sheet is
  inserted once and every writer read that sheet's one row.
- `PenetrationGameProofs`: `TypeCorrect`, `SavesKeepTopology` (`TopologyNotLost`),
  `OneRuntimeNode` (`EnvironmentConsistent`) and `ResetLimit` (`ResetsWithinLimit`), for any
  number of requests. The invariant says what a request can have read at
  each step (`Steps`), that runtime nodes need an environment and that this one stays
  (`NoRowBeforeEnv`, `EnvStays`), that without overlap one request deploys
  (`OneDeployment`) and sees the rows as they are (`View`), and that the counter is the
  number of resets (`Counted`).
- `ScoreCacheProofs`: `TypeCorrect` and `StaleAnnounced` (`StaleIsAnnounced`), for any number
  of servers, readers and writers. Without an overlap one generation runs at a time
  (`OneGenerates`); what it is about to store lacks only announced writes
  (`StoresAnnounced`); and what announces a write stays until its board is stored or
  removed (`ComingStays`), which is where the debouncing by time is justified.
- `AwdpRoundsProofs`: all four properties of the run, for any number of loops, players,
  teams and rounds, starts, stops and crashes (of teams there is at least one: an idle
  loop's record names one that nobody reads). `TypeCorrect`: `TInv` adds where a loop is
  while it works on an instance or destroys them (`LoopWhere`), that it has a round
  before it reads one (`LoopPlans`), and that a holder's row is there
  (`HolderSeesRow`). `ResetsNeverExceed` (`ResetsWithinLimit`) rests on two facts: those
  that hold a row that still exists are one for each team (`OneHolder`), so the count a
  reset has read is the count it saves (`UnderLimit`). What a step can do to the holders is
  said once (`HoldersStep`): nobody but who takes a semaphore becomes one, and a deleted
  row makes orphans, which is why the limit survives `DestroyInstancesForGame` without a
  semaphore. `RoundsNeverOverlap` (`RoundsInOrder`): until `lost` the running loop is the
  registered one (`LiveIsRegistered`), until `doubled` it is the only one (`OneLoop`), so
  no other writes rounds behind it and it plays the last round there is or inserts the
  next (`Played`); a stop only finishes a round that exists (`StopSees`).
  `NoFlagSurvives` (`NoStaleFlag`): the teams that loop has been to carry no old flag and
  no holder brings one (`Fresh`), because what a reset reads meanwhile is the flag of the
  round being played or none (`FlagInForce`).

Out of the prover's reach and left to TLC: liveness under fairness
(`RegisteredWaiterServed`, `CrashLeavesNothing`, `CountersConverge`,
`StrandedAreRemoved`, `WaitersServed`). Every safety property of a passing run is
stated by a theorem.

## 4. Findings with a run

| Run | Finding |
|---|---|
| `named_lock_exclusion` | `LocalLockPool.Release` removes the entry while another caller is between `GetOrCreate` and `WaitAsync`: two holders. |
| `flag_limit` | Two requests of a team both pass the `SubmissionLimit` count. |

## 5. What else modelling showed

Stated in the modules where they fail, or met on the way; none is checked by a run.

- Flags: `ForeignFlagReported` fails: `Submit` never calls `CheckCheat`, so another
  team's flag is answered as a wrong answer and no `CheatInfo` is made, while
  `docs/superpowers/specs/2026-05-21-challenge-management-refactor-design.md:244` lists
  CheatDetected among the results. `BloodsUnique` fails (ranks are counted before the commit, so two teams may
  be announced with the same blood), `SolvedWithinAttempts` fails for concurrent
  attempts. With two processes `OneVerificationPastLock` and `SolveIsAccepted` fail,
  because the advisory lock's key is a hash that differs between processes;
  `SaveAsync` swallows `DbUpdateConcurrencyException`, so `FlagChecker`'s branch that
  queues the submission again is never taken, and a solve can be backed by a
  submission that is stored as wrong.
- Redis lock: nothing renews the lease and nobody checks it, so a section longer than 45 s
  overlaps the next one; `overrun` is what `ExclusiveWithinLease` excepts.
- Fleet: when no worker takes a container the home fallback runs it on the server's own
  Docker without reserving anything, so the server's node can be above its counter and
  above its `MaxContainers` until the next count; a count taken before a reservation and
  saved after it lowers the counter; a local creation that throws leaves its
  reservation and a target that stays Running. The copies are read before the lock is taken, so the lock prevents neither
  conflicts nor spurious failures; the queue may assign a target whose owner cancelled
  it after the queue had read it, runs on the server's own Docker by then or is gone:
  nobody deploys such a target, and its reservation stays until a heartbeat; a preferred
  node can be booked twice; `Cancel` races `ProcessPending`; the container of a
  removed node is destroyed on the server; destroying a VM never lowers
  `CurrentVms`; a failed local removal lowers the counter all the same.
- Containers: `LimitRespected` fails (with two challenges and a limit of one, in eight
  steps): two creations both pass the count, while `Game.cs:99` documents "Limit on the
  number of containers a team can have simultaneously". When an agent fails to remove a
  container the failure is swallowed (`FleetContainerManager.cs:233`): references and row
  go while it runs, and nobody looks for it again. A provider that throws after it has
  started a container leaks it. When the flag is part of the name, the second of two
  creations of an instance removes the container of the first, which the instance may
  refer to already. A clean-up that fails after the removal leaves a row with the status
  Destroyed that the instance still names; a later creation may answer with it, as if it
  had succeeded. A client that leaves during a creation leaks the container; the cron
  job destroys a container whose lifetime was extended after the listing.
- AWDP: `EveryRoundHasFlags` fails: after a crash between the insert of a round and its
  flags the loop takes the round up as an old one and its attack phase has no flag,
  while `docs/superpowers/specs/2026-06-04-awd-mode-design.md:19` says "每轮 Flag
  强制刷新". The finally block of a stopped loop removes the entry of its successor
  (start, stop, start: the second loop runs unregistered, cannot be stopped, and a
  third start runs another beside it); a stop that overlaps a start finishes a round
  that the new loop then reopens; a start that overlaps the clean-up of a stop loses
  its loop to the exception of a save whose row is gone, and the game stands still;
  a game that stands between two rounds is not resumed after a restart; replicas
  each start a loop; an instance whose container could neither be removed nor replaced
  keeps it, with the flag of an earlier round, under a row that says it is not running;
  recoveries are recorded by a second save and can exceed their
  limit.
- Theory exams: `AnswersAreFinal` fails. The page says "提交后不再允许修改"
  (`Theory.tsx:301`), but a draft whose read precedes the submission replaces the
  submitted answers afterwards, under the status Submitted; a regrade then grades
  those. Two submissions at once can leave the score of one beside the answers of the
  other. Once the paper was replaced a question can get two answer rows, after which
  the player cannot submit and a regrade of the game throws. An admin's page saves
  the whole paper it loaded, and so undoes what another admin saved meanwhile.
- Penetration games: `ResetsAreLimited` fails when two resets overlap. Every save,
  validate, plan, publish and deploy of the page saves the topology, deletes the
  runtime nodes of running environments with it and all submissions of the game,
  and leaves prerequisites pointing at deleted items (`PenetrationService.cs:160`).
  Deploying uses the topology as saved, not as published, while the button says
  "按已发布版本" (`pages/admin/games/[id]/Penetration.tsx:995`). Two deployments at once
  leave two runtime nodes of a node, and every request for the workspace then throws.
- Cache: the comment "only one GZCTF instance will never encounter this"
  (`CacheMaker.cs:104`) is not true: a reader on the same server sets the same lock,
  and the update request that meets it is dropped. "always release the lock"
  (`CacheHelper.cs:126`) fails with a cancelled token: the polls of those who wait
  keep the lock from expiring, and every update request is dropped meanwhile. An
  exception of the cache outside the inner `try` (`CacheMaker.cs:102`, `112`, `123`, `163`)
  ends the worker until the server is restarted: only `OperationCanceledException` is
  caught, and from the `finally` the lock is left as well. A worker's or a reader's release removes whatever lock there is, its own or not. A
  generation that fails has already moved the update time, so older requests are
  skipped.

## 6. Abstractions common to the modules

- PostgreSQL runs READ COMMITTED; reads that decide nothing together are one step.
- A refused request that changes nothing is not a step.
- Providers, agents and Redis are external: a call succeeds or fails, and where it
  matters whether a failed call had an effect both are steps.
- Clocks become events: a lease, a lifetime, a phase or a game ends at any time.
- Messages to the browser are modelled only where a property is about them
  (verdict events and blood notices).

## 7. Not modelled, and what would come next

`components` in `PROJECT.json` lists every part with its reason.

- Most of the web client is layout, styles, animation, charts, translated texts and a
  generated API, with forms whose state lives until the next response. The pages of
  the theory exam are modelled because their state decides what the server is asked.
  The topology editor (`pages/admin/games/[id]/Penetration.tsx`) and the live screen
  (`components/ctf-screen/useCTFScreenData.ts`) have state worth a model: what an edit
  made while a save is under way becomes, and in which order the first answer, the
  polls and the pushed events are applied.
- `Scoreboard`: dynamic score, bloods, ranks and the tie-break as functions, against
  a reference definition over bounded games.
- `CronLeader`, with the lock entry of `CronJobService`, composed with the cleaner of
  `ContainerLifecycle`.
- `FlagDispatch` (the first read of a challenge), and the AWDP attack and patch
  submissions on top of `AwdpRounds`; submissions of a penetration game.
- Teams and participations, blob references, VM life, scenario slots.
- External and left out: the libraries (ASP.NET Identity, EF Core beyond what a save
  does, Docker, Kubernetes, KVM), traffic of the proxies, mail, captcha, import and
  export of files.

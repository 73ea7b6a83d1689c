---------------------------- MODULE FlagPipeline ----------------------------
(***************************************************************************)
(* How a flag is judged: GameController.Submit stores a submission and     *)
(* calls GameInstanceRepository.VerifyAnswer in the request; FlagChecker,  *)
(* when a server process starts, queues whatever is still unchecked and    *)
(* its workers call the same VerifyAnswer, then CheckCheat.                *)
(*                                                                         *)
(* One challenge and one target flag per team are modelled (the flag of    *)
(* the team's instance for a dynamic challenge, the named or first flag    *)
(* for a static one).  PostgreSQL runs READ COMMITTED: every read that     *)
(* decides something is a step, every transaction's writes appear at its   *)
(* commit.  Submissions carry an xmin row version: an update of a row that *)
(* changed since it was loaded throws DbUpdateConcurrencyException, which  *)
(* RepositoryBase.SaveAsync catches: it reloads the row, dropping the      *)
(* update, and saves the rest.                                             *)
(***************************************************************************)
EXTENDS Naturals, FiniteSets

CONSTANTS
    Procs,            \* server processes that share the database
    Http, Checkers,   \* request handlers, FlagChecker workers
    Home,             \* the process each of them runs in
    Teams, NoTeam,
    Ids,              \* submission ids: bounds the number of submissions
    Kinds,            \* what may be submitted, see SubKinds
    SubmissionLimit,  \* GameChallenge.SubmissionLimit, 0 for none
    MaxAttempts,      \* FlagContext.MaxAttempts, 0 for none
    MaxCrashes        \* bounds the number of crashes

Workers == Http \cup Checkers

\* A submitted text is the team's flag, another team's flag, none of these, or
\* it comes with the id of a flag that is not one of the challenge's.
SubKinds == {"right", "foreign", "wrong", "noflag"}

ASSUME FlagPipelineAssumption ==
    /\ Http \cap Checkers = {}
    /\ Home \in [Workers -> Procs]
    /\ IsFiniteSet(Teams) /\ NoTeam \notin Teams
    /\ Ids \subseteq Nat \ {0}
    /\ Kinds \subseteq SubKinds
    /\ SubmissionLimit \in Nat /\ MaxAttempts \in Nat /\ MaxCrashes \in Nat

VARIABLES
    up,        \* which processes run
    queue,     \* the Channel<Submission> of each process
    subs,      \* the Submissions table
    solved,    \* the FirstSolves table: team -> submission, 0 for none
    pc,        \* where each worker is
    job,       \* the submission each worker handles
    snap,      \* that submission as the worker's DbContext tracks it
    verdict,   \* what the worker is about to save and publish
    award,     \* SubmissionType of the submission that made each FirstSolve
    events,    \* submission events published for each submission
    notices,   \* blood notices published: <<rank, submission>>
    ended,     \* the game's EndTimeUtc has passed
    crashes

dbVars == <<subs, solved, award>>
pubVars == <<events, notices>>
vars == <<up, queue, subs, solved, pc, job, snap, verdict, award, events,
          notices, ended, crashes>>

Statuses == {"Absent", "FlagSubmitted", "Accepted", "WrongAnswer", "CheatDetected", "NotFound"}

\* ver is xmin, flag says that FlagId is the target flag, onTime that SubmitTimeUtc is
\* before the end of the game.
Subs == [team : Teams \cup {NoTeam}, kind : SubKinds, flag : BOOLEAN, onTime : BOOLEAN,
         status : Statuses, ver : Nat]

Blank == [team |-> NoTeam, kind |-> "wrong", flag |-> FALSE, onTime |-> FALSE,
          status |-> "Absent", ver |-> 0]

NoVerdict == [status |-> "FlagSubmitted", rank |-> 0, solve |-> FALSE]

\* rank: 1..3 for a blood, 0 for Normal and Unaccepted.  solve: a FirstSolve
\* row is to be inserted.
Verdicts == [status : Statuses, rank : 0..3, solve : BOOLEAN]

Stored == {i \in Ids : subs[i].status # "Absent"}
Unchecked == {i \in Ids : subs[i].status = "FlagSubmitted"}
OfTeam(t) == {i \in Stored : subs[i].team = t}

Running(w) == up[Home[w]]

Init ==
    /\ up = [p \in Procs |-> FALSE]
    /\ queue = [p \in Procs |-> {}]
    /\ subs = [i \in Ids |-> Blank]
    /\ solved = [t \in Teams |-> 0]
    /\ pc = [w \in Workers |-> "idle"]
    /\ job = [w \in Workers |-> 0]
    /\ snap = [w \in Workers |-> Blank]
    /\ verdict = [w \in Workers |-> NoVerdict]
    /\ award = [t \in Teams |-> 0]
    /\ events = [i \in Ids |-> 0]
    /\ notices = {}
    /\ ended = FALSE
    /\ crashes = 0
-----------------------------------------------------------------------------
(* The end of a worker's handling of a submission.                         *)

Leave(w) ==
    /\ pc' = [pc EXCEPT ![w] = "idle"]
    /\ job' = [job EXCEPT ![w] = 0]
    /\ snap' = [snap EXCEPT ![w] = Blank]
    /\ verdict' = [verdict EXCEPT ![w] = NoVerdict]

Goto(w, l) == pc' = [pc EXCEPT ![w] = l]

-----------------------------------------------------------------------------
(* GameController.Submit up to its commit.                                 *)

\* The checks, with the count of the team's submissions as of now.  The client
\* may name the flag, and FlagId is then stored with the submission.
Submit(h, t, k, named) ==
    /\ pc[h] = "idle" /\ Running(h)
    /\ SubmissionLimit > 0 => Cardinality(OfTeam(t)) < SubmissionLimit
    /\ k = "noflag" => ~named
    /\ snap' = [snap EXCEPT ![h] = [Blank EXCEPT !.team = t, !.kind = k, !.flag = named,
                                                 !.onTime = ~ended]]
    /\ Goto(h, "insert")
    /\ UNCHANGED <<up, queue, subs, solved, job, verdict, award, events, notices, ended, crashes>>

\* AddSubmission and the commit.  VerifyAnswer runs in the same DbContext: the
\* entity it later "loads" is the one inserted here, with this row version.
Insert(h) ==
    /\ pc[h] = "insert" /\ h \in Http
    /\ \E i \in Ids \ Stored :
          LET row == [snap[h] EXCEPT !.status = "FlagSubmitted", !.ver = 1] IN
          /\ \A j \in Ids \ Stored : i <= j
          /\ subs' = [subs EXCEPT ![i] = row]
          /\ snap' = [snap EXCEPT ![h] = row]
          /\ job' = [job EXCEPT ![h] = i]
    /\ Goto(h, "judge")
    /\ UNCHANGED <<up, queue, solved, verdict, award, events, notices, ended, crashes>>

-----------------------------------------------------------------------------
(* FlagChecker.Checker taking the next submission of the channel.          *)

Take(c) ==
    /\ pc[c] = "idle" /\ c \in Checkers /\ Running(c)
    /\ \E i \in queue[Home[c]] :
          /\ queue' = [queue EXCEPT ![Home[c]] = @ \ {i}]
          /\ job' = [job EXCEPT ![c] = i]
    /\ Goto(c, "load")
    /\ UNCHANGED <<up, subs, solved, snap, verdict, award, events, notices, ended, crashes>>

\* VerifyAnswer reads the submission.  It has its instance: the rows of GameInstances go
\* with a challenge or a participation only, which the submissions do as well.
Load(c) ==
    /\ pc[c] = "load"
    /\ snap' = [snap EXCEPT ![c] = subs[job[c]]]
    /\ Goto(c, "judge")
    /\ UNCHANGED <<up, queue, subs, solved, job, verdict, award, events, notices, ended, crashes>>

-----------------------------------------------------------------------------
(* VerifyAnswer, steps 1 to 3.                                             *)

\* The team's other submissions for the target flag, as of now.
Attempts(w) == Cardinality({i \in OfTeam(snap[w].team) : subs[i].flag} \ {job[w]})

AttemptsLeft(w) == MaxAttempts > 0 => Attempts(w) < MaxAttempts

Judged(w, s, l) ==
    /\ verdict' = [verdict EXCEPT ![w] = [NoVerdict EXCEPT !.status = s]]
    /\ Goto(w, l)
    /\ UNCHANGED <<up, queue, subs, solved, job, snap, award, events, notices, ended, crashes>>

\* The named flag is not a flag of the challenge.
NoTarget(w) ==
    /\ pc[w] = "judge" /\ snap[w].kind = "noflag"
    /\ Judged(w, "NotFound", "refuse")

OutOfAttempts(w) ==
    /\ pc[w] = "judge" /\ snap[w].kind # "noflag" /\ ~AttemptsLeft(w)
    /\ Judged(w, "WrongAnswer", "refuse")

Reject(w) ==
    /\ pc[w] = "judge" /\ snap[w].kind \in {"foreign", "wrong"} /\ AttemptsLeft(w)
    /\ Judged(w, "WrongAnswer", "save")

\* Mutant: the comparison accepts another team's flag.
BadMatchForeign(w) ==
    /\ pc[w] = "judge" /\ snap[w].kind \in {"right", "foreign"} /\ AttemptsLeft(w)
    /\ Judged(w, "Accepted", "lock")

Match(w) ==
    /\ pc[w] = "judge" /\ snap[w].kind = "right" /\ AttemptsLeft(w)
    /\ Judged(w, "Accepted", "lock")

-----------------------------------------------------------------------------
(* VerifyAnswer under pg_advisory_xact_lock.                               *)

InLock(w) == pc[w] \in {"decide", "commit"}

\* HashCode.Combine is seeded at random in every process: workers of different
\* processes lock different keys for the same team and flag.
SameKey(v, w) == Home[v] = Home[w] /\ snap[v].team = snap[w].team

\* Mutant: no advisory lock.
BadLockNone(w) ==
    /\ pc[w] = "lock"
    /\ Goto(w, "decide")
    /\ UNCHANGED <<up, queue, subs, solved, job, snap, verdict, award, events, notices, ended, crashes>>

Lock(w) ==
    /\ pc[w] = "lock"
    /\ \A v \in Workers : InLock(v) => ~SameKey(v, w)
    /\ Goto(w, "decide")
    /\ UNCHANGED <<up, queue, subs, solved, job, snap, verdict, award, events, notices, ended, crashes>>

\* Mutant: late solves count.
BadBloodSolvesAll == Cardinality({t \in Teams : solved[t] # 0})

\* CountBloodEligibleSolves: committed first solves of submissions in time.
BloodSolves == Cardinality({t \in Teams : solved[t] # 0 /\ subs[solved[t]].onTime})

\* Mutant: ranks start one below.
BadBloodRankBelow(w) == IF snap[w].onTime /\ BloodSolves < 3 THEN BloodSolves - 1 ELSE 0

BloodRank(w) == IF snap[w].onTime /\ BloodSolves < 3 THEN BloodSolves + 1 ELSE 0

\* Mutant: a repeated solve is ranked too.
BadDecideRankAlways(w) ==
    /\ pc[w] = "decide"
    /\ verdict' = [verdict EXCEPT ![w] =
           [status |-> "Accepted", rank |-> BloodRank(w), solve |-> solved[snap[w].team] = 0]]
    /\ Goto(w, "commit")
    /\ UNCHANGED <<up, queue, subs, solved, job, snap, award, events, notices, ended, crashes>>

\* alreadySolved, and if not the rank, as of now.
Decide(w) ==
    /\ pc[w] = "decide"
    /\ LET first == solved[snap[w].team] = 0 IN
       verdict' = [verdict EXCEPT ![w] =
           [status |-> "Accepted", rank |-> IF first THEN BloodRank(w) ELSE 0, solve |-> first]]
    /\ Goto(w, "commit")
    /\ UNCHANGED <<up, queue, subs, solved, job, snap, award, events, notices, ended, crashes>>
-----------------------------------------------------------------------------
(* VerifyAnswer saving its result and committing.                          *)

\* RepositoryBase.SaveAsync for the submission w holds.  EF updates changed
\* columns only: no UPDATE and no version check when nothing changed.  A row
\* that another process changed is reloaded as it is.
Saved(w, row) ==
    IF row = snap[w] \/ subs[job[w]].ver # snap[w].ver
      THEN subs[job[w]] ELSE [row EXCEPT !.ver = @ + 1]

SaveAsync(w, row) ==
    /\ subs' = [subs EXCEPT ![job[w]] = Saved(w, row)]
    /\ snap' = [snap EXCEPT ![w] = IF row = @ THEN @ ELSE Saved(w, row)]

\* The row with its verdict, and FlagId once there is a target flag.
Wanted(w) == [snap[w] EXCEPT !.status = verdict[w].status,
                             !.flag = @ \/ verdict[w].status # "NotFound"]

\* updateSub.Status is what is returned, unless the target or the attempts
\* decided: then it is the verdict, whatever the row became.
Save(w) ==
    /\ pc[w] \in {"refuse", "save"}
    /\ SaveAsync(w, Wanted(w))
    /\ verdict' = IF pc[w] = "save" THEN [verdict EXCEPT ![w].status = snap'[w].status]
                                   ELSE verdict
    /\ Goto(w, "publish")
    /\ UNCHANGED <<up, queue, solved, job, award, events, notices, ended, crashes>>

\* A second FirstSolve row of the team would violate the primary key.
Duplicate(w) == verdict[w].solve /\ solved[snap[w].team] # 0

\* Mutant: FirstSolve rows are written for bloods only.
BadCommitBloodOnly(w) ==
    /\ pc[w] = "commit"
    /\ ~Duplicate(w)
    /\ SaveAsync(w, Wanted(w))
    /\ verdict' = [verdict EXCEPT ![w].status = snap'[w].status]
    /\ IF verdict[w].rank > 0
          THEN /\ solved' = [solved EXCEPT ![snap[w].team] = job[w]]
               /\ award' = [award EXCEPT ![snap[w].team] = verdict[w].rank]
          ELSE UNCHANGED <<solved, award>>
    /\ Goto(w, "publish")
    /\ UNCHANGED <<up, queue, job, events, notices, ended, crashes>>

Commit(w) ==
    /\ pc[w] = "commit"
    /\ ~Duplicate(w)
    /\ SaveAsync(w, Wanted(w))
    /\ verdict' = [verdict EXCEPT ![w].status = snap'[w].status]
    /\ IF verdict[w].solve
          THEN /\ solved' = [solved EXCEPT ![snap[w].team] = job[w]]
               /\ award' = [award EXCEPT ![snap[w].team] = verdict[w].rank]
          ELSE UNCHANGED <<solved, award>>
    /\ Goto(w, "publish")
    /\ UNCHANGED <<up, queue, job, events, notices, ended, crashes>>

\* DbUpdateException on the key of FirstSolves: rolled back; Submit answers
\* 500, FlagChecker logs and drops the submission.
KeyClash(w) ==
    /\ pc[w] = "commit"
    /\ Duplicate(w)
    /\ Leave(w)
    /\ UNCHANGED <<up, queue, subs, solved, award, events, notices, ended, crashes>>

-----------------------------------------------------------------------------
(* What follows the verdict.                                               *)

\* AddEvent.  Submit publishes every verdict, FlagChecker not NotFound.
PublishEvent(w) ==
    /\ pc[w] = "publish"
    /\ events' = IF w \in Http \/ verdict[w].status # "NotFound"
                   THEN [events EXCEPT ![job[w]] = @ + 1] ELSE events
    /\ Goto(w, IF w \in Checkers /\ verdict[w].status \notin {"Accepted", "NotFound"}
                 THEN "cheat" ELSE "notice")
    /\ UNCHANGED <<up, queue, subs, solved, job, snap, verdict, award, notices, ended, crashes>>

\* CheckCheat, in FlagChecker only, after a rejected answer: another team's
\* flag turns the row of this DbContext into CheatDetected.
CheckCheat(c) ==
    /\ pc[c] = "cheat"
    /\ IF snap[c].kind = "foreign"
          THEN SaveAsync(c, [snap[c] EXCEPT !.status = "CheatDetected"])
          ELSE UNCHANGED <<subs, snap>>
    /\ Goto(c, "notice")
    /\ UNCHANGED <<up, queue, solved, job, verdict, award, events, notices, ended, crashes>>

\* AddNotice while the game runs, and the answer to the client or the next
\* submission of the channel.
PublishNotice(w) ==
    /\ pc[w] = "notice"
    /\ notices' = IF verdict[w].rank > 0 /\ ~ended
                    THEN notices \cup {<<verdict[w].rank, job[w]>>} ELSE notices
    /\ Leave(w)
    /\ UNCHANGED <<up, queue, subs, solved, award, events, ended, crashes>>

-----------------------------------------------------------------------------
(* The environment.                                                        *)

\* The client disconnects: the request's cancellation token rolls back an open
\* transaction or skips what is left to publish.
Abort(h) ==
    /\ h \in Http /\ pc[h] # "idle"
    /\ Leave(h)
    /\ UNCHANGED <<up, queue, subs, solved, award, events, notices, ended, crashes>>

\* Mutant: every stored submission is queued again.
BadStartRequeuesAll(p) ==
    /\ ~up[p]
    /\ up' = [up EXCEPT ![p] = TRUE]
    /\ queue' = [queue EXCEPT ![p] = Stored]
    /\ UNCHANGED <<subs, solved, pc, job, snap, verdict, award, events, notices, ended, crashes>>

\* Mutant: nothing is queued again.
BadStartEmptyQueue(p) ==
    /\ ~up[p]
    /\ up' = [up EXCEPT ![p] = TRUE]
    /\ UNCHANGED <<queue, subs, solved, pc, job, snap, verdict, award, events, notices, ended, crashes>>

\* StartAsync: every submission still FlagSubmitted is written to the channel.
Start(p) ==
    /\ ~up[p]
    /\ up' = [up EXCEPT ![p] = TRUE]
    /\ queue' = [queue EXCEPT ![p] = Unchecked]
    /\ UNCHANGED <<subs, solved, pc, job, snap, verdict, award, events, notices, ended, crashes>>

\* The process dies: open transactions roll back, the channel is lost.
Crash(p) ==
    LET at(w) == Home[w] = p IN
    /\ up[p] /\ crashes < MaxCrashes
    /\ crashes' = crashes + 1
    /\ up' = [up EXCEPT ![p] = FALSE]
    /\ queue' = [queue EXCEPT ![p] = {}]
    /\ pc' = [w \in Workers |-> IF at(w) THEN "idle" ELSE pc[w]]
    /\ job' = [w \in Workers |-> IF at(w) THEN 0 ELSE job[w]]
    /\ snap' = [w \in Workers |-> IF at(w) THEN Blank ELSE snap[w]]
    /\ verdict' = [w \in Workers |-> IF at(w) THEN NoVerdict ELSE verdict[w]]
    /\ UNCHANGED <<subs, solved, award, events, notices, ended>>

EndGame ==
    /\ ~ended
    /\ ended' = TRUE
    /\ UNCHANGED <<up, queue, subs, solved, pc, job, snap, verdict, award, events, notices, crashes>>

\* VerifyAnswer and what its two callers do with the verdict.
Verify(w) ==
    \/ NoTarget(w) \/ OutOfAttempts(w) \/ Reject(w) \/ Match(w)
    \/ Lock(w) \/ Decide(w)
    \/ Save(w) \/ Commit(w) \/ KeyClash(w)

Publish(w) == PublishEvent(w) \/ CheckCheat(w) \/ PublishNotice(w)

Next ==
    \/ \E h \in Http :
          \/ \E t \in Teams, k \in Kinds, named \in BOOLEAN : Submit(h, t, k, named)
          \/ Insert(h) \/ Abort(h)
    \/ \E c \in Checkers : Take(c) \/ Load(c)
    \/ \E w \in Workers : Verify(w) \/ Publish(w)
    \/ \E p \in Procs : Start(p) \/ Crash(p)
    \/ EndGame

Spec == Init /\ [][Next]_vars

\* Processes are restarted, and requests and workers that run go on.
Fairness ==
    /\ \A p \in Procs : WF_vars(Start(p))
    /\ \A c \in Checkers : WF_vars(Take(c)) /\ WF_vars(Load(c))
    /\ \A w \in Workers : WF_vars(Verify(w)) /\ WF_vars(Publish(w))

FairSpec == Spec /\ Fairness
-----------------------------------------------------------------------------
PCs == {"idle", "insert", "load", "judge", "lock", "decide", "refuse", "save", "commit",
        "publish", "cheat", "notice"}

TypeOK ==
    /\ up \in [Procs -> BOOLEAN]
    /\ queue \in [Procs -> SUBSET Ids]
    /\ subs \in [Ids -> Subs]
    /\ solved \in [Teams -> Ids \cup {0}]
    /\ pc \in [Workers -> PCs]
    /\ job \in [Workers -> Ids \cup {0}]
    /\ snap \in [Workers -> Subs]
    /\ verdict \in [Workers -> Verdicts]
    /\ award \in [Teams -> 0..3]
    /\ events \in [Ids -> Nat]
    /\ notices \subseteq (1..3) \X Ids
    /\ ended \in BOOLEAN
    /\ crashes \in Nat

\* An accepted answer is always backed by a FirstSolve row of its team: the
\* scoreboard, which reads FirstSolves only, never misses a team that was told
\* its flag is right.
AcceptedHasSolve ==
    \A i \in Ids : subs[i].status = "Accepted" => solved[subs[i].team] # 0

\* A FirstSolve row names an accepted submission of its own team: "the
\* immutable fact source" of the scoreboard does not change under it.
SolveIsAccepted ==
    \A t \in Teams : solved[t] # 0 =>
        subs[solved[t]].team = t /\ subs[solved[t]].kind = "right" /\ subs[solved[t]].status = "Accepted"

\* The advisory lock does what its comment says: no two verifications of the
\* same team and flag are past it, so no FirstSolve insert ever meets another.
OneVerificationPastLock ==
    \A v, w \in Workers : InLock(v) /\ InLock(w) /\ snap[v].team = snap[w].team => v = w

\* A blood of rank k was given when k - 1 other teams had solved in time: ranks
\* are never skipped, whatever order verifications commit in.
RanksNotSkipped ==
    \A t \in Teams : solved[t] # 0 /\ award[t] > 0 =>
        Cardinality({u \in Teams \ {t} : solved[u] # 0 /\ subs[solved[u]].onTime}) >= award[t] - 1

\* A blood notice is about the submission that made the FirstSolve row, with
\* the rank it was given there.
NoticesAreSolves ==
    \A n \in notices : LET t == subs[n[2]].team IN solved[t] = n[2] /\ award[t] = n[1]

\* Two teams are never announced with the same blood.
BloodsUnique ==
    \A m, n \in notices : m[1] = n[1] => m = n

\* A team never stores more submissions than SubmissionLimit.
LimitRespected ==
    SubmissionLimit > 0 => \A t \in Teams : Cardinality(OfTeam(t)) <= SubmissionLimit

\* A published event is about a submission that has its verdict, and each
\* submission is published once, crashes and rechecks included.
EventsFollowVerdicts ==
    \A i \in Ids : /\ events[i] <= 1
                   /\ events[i] = 1 => i \in Stored \ Unchecked

\* A team's solve is one of its first MaxAttempts submissions for the flag.
SolvedWithinAttempts ==
    MaxAttempts > 0 => \A t \in Teams : solved[t] # 0 =>
        Cardinality({i \in OfTeam(t) : i < solved[t] /\ subs[i].flag}) < MaxAttempts

\* Does not hold: Submit publishes the verdict of another team's flag as
\* CheatDetected (only a recheck after a start looks for it).
ForeignFlagReported ==
    [][\A h \in Http : pc[h] = "publish" /\ pc'[h] = "notice" /\ snap[h].kind = "foreign"
          => subs[job[h]].status = "CheatDetected"]_vars

\* What the last crash left unchecked is judged after the restart, aborted
\* requests included.
CrashLeavesNothing ==
    \A i \in Ids : (crashes = MaxCrashes /\ i \in Unchecked /\ \A p \in Procs : ~up[p])
                    ~> i \notin Unchecked

\* With one server process the pipeline is the one-step Judge.
J == INSTANCE Judge WITH NoSolve <- 0,
        entry <- [i \in Ids |-> [team |-> subs[i].team, kind |-> subs[i].kind,
                                 status |-> subs[i].status]]

ImplementsJudge == J!Spec
=============================================================================

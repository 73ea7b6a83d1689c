------------------------- MODULE FlagPipelineProofs -------------------------
(***************************************************************************)
(* FlagPipeline for any number of teams, submissions, requests, workers    *)
(* and crashes.                                                            *)
(*   TypeCorrect            types                                          *)
(*   AcceptedAlwaysSolves   AcceptedHasSolve, any number of processes      *)
(*   RanksNeverSkipped      RanksNotSkipped, any number of processes       *)
(*   NoticesAnnounceSolves  NoticesAreSolves, any number of processes      *)
(*   OverrunIsBounded       LimitOverrunBounded, any number of processes   *)
(* With one server process (OneProcess):                                   *)
(*   LockSerialises         OneVerificationPastLock                        *)
(*   SolvesStayAccepted     SolveIsAccepted                                *)
(*   RefinesJudge           ImplementsJudge                                *)
(*   EventsAnnounceVerdicts EventsFollowVerdicts                           *)
(***************************************************************************)
EXTENDS FlagPipeline, FiniteSetTheorems, TLAPS

LEMMA BlankTyped == Blank \in Subs /\ NoVerdict \in Verdicts
  BY DEF Blank, Subs, NoVerdict, Verdicts, SubKinds, Statuses

\* The row that CheckCheat wants.
Cheat(c) == [snap[c] EXCEPT !.status = "CheatDetected"]

LEMMA CheatTyped ==
  ASSUME NEW w \in Workers, TypeOK
  PROVE  /\ Cheat(w) \in Subs /\ Cheat(w).status = "CheatDetected"
         /\ Cheat(w).team = snap[w].team /\ Cheat(w).kind = snap[w].kind
<1>1. snap[w] \in Subs /\ "CheatDetected" \in Statuses
  BY DEF TypeOK, Statuses
<1> QED
  BY <1>1 DEF Cheat, Subs

\* Counting teams gives a number, so the rank of a first solve is 0 to 3.
LEMMA RankTyped == ASSUME NEW w \in Workers PROVE BloodRank(w) \in 0..3
<1>1. BloodSolves \in Nat
  <2>1. IsFiniteSet({t \in Teams : solved[t] # 0 /\ subs[solved[t]].onTime})
    BY FS_Subset, FlagPipelineAssumption
  <2> QED
    BY <2>1, FS_CardinalityType DEF BloodSolves
<1> QED
  BY <1>1 DEF BloodRank

-----------------------------------------------------------------------------
(* What a worker holds, whatever other processes do.                       *)

Judging == {"judge", "lock", "decide", "refuse", "save", "commit", "publish",
            "cheat", "notice"}

Holding == Judging \cup {"load"}

\* A worker's copy of a submission has the row's team and text, and a
\* submission that is queued or handled exists and belongs to a team.
Tracking ==
    /\ \A i \in Stored : subs[i].team \in Teams
    /\ \A p \in Procs : queue[p] \subseteq Stored
    /\ \A w \in Workers :
          /\ pc[w] = "insert" => snap[w].team \in Teams
          /\ pc[w] \in Holding => job[w] \in Stored
          /\ pc[w] \in Judging => /\ snap[w].team = subs[job[w]].team
                                  /\ snap[w].kind = subs[job[w]].kind

\* What a worker is about to write: only Commit accepts, the right flag only,
\* and what it accepts without a FirstSolve row of its own has one already.
Decided ==
    \A w \in Workers :
        /\ pc[w] \in {"refuse", "save"} => verdict[w].status \in {"WrongAnswer", "NotFound"}
        /\ pc[w] \in {"lock", "decide", "commit"} =>
              verdict[w].status = "Accepted" /\ snap[w].kind = "right"
        /\ pc[w] = "commit" /\ ~verdict[w].solve => solved[snap[w].team] # 0

TInv == TypeOK /\ Tracking /\ Decided

LEMMA InitTInv == Init => TInv
<1> SUFFICES ASSUME Init PROVE TInv
  OBVIOUS
<1>1. TypeOK
  <2>1. /\ up \in [Procs -> BOOLEAN] /\ queue \in [Procs -> SUBSET Ids]
        /\ solved \in [Teams -> Ids \cup {0}] /\ award \in [Teams -> 0..3]
        /\ events \in [Ids -> Nat]
    BY DEF Init
  <2>2. subs \in [Ids -> Subs] /\ snap \in [Workers -> Subs]
    BY BlankTyped DEF Init
  <2>3. /\ pc \in [Workers -> PCs] /\ job \in [Workers -> Ids \cup {0}]
        /\ verdict \in [Workers -> Verdicts]
    BY BlankTyped DEF Init, PCs
  <2> QED
    BY <2>1, <2>2, <2>3 DEF Init, TypeOK
<1>2. Stored = {}
  BY DEF Init, Stored, Blank
<1>3. Tracking /\ Decided
  BY <1>2 DEF Init, Tracking, Decided, Judging, Holding
<1> QED
  BY <1>1, <1>3 DEF TInv

LEMMA LeaveTInv ==
  ASSUME TInv, NEW w \in Workers, Leave(w), UNCHANGED <<subs, solved>>,
         \A p \in Procs : queue'[p] \subseteq Stored
  PROVE  /\ Tracking' /\ Decided'
         /\ pc' \in [Workers -> PCs] /\ job' \in [Workers -> Ids \cup {0}]
         /\ snap' \in [Workers -> Subs] /\ verdict' \in [Workers -> Verdicts]
<1>1. /\ pc' \in [Workers -> PCs] /\ job' \in [Workers -> Ids \cup {0}]
      /\ snap' \in [Workers -> Subs] /\ verdict' \in [Workers -> Verdicts]
  BY BlankTyped DEF Leave, TInv, TypeOK, PCs
<1>2. Tracking'
  BY DEF Leave, TInv, TypeOK, Tracking, Stored, Judging, Holding
<1>3. Decided'
  BY DEF Leave, TInv, TypeOK, Decided
<1> QED
  BY <1>1, <1>2, <1>3

\* What SaveAsync stores is a submission with the row's team and text, reloaded
\* or not; nothing but the worker's copy and the row changes.
LEMMA SaveTyped ==
  ASSUME TInv, NEW w \in Workers, pc[w] \in Judging, NEW row \in Subs,
         row.team = snap[w].team, row.kind = snap[w].kind, SaveAsync(w, row)
  PROVE  /\ job[w] \in Ids
         /\ subs' \in [Ids -> Subs] /\ snap' \in [Workers -> Subs]
         /\ \A i \in Ids \ {job[w]} : subs'[i] = subs[i]
         /\ \A v \in Workers \ {w} : snap'[v] = snap[v]
         /\ subs'[job[w]].team = subs[job[w]].team
         /\ subs'[job[w]].kind = subs[job[w]].kind
         /\ snap'[w].team = snap[w].team
         /\ snap'[w].kind = snap[w].kind
         /\ subs'[job[w]].status \in {subs[job[w]].status, row.status}
<1>1. job[w] \in Ids /\ subs[job[w]] \in Subs /\ snap[w] \in Subs
  BY DEF TInv, TypeOK, Tracking, Stored, Holding
<1>2. snap[w].team = subs[job[w]].team /\ snap[w].kind = subs[job[w]].kind
  BY DEF TInv, Tracking
<1>3. /\ [row EXCEPT !.ver = @ + 1] \in Subs
      /\ [row EXCEPT !.ver = @ + 1].team = row.team
      /\ [row EXCEPT !.ver = @ + 1].kind = row.kind
      /\ [row EXCEPT !.ver = @ + 1].status = row.status
  BY DEF Subs
<1>4. /\ Saved(w, row) \in Subs
      /\ Saved(w, row).team = snap[w].team /\ Saved(w, row).kind = snap[w].kind
      /\ Saved(w, row).status \in {subs[job[w]].status, row.status}
  <2>1. CASE Saved(w, row) = subs[job[w]]
    BY <1>1, <1>2, <2>1
  <2>2. CASE Saved(w, row) # subs[job[w]]
    <3>1. Saved(w, row) = [row EXCEPT !.ver = @ + 1]
      BY <2>2 DEF Saved
    <3> QED
      BY <1>3, <3>1
  <2> QED
    BY <2>1, <2>2
<1>5. /\ subs' = [subs EXCEPT ![job[w]] = Saved(w, row)]
      /\ snap' = [snap EXCEPT ![w] = IF row = snap[w] THEN snap[w] ELSE Saved(w, row)]
  BY DEF SaveAsync
<1> QED
  BY <1>1, <1>2, <1>4, <1>5 DEF TInv, TypeOK

\* A saved row disturbs neither the set of submissions nor anyone's track.
LEMMA SaveTracking ==
  ASSUME TInv, NEW w \in Workers, pc[w] \in Judging, NEW l \in Judging, NEW row \in Subs,
         row.team = snap[w].team, row.kind = snap[w].kind, row.status # "Absent",
         SaveAsync(w, row), Goto(w, l), UNCHANGED <<queue, job>>
  PROVE  Tracking' /\ Stored' = Stored
<1>1. job[w] \in Stored
  BY DEF TInv, Tracking, Holding
<1>2. Stored' = Stored
  BY <1>1, SaveTyped DEF Stored
<1>3. \A i \in Ids : subs'[i].team = subs[i].team /\ subs'[i].kind = subs[i].kind
  BY SaveTyped
<1>4. \A v \in Workers : snap'[v].team = snap[v].team /\ snap'[v].kind = snap[v].kind
  BY SaveTyped
<1>5. Stored \subseteq Ids
  BY DEF Stored
<1>6. \A v \in Workers : pc'[v] = pc[v] \/ (v = w /\ pc'[v] = l)
  BY DEF Goto, TInv, TypeOK
<1> QED
  BY <1>1, <1>2, <1>3, <1>4, <1>5, <1>6 DEF Tracking, TInv, Judging, Holding

LEMMA WantedTyped ==
  ASSUME TInv, NEW w \in Workers, pc[w] \in {"refuse", "save", "commit"}
  PROVE  /\ Wanted(w) \in Subs /\ pc[w] \in Judging
         /\ Wanted(w).team = snap[w].team /\ Wanted(w).kind = snap[w].kind
         /\ Wanted(w).status = verdict[w].status
         /\ Wanted(w).status \in {"Accepted", "WrongAnswer", "NotFound"}
         /\ pc[w] # "commit" => Wanted(w).status # "Accepted"
<1>1. snap[w] \in Subs /\ verdict[w] \in Verdicts
  BY DEF TInv, TypeOK
<1>2. Wanted(w) \in Subs /\ pc[w] \in Judging
  BY <1>1 DEF Wanted, Subs, Verdicts, Judging
<1>3. /\ Wanted(w).team = snap[w].team /\ Wanted(w).kind = snap[w].kind
      /\ Wanted(w).status = verdict[w].status
  BY <1>1 DEF Wanted, Subs
<1> QED
  BY <1>2, <1>3 DEF TInv, Decided

LEMMA NextTInv == TInv /\ [Next]_vars => TInv'
<1> SUFFICES ASSUME TInv, [Next]_vars PROVE TInv'
  OBVIOUS
<1>1. ASSUME NEW h \in Http, NEW t \in Teams, NEW k \in Kinds, NEW named \in BOOLEAN,
             Submit(h, t, k, named)
      PROVE  TInv'
  <2>1. [Blank EXCEPT !.team = t, !.kind = k, !.flag = named, !.onTime = ~ended] \in Subs
    BY FlagPipelineAssumption DEF Blank, Subs, Statuses, TInv, TypeOK
  <2>2. TypeOK'
    BY <1>1, <2>1 DEF Submit, Goto, TInv, TypeOK, PCs, Workers
  <2>3. Tracking'
    BY <1>1 DEF Submit, Goto, Blank, TInv, TypeOK, Tracking, Stored, Judging, Holding, Workers
  <2>4. Decided'
    BY <1>1 DEF Submit, Goto, TInv, TypeOK, Decided, Workers
  <2> QED
    BY <2>2, <2>3, <2>4 DEF TInv
<1>2. ASSUME NEW h \in Http, Insert(h) PROVE TInv'
  <2>1. PICK i \in Ids \ Stored :
          LET row == [snap[h] EXCEPT !.status = "FlagSubmitted", !.ver = 1] IN
          /\ subs' = [subs EXCEPT ![i] = row]
          /\ snap' = [snap EXCEPT ![h] = row]
          /\ job' = [job EXCEPT ![h] = i]
    BY <1>2 DEF Insert
  <2>2. [snap[h] EXCEPT !.status = "FlagSubmitted", !.ver = 1] \in Subs
    <3>1. snap[h] \in Subs
      BY DEF TInv, TypeOK, Workers
    <3> QED
      BY <3>1 DEF Subs, Statuses
  <2>3. TypeOK'
    BY <1>2, <2>1, <2>2 DEF Insert, Goto, TInv, TypeOK, PCs, Workers
  <2>4. Stored' = Stored \cup {i}
    BY <2>1, <2>2 DEF Stored, TInv, TypeOK, Workers, Subs
  <2>5. Tracking'
    BY <1>2, <2>1, <2>4
    DEF Insert, Goto, TInv, TypeOK, Tracking, Stored, Judging, Holding, Workers, Subs
  <2>6. Decided'
    BY <1>2, <2>1 DEF Insert, Goto, TInv, TypeOK, Decided, Workers, Subs
  <2> QED
    BY <2>3, <2>5, <2>6 DEF TInv
<1>3. ASSUME NEW h \in Http, Abort(h) PROVE TInv'
  BY <1>3, LeaveTInv DEF Abort, TInv, TypeOK, Tracking, Workers
<1>4. ASSUME NEW c \in Checkers, Take(c) PROVE TInv'
  <2>1. Home[c] \in Procs
    BY FlagPipelineAssumption DEF Workers
  <2>2. PICK i \in queue[Home[c]] : /\ queue' = [queue EXCEPT ![Home[c]] = @ \ {i}]
                                    /\ job' = [job EXCEPT ![c] = i]
    BY <1>4 DEF Take
  <2>3. i \in Stored /\ i \in Ids
    BY <2>1 DEF TInv, Tracking, TypeOK
  <2>4. TypeOK'
    BY <1>4, <2>1, <2>2, <2>3 DEF Take, Goto, TInv, TypeOK, PCs, Workers
  <2>5. Tracking'
    BY <1>4, <2>1, <2>2, <2>3
    DEF Take, Goto, TInv, TypeOK, Tracking, Stored, Judging, Holding, Workers
  <2>6. Decided'
    BY <1>4 DEF Take, Goto, TInv, TypeOK, Decided, Workers
  <2> QED
    BY <2>4, <2>5, <2>6 DEF TInv
<1>5. ASSUME NEW c \in Checkers, Load(c) PROVE TInv'
  <2>1. job[c] \in Ids
    BY <1>5 DEF Load, TInv, Tracking, Stored, Judging, Holding, Workers
  <2>2. TypeOK'
    BY <1>5, <2>1 DEF Load, Goto, TInv, TypeOK, PCs, Workers
  <2>3. Tracking'
    BY <1>5, <2>1 DEF Load, Goto, TInv, TypeOK, Tracking, Stored, Judging, Holding, Workers
  <2>4. Decided'
    BY <1>5 DEF Load, Goto, TInv, TypeOK, Decided, Workers
  <2> QED
    BY <2>2, <2>3, <2>4 DEF TInv
<1>6. ASSUME NEW w \in Workers, NoTarget(w) \/ OutOfAttempts(w) \/ Reject(w) \/ Match(w) PROVE TInv'
  <2>1. \A s \in {"Accepted", "WrongAnswer", "NotFound"} :
           [NoVerdict EXCEPT !.status = s] \in Verdicts
    BY BlankTyped DEF Verdicts, Statuses
  <2>2. TypeOK'
    BY <1>6, <2>1 DEF NoTarget, OutOfAttempts, Reject, Match, Judged, Goto, TInv, TypeOK, PCs
  <2>3. Tracking'
    BY <1>6 DEF NoTarget, OutOfAttempts, Reject, Match, Judged, Goto, TInv, TypeOK, Tracking, Stored, Judging, Holding
  <2>4. Decided'
    BY <1>6 DEF NoTarget, OutOfAttempts, Reject, Match, Judged, Goto, TInv, TypeOK, Decided, NoVerdict
  <2> QED
    BY <2>2, <2>3, <2>4 DEF TInv
<1>7. ASSUME NEW w \in Workers, Lock(w) PROVE TInv'
  BY <1>7 DEF Lock, Goto, TInv, TypeOK, PCs, Tracking, Stored, Judging, Holding, Decided
<1>8. ASSUME NEW w \in Workers, Decide(w) PROVE TInv'
  <2>1. TypeOK'
    BY <1>8, RankTyped DEF Decide, Goto, TInv, TypeOK, PCs, Verdicts, Statuses
  <2>2. Tracking'
    BY <1>8 DEF Decide, Goto, TInv, TypeOK, Tracking, Stored, Judging, Holding
  <2>3. Decided'
    BY <1>8 DEF Decide, Goto, TInv, TypeOK, Decided
  <2> QED
    BY <2>1, <2>2, <2>3 DEF TInv
<1>9. ASSUME NEW w \in Workers, Save(w) PROVE TInv'
  <2>1. pc[w] \in {"refuse", "save"} /\ SaveAsync(w, Wanted(w)) /\ Goto(w, "publish")
    BY <1>9 DEF Save
  <2>2. verdict' \in [Workers -> Verdicts]
    <3>1. snap'[w].status \in Statuses
      BY <2>1, WantedTyped, SaveTyped DEF Subs
    <3>2. [verdict[w] EXCEPT !.status = snap'[w].status] \in Verdicts
      BY <3>1 DEF TInv, TypeOK, Verdicts
    <3> QED
      BY <1>9, <3>2 DEF Save, TInv, TypeOK
  <2>3. TypeOK'
    BY <1>9, <2>1, <2>2, WantedTyped, SaveTyped DEF Save, Goto, TInv, TypeOK, PCs
  <2>4. Tracking'
    BY <1>9, <2>1, WantedTyped, SaveTracking DEF Save, Judging
  <2>5. \A v \in Workers \ {w} : verdict'[v] = verdict[v] /\ pc'[v] = pc[v]
    BY <1>9, <2>1 DEF Save, Goto, TInv, TypeOK
  <2>6. Decided'
    BY <1>9, <2>1, <2>5, WantedTyped, SaveTyped DEF Save, Goto, TInv, TypeOK, Decided
  <2> QED
    BY <2>3, <2>4, <2>6 DEF TInv
<1>10. ASSUME NEW w \in Workers, Commit(w) PROVE TInv'
  <2>1. pc[w] = "commit" /\ SaveAsync(w, Wanted(w)) /\ Goto(w, "publish")
    BY <1>10 DEF Commit
  <2>2. snap[w].team \in Teams /\ job[w] \in Ids /\ verdict[w] \in Verdicts
    BY <2>1 DEF TInv, TypeOK, Tracking, Stored, Judging, Holding
  <2>3. solved' \in [Teams -> Ids \cup {0}] /\ award' \in [Teams -> 0..3]
    BY <1>10, <2>2 DEF Commit, TInv, TypeOK, Verdicts
  <2>4. verdict' \in [Workers -> Verdicts]
    <3>1. snap'[w].status \in Statuses
      BY <2>1, WantedTyped, SaveTyped DEF Subs
    <3>2. [verdict[w] EXCEPT !.status = snap'[w].status] \in Verdicts
      BY <3>1, <2>2 DEF Verdicts
    <3> QED
      BY <1>10, <3>2 DEF Commit, TInv, TypeOK
  <2>5. TypeOK'
    BY <1>10, <2>1, <2>3, <2>4, WantedTyped, SaveTyped DEF Commit, Goto, TInv, TypeOK, PCs
  <2>6. Tracking'
    BY <1>10, <2>1, WantedTyped, SaveTracking DEF Commit, Judging
  <2>7. \A t \in Teams : solved[t] # 0 => solved'[t] # 0
    BY <1>10, <2>2, FlagPipelineAssumption DEF Commit, TInv, TypeOK
  <2>8. \A v \in Workers : pc[v] = "commit" => snap[v].team \in Teams
    BY DEF TInv, Tracking, Stored, Judging, Holding
  <2>9. \A v \in Workers \ {w} : verdict'[v] = verdict[v] /\ pc'[v] = pc[v]
    BY <1>10, <2>1 DEF Commit, Goto, TInv, TypeOK
  <2>10. Decided'
    BY <1>10, <2>1, <2>7, <2>8, <2>9, WantedTyped, SaveTyped DEF Goto, TInv, TypeOK, Decided
  <2> QED
    BY <2>5, <2>6, <2>10 DEF TInv
<1>12. ASSUME NEW w \in Workers, KeyClash(w) PROVE TInv'
  BY <1>12, LeaveTInv DEF KeyClash, TInv, TypeOK, Tracking
<1>13. ASSUME NEW w \in Workers, PublishEvent(w) PROVE TInv'
  <2>1. TypeOK'
    <3>1. events' \in [Ids -> Nat]
      <4>1. job[w] \in Ids
        BY <1>13 DEF PublishEvent, TInv, Tracking, Stored, Judging, Holding
      <4> QED
        BY <1>13, <4>1 DEF PublishEvent, TInv, TypeOK
    <3>2. pc' \in [Workers -> PCs]
      BY <1>13 DEF PublishEvent, Goto, TInv, TypeOK, PCs
    <3> QED
      BY <1>13, <3>1, <3>2 DEF PublishEvent, TInv, TypeOK
  <2>2. Tracking'
    BY <1>13 DEF PublishEvent, Goto, TInv, TypeOK, Tracking, Stored, Judging, Holding
  <2>3. Decided'
    BY <1>13 DEF PublishEvent, Goto, TInv, TypeOK, Decided
  <2> QED
    BY <2>1, <2>2, <2>3 DEF TInv
<1>14. ASSUME NEW w \in Workers, CheckCheat(w) PROVE TInv'
  <2>1. CASE snap[w].kind # "foreign"
    <3>1. TypeOK'
      BY <1>14, <2>1 DEF CheckCheat, Goto, TInv, TypeOK, PCs
    <3>2. Tracking'
      BY <1>14, <2>1 DEF CheckCheat, Goto, TInv, TypeOK, Tracking, Stored, Judging, Holding
    <3>3. Decided'
      BY <1>14, <2>1 DEF CheckCheat, Goto, TInv, TypeOK, Decided
    <3> QED
      BY <3>1, <3>2, <3>3 DEF TInv
  <2>2. CASE snap[w].kind = "foreign"
    <3>1. /\ SaveAsync(w, Cheat(w)) /\ Goto(w, "notice") /\ pc[w] = "cheat"
          /\ UNCHANGED <<up, queue, solved, job, verdict, award, events, notices, ended, crashes>>
      BY <1>14, <2>2 DEF CheckCheat, Cheat
    <3>2. TypeOK'
      BY <3>1, CheatTyped, SaveTyped DEF Goto, TInv, TypeOK, PCs, Judging
    <3>3. Tracking'
      BY <3>1, CheatTyped, SaveTracking DEF TInv, Judging
    <3>4. \A v \in Workers \ {w} : snap'[v] = snap[v] /\ pc'[v] = pc[v]
      BY <3>1, CheatTyped, SaveTyped DEF Goto, TInv, TypeOK, Judging
    <3>5. Decided'
      BY <3>1, <3>4 DEF Goto, TInv, TypeOK, Decided
    <3> QED
      BY <3>2, <3>3, <3>5 DEF TInv
  <2> QED
    BY <2>1, <2>2
<1>15. ASSUME NEW w \in Workers, PublishNotice(w) PROVE TInv'
  <2>1. /\ Leave(w) /\ UNCHANGED <<up, queue, subs, solved, award, events, ended, crashes>>
        /\ \A p \in Procs : queue'[p] \subseteq Stored
    BY <1>15 DEF PublishNotice, TInv, Tracking
  <2>2. notices' \subseteq (1..3) \X Ids
    <3>1. job[w] \in Ids /\ verdict[w].rank \in 0..3
      BY <1>15 DEF PublishNotice, TInv, TypeOK, Tracking, Stored, Judging, Holding, Verdicts
    <3> QED
      BY <1>15, <3>1 DEF PublishNotice, TInv, TypeOK
  <2> QED
    BY <2>1, <2>2, LeaveTInv DEF TInv, TypeOK
<1>16. ASSUME NEW p \in Procs, Start(p) PROVE TInv'
  <2>1. Unchecked \subseteq Stored
    BY DEF Unchecked, Stored
  <2>2. TypeOK'
    BY <1>16 DEF Start, TInv, TypeOK, Unchecked
  <2>3. Tracking'
    BY <1>16, <2>1 DEF Start, TInv, TypeOK, Tracking, Stored
  <2> QED
    BY <1>16, <2>2, <2>3 DEF Start, TInv, Decided
<1>17. ASSUME NEW p \in Procs, Crash(p) PROVE TInv'
  <2>1. TypeOK'
    BY <1>17, BlankTyped DEF Crash, TInv, TypeOK, PCs
  <2>2. Tracking'
    BY <1>17 DEF Crash, TInv, TypeOK, Tracking, Stored, Judging, Holding
  <2>3. Decided'
    BY <1>17 DEF Crash, TInv, TypeOK, Decided
  <2> QED
    BY <2>1, <2>2, <2>3 DEF TInv
<1>18. CASE EndGame
  BY <1>18 DEF EndGame, TInv, TypeOK, Tracking, Stored, Decided
<1>19. CASE UNCHANGED vars
  BY <1>19 DEF vars, TInv, TypeOK, Tracking, Stored, Decided
<1> QED
  BY <1>1, <1>2, <1>3, <1>4, <1>5, <1>6, <1>7, <1>8, <1>9, <1>10, <1>12, <1>13,
     <1>14, <1>15, <1>16, <1>17, <1>18, <1>19
  DEF Next, Verify, Publish

\* Every variable of the pipeline keeps its type: blood ranks stay within 1 to
\* 3, an announced submission exists, whatever crashes, aborts and reloads do.
THEOREM TypeCorrect == Spec => []TypeOK
  BY InitTInv, NextTInv, PTL DEF Spec, TInv

-----------------------------------------------------------------------------
LEMMA NextAccepted == TInv /\ AcceptedHasSolve /\ [Next]_vars => AcceptedHasSolve'
<1> SUFFICES ASSUME TInv, AcceptedHasSolve, [Next]_vars PROVE AcceptedHasSolve'
  OBVIOUS
<1>1. ASSUME NEW h \in Http, Insert(h) PROVE AcceptedHasSolve'
  <2>1. snap[h] \in Subs
    BY DEF TInv, TypeOK, Workers
  <2> QED
    BY <1>1, <2>1 DEF Insert, AcceptedHasSolve, TInv, TypeOK, Subs
<1>2. ASSUME NEW w \in Workers, Save(w) PROVE AcceptedHasSolve'
  <2>1. /\ pc[w] \in {"refuse", "save"} /\ SaveAsync(w, Wanted(w)) /\ solved' = solved
    BY <1>2 DEF Save
  <2> QED
    BY <2>1, WantedTyped, SaveTyped DEF AcceptedHasSolve
<1>3. ASSUME NEW w \in Workers, Commit(w) PROVE AcceptedHasSolve'
  <2>1. pc[w] = "commit" /\ SaveAsync(w, Wanted(w))
    BY <1>3 DEF Commit
  <2>2. /\ snap[w].team \in Teams /\ snap[w].team = subs[job[w]].team
        /\ job[w] \in Ids /\ job[w] # 0
    BY <2>1, FlagPipelineAssumption DEF TInv, TypeOK, Tracking, Stored, Judging, Holding
  <2>3. \A t \in Teams : solved[t] # 0 => solved'[t] # 0
    BY <1>3, <2>2 DEF Commit, TInv, TypeOK
  <2>4. solved'[snap[w].team] # 0
    BY <1>3, <2>2 DEF Commit, TInv, TypeOK, Decided
  <2>5. \A i \in Ids : subs[i].status = "Accepted" => subs[i].team \in Teams
    BY DEF TInv, Tracking, Stored
  <2>6. /\ \A i \in Ids \ {job[w]} : subs'[i] = subs[i]
        /\ subs'[job[w]].team = snap[w].team
    BY <2>1, <2>2, WantedTyped, SaveTyped
  <2>7. \A i \in Ids : subs'[i].status = "Accepted" => solved'[subs'[i].team] # 0
    BY <2>3, <2>4, <2>5, <2>6 DEF AcceptedHasSolve
  <2> QED
    BY <2>7 DEF AcceptedHasSolve
<1>4. ASSUME NEW w \in Workers, CheckCheat(w) PROVE AcceptedHasSolve'
  <2>1. solved' = solved /\ pc[w] = "cheat"
    BY <1>4 DEF CheckCheat
  <2>2. CASE subs' = subs
    BY <2>1, <2>2 DEF AcceptedHasSolve
  <2>3. CASE SaveAsync(w, Cheat(w))
    <3>1. /\ \A i \in Ids \ {job[w]} : subs'[i] = subs[i]
          /\ subs'[job[w]].team = subs[job[w]].team
          /\ subs'[job[w]].status \in {subs[job[w]].status, "CheatDetected"}
      BY <2>1, <2>3, CheatTyped, SaveTyped DEF TInv, Judging
    <3> QED
      BY <2>1, <3>1 DEF AcceptedHasSolve
  <2> QED
    BY <1>4, <2>2, <2>3 DEF CheckCheat, Cheat
<1>5. CASE UNCHANGED <<subs, solved>>
  BY <1>5 DEF AcceptedHasSolve
<1>6. CASE UNCHANGED vars
  BY <1>5, <1>6 DEF vars
<1> QED
  BY <1>1, <1>2, <1>3, <1>4, <1>5, <1>6
  DEF Next, Verify, Publish, Submit, Abort, Take, Load, NoTarget, OutOfAttempts, Reject, Match, Judged, Lock,
      Decide, KeyClash, PublishEvent, PublishNotice, Start, Crash, EndGame

\* A team whose answer VerifyAnswer accepted has a FirstSolve row, for any number
\* of server processes: the scoreboard never misses it.
THEOREM AcceptedAlwaysSolves == Spec => []AcceptedHasSolve
<1>1. Init => AcceptedHasSolve
  BY DEF Init, AcceptedHasSolve, Blank
<1> QED
  BY <1>1, InitTInv, NextTInv, NextAccepted, PTL DEF Spec

-----------------------------------------------------------------------------
(* One server process.                                                     *)

OneProcess == \A v, w \in Workers : Home[v] = Home[w]

\* Before its verdict is written.
Undecided == {"load", "judge", "lock", "decide", "refuse", "save", "commit"}

\* A process that is down handles nothing.
Awake == \A w \in Workers : pc[w] # "idle" => Running(w)

\* No submission is handled twice at a time, or handled and queued.
Apart ==
    \A w \in Workers :
        /\ queue[Home[w]] \subseteq Unchecked
        /\ pc[w] \in Holding =>
              /\ job[w] \notin queue[Home[w]]
              /\ \A v \in Workers \ {w} : pc[v] \in Holding => job[v] # job[w]

\* So the row a worker is about to write is the one it loaded.
Synced ==
    \A w \in Workers :
        /\ pc[w] \in Undecided => job[w] \in Unchecked
        /\ pc[w] \in Undecided \ {"load"} => snap[w] = subs[job[w]]
        /\ pc[w] \in {"publish", "cheat"} =>
              snap[w] = subs[job[w]] /\ snap[w].status = verdict[w].status
        /\ pc[w] = "publish" => verdict[w].status \in {"Accepted", "WrongAnswer", "NotFound"}
        /\ pc[w] = "cheat" => verdict[w].status = "WrongAnswer"

SInv == Awake /\ Apart /\ Synced /\ OneVerificationPastLock /\ SolveIsAccepted

LEMMA InitSInv == Init => SInv
  BY FlagPipelineAssumption DEF Init, SInv, Awake, Apart, Synced, OneVerificationPastLock, SolveIsAccepted, InLock,
         Holding, Judging, Undecided

\* A worker that leaves disturbs nobody.
LEMMA LeaveSInv ==
  ASSUME TInv, SInv, NEW w \in Workers, Leave(w), UNCHANGED <<up, queue, subs, solved>>
  PROVE  SInv'
<1> USE DEF Leave, TInv, TypeOK, SInv
<1>1. Awake'
  BY DEF Awake, Running
<1>2. Apart'
  BY DEF Apart, Unchecked, Holding, Judging
<1>3. Synced'
  BY DEF Synced, Unchecked, Undecided
<1>4. OneVerificationPastLock' /\ SolveIsAccepted'
  BY DEF OneVerificationPastLock, InLock, SolveIsAccepted
<1> QED
  BY <1>1, <1>2, <1>3, <1>4

\* Nor does one that goes on without touching the database or its copy.
LEMMA GotoSInv ==
  ASSUME TInv, SInv, NEW w \in Workers, NEW l \in PCs, Goto(w, l),
         UNCHANGED <<up, queue, subs, solved, job, snap>>,
         \A v \in Workers \ {w} : verdict'[v] = verdict[v],
         pc[w] \in Holding, l \in Judging,
         l \in Undecided => pc[w] \in Undecided \ {"load"},
         l \in {"publish", "cheat"} => pc[w] = "publish" /\ verdict'[w] = verdict[w],
         l = "cheat" => verdict[w].status = "WrongAnswer",
         l \in {"decide", "commit"} =>
            \A v \in Workers \ {w} : InLock(v) => snap[v].team # snap[w].team
  PROVE  SInv'
<1> USE DEF Goto, TInv, TypeOK, SInv
<1>1. Awake'
  BY DEF Awake, Running, Holding, Judging
<1>2. Apart'
  BY DEF Apart, Unchecked, Holding, Judging
<1>3. Synced'
  BY DEF Synced, Unchecked, Undecided, Holding, Judging
<1>4. OneVerificationPastLock' /\ SolveIsAccepted'
  BY DEF OneVerificationPastLock, InLock, SolveIsAccepted
<1> QED
  BY <1>1, <1>2, <1>3, <1>4

\* With one process no row changes behind a worker: nothing is reloaded.
LEMMA SaveSynced ==
  ASSUME TInv, SInv, NEW w \in Workers, pc[w] \in {"refuse", "save", "commit"},
         SaveAsync(w, Wanted(w))
  PROVE  /\ snap'[w] = subs'[job[w]] /\ snap'[w].status = verdict[w].status
         /\ subs' = [subs EXCEPT ![job[w]] = snap'[w]]
<1>1. /\ snap[w] = subs[job[w]] /\ snap[w].status = "FlagSubmitted" /\ job[w] \in Ids
      /\ snap[w] \in Subs
  BY DEF TInv, TypeOK, SInv, Synced, Undecided, Unchecked
<1>2. Wanted(w) \in Subs /\ Wanted(w).status = verdict[w].status /\ Wanted(w) # snap[w]
  BY <1>1, WantedTyped
<1>3. Saved(w, Wanted(w)) = [Wanted(w) EXCEPT !.ver = @ + 1]
  BY <1>1, <1>2 DEF Saved
<1>4. Saved(w, Wanted(w)).status = verdict[w].status
  BY <1>2, <1>3 DEF Subs
<1> QED
  BY <1>1, <1>2, <1>4 DEF SaveAsync, TInv, TypeOK

\* A verdict is written to a row that no other worker and no queue has.
LEMMA SaveSInv ==
  ASSUME OneProcess, TInv, SInv, NEW w \in Workers, pc[w] \in {"refuse", "save", "commit"},
         SaveAsync(w, Wanted(w)), Goto(w, "publish"), UNCHANGED <<up, queue, job>>,
         \A v \in Workers : verdict'[v].status = verdict[v].status
  PROVE  Awake' /\ Apart' /\ Synced' /\ OneVerificationPastLock'
<1>1. \A v \in Workers \ {w} : snap'[v] = snap[v] /\ pc'[v] = pc[v]
  BY DEF SaveAsync, Goto, TInv, TypeOK
<1>2. pc'[w] = "publish" /\ pc[w] \in Holding /\ job[w] \in Ids
  BY DEF Goto, TInv, TypeOK, Holding, Judging, SInv, Synced, Undecided, Unchecked
<1>3. \A i \in Ids \ {job[w]} : subs'[i] = subs[i]
  BY <1>2, SaveSynced DEF TInv, TypeOK
<1>4. \A i \in Unchecked \ {job[w]} : i \in Unchecked'
  BY <1>3 DEF Unchecked
<1>5. Awake'
  BY <1>1, <1>2 DEF SInv, Awake, Running, Holding, Judging
<1>6. Apart'
  <2>1. \A v \in Workers : job[w] \notin queue[Home[v]] /\ queue[Home[v]] \subseteq Unchecked
    BY <1>2 DEF SInv, Apart, OneProcess
  <2>2. \A v \in Workers : queue'[Home[v]] \subseteq Unchecked'
    BY <2>1, <1>4
  <2> QED
    BY <1>1, <1>2, <2>2 DEF SInv, Apart, Holding, Judging
<1>7. \A v \in Workers \ {w} : pc[v] \in Holding => job[v] # job[w] /\ job[v] \in Ids
  BY <1>2 DEF SInv, Apart, TInv, Tracking, Stored
<1>8. Synced'
  BY <1>1, <1>2, <1>3, <1>4, <1>7, WantedTyped, SaveSynced
  DEF SInv, Synced, Undecided, Holding, Judging
<1>9. OneVerificationPastLock'
  BY <1>1, <1>2 DEF SInv, OneVerificationPastLock, InLock
<1> QED
  BY <1>5, <1>6, <1>8, <1>9

\* A changed row keeps SolveIsAccepted unless it is a recorded solve.
LEMMA RowKeepsSolves ==
  ASSUME TInv, SInv, NEW i \in Ids, subs[i].status # "Accepted", UNCHANGED solved,
         \A j \in Ids \ {i} : subs'[j] = subs[j]
  PROVE  SolveIsAccepted'
<1>1. \A t \in Teams : solved[t] # 0 => solved[t] \in Ids \ {i}
  BY DEF SInv, SolveIsAccepted, TInv, TypeOK
<1> QED
  BY <1>1 DEF SInv, SolveIsAccepted

LEMMA NextSInv == ASSUME OneProcess PROVE TInv /\ SInv /\ [Next]_vars => SInv'
<1> SUFFICES ASSUME TInv, SInv, [Next]_vars PROVE SInv'
  OBVIOUS
<1>1. ASSUME NEW h \in Http, NEW t \in Teams, NEW k \in Kinds, NEW named \in BOOLEAN,
             Submit(h, t, k, named)
      PROVE  SInv'
  <2>1. /\ \A v \in Workers \ {h} : snap'[v] = snap[v] /\ pc'[v] = pc[v]
        /\ pc'[h] = "insert" /\ Running(h) /\ h \in Workers
        /\ UNCHANGED <<up, queue, subs, solved, job, verdict>>
    BY <1>1 DEF Submit, Goto, TInv, TypeOK, Workers
  <2>2. Awake' /\ Apart'
    BY <2>1 DEF SInv, Awake, Running, Apart, Unchecked, Holding, Judging
  <2>3. Synced'
    BY <2>1 DEF SInv, Synced, Undecided, Unchecked
  <2>4. OneVerificationPastLock' /\ SolveIsAccepted'
    BY <2>1 DEF SInv, OneVerificationPastLock, InLock, SolveIsAccepted
  <2> QED
    BY <2>2, <2>3, <2>4 DEF SInv
<1>2. ASSUME NEW h \in Http, Insert(h) PROVE SInv'
  <2> DEFINE row == [snap[h] EXCEPT !.status = "FlagSubmitted", !.ver = 1]
  <2>1. PICK i \in Ids \ Stored : /\ subs' = [subs EXCEPT ![i] = row]
                                  /\ snap' = [snap EXCEPT ![h] = row]
                                  /\ job' = [job EXCEPT ![h] = i]
    BY <1>2 DEF Insert
  <2>2. row.status = "FlagSubmitted" /\ h \in Workers /\ i \in Ids
    BY DEF Subs, TInv, TypeOK, Workers
  <2> HIDE DEF row
  <2>3. /\ \A v \in Workers \ {h} : snap'[v] = snap[v] /\ pc'[v] = pc[v] /\ job'[v] = job[v]
        /\ pc'[h] = "judge" /\ pc[h] = "insert" /\ job'[h] = i
        /\ snap'[h] = row /\ subs'[i] = row
        /\ \A j \in Ids \ {i} : subs'[j] = subs[j]
        /\ UNCHANGED <<up, queue, solved, verdict>>
    BY <1>2, <2>1, <2>2 DEF Insert, Goto, TInv, TypeOK
  <2>4. Unchecked' = Unchecked \cup {i} /\ i \notin Unchecked
    BY <2>2, <2>3 DEF Unchecked, Stored
  <2>5. \A v \in Workers : pc[v] \in Holding => job[v] # i /\ job[v] \in Ids
    BY DEF TInv, Tracking, Stored
  <2>6. Awake'
    BY <2>2, <2>3 DEF SInv, Awake, Running
  <2>7. Apart'
    BY <2>2, <2>3, <2>4, <2>5 DEF SInv, Apart, Holding, Judging
  <2>8. Synced'
    BY <2>2, <2>3, <2>4, <2>5 DEF SInv, Synced, Undecided, Holding, Judging
  <2>9. OneVerificationPastLock'
    BY <2>2, <2>3 DEF SInv, OneVerificationPastLock, InLock
  <2>10. subs[i].status # "Accepted"
    BY <2>1 DEF Stored
  <2>11. SolveIsAccepted'
    BY <2>2, <2>3, <2>10, RowKeepsSolves
  <2> QED
    BY <2>6, <2>7, <2>8, <2>9, <2>11 DEF SInv
<1>3. ASSUME NEW w \in Workers, Abort(w) \/ KeyClash(w) \/ PublishNotice(w) PROVE SInv'
  BY <1>3, LeaveSInv DEF Abort, KeyClash, PublishNotice
<1>4. ASSUME NEW c \in Checkers, Take(c) PROVE SInv'
  <2>1. Home[c] \in Procs /\ c \in Workers
    BY FlagPipelineAssumption DEF Workers
  <2>2. PICK i \in queue[Home[c]] : /\ queue' = [queue EXCEPT ![Home[c]] = @ \ {i}]
                                    /\ job' = [job EXCEPT ![c] = i]
    BY <1>4 DEF Take
  <2>3. i \in Unchecked
    BY <2>1 DEF SInv, Apart
  <2>4. /\ \A v \in Workers \ {c} : pc'[v] = pc[v] /\ job'[v] = job[v]
        /\ \A v \in Workers : queue'[Home[v]] = queue[Home[v]] \ {i} /\ i \in queue[Home[v]]
        /\ pc'[c] = "load" /\ pc[c] = "idle" /\ job'[c] = i /\ Running(c)
        /\ UNCHANGED <<up, subs, solved, snap, verdict>>
    BY <1>4, <2>1, <2>2 DEF Take, Goto, TInv, TypeOK, OneProcess
  <2>5. Awake'
    BY <2>1, <2>4 DEF SInv, Awake, Running
  <2>6. Apart'
    BY <2>1, <2>4 DEF SInv, Apart, Unchecked, Holding, Judging
  <2>7. Synced'
    BY <2>1, <2>3, <2>4 DEF SInv, Synced, Undecided, Unchecked
  <2>8. OneVerificationPastLock' /\ SolveIsAccepted'
    BY <2>1, <2>4 DEF SInv, OneVerificationPastLock, InLock, SolveIsAccepted
  <2> QED
    BY <2>5, <2>6, <2>7, <2>8 DEF SInv
<1>5. ASSUME NEW c \in Checkers, Load(c) PROVE SInv'
  <2>1. /\ \A v \in Workers \ {c} : pc'[v] = pc[v] /\ snap'[v] = snap[v]
        /\ pc'[c] = "judge" /\ pc[c] = "load" /\ snap'[c] = subs[job[c]]
        /\ c \in Workers
        /\ UNCHANGED <<up, queue, subs, solved, job, verdict>>
    BY <1>5 DEF Load, Goto, TInv, TypeOK, Workers
  <2>2. Awake'
    BY <2>1 DEF SInv, Awake, Running
  <2>3. Apart'
    BY <2>1 DEF SInv, Apart, Unchecked, Holding, Judging
  <2>4. Synced'
    BY <2>1 DEF SInv, Synced, Undecided, Unchecked
  <2>5. OneVerificationPastLock' /\ SolveIsAccepted'
    BY <2>1 DEF SInv, OneVerificationPastLock, InLock, SolveIsAccepted
  <2> QED
    BY <2>2, <2>3, <2>4, <2>5 DEF SInv
<1>6. ASSUME NEW w \in Workers, NoTarget(w) \/ OutOfAttempts(w) \/ Reject(w) \/ Match(w) PROVE SInv'
  <2>1. PICK l \in {"refuse", "save", "lock"} : Goto(w, l)
    BY <1>6 DEF NoTarget, OutOfAttempts, Reject, Match, Judged
  <2> QED
    BY <1>6, <2>1, GotoSInv
    DEF NoTarget, OutOfAttempts, Reject, Match, Judged, TInv, TypeOK, PCs, Holding, Judging, Undecided
<1>7. ASSUME NEW w \in Workers, Lock(w) PROVE SInv'
  <2>1. \A v \in Workers \ {w} : InLock(v) => snap[v].team # snap[w].team
    BY <1>7 DEF Lock, SameKey, OneProcess
  <2> QED
    BY <1>7, <2>1, GotoSInv DEF Lock, PCs, Holding, Judging, Undecided
<1>8. ASSUME NEW w \in Workers, Decide(w) PROVE SInv'
  <2>1. \A v \in Workers \ {w} : InLock(v) => snap[v].team # snap[w].team
    BY <1>8 DEF Decide, InLock, SInv, OneVerificationPastLock
  <2> QED
    BY <1>8, <2>1, GotoSInv DEF Decide, TInv, TypeOK, PCs, Holding, Judging, Undecided
<1>9. ASSUME NEW w \in Workers, Save(w) PROVE SInv'
  <2>1. /\ job[w] \in Ids /\ subs[job[w]].status # "Accepted"
        /\ pc[w] \in {"refuse", "save", "commit"} /\ SaveAsync(w, Wanted(w)) /\ Goto(w, "publish")
        /\ UNCHANGED <<up, queue, job, solved>>
    BY <1>9 DEF Save, SInv, Synced, Undecided, Unchecked
  <2>2. SolveIsAccepted'
    BY <2>1, SaveSynced, RowKeepsSolves DEF TInv, TypeOK
  <2>3. \A v \in Workers : verdict'[v].status = verdict[v].status
    BY <1>9, <2>1, SaveSynced DEF Save, TInv, TypeOK, Verdicts
  <2> QED
    BY <2>1, <2>2, <2>3, SaveSInv DEF SInv
<1>10. ASSUME NEW w \in Workers, Commit(w) PROVE SInv'
  <2>1. /\ job[w] \in Ids /\ subs[job[w]].status # "Accepted"
        /\ pc[w] = "commit" /\ SaveAsync(w, Wanted(w)) /\ Goto(w, "publish")
        /\ UNCHANGED <<up, queue, job>>
    BY <1>10 DEF Commit, SInv, Synced, Undecided, Unchecked
  <2>2. /\ subs'[job[w]].status = "Accepted" /\ subs'[job[w]].kind = "right"
        /\ subs'[job[w]].team = snap[w].team
        /\ \A i \in Ids \ {job[w]} : subs'[i] = subs[i]
    BY <2>1, SaveSynced, WantedTyped, SaveTyped DEF TInv, Decided, Tracking
  <2>3. \A t \in Teams : solved'[t] = solved[t] \/ (t = snap[w].team /\ solved'[t] = job[w])
    BY <1>10 DEF Commit, TInv, TypeOK
  <2>4. \A t \in Teams : solved[t] # 0 => solved[t] \in Ids \ {job[w]}
    BY <2>1 DEF SInv, SolveIsAccepted, TInv, TypeOK
  <2>5. SolveIsAccepted'
    BY <2>2, <2>3, <2>4 DEF SInv, SolveIsAccepted
  <2>6. \A v \in Workers : verdict'[v].status = verdict[v].status
    BY <1>10, <2>1, SaveSynced DEF Commit, TInv, TypeOK, Verdicts
  <2> QED
    BY <2>1, <2>5, <2>6, SaveSInv DEF SInv
<1>12. ASSUME NEW w \in Workers, PublishEvent(w) PROVE SInv'
  <2>1. PICK l \in {"cheat", "notice"} : Goto(w, l) /\ (l = "cheat" => verdict[w].status = "WrongAnswer")
    BY <1>12 DEF PublishEvent, SInv, Synced
  <2> QED
    BY <1>12, <2>1, GotoSInv DEF PublishEvent, PCs, Holding, Judging, Undecided
<1>13. ASSUME NEW w \in Workers, CheckCheat(w) PROVE SInv'
  <2>1. subs[job[w]] = snap[w] /\ snap[w].status = "WrongAnswer" /\ pc[w] = "cheat"
    BY <1>13 DEF CheckCheat, SInv, Synced
  <2>2. CASE snap[w].kind # "foreign"
    BY <1>13, <2>2, GotoSInv DEF CheckCheat, PCs, Holding, Judging, Undecided
  <2>3. CASE snap[w].kind = "foreign"
    <3>1. job[w] \in Ids
      BY <2>1 DEF TInv, Tracking, Stored, Holding, Judging
    <3>2. /\ \A v \in Workers \ {w} : snap'[v] = snap[v] /\ pc'[v] = pc[v]
          /\ pc'[w] = "notice"
          /\ \A i \in Ids \ {job[w]} : subs'[i] = subs[i]
          /\ UNCHANGED <<up, queue, solved, job, verdict>>
      BY <1>13, <2>1, <2>3 DEF CheckCheat, SaveAsync, Goto, TInv, TypeOK
    <3>3. \A i \in Unchecked : i \in Unchecked' /\ i # job[w]
      BY <2>1, <3>2 DEF Unchecked
    <3>4. \A v \in Workers \ {w} : pc[v] \in Holding => job[v] # job[w] /\ job[v] \in Ids
      BY <2>1 DEF SInv, Apart, TInv, Tracking, Stored, Holding, Judging
    <3>5. Awake'
      BY <2>1, <3>2 DEF SInv, Awake, Running
    <3>6. Apart'
      BY <2>1, <3>2, <3>3 DEF SInv, Apart, Holding, Judging
    <3>7. Synced'
      BY <2>1, <3>2, <3>3, <3>4 DEF SInv, Synced, Undecided, Holding, Judging
    <3>8. OneVerificationPastLock'
      BY <3>2 DEF SInv, OneVerificationPastLock, InLock
    <3>9. SolveIsAccepted'
      BY <2>1, <3>1, <3>2, RowKeepsSolves
    <3> QED
      BY <3>5, <3>6, <3>7, <3>8, <3>9 DEF SInv
  <2> QED
    BY <2>2, <2>3
<1>14. ASSUME NEW p \in Procs, Start(p) PROVE SInv'
  <2>1. /\ ~up[p] /\ up' = [up EXCEPT ![p] = TRUE]
        /\ queue' = [queue EXCEPT ![p] = Unchecked]
        /\ UNCHANGED <<subs, solved, pc, job, snap, verdict>>
    BY <1>14 DEF Start
  <2>2. \A w \in Workers : Home[w] \in Procs /\ (Home[w] = p => \A v \in Workers : pc[v] = "idle")
    BY <2>1, FlagPipelineAssumption DEF SInv, Awake, Running, OneProcess
  <2>3. Awake'
    BY <2>1, <2>2 DEF SInv, Awake, Running, TInv, TypeOK
  <2>4. Apart'
    BY <2>1, <2>2 DEF SInv, Apart, TInv, TypeOK, Unchecked, Holding, Judging
  <2>5. Synced'
    BY <2>1 DEF SInv, Synced, Unchecked
  <2>6. OneVerificationPastLock' /\ SolveIsAccepted'
    BY <2>1 DEF SInv, OneVerificationPastLock, InLock, SolveIsAccepted
  <2> QED
    BY <2>3, <2>4, <2>5, <2>6 DEF SInv
<1>15. ASSUME NEW p \in Procs, Crash(p) PROVE SInv'
  <2>1. /\ \A w \in Workers : \/ pc'[w] = "idle"
                               \/ /\ Home[w] # p /\ pc'[w] = pc[w] /\ job'[w] = job[w]
                                  /\ snap'[w] = snap[w] /\ verdict'[w] = verdict[w]
        /\ up' = [up EXCEPT ![p] = FALSE] /\ queue' = [queue EXCEPT ![p] = {}]
        /\ UNCHANGED <<subs, solved>>
    BY <1>15 DEF Crash
  <2>2. Awake'
    BY <2>1, FlagPipelineAssumption DEF SInv, Awake, Running, TInv, TypeOK
  <2>3. Apart'
    BY <2>1, FlagPipelineAssumption DEF SInv, Apart, TInv, TypeOK, Unchecked, Holding, Judging
  <2>4. Synced'
    BY <2>1 DEF SInv, Synced, Unchecked, Undecided
  <2>5. OneVerificationPastLock' /\ SolveIsAccepted'
    BY <2>1 DEF SInv, OneVerificationPastLock, InLock, SolveIsAccepted
  <2> QED
    BY <2>2, <2>3, <2>4, <2>5 DEF SInv
<1>16. CASE EndGame \/ UNCHANGED vars
  <2>1. UNCHANGED <<up, queue, subs, solved, pc, job, snap, verdict>>
    BY <1>16 DEF EndGame, vars
  <2> QED
    BY <2>1 DEF SInv, Awake, Running, Apart, Synced, Unchecked, OneVerificationPastLock,
                InLock, SolveIsAccepted
<1> QED
  BY <1>1, <1>2, <1>3, <1>4, <1>5, <1>6, <1>7, <1>8, <1>9, <1>10, <1>12, <1>13,
     <1>14, <1>15, <1>16
  DEF Next, Verify, Publish, Workers

\* The advisory lock of VerifyAnswer in one process: two verifications of the
\* same team and flag are never past it together.
THEOREM LockSerialises == ASSUME OneProcess PROVE Spec => []OneVerificationPastLock
  BY InitTInv, NextTInv, InitSInv, NextSInv, PTL DEF Spec, SInv

\* With one process a FirstSolve row always names an accepted submission with
\* the right flag of its own team, whatever crashes or is rechecked.
THEOREM SolvesStayAccepted == ASSUME OneProcess PROVE Spec => []SolveIsAccepted
  BY InitTInv, NextTInv, InitSInv, NextSInv, PTL DEF Spec, SInv

-----------------------------------------------------------------------------
(* One server process implements the Judge.                                *)

Entries == [i \in Ids |-> [team |-> subs[i].team, kind |-> subs[i].kind,
                           status |-> subs[i].status]]

\* One row changed: so did one entry.
LEMMA EntryOf ==
  ASSUME NEW i \in Ids, \A j \in Ids \ {i} : subs'[j] = subs[j]
  PROVE  Entries' = [Entries EXCEPT ![i] = [team |-> subs'[i].team, kind |-> subs'[i].kind,
                                            status |-> subs'[i].status]]
  BY DEF Entries

\* A verdict on a row changes the status of its entry only.
LEMMA SetsStatus ==
  ASSUME NEW i \in Ids, \A j \in Ids \ {i} : subs'[j] = subs[j],
         subs'[i].team = subs[i].team, subs'[i].kind = subs[i].kind
  PROVE  Entries' = [Entries EXCEPT ![i].status = subs'[i].status]
<1>1. \A j \in Ids : Entries'[j] = [Entries EXCEPT ![i].status = subs'[i].status][j]
  BY DEF Entries
<1> QED
  BY <1>1 DEF Entries

LEMMA InitRefines == Init => J!Init
  BY DEF Init, J!Init, Blank

LEMMA NextRefines ==
  ASSUME OneProcess
  PROVE  TInv /\ SInv /\ [Next]_vars => [J!Next]_<<Entries, solved>>
<1> SUFFICES ASSUME TInv, SInv, [Next]_vars PROVE [J!Next]_<<Entries, solved>>
  OBVIOUS
<1>1. ASSUME NEW h \in Http, Insert(h) PROVE \E i \in Ids : J!Submit(i)
  <2> DEFINE row == [snap[h] EXCEPT !.status = "FlagSubmitted", !.ver = 1]
  <2>1. PICK i \in Ids \ Stored : subs' = [subs EXCEPT ![i] = row]
    BY <1>1 DEF Insert
  <2>2. snap[h] \in Subs /\ snap[h].team \in Teams
    BY <1>1 DEF Insert, TInv, TypeOK, Tracking, Workers
  <2>3. row.team \in Teams /\ row.kind \in SubKinds /\ row.status = "FlagSubmitted"
    BY <2>2 DEF Subs
  <2> HIDE DEF row
  <2>4. subs'[i] = row /\ \A j \in Ids \ {i} : subs'[j] = subs[j]
    BY <2>1 DEF TInv, TypeOK
  <2>5. Entries[i].status = "Absent"
    BY <2>1 DEF Entries, Stored
  <2>6. Entries' = [Entries EXCEPT ![i] = [team |-> row.team, kind |-> row.kind,
                                           status |-> "FlagSubmitted"]]
    BY <2>3, <2>4, EntryOf
  <2>7. J!Submit(i)
    BY <1>1, <2>3, <2>5, <2>6 DEF J!Submit, Insert, Entries, SubKinds
  <2> QED
    BY <2>7
<1>2. ASSUME NEW w \in Workers, Save(w) PROVE \E i \in Ids : J!Reject(i)
  <2>1. /\ pc[w] \in {"refuse", "save"} /\ SaveAsync(w, Wanted(w)) /\ solved' = solved
        /\ verdict[w].status \in {"WrongAnswer", "NotFound"}
    BY <1>2 DEF Save, TInv, Decided
  <2>2. job[w] \in Ids /\ subs[job[w]].status = "FlagSubmitted"
    BY <2>1 DEF SInv, Synced, Undecided, Unchecked
  <2>3. subs'[job[w]].status = verdict[w].status
    BY <2>1, SaveSynced
  <2>4. Entries' = [Entries EXCEPT ![job[w]].status = verdict[w].status]
    BY <2>1, <2>2, <2>3, WantedTyped, SaveTyped, SetsStatus
  <2>5. J!Reject(job[w])
    BY <2>1, <2>2, <2>4 DEF J!Reject, J!SetStatus, Entries
  <2> QED
    BY <2>2, <2>5
<1>3. ASSUME NEW w \in Workers, Commit(w) PROVE \E i \in Ids : J!Accept(i)
  <2>1. /\ pc[w] = "commit" /\ SaveAsync(w, Wanted(w))
        /\ verdict[w].status = "Accepted" /\ snap[w].kind = "right"
    BY <1>3 DEF Commit, TInv, Decided
  <2>2. /\ job[w] \in Ids /\ subs[job[w]].status = "FlagSubmitted"
        /\ snap[w] = subs[job[w]]
    BY <2>1 DEF SInv, Synced, Undecided, Unchecked
  <2>3. subs'[job[w]].status = "Accepted"
    BY <2>1, SaveSynced
  <2>4. Entries' = [Entries EXCEPT ![job[w]].status = "Accepted"]
    BY <2>1, <2>2, <2>3, WantedTyped, SaveTyped, SetsStatus
  <2>5. solved' = IF solved[subs[job[w]].team] = 0
                    THEN [solved EXCEPT ![subs[job[w]].team] = job[w]] ELSE solved
    BY <1>3, <2>1, <2>2 DEF Commit, Duplicate, TInv, Decided
  <2>6. J!Accept(job[w])
    BY <2>1, <2>2, <2>4, <2>5 DEF J!Accept, J!SetStatus, Entries
  <2> QED
    BY <2>2, <2>6 DEF J!Accept, J!SetStatus
<1>4. ASSUME NEW w \in Workers, CheckCheat(w)
      PROVE  (\E i \in Ids : J!DetectCheat(i)) \/ UNCHANGED <<Entries, solved>>
  <2>1. /\ subs[job[w]] = snap[w] /\ snap[w].status = "WrongAnswer" /\ job[w] \in Ids
        /\ snap[w] \in Subs /\ solved' = solved
    BY <1>4 DEF CheckCheat, SInv, Synced, TInv, TypeOK, Tracking, Stored, Holding, Judging
  <2>2. CASE subs' = subs
    BY <2>1, <2>2 DEF Entries
  <2>3. CASE subs' # subs
    <3>1. snap[w].kind = "foreign" /\ SaveAsync(w, Cheat(w)) /\ pc[w] \in Judging
      BY <1>4, <2>3 DEF CheckCheat, Cheat, Judging
    <3>2. /\ \A j \in Ids \ {job[w]} : subs'[j] = subs[j]
          /\ subs'[job[w]].team = subs[job[w]].team
          /\ subs'[job[w]].kind = subs[job[w]].kind
          /\ subs'[job[w]].status \in {subs[job[w]].status, "CheatDetected"}
      BY <3>1, CheatTyped, SaveTyped DEF TInv
    <3>3. Entries' = [Entries EXCEPT ![job[w]].status = subs'[job[w]].status]
      BY <2>1, <3>2, SetsStatus
    <3>4. CASE subs'[job[w]].status = "CheatDetected"
      <4>1. J!DetectCheat(job[w])
        BY <2>1, <3>1, <3>3, <3>4 DEF J!DetectCheat, J!SetStatus, Entries
      <4> QED
        BY <2>1, <4>1 DEF J!DetectCheat, J!SetStatus
    <3>5. CASE subs'[job[w]].status = subs[job[w]].status
      BY <2>1, <3>2, <3>5 DEF Entries
    <3> QED
      BY <3>2, <3>4, <3>5
  <2> QED
    BY <2>2, <2>3
<1>5. CASE UNCHANGED <<subs, solved>>
  BY <1>5 DEF Entries
<1>6. J!Next \/ UNCHANGED <<Entries, solved>>
  BY <1>1, <1>2, <1>3, <1>4, <1>5
  DEF Next, Verify, Publish, Submit, Abort, Take, Load, NoTarget, OutOfAttempts, Reject, Match, Judged, Lock,
      Decide, KeyClash, PublishEvent, PublishNotice, Start, Crash, EndGame, vars,
      J!Next
<1> QED
  BY <1>6

\* Submit, VerifyAnswer, FlagChecker and CheckCheat in one process, with their
\* locks, aborts, crashes and rechecks, judge every submission at most
\* once, in one step, and keep the first solve of each team.
THEOREM RefinesJudge == ASSUME OneProcess PROVE Spec => ImplementsJudge
<1>1. TInv /\ SInv /\ [Next]_vars =>
        [J!Next]_<<[i \in Ids |-> [team |-> subs[i].team, kind |-> subs[i].kind,
                                   status |-> subs[i].status]], solved>>
  BY NextRefines DEF Entries
<1> QED
  BY <1>1, InitTInv, NextTInv, InitSInv, NextSInv, InitRefines, PTL
  DEF Spec, ImplementsJudge, J!Spec
-----------------------------------------------------------------------------
(* Ranks and notices, for any number of processes.                         *)

\* Neither a stored submission's team and time nor a FirstSolve row changes.
RowsKept ==
    \A i \in Stored : /\ i \in Stored' /\ subs'[i].team = subs[i].team
                      /\ subs'[i].onTime = subs[i].onTime
SolvesKept ==
    \A t \in Teams : solved[t] # 0 => solved'[t] = solved[t] /\ award'[t] = award[t]

SolvedStored == \A t \in Teams : solved[t] # 0 => solved[t] \in Stored
NoticesStored == \A n \in notices : n[2] \in Stored /\ n[1] # 0

\* The other teams that count when the rank of t is determined.
Others(t) == {u \in Teams \ {t} : solved[u] # 0 /\ subs[solved[u]].onTime}

\* The rank a worker carries: given while it holds the lock, recorded by Commit.
Ranked(w) ==
    /\ pc[w] \in Judging => snap[w].onTime = subs[job[w]].onTime
    /\ pc[w] \in {"refuse", "save"} => verdict[w].rank = 0
    /\ pc[w] = "commit" /\ verdict[w].rank > 0 =>
          /\ verdict[w].solve
          /\ \A t \in Teams : t = snap[w].team => Cardinality(Others(t)) >= verdict[w].rank - 1
    /\ pc[w] \in {"publish", "cheat", "notice"} /\ verdict[w].rank > 0 =>
          solved[snap[w].team] = job[w] /\ award[snap[w].team] = verdict[w].rank

RInv == /\ TInv /\ SolvedStored /\ NoticesStored /\ NoticesAreSolves /\ RanksNotSkipped
        /\ \A w \in Workers : Ranked(w)

LEMMA OthersFinite ==
  ASSUME NEW t PROVE IsFiniteSet(Others(t)) /\ Cardinality(Others(t)) \in Nat
<1>1. IsFiniteSet(Others(t))
  BY FS_Subset, FlagPipelineAssumption DEF Others
<1> QED
  BY <1>1, FS_CardinalityType

LEMMA OthersGrow ==
  ASSUME TInv, SolvedStored, RowsKept, SolvesKept, NEW t
  PROVE  Cardinality(Others(t)') >= Cardinality(Others(t)) /\ Cardinality(Others(t)') \in Nat
<1>1. Others(t) \subseteq Others(t)'
  BY DEF Others, SolvedStored, RowsKept, SolvesKept
<1>2. IsFiniteSet(Others(t)')
  <2>1. Others(t)' \subseteq Teams
    BY DEF Others
  <2> QED
    BY <2>1, FS_Subset, FlagPipelineAssumption
<1> QED
  BY <1>1, <1>2, OthersFinite, FS_Subset, FS_CardinalityType

\* What SaveAsync does to the time of the submission.
LEMMA SaveOnTime ==
  ASSUME TInv, NEW w \in Workers, pc[w] \in Judging, NEW row \in Subs,
         row.onTime = snap[w].onTime, snap[w].onTime = subs[job[w]].onTime, SaveAsync(w, row)
  PROVE  /\ subs'[job[w]].onTime = subs[job[w]].onTime
         /\ snap'[w].onTime = snap[w].onTime
<1>1. job[w] \in Ids /\ subs[job[w]] \in Subs /\ snap[w] \in Subs
  BY DEF TInv, TypeOK, Tracking, Stored, Holding
<1>2. [row EXCEPT !.ver = @ + 1].onTime = row.onTime
  BY DEF Subs
<1>3. Saved(w, row).onTime = snap[w].onTime
  BY <1>2 DEF Saved
<1> QED
  BY <1>1, <1>3 DEF SaveAsync, TInv, TypeOK

LEMMA WantedOnTime ==
  ASSUME TInv, NEW w \in Workers
  PROVE  Wanted(w).onTime = snap[w].onTime /\ Cheat(w).onTime = snap[w].onTime
<1>1. snap[w] \in Subs
  BY DEF TInv, TypeOK
<1> QED
  BY <1>1 DEF Wanted, Cheat, Subs

\* A worker that saves a row of its own leaves the facts above in place.
LEMMA SaveKeepsRows ==
  ASSUME TInv, NEW w \in Workers, Ranked(w), pc[w] \in Judging, NEW row \in Subs,
         row.team = snap[w].team, row.kind = snap[w].kind, row.onTime = snap[w].onTime,
         row.status # "Absent", SaveAsync(w, row)
  PROVE  RowsKept /\ snap'[w].onTime = subs'[job[w]].onTime /\ snap'[w].team = snap[w].team
<1>1. snap[w].onTime = subs[job[w]].onTime
  BY DEF Ranked
<1>2. job[w] \in Stored
  BY DEF TInv, Tracking, Holding
<1>3. subs'[job[w]].status # "Absent"
  BY <1>2, SaveTyped DEF Stored
<1> QED
  BY <1>1, <1>2, <1>3, SaveTyped, SaveOnTime DEF RowsKept, Stored

\* A worker that does not move keeps its rank ...
LEMMA RankedKept ==
  ASSUME TInv, SolvedStored, RowsKept, SolvesKept, NEW w \in Workers, Ranked(w),
         pc'[w] = pc[w], job'[w] = job[w], snap'[w] = snap[w], verdict'[w] = verdict[w]
  PROVE  Ranked(w)'
<1>1. pc[w] \in Judging => job[w] \in Stored /\ snap[w].team \in Teams
  BY DEF TInv, Tracking, Holding
<1>2. verdict[w].rank \in 0..3
  BY DEF TInv, TypeOK, Verdicts
<1>3. pc[w] \in Judging => snap'[w].onTime = subs'[job'[w]].onTime
  BY <1>1 DEF Ranked, RowsKept
<1>4. ASSUME pc[w] = "commit", verdict[w].rank > 0, NEW t \in Teams, t = snap[w].team
      PROVE  Cardinality(Others(t)') >= verdict[w].rank - 1
  <2>1. Cardinality(Others(t)) >= verdict[w].rank - 1
    BY <1>4 DEF Ranked
  <2> QED
    BY <1>2, <2>1, OthersGrow, OthersFinite
<1>5. pc[w] \in {"publish", "cheat", "notice"} /\ verdict[w].rank > 0 =>
          solved'[snap[w].team] = job[w] /\ award'[snap[w].team] = verdict[w].rank
  <2>1. pc[w] \in {"publish", "cheat", "notice"} => job[w] # 0
    BY <1>1, FlagPipelineAssumption DEF Judging, Stored
  <2> QED
    BY <1>1, <2>1 DEF Ranked, SolvesKept, Judging
<1> QED
  BY <1>3, <1>4, <1>5 DEF Ranked

\* ... and so do the FirstSolve rows and the notices that were there.
LEMMA OldKept ==
  ASSUME RInv, RowsKept, SolvesKept
  PROVE  /\ \A t \in Teams : solved[t] # 0 => solved'[t] \in Stored'
         /\ \A t \in Teams : solved[t] # 0 /\ award'[t] > 0 =>
               Cardinality(Others(t)') >= award'[t] - 1
         /\ \A n \in notices : /\ n[2] \in Stored'
                               /\ solved'[subs'[n[2]].team] = n[2]
                               /\ award'[subs'[n[2]].team] = n[1]
<1>1. \A t \in Teams : award[t] \in 0..3
  BY DEF RInv, TInv, TypeOK
<1>2. \A n \in notices : subs[n[2]].team \in Teams /\ n[2] # 0
  BY FlagPipelineAssumption DEF RInv, NoticesStored, TInv, Tracking, Stored
<1>3. ASSUME NEW t \in Teams, solved[t] # 0, award'[t] > 0
      PROVE  Cardinality(Others(t)') >= award'[t] - 1
  <2>1. award'[t] = award[t]
    BY <1>3 DEF SolvesKept
  <2>2. Cardinality(Others(t)) >= award[t] - 1
    BY <1>3, <2>1 DEF RInv, RanksNotSkipped, Others
  <2> QED
    BY <1>1, <2>1, <2>2, OthersGrow, OthersFinite DEF RInv
<1>4. \A t \in Teams : solved[t] # 0 => solved'[t] \in Stored'
  BY DEF RInv, SolvedStored, RowsKept, SolvesKept
<1>5. ASSUME NEW n \in notices
      PROVE  /\ n[2] \in Stored'
             /\ solved'[subs'[n[2]].team] = n[2]
             /\ award'[subs'[n[2]].team] = n[1]
  BY <1>2 DEF RInv, NoticesStored, NoticesAreSolves, RowsKept, SolvesKept
<1> QED
  BY <1>3, <1>4, <1>5

\* Put together for a step that writes neither FirstSolves nor notices.
LEMMA RInvFrom ==
  ASSUME RInv, TInv', RowsKept, UNCHANGED <<solved, award, notices>>,
         \A w \in Workers : Ranked(w)'
  PROVE  RInv'
<1>1. SolvesKept
  BY DEF SolvesKept
<1> QED
  BY <1>1, OldKept DEF RInv, SolvedStored, NoticesStored, NoticesAreSolves, RanksNotSkipped, Others

LEMMA InitRInv == Init => RInv
<1> SUFFICES ASSUME Init PROVE RInv
  OBVIOUS
<1>1. TInv
  BY InitTInv
<1>2. \A w \in Workers : Ranked(w)
  BY DEF Init, Ranked, Judging
<1> QED
  BY <1>1, <1>2 DEF Init, RInv, SolvedStored, NoticesStored, NoticesAreSolves, RanksNotSkipped

\* A step in which w alone moves, and no row, solve or notice changes.
LEMMA QuietRInv ==
  ASSUME RInv, TInv', UNCHANGED <<subs, solved, award, notices>>, NEW w \in Workers,
         \A v \in Workers \ {w} : /\ pc'[v] = pc[v] /\ job'[v] = job[v]
                                  /\ snap'[v] = snap[v] /\ verdict'[v] = verdict[v],
         Ranked(w)'
  PROVE  RInv'
<1>1. RowsKept /\ SolvesKept
  BY DEF RowsKept, SolvesKept, Stored
<1>2. \A v \in Workers : Ranked(v)'
  BY <1>1, RankedKept DEF RInv
<1> QED
  BY <1>1, <1>2, RInvFrom

\* A worker that stops carries no rank.
LEMMA LeaveRanked ==
  ASSUME TInv, NEW w \in Workers, Leave(w)
  PROVE  /\ Ranked(w)'
         /\ \A v \in Workers \ {w} : /\ pc'[v] = pc[v] /\ job'[v] = job[v]
                                     /\ snap'[v] = snap[v] /\ verdict'[v] = verdict[v]
<1>1. pc'[w] = "idle"
  BY DEF Leave, TInv, TypeOK
<1> QED
  BY <1>1 DEF Leave, TInv, TypeOK, Ranked, Judging

\* The rank given under the lock counts the other teams that solved in time.
LEMMA DecideRanked == ASSUME RInv, NEW w \in Workers, Decide(w) PROVE Ranked(w)'
<1>1. /\ pc[w] = "decide" /\ pc'[w] = "commit" /\ UNCHANGED <<subs, solved, job, snap, award>>
      /\ verdict'[w].solve = (solved[snap[w].team] = 0)
      /\ verdict'[w].rank = IF solved[snap[w].team] = 0 THEN BloodRank(w) ELSE 0
  BY DEF Decide, Goto, RInv, TInv, TypeOK
<1>2. snap[w].onTime = subs[job[w]].onTime
  BY <1>1 DEF RInv, Ranked, Judging
<1>3. ASSUME verdict'[w].rank > 0, NEW t \in Teams, t = snap[w].team
      PROVE  verdict'[w].solve /\ Cardinality(Others(t)) >= verdict'[w].rank - 1
  <2>1. solved[t] = 0 /\ verdict'[w].rank = BloodRank(w)
    BY <1>1, <1>3
  <2>2. Others(t) = {u \in Teams : solved[u] # 0 /\ subs[solved[u]].onTime}
    BY <2>1 DEF Others
  <2>3. BloodSolves = Cardinality(Others(t)) /\ BloodSolves \in Nat
    BY <2>2, OthersFinite DEF BloodSolves
  <2>4. verdict'[w].rank = BloodSolves + 1
    BY <1>3, <2>1 DEF BloodRank
  <2>5. Cardinality(Others(t)) >= verdict'[w].rank - 1
    BY <2>3, <2>4
  <2>6. verdict'[w].solve
    BY <1>1, <1>3, <2>1, Zenon
  <2> QED
    BY <2>5, <2>6
<1>4. \A t : Others(t)' = Others(t)
  BY <1>1 DEF Others
<1>5. verdict'[w].rank > 0 =>
        /\ verdict'[w].solve
        /\ \A t \in Teams : t = snap[w].team => Cardinality(Others(t)') >= verdict'[w].rank - 1
  <2>1. snap[w].team \in Teams
    BY <1>1 DEF RInv, TInv, Tracking, Judging, Holding
  <2> QED
    BY <1>3, <1>4, <2>1
<1> QED
  BY <1>1, <1>2, <1>5 DEF Ranked

\* Commit writes the FirstSolve row with the rank the worker carries.
LEMMA CommitRInv == ASSUME RInv, TInv', NEW w \in Workers, Commit(w) PROVE RInv'
<1>1. /\ pc[w] = "commit" /\ ~Duplicate(w) /\ SaveAsync(w, Wanted(w)) /\ UNCHANGED <<job, notices>>
      /\ pc'[w] = "publish" /\ verdict'[w].rank = verdict[w].rank
      /\ \A v \in Workers \ {w} : pc'[v] = pc[v] /\ verdict'[v] = verdict[v]
  BY DEF Commit, Goto, RInv, TInv, TypeOK, Verdicts
<1>2. job[w] \in Stored /\ job[w] \in Ids /\ job[w] # 0 /\ snap[w].team \in Teams
  BY <1>1, FlagPipelineAssumption DEF RInv, TInv, Tracking, Stored, Judging, Holding
<1>3. /\ Wanted(w) \in Subs /\ Wanted(w).team = snap[w].team /\ Wanted(w).kind = snap[w].kind
      /\ Wanted(w).onTime = snap[w].onTime /\ Wanted(w).status # "Absent" /\ pc[w] \in Judging
  BY <1>1, WantedTyped, WantedOnTime DEF RInv
<1>4. /\ RowsKept /\ snap'[w].onTime = subs'[job[w]].onTime /\ snap'[w].team = snap[w].team
      /\ \A v \in Workers \ {w} : snap'[v] = snap[v]
  BY <1>1, <1>3, SaveKeepsRows, SaveTyped DEF RInv
<1>5. /\ verdict[w].solve => /\ solved[snap[w].team] = 0
                             /\ solved' = [solved EXCEPT ![snap[w].team] = job[w]]
                             /\ award' = [award EXCEPT ![snap[w].team] = verdict[w].rank]
      /\ ~verdict[w].solve => UNCHANGED <<solved, award>>
  BY <1>1 DEF Commit, Duplicate
<1>6. SolvesKept
  BY <1>2, <1>5 DEF SolvesKept, RInv, TInv, TypeOK
<1>7. \A v \in Workers \ {w} : Ranked(v)'
  BY <1>1, <1>4, <1>6, RankedKept DEF RInv
<1>8. verdict[w].rank > 0 =>
         verdict[w].solve /\ Cardinality(Others(snap[w].team)) >= verdict[w].rank - 1
  BY <1>1, <1>2 DEF RInv, Ranked
<1>9. Ranked(w)'
  <2>1. verdict[w].rank > 0 =>
           solved'[snap[w].team] = job[w] /\ award'[snap[w].team] = verdict[w].rank
    BY <1>2, <1>5, <1>8 DEF RInv, TInv, TypeOK
  <2> QED
    BY <1>1, <1>4, <2>1 DEF Ranked
<1>10. SolvedStored'
  <2>1. \A t \in Teams : solved[t] = 0 /\ solved'[t] # 0 => solved'[t] = job[w]
    BY <1>2, <1>5 DEF RInv, TInv, TypeOK
  <2>2. job[w] \in Stored'
    BY <1>2, <1>4 DEF RowsKept
  <2> QED
    BY <1>4, <1>6, <2>1, <2>2, OldKept DEF SolvedStored
<1>11. RanksNotSkipped'
  <2>1. ASSUME NEW t \in Teams, solved[t] = 0, solved'[t] # 0, award'[t] > 0
        PROVE  Cardinality(Others(t)') >= award'[t] - 1
    <3>1. t = snap[w].team /\ award'[t] = verdict[w].rank
      BY <1>2, <1>5, <2>1 DEF RInv, TInv, TypeOK
    <3>2. Cardinality(Others(t)) >= verdict[w].rank - 1 /\ verdict[w].rank \in 0..3
      BY <1>8, <2>1, <3>1 DEF RInv, TInv, TypeOK, Verdicts
    <3> QED
      BY <1>4, <1>6, <3>1, <3>2, OthersGrow, OthersFinite DEF RInv
  <2>2. \A t \in Teams : solved'[t] # 0 /\ award'[t] > 0 => Cardinality(Others(t)') >= award'[t] - 1
    BY <1>4, <1>6, <2>1, OldKept
  <2> QED
    BY <2>2 DEF RanksNotSkipped, Others
<1>12. NoticesStored' /\ NoticesAreSolves'
  BY <1>1, <1>4, <1>6, OldKept DEF RInv, NoticesStored, NoticesAreSolves
<1> QED
  BY <1>7, <1>9, <1>10, <1>11, <1>12 DEF RInv

LEMMA NextRInv == RInv /\ TInv' /\ [Next]_vars => RInv'
<1> SUFFICES ASSUME RInv, TInv', [Next]_vars PROVE RInv'
  OBVIOUS
<1> USE DEF RInv
<1>1. ASSUME NEW h \in Http, NEW t \in Teams, NEW k \in Kinds, NEW named \in BOOLEAN,
             Submit(h, t, k, named)
      PROVE  RInv'
  <2>1. pc'[h] = "insert"
    BY <1>1 DEF Submit, Goto, TInv, TypeOK, Workers
  <2>2. Ranked(h)'
    BY <2>1 DEF Ranked, Judging
  <2>3. \A v \in Workers \ {h} : /\ pc'[v] = pc[v] /\ job'[v] = job[v]
                                /\ snap'[v] = snap[v] /\ verdict'[v] = verdict[v]
    BY <1>1 DEF Submit, Goto, TInv, TypeOK, Workers
  <2> QED
    BY <1>1, <2>2, <2>3, QuietRInv DEF Submit, Workers
<1>2. ASSUME NEW h \in Http, Insert(h) PROVE RInv'
  <2>1. PICK i \in Ids \ Stored :
          LET row == [snap[h] EXCEPT !.status = "FlagSubmitted", !.ver = 1] IN
          /\ subs' = [subs EXCEPT ![i] = row]
          /\ snap' = [snap EXCEPT ![h] = row]
          /\ job' = [job EXCEPT ![h] = i]
    BY <1>2 DEF Insert
  <2>2. snap[h] \in Subs /\ h \in Workers
    BY DEF TInv, TypeOK, Workers
  <2>3. RowsKept
    BY <2>1, <2>2 DEF RowsKept, Stored, TInv, TypeOK, Subs
  <2>4. SolvesKept
    BY <1>2 DEF Insert, SolvesKept
  <2>5. pc'[h] = "judge" /\ snap'[h] = subs'[job'[h]]
    BY <1>2, <2>1, <2>2 DEF Insert, Goto, TInv, TypeOK
  <2>6. Ranked(h)'
    BY <2>5 DEF Ranked
  <2>7. \A v \in Workers \ {h} : Ranked(v)'
    <3>1. \A v \in Workers \ {h} : /\ pc'[v] = pc[v] /\ job'[v] = job[v]
                                  /\ snap'[v] = snap[v] /\ verdict'[v] = verdict[v]
      BY <1>2, <2>1 DEF Insert, Goto, TInv, TypeOK
    <3> QED
      BY <2>3, <2>4, <3>1, RankedKept
  <2> QED
    BY <1>2, <2>3, <2>6, <2>7, RInvFrom DEF Insert
<1>3. ASSUME NEW h \in Http, Abort(h) PROVE RInv'
  BY <1>3, LeaveRanked, QuietRInv DEF Abort, Workers
<1>4. ASSUME NEW c \in Checkers, Take(c) \/ Load(c) PROVE RInv'
  <2>1. \A v \in Workers \ {c} : /\ pc'[v] = pc[v] /\ job'[v] = job[v]
                                /\ snap'[v] = snap[v] /\ verdict'[v] = verdict[v]
    BY <1>4 DEF Take, Load, Goto, TInv, TypeOK
  <2>2. \/ pc'[c] = "load"
        \/ pc'[c] = "judge" /\ snap'[c] = subs'[job'[c]]
    BY <1>4 DEF Take, Load, Goto, TInv, TypeOK, Workers
  <2>3. Ranked(c)'
    BY <2>2 DEF Ranked, Judging
  <2> QED
    BY <1>4, <2>1, <2>3, QuietRInv DEF Take, Load, Workers
<1>5. ASSUME NEW w \in Workers,
             NoTarget(w) \/ OutOfAttempts(w) \/ Reject(w) \/ Match(w) \/ Lock(w)
      PROVE  RInv'
  <2>1. \A v \in Workers \ {w} : /\ pc'[v] = pc[v] /\ job'[v] = job[v]
                                /\ snap'[v] = snap[v] /\ verdict'[v] = verdict[v]
    BY <1>5 DEF NoTarget, OutOfAttempts, Reject, Match, Lock, Judged, Goto, TInv, TypeOK
  <2>2. /\ pc[w] \in Judging /\ UNCHANGED <<subs, solved, award, notices, snap, job>>
        /\ pc'[w] \in {"refuse", "save", "lock", "decide"}
        /\ pc'[w] \in {"refuse", "save"} => verdict'[w].rank = 0
    BY <1>5
    DEF NoTarget, OutOfAttempts, Reject, Match, Lock, Judged, Goto, TInv, TypeOK, Judging, NoVerdict
  <2>3. Ranked(w)'
    BY <2>2 DEF Ranked
  <2> QED
    BY <2>1, <2>2, <2>3, QuietRInv
<1>6. ASSUME NEW w \in Workers, Decide(w) PROVE RInv'
  <2>1. \A v \in Workers \ {w} : /\ pc'[v] = pc[v] /\ job'[v] = job[v]
                                /\ snap'[v] = snap[v] /\ verdict'[v] = verdict[v]
    BY <1>6 DEF Decide, Goto, TInv, TypeOK
  <2> QED
    BY <1>6, <2>1, DecideRanked, QuietRInv DEF Decide
<1>7. ASSUME NEW w \in Workers, Save(w) PROVE RInv'
  <2>1. /\ pc[w] \in {"refuse", "save"} /\ SaveAsync(w, Wanted(w))
        /\ UNCHANGED <<job, solved, award, notices>> /\ pc'[w] = "publish"
        /\ verdict'[w].rank = verdict[w].rank
        /\ \A v \in Workers \ {w} : pc'[v] = pc[v] /\ verdict'[v] = verdict[v]
    BY <1>7 DEF Save, Goto, TInv, TypeOK, Verdicts
  <2>2. /\ Wanted(w) \in Subs /\ Wanted(w).team = snap[w].team /\ Wanted(w).kind = snap[w].kind
        /\ Wanted(w).onTime = snap[w].onTime /\ Wanted(w).status # "Absent" /\ pc[w] \in Judging
    BY <2>1, WantedTyped, WantedOnTime
  <2>3. /\ RowsKept /\ snap'[w].onTime = subs'[job[w]].onTime
        /\ \A v \in Workers \ {w} : snap'[v] = snap[v]
    BY <2>1, <2>2, SaveKeepsRows, SaveTyped
  <2>4. SolvesKept
    BY <2>1 DEF SolvesKept
  <2>5. \A v \in Workers \ {w} : Ranked(v)'
    BY <2>1, <2>3, <2>4, RankedKept
  <2>6. Ranked(w)'
    BY <2>1, <2>3 DEF Ranked
  <2> QED
    BY <2>1, <2>3, <2>5, <2>6, RInvFrom
<1>8. ASSUME NEW w \in Workers, Commit(w) PROVE RInv'
  BY <1>8, CommitRInv
<1>9. ASSUME NEW w \in Workers, KeyClash(w) PROVE RInv'
  BY <1>9, LeaveRanked, QuietRInv DEF KeyClash
<1>10. ASSUME NEW w \in Workers, PublishEvent(w) PROVE RInv'
  <2>1. \A v \in Workers \ {w} : /\ pc'[v] = pc[v] /\ job'[v] = job[v]
                                /\ snap'[v] = snap[v] /\ verdict'[v] = verdict[v]
    BY <1>10 DEF PublishEvent, Goto, TInv, TypeOK
  <2>2. /\ pc[w] = "publish" /\ pc'[w] \in {"cheat", "notice"}
        /\ UNCHANGED <<subs, solved, award, notices, snap, job, verdict>>
    BY <1>10 DEF PublishEvent, Goto, TInv, TypeOK
  <2>3. Ranked(w)'
    BY <2>2 DEF Ranked, Judging
  <2> QED
    BY <2>1, <2>2, <2>3, QuietRInv
<1>11. ASSUME NEW w \in Workers, CheckCheat(w) PROVE RInv'
  <2>1. /\ pc[w] = "cheat" /\ pc'[w] = "notice"
        /\ UNCHANGED <<solved, job, verdict, award, notices>>
        /\ \A v \in Workers \ {w} : pc'[v] = pc[v]
    BY <1>11 DEF CheckCheat, Goto, TInv, TypeOK
  <2>2. SolvesKept
    BY <2>1 DEF SolvesKept
  <2>3. /\ RowsKept /\ snap'[w].onTime = subs'[job[w]].onTime /\ snap'[w].team = snap[w].team
        /\ \A v \in Workers \ {w} : snap'[v] = snap[v]
    <3>1. CASE snap[w].kind # "foreign"
      BY <1>11, <2>1, <3>1 DEF CheckCheat, RowsKept, Stored, Ranked, Judging
    <3>2. CASE snap[w].kind = "foreign"
      <4>1. SaveAsync(w, Cheat(w)) /\ pc[w] \in Judging
        BY <1>11, <2>1, <3>2 DEF CheckCheat, Cheat, Judging
      <4>2. /\ Cheat(w) \in Subs /\ Cheat(w).team = snap[w].team /\ Cheat(w).kind = snap[w].kind
            /\ Cheat(w).onTime = snap[w].onTime /\ Cheat(w).status # "Absent"
        BY CheatTyped, WantedOnTime DEF TInv
      <4> QED
        BY <4>1, <4>2, SaveKeepsRows, SaveTyped
    <3> QED
      BY <3>1, <3>2
  <2>4. \A v \in Workers \ {w} : Ranked(v)'
    BY <2>1, <2>2, <2>3, RankedKept
  <2>5. Ranked(w)'
    BY <2>1, <2>3 DEF Ranked, Judging
  <2> QED
    BY <2>1, <2>3, <2>4, <2>5, RInvFrom
<1>12. ASSUME NEW w \in Workers, PublishNotice(w) PROVE RInv'
  <2>1. /\ pc[w] = "notice" /\ Leave(w) /\ UNCHANGED <<subs, solved, award>>
        /\ \A n \in notices' : n \in notices \/
              (n = <<verdict[w].rank, job[w]>> /\ verdict[w].rank > 0)
    BY <1>12 DEF PublishNotice
  <2>2. RowsKept /\ SolvesKept /\ Stored' = Stored
    BY <2>1 DEF RowsKept, SolvesKept, Stored
  <2>3. \A v \in Workers : Ranked(v)'
    BY <2>1, <2>2, LeaveRanked, RankedKept
  <2>4. ASSUME verdict[w].rank > 0
        PROVE  /\ job[w] \in Stored /\ verdict[w].rank # 0
               /\ solved[subs[job[w]].team] = job[w] /\ award[subs[job[w]].team] = verdict[w].rank
    BY <2>1, <2>4 DEF Ranked, TInv, Tracking, Judging, Holding
  <2>5. NoticesStored' /\ NoticesAreSolves'
    BY <2>1, <2>2, <2>4 DEF NoticesStored, NoticesAreSolves
  <2>6. SolvedStored' /\ RanksNotSkipped'
    BY <2>1, <2>2 DEF SolvedStored, RanksNotSkipped
  <2> QED
    BY <2>3, <2>5, <2>6
<1>13. ASSUME NEW p \in Procs, Start(p) PROVE RInv'
  BY <1>13, RInvFrom DEF Start, RowsKept, Ranked, Others, Stored
<1>14. ASSUME NEW p \in Procs, Crash(p) PROVE RInv'
  <2>1. RowsKept /\ SolvesKept /\ UNCHANGED <<solved, award, notices>>
    BY <1>14 DEF Crash, RowsKept, SolvesKept, Stored
  <2>2. \A v \in Workers :
           \/ pc'[v] = "idle"
           \/ pc'[v] = pc[v] /\ job'[v] = job[v] /\ snap'[v] = snap[v] /\ verdict'[v] = verdict[v]
    BY <1>14 DEF Crash
  <2>3. \A v \in Workers : Ranked(v)'
    <3>1. ASSUME NEW v \in Workers, pc'[v] = "idle" PROVE Ranked(v)'
      BY <3>1 DEF Ranked, Judging
    <3> QED
      BY <2>1, <2>2, <3>1, RankedKept
  <2> QED
    BY <2>1, <2>3, RInvFrom
<1>15. CASE EndGame
  BY <1>15, RInvFrom DEF EndGame, RowsKept, Ranked, Others, Stored
<1>16. CASE UNCHANGED vars
  BY <1>16, RInvFrom DEF vars, RowsKept, Ranked, Others, Stored
<1> QED
  BY <1>1, <1>2, <1>3, <1>4, <1>5, <1>6, <1>7, <1>8, <1>9, <1>10, <1>11, <1>12, <1>13,
     <1>14, <1>15, <1>16
  DEF Next, Verify, Publish

\* With any number of server processes, locks that exclude nobody included, a
\* blood of rank k is given only when k - 1 other teams solved in time.
THEOREM RanksNeverSkipped == Spec => []RanksNotSkipped
<1>1. RInv => RanksNotSkipped
  BY DEF RInv
<1>2. RInv => TInv
  BY DEF RInv
<1> QED
  BY <1>1, <1>2, InitRInv, NextTInv, NextRInv, PTL DEF Spec

\* Every blood notice ever published is about the FirstSolve row of its team,
\* with the rank it was given there, whatever reloads, retries and crashes do.
THEOREM NoticesAnnounceSolves == Spec => []NoticesAreSolves
<1>1. RInv => NoticesAreSolves
  BY DEF RInv
<1>2. RInv => TInv
  BY DEF RInv
<1> QED
  BY <1>1, <1>2, InitRInv, NextTInv, NextRInv, PTL DEF Spec

-----------------------------------------------------------------------------
(* Events, with one server process.                                        *)

\* What is about to be published was not published before.
EInv == EventsFollowVerdicts /\ \A w \in Workers : pc[w] = "publish" => events[job[w]] = 0

\* A verdict may change, never disappear.
VerdictsKept == \A i \in Stored \ Unchecked : i \in Stored' \ Unchecked'

\* A step that publishes nothing, and brings to "publish" only the handler of a
\* submission that has no event.
LEMMA SilentEInv ==
  ASSUME TInv, EInv, UNCHANGED events, VerdictsKept,
         \A w \in Workers : pc'[w] = "publish" =>
            job'[w] = job[w] /\ (pc[w] = "publish" \/ job[w] \in Unchecked)
  PROVE  EInv'
<1>1. \A w \in Workers : pc'[w] = "publish" => events'[job'[w]] = 0
  <2>1. \A i \in Unchecked : i \in Ids /\ events[i] \in Nat /\ events[i] <= 1 /\ events[i] # 1
    BY DEF EInv, EventsFollowVerdicts, Unchecked, TInv, TypeOK
  <2>2. \A i \in Unchecked : events[i] = 0
    BY <2>1
  <2> QED
    BY <2>2 DEF EInv
<1>2. EventsFollowVerdicts'
  BY DEF EInv, EventsFollowVerdicts, VerdictsKept
<1> QED
  BY <1>1, <1>2 DEF EInv

\* A save gives the row it writes a verdict and leaves the other rows alone.
LEMMA SaveKeepsVerdicts ==
  ASSUME TInv, NEW w \in Workers, pc[w] \in Judging, NEW row \in Subs,
         row.team = snap[w].team, row.kind = snap[w].kind,
         row.status \notin {"Absent", "FlagSubmitted"}, SaveAsync(w, row)
  PROVE  VerdictsKept
  BY SaveTyped DEF VerdictsKept, Stored, Unchecked

LEMMA NextEInv == ASSUME OneProcess PROVE TInv /\ SInv /\ EInv /\ [Next]_vars => EInv'
<1> SUFFICES ASSUME TInv, SInv, EInv, [Next]_vars PROVE EInv'
  OBVIOUS
<1>1. ASSUME NEW h \in Http, Insert(h) PROVE EInv'
  <2>1. PICK i \in Ids \ Stored :
          /\ subs' = [subs EXCEPT ![i] = [snap[h] EXCEPT !.status = "FlagSubmitted", !.ver = 1]]
          /\ job' = [job EXCEPT ![h] = i]
    BY <1>1 DEF Insert
  <2>2. VerdictsKept
    BY <2>1 DEF VerdictsKept, Stored, Unchecked, TInv, TypeOK
  <2>3. \A w \in Workers : pc'[w] = "publish" => job'[w] = job[w] /\ pc[w] = "publish"
    BY <1>1, <2>1 DEF Insert, Goto, TInv, TypeOK, Workers
  <2> QED
    BY <1>1, <2>2, <2>3, SilentEInv DEF Insert
<1>2. ASSUME NEW w \in Workers, Save(w) \/ Commit(w) PROVE EInv'
  <2>1. /\ pc[w] \in {"refuse", "save", "commit"} /\ SaveAsync(w, Wanted(w))
        /\ Goto(w, "publish") /\ UNCHANGED <<job, events>>
    BY <1>2 DEF Save, Commit
  <2>2. VerdictsKept
    BY <2>1, WantedTyped, SaveKeepsVerdicts
  <2>3. \A v \in Workers : pc'[v] = "publish" =>
           job'[v] = job[v] /\ (pc[v] = "publish" \/ job[v] \in Unchecked)
    BY <2>1 DEF Goto, TInv, TypeOK, SInv, Synced, Undecided
  <2> QED
    BY <2>1, <2>2, <2>3, SilentEInv
<1>3. ASSUME NEW w \in Workers, PublishEvent(w) PROVE EInv'
  <2>1. /\ pc[w] = "publish" /\ pc'[w] # "publish" /\ UNCHANGED <<subs, job>>
        /\ \A v \in Workers \ {w} : pc'[v] = pc[v]
        /\ events' = [events EXCEPT ![job[w]] = @ + 1] \/ events' = events
    BY <1>3 DEF PublishEvent, Goto, TInv, TypeOK
  <2>2. job[w] \in Stored \ Unchecked /\ job[w] \in Ids /\ events[job[w]] = 0
    BY <2>1 DEF SInv, Synced, EInv, TInv, Tracking, Holding, Judging, Stored, Unchecked
  <2>3. \A v \in Workers \ {w} : pc[v] = "publish" => job[v] # job[w] /\ job[v] \in Ids
    BY <2>1 DEF SInv, Apart, TInv, Tracking, Holding, Judging, Stored
  <2>4. /\ Stored' = Stored /\ Unchecked' = Unchecked
        /\ events' \in [Ids -> Nat] /\ events'[job[w]] \in {0, 1}
        /\ \A i \in Ids \ {job[w]} : events'[i] = events[i]
    BY <2>1, <2>2 DEF Stored, Unchecked, TInv, TypeOK
  <2>5. EventsFollowVerdicts'
    BY <2>2, <2>4 DEF EInv, EventsFollowVerdicts
  <2>6. \A v \in Workers : pc'[v] = "publish" => events'[job'[v]] = 0
    BY <2>1, <2>3, <2>4 DEF EInv
  <2> QED
    BY <2>5, <2>6 DEF EInv
<1>4. ASSUME NEW c \in Workers, CheckCheat(c) PROVE EInv'
  <2>1. /\ pc[c] = "cheat" /\ UNCHANGED <<job, events>>
        /\ \A v \in Workers : pc'[v] = "publish" => pc[v] = "publish"
    BY <1>4 DEF CheckCheat, Goto, TInv, TypeOK
  <2>2. VerdictsKept
    <3>1. CASE snap[c].kind # "foreign"
      BY <1>4, <3>1 DEF CheckCheat, VerdictsKept, Stored, Unchecked
    <3>2. CASE snap[c].kind = "foreign"
      BY <1>4, <2>1, <3>2, CheatTyped, SaveKeepsVerdicts DEF CheckCheat, Cheat, TInv, Judging
    <3> QED
      BY <3>1, <3>2
  <2> QED
    BY <2>1, <2>2, SilentEInv
<1>5. ASSUME UNCHANGED <<subs, events>>,
             \A w \in Workers : pc'[w] = "publish" => job'[w] = job[w] /\ pc[w] = "publish"
      PROVE  EInv'
  BY <1>5, SilentEInv DEF VerdictsKept, Stored, Unchecked
<1>6. ASSUME NEW w \in Workers, Abort(w) \/ KeyClash(w) \/ PublishNotice(w) PROVE EInv'
  BY <1>5, <1>6 DEF Abort, KeyClash, PublishNotice, Leave, TInv, TypeOK
<1>7. ASSUME NEW h \in Http, NEW t \in Teams, NEW k \in Kinds, NEW named \in BOOLEAN,
             Submit(h, t, k, named)
      PROVE  EInv'
  BY <1>5, <1>7 DEF Submit, Goto, TInv, TypeOK
<1>8. ASSUME NEW c \in Checkers, Take(c) \/ Load(c) PROVE EInv'
  BY <1>5, <1>8 DEF Take, Load, Goto, TInv, TypeOK
<1>9. ASSUME NEW w \in Workers,
             NoTarget(w) \/ OutOfAttempts(w) \/ Reject(w) \/ Match(w) \/ Lock(w) \/ Decide(w)
      PROVE  EInv'
  BY <1>5, <1>9
  DEF NoTarget, OutOfAttempts, Reject, Match, Judged, Lock, Decide, Goto, TInv, TypeOK
<1>10. ASSUME NEW p \in Procs, Start(p) \/ Crash(p) PROVE EInv'
  BY <1>5, <1>10 DEF Start, Crash, TInv, TypeOK
<1>11. CASE EndGame \/ UNCHANGED vars
  BY <1>5, <1>11 DEF EndGame, vars
<1> QED
  BY <1>1, <1>2, <1>3, <1>4, <1>6, <1>7, <1>8, <1>9, <1>10, <1>11 DEF Next, Verify, Publish, Workers

\* With one server process a submission is announced at most once and only with
\* its verdict, however often it is queued again after aborts and crashes.
THEOREM EventsAnnounceVerdicts == ASSUME OneProcess PROVE Spec => []EventsFollowVerdicts
<1>1. Init => EInv
  BY DEF Init, EInv, EventsFollowVerdicts
<1>2. EInv => EventsFollowVerdicts
  BY DEF EInv
<1>3. TInv /\ SInv /\ EInv /\ [Next]_vars => EInv'
  BY NextEInv
<1>4. TInv /\ SInv /\ [Next]_vars => SInv'
  BY NextSInv
<1> QED
  BY <1>1, <1>2, <1>3, <1>4, InitTInv, NextTInv, InitSInv, PTL DEF Spec

-----------------------------------------------------------------------------
(* The limit, exceeded by no more than the requests that race.             *)

\* The requests that passed the check and have not stored their submission.
Inserting(t) == {h \in Http : pc[h] = "insert" /\ snap[h].team = t}

LInv ==
    \A t \in Teams :
        /\ IsFiniteSet(OfTeam(t))
        /\ Cardinality(OfTeam(t)) + Cardinality(Inserting(t)) < SubmissionLimit + Cardinality(Http)

LEMMA InsertingFinite ==
  ASSUME IsFiniteSet(Http), NEW t
  PROVE  /\ IsFiniteSet(Inserting(t)) /\ Cardinality(Inserting(t)) \in Nat
         /\ Cardinality(Inserting(t)) <= Cardinality(Http) /\ Cardinality(Http) \in Nat
<1>1. Inserting(t) \in SUBSET Http
  BY DEF Inserting
<1> QED
  BY <1>1, FS_Subset, FS_CardinalityType

\* A step after which no team has more submissions or more requests about to
\* store one.
LEMMA QuietLInv ==
  ASSUME LInv, IsFiniteSet(Http),
         \A t \in Teams : OfTeam(t)' = OfTeam(t) /\ Inserting(t)' \subseteq Inserting(t)
  PROVE  LInv'
<1> SUFFICES ASSUME NEW t \in Teams
             PROVE  /\ IsFiniteSet(OfTeam(t)')
                    /\ Cardinality(OfTeam(t)') + Cardinality(Inserting(t)')
                         < SubmissionLimit + Cardinality(Http)
  BY DEF LInv
<1>1. OfTeam(t)' = OfTeam(t) /\ IsFiniteSet(OfTeam(t)) /\ Cardinality(OfTeam(t)) \in Nat
  BY FS_CardinalityType DEF LInv
<1>2. /\ Cardinality(Inserting(t)') <= Cardinality(Inserting(t))
      /\ Cardinality(Inserting(t)') \in Nat /\ Cardinality(Inserting(t)) \in Nat
  <2>1. Inserting(t)' \in SUBSET Inserting(t)
    OBVIOUS
  <2> QED
    BY <2>1, InsertingFinite, FS_Subset, FS_CardinalityType
<1> QED
  BY <1>1, <1>2, InsertingFinite, FlagPipelineAssumption DEF LInv

\* A worker that saves a row of its own stores no new submission.
LEMMA SaveOfTeam ==
  ASSUME TInv, NEW w \in Workers, pc[w] \in Judging, NEW row \in Subs,
         row.team = snap[w].team, row.kind = snap[w].kind, row.status # "Absent",
         SaveAsync(w, row), pc'[w] # "insert", \A v \in Workers \ {w} : pc'[v] = pc[v],
         NEW t
  PROVE  OfTeam(t)' = OfTeam(t) /\ Inserting(t)' \subseteq Inserting(t)
<1>1. job[w] \in Stored /\ subs[job[w]].status # "Absent"
  BY DEF TInv, Tracking, Holding, Stored
<1>2. OfTeam(t)' = OfTeam(t)
  BY <1>1, SaveTyped DEF OfTeam, Stored
<1> QED
  BY <1>2, SaveTyped DEF Inserting, Workers

LEMMA NextLInv ==
  ASSUME IsFiniteSet(Http), SubmissionLimit > 0
  PROVE  TInv /\ LInv /\ [Next]_vars => LInv'
<1> SUFFICES ASSUME TInv, LInv, [Next]_vars PROVE LInv'
  OBVIOUS
<1>1. ASSUME NEW h \in Http, NEW t \in Teams, NEW k \in Kinds, NEW named \in BOOLEAN,
             Submit(h, t, k, named)
      PROVE  LInv'
  <2>1. /\ \A u \in Teams : OfTeam(u)' = OfTeam(u)
        /\ Cardinality(OfTeam(t)) < SubmissionLimit
        /\ snap' = [snap EXCEPT ![h] = snap'[h]] /\ snap'[h].team = t
        /\ pc[h] = "idle" /\ pc' = [pc EXCEPT ![h] = "insert"]
    BY <1>1 DEF Submit, Goto, OfTeam, Stored, TInv, TypeOK, Workers, Blank
  <2>2. \A u \in Teams \ {t} : Inserting(u)' \subseteq Inserting(u)
    BY <2>1 DEF Inserting, TInv, TypeOK, Workers
  <2>3. IsFiniteSet(OfTeam(t)') /\ Cardinality(OfTeam(t)') < SubmissionLimit
        /\ Cardinality(OfTeam(t)') \in Nat
    BY <2>1, FS_CardinalityType DEF LInv
  <2>4. \A u \in Teams : Cardinality(Inserting(u)') \in Nat
                         /\ Cardinality(Inserting(u)') <= Cardinality(Http)
    <3>1. ASSUME NEW u \in Teams PROVE Inserting(u)' \in SUBSET Http
      BY DEF Inserting
    <3> QED
      BY <3>1, FS_Subset, FS_CardinalityType
  <2>5. ASSUME NEW u \in Teams \ {t}
        PROVE  /\ IsFiniteSet(OfTeam(u)')
               /\ Cardinality(OfTeam(u)') + Cardinality(Inserting(u)')
                    < SubmissionLimit + Cardinality(Http)
    <3>1. Inserting(u)' \in SUBSET Inserting(u)
      BY <2>2
    <3>2. Cardinality(Inserting(u)') <= Cardinality(Inserting(u))
      BY <3>1, InsertingFinite, FS_Subset
    <3>3. IsFiniteSet(OfTeam(u)) /\ OfTeam(u)' = OfTeam(u) /\ Cardinality(OfTeam(u)) \in Nat
      BY <2>1, FS_CardinalityType DEF LInv
    <3> QED
      BY <2>4, <3>2, <3>3, InsertingFinite, FlagPipelineAssumption DEF LInv
  <2> QED
    BY <2>3, <2>4, <2>5, InsertingFinite, FlagPipelineAssumption DEF LInv
<1>2. ASSUME NEW h \in Http, Insert(h) PROVE LInv'
  <2>1. PICK i \in Ids \ Stored :
          LET row == [snap[h] EXCEPT !.status = "FlagSubmitted", !.ver = 1] IN
          /\ subs' = [subs EXCEPT ![i] = row]
          /\ snap' = [snap EXCEPT ![h] = row]
          /\ job' = [job EXCEPT ![h] = i]
    BY <1>2 DEF Insert
  <2>2. snap[h] \in Subs /\ h \in Workers
    BY DEF TInv, TypeOK, Workers
  <2>3. /\ subs'[i].team = snap[h].team /\ subs'[i].status = "FlagSubmitted"
        /\ \A j \in Ids \ {i} : subs'[j] = subs[j]
        /\ pc[h] = "insert" /\ pc' = [pc EXCEPT ![h] = "judge"]
        /\ \A v \in Http \ {h} : snap'[v] = snap[v]
    BY <1>2, <2>1, <2>2 DEF Insert, Goto, TInv, TypeOK, Subs, Workers
  <2>4. ASSUME NEW u \in Teams
        PROVE  /\ IsFiniteSet(OfTeam(u)')
               /\ Cardinality(OfTeam(u)') + Cardinality(Inserting(u)')
                    < SubmissionLimit + Cardinality(Http)
    <3>1. IsFiniteSet(OfTeam(u)) /\ Cardinality(OfTeam(u)) \in Nat
      BY FS_CardinalityType DEF LInv
    <3>2. Inserting(u)' = Inserting(u) \ {h}
      BY <2>3 DEF Inserting, TInv, TypeOK, Workers
    <3>3. IsFiniteSet(Inserting(u)) /\ Cardinality(Inserting(u)) \in Nat
      BY InsertingFinite
    <3>4. CASE u = snap[h].team
      <4>1. OfTeam(u)' = OfTeam(u) \cup {i} /\ i \notin OfTeam(u) /\ h \in Inserting(u)
        BY <2>3, <3>4 DEF OfTeam, Stored, Inserting
      <4>2. IsFiniteSet(OfTeam(u)') /\ Cardinality(OfTeam(u)') = Cardinality(OfTeam(u)) + 1
        BY <3>1, <4>1, FS_AddElement
      <4>3. Cardinality(Inserting(u)') = Cardinality(Inserting(u)) - 1
        BY <3>2, <3>3, <4>1, FS_RemoveElement
      <4> QED
        BY <3>1, <3>3, <4>2, <4>3 DEF LInv
    <3>5. CASE u # snap[h].team
      <4>1. OfTeam(u)' = OfTeam(u) /\ Inserting(u)' = Inserting(u)
        BY <2>3, <3>2, <3>5 DEF OfTeam, Stored, Inserting
      <4> QED
        BY <3>1, <4>1 DEF LInv
    <3> QED
      BY <3>4, <3>5
  <2> QED
    BY <2>4 DEF LInv
<1>3. ASSUME NEW w \in Workers, Leave(w), UNCHANGED subs PROVE LInv'
  BY <1>3, QuietLInv DEF Leave, OfTeam, Stored, Inserting, TInv, TypeOK, Workers
<1>4. ASSUME NEW c \in Checkers, Take(c) \/ Load(c) PROVE LInv'
  <2>1. UNCHANGED subs /\ \A h \in Http : pc'[h] = pc[h] /\ snap'[h] = snap[h]
    BY <1>4, FlagPipelineAssumption DEF Take, Load, Goto, TInv, TypeOK, Workers
  <2> QED
    BY <2>1, QuietLInv DEF OfTeam, Stored, Inserting
<1>5. ASSUME NEW w \in Workers,
             \/ NoTarget(w) \/ OutOfAttempts(w) \/ Reject(w) \/ Match(w) \/ Lock(w)
             \/ Decide(w) \/ PublishEvent(w)
      PROVE  LInv'
  <2>1. UNCHANGED <<subs, snap>> /\ \A v \in Workers : pc'[v] = "insert" => pc[v] = "insert"
    BY <1>5 DEF NoTarget, OutOfAttempts, Reject, Match, Lock, Decide, PublishEvent, Judged,
       Goto, TInv, TypeOK
  <2> QED
    BY <2>1, QuietLInv DEF OfTeam, Stored, Inserting, Workers
<1>6. ASSUME NEW w \in Workers, Save(w) \/ Commit(w) PROVE LInv'
  <2>1. /\ pc[w] \in {"refuse", "save", "commit"} /\ SaveAsync(w, Wanted(w))
        /\ pc' = [pc EXCEPT ![w] = "publish"]
    BY <1>6 DEF Save, Commit, Goto
  <2>2. /\ Wanted(w) \in Subs /\ Wanted(w).team = snap[w].team /\ Wanted(w).kind = snap[w].kind
        /\ Wanted(w).status # "Absent" /\ pc[w] \in Judging
    BY <2>1, WantedTyped DEF Judging
  <2>3. pc'[w] # "insert" /\ \A v \in Workers \ {w} : pc'[v] = pc[v]
    BY <2>1 DEF TInv, TypeOK
  <2> QED
    BY <2>1, <2>2, <2>3, SaveOfTeam, QuietLInv
<1>7. ASSUME NEW w \in Workers, CheckCheat(w) PROVE LInv'
  <2>1. /\ pc[w] = "cheat" /\ pc[w] \in Judging /\ pc'[w] # "insert"
        /\ \A v \in Workers \ {w} : pc'[v] = pc[v]
    BY <1>7 DEF CheckCheat, Goto, TInv, TypeOK, Judging
  <2>2. CASE snap[w].kind # "foreign"
    <3>1. UNCHANGED <<subs, snap>>
      BY <1>7, <2>2 DEF CheckCheat
    <3> QED
      BY <2>1, <3>1, QuietLInv DEF OfTeam, Stored, Inserting, Workers
  <2>3. CASE snap[w].kind = "foreign"
    <3>1. SaveAsync(w, Cheat(w))
      BY <1>7, <2>3 DEF CheckCheat, Cheat
    <3>2. /\ Cheat(w) \in Subs /\ Cheat(w).team = snap[w].team /\ Cheat(w).kind = snap[w].kind
          /\ Cheat(w).status # "Absent"
      BY CheatTyped DEF TInv
    <3> QED
      BY <2>1, <3>1, <3>2, SaveOfTeam, QuietLInv
  <2> QED
    BY <2>2, <2>3
<1>8. ASSUME NEW p \in Procs, Crash(p) PROVE LInv'
  <2>1. UNCHANGED subs
        /\ \A v \in Workers : pc'[v] = "insert" => pc[v] = "insert" /\ snap'[v] = snap[v]
    BY <1>8 DEF Crash
  <2> QED
    BY <2>1, QuietLInv DEF OfTeam, Stored, Inserting, Workers
<1>9. CASE UNCHANGED <<subs, pc, snap>>
  BY <1>9, QuietLInv DEF OfTeam, Stored, Inserting
<1> QED
  BY <1>1, <1>2, <1>3, <1>4, <1>5, <1>6, <1>7, <1>8, <1>9
  DEF Next, Abort, Verify, Publish, KeyClash, PublishNotice, Start, EndGame, vars, Workers

\* A team stores fewer submissions than SubmissionLimit and the requests that
\* are handled at once: Submit counts before it stores, and only requests that
\* counted before another one stored slip past the limit.
LimitOverrunBounded ==
    SubmissionLimit > 0 =>
        \A t \in Teams : Cardinality(OfTeam(t)) < SubmissionLimit + Cardinality(Http)

\* What remains of LimitRespected, which fails: LimitOverrunBounded, for any
\* number of processes, teams, workers and crashes.  With one request at a time
\* it is LimitRespected.
THEOREM OverrunIsBounded == ASSUME IsFiniteSet(Http) PROVE Spec => []LimitOverrunBounded
<1>1. CASE SubmissionLimit > 0
  <2>1. Init => LInv
    <3> SUFFICES ASSUME Init, NEW t \in Teams
                 PROVE  /\ IsFiniteSet(OfTeam(t))
                        /\ Cardinality(OfTeam(t)) + Cardinality(Inserting(t))
                             < SubmissionLimit + Cardinality(Http)
      BY DEF LInv
    <3>1. OfTeam(t) = {} /\ Inserting(t) = {}
      BY DEF Init, OfTeam, Stored, Blank, Inserting, Workers
    <3> QED
      BY <1>1, <3>1, FS_EmptySet, FS_CardinalityType, FlagPipelineAssumption
  <2>2. LInv => LimitOverrunBounded
    <3> SUFFICES ASSUME LInv, NEW t \in Teams
                 PROVE  Cardinality(OfTeam(t)) < SubmissionLimit + Cardinality(Http)
      BY DEF LimitOverrunBounded
    <3>1. Cardinality(OfTeam(t)) \in Nat
      BY FS_CardinalityType DEF LInv
    <3> QED
      BY <3>1, InsertingFinite, FlagPipelineAssumption DEF LInv
  <2>3. TInv /\ LInv /\ [Next]_vars => LInv'
    BY <1>1, NextLInv
  <2> QED
    BY <2>1, <2>2, <2>3, InitTInv, NextTInv, PTL DEF Spec
<1>2. CASE ~(SubmissionLimit > 0)
  <2>1. LimitOverrunBounded
    BY <1>2 DEF LimitOverrunBounded
  <2> QED
    BY <2>1, PTL
<1> QED
  BY <1>1, <1>2
=============================================================================

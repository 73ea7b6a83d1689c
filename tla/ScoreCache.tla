----------------------------- MODULE ScoreCache -----------------------------
(***************************************************************************)
(* The scoreboard of one game in the distributed cache: CacheHelper, which *)
(* fills it for a request that misses it and empties it when scores        *)
(* change, and CacheMaker, the background worker of each server that       *)
(* generates it again.                                                     *)
(*                                                                         *)
(* Both generate under the key _UpdateLock, which is set without looking   *)
(* whether it is set, belongs to nobody, and expires when it has not been  *)
(* read for a minute.  A board is the set of the writes that were          *)
(* committed when GenScoreboard read the database; each write is one       *)
(* request of Writers (a judged flag, an edited challenge) on its server.  *)
(*                                                                         *)
(* The times that CacheMaker compares are modelled by what the comparison  *)
(* gives: whether LastUpdateTime is later than the request.  The clocks of *)
(* the servers agree.  The cache is Redis, as with more than one server.   *)
(* Left out: the 5-second memory cache of each server (a request that hits *)
(* it touches nothing that is shared), the expiry of the board (a week     *)
(* without a reader), the other keys.                                      *)
(***************************************************************************)
EXTENDS Naturals, Sequences, FiniteSets

CONSTANTS Servers,
          Readers,   \* requests for the scoreboard, each made once
          Writers,   \* requests that change a score, each made once
          Home,      \* the server that handles each request
          NoBoard

ASSUME ScoreCacheAssumption ==
    /\ Home \in [Readers \cup Writers -> Servers]
    /\ Readers \cap Writers = {}
    /\ \A board \in SUBSET Writers : board # NoBoard

VARIABLES
    scores,   \* the committed writes
    cache,    \* the cached board
    lock,     \* whether the _UpdateLock key is there
    queue,    \* the channel of each server: for each CacheRequest, whether a later
              \* LastUpdateTime has been set since it was made
    maker,    \* the CacheMaker of each server, with its board
    reader,   \* each request of a reader, with its board
    writer,   \* each writer's request
    lapses    \* what has happened that can leave an old board in the cache (history)

vars == <<scores, cache, lock, queue, maker, reader, writer, lapses>>

Lapses == {"dropped", "overlap", "failed", "left", "unflushed", "ended", "crashed"}
Generating == {"read", "store", "unlock"}
Boards == SUBSET Writers

\* A request or a worker at a step where it has no board.
At(step) == [step |-> step, board |-> NoBoard]

Init ==
    /\ scores = {}
    /\ cache = NoBoard
    /\ lock = FALSE
    /\ queue = [s \in Servers |-> <<>>]
    /\ maker = [s \in Servers |-> At("idle")]
    /\ reader = [r \in Readers |-> At("idle")]
    /\ writer = [w \in Writers |-> "idle"]
    /\ lapses = {}

-----------------------------------------------------------------------------
Reads(r, from, to) == reader[r].step = from /\ reader' = [reader EXCEPT ![r] = At(to)]
Makes(s, from, to) == maker[s].step = from /\ maker' = [maker EXCEPT ![s] = At(to)]
Writes(w, from, to) == writer[w] = from /\ writer' = [writer EXCEPT ![w] = to]

Lapse(kind) == lapses' = lapses \cup {kind}

Someone == \/ \E r \in Readers : reader[r].step \in Generating
           \/ \E s \in Servers : maker[s].step \in Generating

SetLock ==
    /\ lock' = TRUE
    /\ IF Someone THEN Lapse("overlap") ELSE UNCHANGED lapses

(***************************************************************************)
(* CacheHelper.GetOrCreateAsync.                                           *)
(***************************************************************************)
Get(r) ==
    /\ Reads(r, "idle", IF cache # NoBoard THEN "served" ELSE "check")
    /\ UNCHANGED <<scores, cache, lock, queue, maker, writer, lapses>>

CheckLock(r) ==
    /\ Reads(r, "check", IF lock THEN "wait" ELSE "lock")
    /\ UNCHANGED <<scores, cache, lock, queue, maker, writer, lapses>>

\* A poll that finds the lock has no effect but to keep it from expiring.
WaitLock(r) ==
    /\ ~lock
    /\ Reads(r, "wait", "again")
    /\ UNCHANGED <<scores, cache, lock, queue, maker, writer, lapses>>

GetAgain(r) ==
    /\ Reads(r, "again", IF cache # NoBoard THEN "served" ELSE "lock")
    /\ UNCHANGED <<scores, cache, lock, queue, maker, writer, lapses>>

ReaderSetLock(r) ==
    /\ Reads(r, "lock", "read")
    /\ SetLock
    /\ UNCHANGED <<scores, cache, queue, maker, writer>>

ReaderGenerate(r) ==
    /\ reader[r].step = "read"
    /\ reader' = [reader EXCEPT ![r] = [step |-> "store", board |-> scores]]
    /\ UNCHANGED <<scores, cache, lock, queue, maker, writer, lapses>>

BadReaderFails(r) ==
    /\ Reads(r, "read", "store")
    /\ UNCHANGED <<scores, cache, lock, queue, maker, writer, lapses>>

\* The finally block releases the lock after an error too.
ReaderFails(r) ==
    /\ Reads(r, "read", "unlock")
    /\ UNCHANGED <<scores, cache, lock, queue, maker, writer, lapses>>

ReaderStore(r) ==
    /\ Reads(r, "store", "unlock")
    /\ cache' = reader[r].board
    /\ UNCHANGED <<scores, lock, queue, maker, writer, lapses>>

BadReleaseLock(r) ==
    /\ Reads(r, "unlock", "served")
    /\ UNCHANGED <<scores, cache, lock, queue, maker, writer, lapses>>

ReleaseLock(r) ==
    /\ Reads(r, "unlock", "served")
    /\ lock' = FALSE
    /\ UNCHANGED <<scores, cache, queue, maker, writer, lapses>>

\* The client disconnects.  The release is then called with a cancelled token, which
\* the Redis cache refuses before it does anything.
Leave(r) ==
    /\ reader[r].step \notin {"idle", "served", "gone"}
    /\ reader' = [reader EXCEPT ![r] = At("gone")]
    /\ IF reader[r].step \in Generating THEN Lapse("left") ELSE UNCHANGED lapses
    /\ UNCHANGED <<scores, cache, lock, queue, maker, writer>>

-----------------------------------------------------------------------------
(***************************************************************************)
(* A write, and CacheHelper.FlushScoreboardCache after it: the board is    *)
(* removed, then a CacheRequest is made.                                   *)
(***************************************************************************)
Commit(w) ==
    /\ Writes(w, "idle", "remove")
    /\ scores' = scores \cup {w}
    /\ UNCHANGED <<cache, lock, queue, maker, reader, lapses>>

Remove(w) ==
    /\ Writes(w, "remove", "send")
    /\ cache' = NoBoard
    /\ UNCHANGED <<scores, lock, queue, maker, reader, lapses>>

Send(w) ==
    /\ Writes(w, "send", "flushed")
    /\ queue' = [queue EXCEPT ![Home[w]] = Append(@, FALSE)]
    /\ UNCHANGED <<scores, cache, lock, maker, reader, lapses>>

\* The flush uses the token of the request too.
LeaveUnflushed(w) ==
    /\ writer[w] \in {"remove", "send"}
    /\ writer' = [writer EXCEPT ![w] = "gone"]
    /\ Lapse("unflushed")
    /\ UNCHANGED <<scores, cache, lock, queue, maker, reader>>

-----------------------------------------------------------------------------
(***************************************************************************)
(* CacheMaker.Maker.                                                       *)
(***************************************************************************)
\* A request that finds the lock is dropped.
Take(s) ==
    /\ maker[s].step = "idle"
    /\ queue[s] # <<>>
    /\ queue' = [queue EXCEPT ![s] = Tail(@)]
    /\ IF lock
          THEN Lapse("dropped") /\ UNCHANGED maker
          ELSE /\ maker' = [maker EXCEPT ![s] = At(IF Head(queue[s]) THEN "skip" ELSE "debounce")]
               /\ UNCHANGED lapses
    /\ UNCHANGED <<scores, cache, lock, reader, writer>>

\* A request made before the last update is skipped; otherwise LastUpdateTime becomes
\* the present, later than every request there is.  (The comparison and the new time are
\* one step: workers that compare in between would only generate once more.)
Debounce(s) ==
    \/ /\ Makes(s, "skip", "idle")
       /\ UNCHANGED <<scores, cache, lock, queue, reader, writer, lapses>>
    \/ /\ maker[s].step = "debounce"
       /\ maker' = [t \in Servers |-> IF t = s THEN At("lock")
                                      ELSE IF maker[t].step = "debounce" THEN At("skip")
                                      ELSE maker[t]]
       /\ queue' = [t \in Servers |-> [i \in 1..Len(queue[t]) |-> TRUE]]
       /\ UNCHANGED <<scores, cache, lock, reader, writer, lapses>>

MakerSetLock(s) ==
    /\ Makes(s, "lock", "read")
    /\ SetLock
    /\ UNCHANGED <<scores, cache, queue, reader, writer>>

Handle(s) ==
    /\ maker[s].step = "read"
    /\ maker' = [maker EXCEPT ![s] = [step |-> "store", board |-> scores]]
    /\ UNCHANGED <<scores, cache, lock, queue, reader, writer, lapses>>

\* Setting the lock, GenScoreboard or storing its result throws.
HandleFails(s) ==
    /\ maker[s].step \in {"lock", "read", "store"}
    /\ maker' = [maker EXCEPT ![s] = At("unlock")]
    /\ Lapse("failed")
    /\ UNCHANGED <<scores, cache, lock, queue, reader, writer>>

MakerStore(s) ==
    /\ Makes(s, "store", "unlock")
    /\ cache' = maker[s].board
    /\ UNCHANGED <<scores, lock, queue, reader, writer, lapses>>

BadMakerUnlock(s) ==
    /\ Makes(s, "unlock", "idle")
    /\ lock' = FALSE
    /\ queue' = [t \in Servers |-> [i \in 1..Len(queue[t]) |-> TRUE]]
    /\ UNCHANGED <<scores, cache, reader, writer, lapses>>

MakerUnlock(s) ==
    /\ Makes(s, "unlock", "idle")
    /\ lock' = FALSE
    /\ UNCHANGED <<scores, cache, queue, reader, writer, lapses>>

\* A call to the cache outside the inner try throws: a look at the lock or at
\* LastUpdateTime, the new LastUpdateTime, or the removal of the lock, done or not.
\* The worker has no other catch than for its cancellation, and ends for good.  That or
\* the stop of a server (Crash) happens once here.
MakerEnds(s) ==
    /\ lapses \cap {"ended", "crashed"} = {}
    /\ \/ /\ maker[s].step = "idle" /\ queue[s] # <<>>
          /\ queue' = [queue EXCEPT ![s] = Tail(@)]
          /\ UNCHANGED lock
       \/ maker[s].step \in {"skip", "debounce"} /\ UNCHANGED <<queue, lock>>
       \/ maker[s].step = "unlock" /\ lock' \in {lock, FALSE} /\ UNCHANGED queue
    /\ maker' = [maker EXCEPT ![s] = At("ended")]
    /\ Lapse("ended")
    /\ UNCHANGED <<scores, cache, reader, writer>>

-----------------------------------------------------------------------------
\* The requests and the worker of a server end with it, and the channel is in its
\* memory.
Crash(s) ==
    /\ lapses \cap {"ended", "crashed"} = {}
    /\ queue' = [queue EXCEPT ![s] = <<>>]
    /\ maker' = [maker EXCEPT ![s] = At("idle")]
    /\ reader' = [r \in Readers |->
                     IF Home[r] = s /\ reader[r].step \notin {"idle", "served"}
                        THEN At("gone") ELSE reader[r]]
    /\ writer' = [w \in Writers |->
                     IF Home[w] = s /\ writer[w] \in {"remove", "send"} THEN "gone" ELSE writer[w]]
    /\ Lapse("crashed")
    /\ UNCHANGED <<scores, cache, lock>>

\* A minute without a poll.
Expire ==
    /\ lock
    /\ \A r \in Readers : reader[r].step # "wait"
    /\ lock' = FALSE
    /\ UNCHANGED <<scores, cache, queue, maker, reader, writer, lapses>>

ReaderNext(r) ==
    Get(r) \/ CheckLock(r) \/ WaitLock(r) \/ GetAgain(r) \/ ReaderSetLock(r)
    \/ ReaderGenerate(r) \/ ReaderFails(r) \/ ReaderStore(r) \/ ReleaseLock(r)
WriterNext(w) == Commit(w) \/ Remove(w) \/ Send(w)
MakerNext(s) ==
    Take(s) \/ Debounce(s) \/ MakerSetLock(s) \/ Handle(s) \/ HandleFails(s)
    \/ MakerStore(s) \/ MakerUnlock(s)
Fault ==
    \/ \E r \in Readers : Leave(r)
    \/ \E w \in Writers : LeaveUnflushed(w)
    \/ \E s \in Servers : MakerEnds(s) \/ Crash(s)

Next ==
    \/ \E r \in Readers : ReaderNext(r)
    \/ \E w \in Writers : WriterNext(w)
    \/ \E s \in Servers : MakerNext(s)
    \/ Expire
    \/ Fault

\* Every request and every worker that can go on does; clients need not ask or write.
Fairness ==
    /\ \A r \in Readers : WF_vars(reader[r].step # "idle" /\ ReaderNext(r))
    /\ \A w \in Writers : WF_vars(writer[w] # "idle" /\ WriterNext(w))
    /\ \A s \in Servers : WF_vars(MakerNext(s))
    /\ WF_vars(Expire)

Spec == Init /\ [][Next]_vars /\ Fairness

-----------------------------------------------------------------------------
\* A board is at hand when it is about to be stored.
States(steps) ==
    {state \in [step: steps, board: {NoBoard} \cup Boards] :
        state.step = "store" => state.board # NoBoard}
MakerStates == States({"idle", "skip", "debounce", "lock", "ended"} \cup Generating)
ReaderStates ==
    States({"idle", "check", "wait", "again", "lock", "served", "gone"} \cup Generating)

TypeOK ==
    /\ scores \in Boards
    /\ cache \in {NoBoard} \cup Boards
    /\ lock \in BOOLEAN
    /\ queue \in [Servers -> Seq(BOOLEAN)]
    /\ maker \in [Servers -> MakerStates]
    /\ reader \in [Readers -> ReaderStates]
    /\ writer \in [Writers -> {"idle", "remove", "send", "flushed", "gone"}]
    /\ lapses \in SUBSET Lapses

\* A board with the write w will be stored, or the board removed.
Coming(w) ==
    \/ writer[w] \in {"remove", "send"}
    \/ \E s \in Servers :
          \/ \E i \in 1..Len(queue[s]) : ~queue[s][i]
          \/ maker[s].step \in {"debounce", "lock", "read"}
          \/ maker[s].step = "store" /\ w \in maker[s].board

\* A score that the cached board lacks is announced: its writer is about to remove the
\* board, a request waits that will not be skipped, or a worker generates it.  The
\* exceptions are what CacheHelper and CacheMaker let happen: a request dropped because
\* the lock was found, two generations at once, a generation of CacheMaker that failed,
\* a worker that ended, a writer gone before its flush was done, a server stopped.  A
\* reader that leaves the lock behind is not one of them.
StaleIsAnnounced ==
    lapses \subseteq {"left"} /\ cache # NoBoard => \A w \in scores \ cache : Coming(w)

\* A request that waits for the lock goes on: GetOrCreateAsync ends, unless a client, a
\* worker or a server left the lock behind, which the polls then keep from expiring.
WaitersServed ==
    \A r \in Readers :
        reader[r].step = "wait" ~>
            (reader[r].step # "wait" \/ lapses \cap {"left", "ended", "crashed"} # {})
=============================================================================

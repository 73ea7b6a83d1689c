-------------------------- MODULE ScoreCacheProofs --------------------------
(***************************************************************************)
(* Proofs about ScoreCache, for any number of servers, readers and         *)
(* writers:                                                                *)
(*   TypeCorrect     TypeOK                                                *)
(*   StaleAnnounced  StaleIsAnnounced                                      *)
(***************************************************************************)
EXTENDS ScoreCache, TLAPS

\* Nothing has happened that can leave an old board.
Calm == lapses \subseteq {"left"}

\* Then no two generate at once ...
OneGenerates ==
    Calm =>
        /\ \A p, q \in Readers :
              reader[p].step \in Generating /\ reader[q].step \in Generating => p = q
        /\ \A p, q \in Servers :
              maker[p].step \in Generating /\ maker[q].step \in Generating => p = q
        /\ \A p \in Readers, q \in Servers :
              ~(reader[p].step \in Generating /\ maker[q].step \in Generating)

\* ... and what the board about to be stored lacks is announced.
StoresAnnounced ==
    Calm =>
        /\ \A r \in Readers : reader[r].step = "store" =>
              \A w \in scores \ reader[r].board : Coming(w)
        /\ \A s \in Servers : maker[s].step = "store" =>
              \A w \in scores \ maker[s].board : Coming(w)

IInv == TypeOK /\ OneGenerates /\ StoresAnnounced /\ StaleIsAnnounced

-----------------------------------------------------------------------------
LEMMA QueueStaysTyped ==
  ASSUME NEW s \in Servers, queue \in [Servers -> Seq(BOOLEAN)]
  PROVE  /\ [queue EXCEPT ![s] = Append(@, FALSE)] \in [Servers -> Seq(BOOLEAN)]
         /\ [queue EXCEPT ![s] = <<>>] \in [Servers -> Seq(BOOLEAN)]
         /\ queue[s] # <<>> => [queue EXCEPT ![s] = Tail(@)] \in [Servers -> Seq(BOOLEAN)]
         /\ [t \in Servers |-> [i \in 1..Len(queue[t]) |-> TRUE]] \in [Servers -> Seq(BOOLEAN)]
<1>1. queue[s] \in Seq(BOOLEAN)
  OBVIOUS
<1>2. Append(queue[s], FALSE) \in Seq(BOOLEAN)
  BY <1>1
<1>3. queue[s] # <<>> => Tail(queue[s]) \in Seq(BOOLEAN)
  BY <1>1
<1>4. \A t \in Servers : [i \in 1..Len(queue[t]) |-> TRUE] \in Seq(BOOLEAN)
  <2> TAKE t \in Servers
  <2>1. Len(queue[t]) \in Nat
    OBVIOUS
  <2> QED
    BY <2>1
<1> QED
  BY <1>2, <1>3, <1>4

LEMMA AtTyped ==
  /\ \A step \in {"idle", "skip", "debounce", "lock", "ended", "read", "unlock"} :
        At(step) \in MakerStates
  /\ \A step \in {"idle", "check", "wait", "again", "lock", "served", "gone", "read", "unlock"} :
        At(step) \in ReaderStates
  BY DEF At, MakerStates, ReaderStates, States, Generating

LEMMA BoardTyped ==
  ASSUME NEW board \in Boards
  PROVE  /\ [step |-> "store", board |-> board] \in MakerStates
         /\ [step |-> "store", board |-> board] \in ReaderStates
<1>1. board # NoBoard
  BY ScoreCacheAssumption DEF Boards
<1> QED
  BY <1>1 DEF MakerStates, ReaderStates, States, Generating

\* What a state holds when it is about to store a board.
LEMMA HeldTyped ==
  /\ \A state \in MakerStates : state.step = "store" => state.board \in Boards
  /\ \A state \in ReaderStates : state.step = "store" => state.board \in Boards
  BY DEF MakerStates, ReaderStates, States

LEMMA TypeInit == Init => TypeOK
<1> SUFFICES ASSUME Init PROVE TypeOK
  OBVIOUS
<1>1. queue \in [Servers -> Seq(BOOLEAN)]
  BY DEF Init
<1>2. maker \in [Servers -> MakerStates] /\ reader \in [Readers -> ReaderStates]
  BY AtTyped DEF Init
<1> QED
  BY <1>1, <1>2 DEF Init, TypeOK, Boards, Lapses

LEMMA TypeReader == ASSUME TypeOK, NEW r \in Readers, ReaderNext(r) \/ Leave(r)
                    PROVE  TypeOK'
<1>1. reader' \in [Readers -> ReaderStates]
  BY AtTyped, BoardTyped
  DEF TypeOK, ReaderNext, Leave, Get, CheckLock, WaitLock, GetAgain, ReaderSetLock,
      ReaderGenerate, ReaderFails, ReaderStore, ReleaseLock, Reads
<1>2. cache' \in {NoBoard} \cup Boards
  BY HeldTyped
  DEF TypeOK, ReaderNext, Leave, Get, CheckLock, WaitLock, GetAgain, ReaderSetLock,
      ReaderGenerate, ReaderFails, ReaderStore, ReleaseLock, Reads
<1>3. lock' \in BOOLEAN /\ lapses' \in SUBSET Lapses
  BY DEF TypeOK, ReaderNext, Leave, Get, CheckLock, WaitLock, GetAgain, ReaderSetLock,
         ReaderGenerate, ReaderFails, ReaderStore, ReleaseLock, Lapse, Lapses, SetLock
<1>4. UNCHANGED <<scores, queue, maker, writer>>
  BY DEF ReaderNext, Leave, Get, CheckLock, WaitLock, GetAgain, ReaderSetLock,
         ReaderGenerate, ReaderFails, ReaderStore, ReleaseLock
<1> QED
  BY <1>1, <1>2, <1>3, <1>4 DEF TypeOK

LEMMA TypeWriter == ASSUME TypeOK, NEW w \in Writers, WriterNext(w) \/ LeaveUnflushed(w)
                    PROVE  TypeOK'
<1>1. queue' \in [Servers -> Seq(BOOLEAN)]
  <2>1. CASE Send(w)
    <3>1. Home[w] \in Servers
      BY ScoreCacheAssumption
    <3> QED
      BY <2>1, <3>1, QueueStaysTyped DEF TypeOK, Send
  <2> QED
    BY <2>1 DEF TypeOK, WriterNext, Commit, Remove, LeaveUnflushed
<1> QED
  BY <1>1
  DEF TypeOK, WriterNext, Commit, Remove, Send, LeaveUnflushed, Writes, Boards, Lapse, Lapses

LEMMA TypeMaker == ASSUME TypeOK, NEW s \in Servers, MakerNext(s)
                   PROVE  TypeOK'
<1>1. queue' \in [Servers -> Seq(BOOLEAN)]
  BY QueueStaysTyped
  DEF TypeOK, MakerNext, Take, Debounce, MakerSetLock, Handle, HandleFails, MakerStore, MakerUnlock
<1>2. maker' \in [Servers -> MakerStates]
  BY AtTyped, BoardTyped
  DEF TypeOK, MakerNext, Take, Debounce, MakerSetLock, Handle, HandleFails, MakerStore,
      MakerUnlock, Makes
<1>3. cache' \in {NoBoard} \cup Boards
  BY HeldTyped
  DEF TypeOK, MakerNext, Take, Debounce, MakerSetLock, Handle, HandleFails, MakerStore,
      MakerUnlock, Makes
<1>4. lock' \in BOOLEAN /\ lapses' \in SUBSET Lapses
  BY DEF TypeOK, MakerNext, Take, Debounce, MakerSetLock, Handle, HandleFails, MakerStore,
         MakerUnlock, SetLock, Lapse, Lapses
<1>5. UNCHANGED <<scores, reader, writer>>
  BY DEF MakerNext, Take, Debounce, MakerSetLock, Handle, HandleFails, MakerStore, MakerUnlock
<1> QED
  BY <1>1, <1>2, <1>3, <1>4, <1>5 DEF TypeOK

LEMMA TypeRest == ASSUME TypeOK, Expire \/ (\E s \in Servers : MakerEnds(s) \/ Crash(s))
                  PROVE  TypeOK'
<1>1. CASE Expire
  BY <1>1 DEF Expire, TypeOK
<1>2. ASSUME NEW s \in Servers, Crash(s)
      PROVE  TypeOK'
  <2>1. queue' \in [Servers -> Seq(BOOLEAN)]
    BY <1>2, QueueStaysTyped DEF Crash, TypeOK
  <2>2. maker' \in [Servers -> MakerStates] /\ reader' \in [Readers -> ReaderStates]
    BY <1>2, AtTyped DEF Crash, TypeOK
  <2> QED
    BY <1>2, <2>1, <2>2 DEF Crash, TypeOK, Lapse, Lapses
<1>3. ASSUME NEW s \in Servers, MakerEnds(s)
      PROVE  TypeOK'
  <2>1. queue' \in [Servers -> Seq(BOOLEAN)]
    BY <1>3, QueueStaysTyped DEF MakerEnds, TypeOK
  <2>2. maker' \in [Servers -> MakerStates]
    BY <1>3, AtTyped DEF MakerEnds, TypeOK
  <2> QED
    BY <1>3, <2>1, <2>2 DEF MakerEnds, TypeOK, Lapse, Lapses
<1> QED
  BY <1>1, <1>2, <1>3

LEMMA TypeStep == TypeOK /\ [Next]_vars => TypeOK'
<1> SUFFICES ASSUME TypeOK, [Next]_vars PROVE TypeOK'
  OBVIOUS
<1>1. CASE UNCHANGED vars
  BY <1>1 DEF vars, TypeOK
<1>2. CASE Next
  BY <1>2, TypeReader, TypeWriter, TypeMaker, TypeRest DEF Next, Fault
<1> QED
  BY <1>1, <1>2

\* What the columns, the channels and the requests hold is what the code puts there.
THEOREM TypeCorrect == Spec => []TypeOK
  BY TypeInit, TypeStep, PTL DEF Spec

-----------------------------------------------------------------------------
LEMMA QueueKeepsTimely ==
  ASSUME NEW q \in Seq(BOOLEAN), NEW i \in 1..Len(q), ~q[i]
  PROVE  /\ \E j \in 1..Len(Append(q, FALSE)) : ~Append(q, FALSE)[j]
         /\ Head(q) => \E j \in 1..Len(Tail(q)) : ~Tail(q)[j]
<1>1. Append(q, FALSE)[i] = q[i] /\ i \in 1..Len(Append(q, FALSE))
  OBVIOUS
<1>2. ASSUME Head(q)
      PROVE  i - 1 \in 1..Len(Tail(q)) /\ Tail(q)[i - 1] = q[i]
  <2>1. q # <<>> /\ Head(q) = q[1]
    OBVIOUS
  <2>2. i # 1
    BY <1>2, <2>1, Zenon
  <2> QED
    BY <2>1, <2>2
<1> QED
  BY <1>1, <1>2

\* An announcement lasts until a board with the write is stored.
LEMMA ComingStays ==
  ASSUME TypeOK, [Next]_vars, lapses' \subseteq {"left"}, NEW w \in scores, Coming(w)
  PROVE  Coming(w)' \/ (\E s \in Servers : MakerStore(s) /\ w \in maker[s].board)
<1>0. w \in Writers
  BY DEF TypeOK, Boards
<1>1. CASE UNCHANGED vars
  BY <1>1 DEF vars, Coming
<1>2. ASSUME NEW r \in Readers, ReaderNext(r) \/ Leave(r)
      PROVE  Coming(w)'
  <2>1. UNCHANGED <<writer, queue, maker>>
    BY <1>2 DEF ReaderNext, Leave, Get, CheckLock, WaitLock, GetAgain, ReaderSetLock,
                ReaderGenerate, ReaderFails, ReaderStore, ReleaseLock
  <2> QED
    BY <2>1 DEF Coming
<1>3. CASE Expire
  BY <1>3 DEF Expire, Coming
<1>4. ASSUME NEW v \in Writers, WriterNext(v)
      PROVE  Coming(w)'
  <2>1. CASE Commit(v) \/ Remove(v)
    BY <1>0, <2>1 DEF Commit, Remove, Writes, Coming, TypeOK
  <2>2. CASE Send(v)
    <3>1. Home[v] \in Servers
      BY ScoreCacheAssumption
    <3>2. queue[Home[v]] \in Seq(BOOLEAN) /\ queue'[Home[v]] = Append(queue[Home[v]], FALSE)
      BY <2>2, <3>1 DEF Send, TypeOK
    <3>3. Len(queue'[Home[v]]) \in 1..Len(queue'[Home[v]]) /\ ~queue'[Home[v]][Len(queue'[Home[v]])]
      BY <3>2
    <3> QED
      BY <3>1, <3>3 DEF Coming
  <2> QED
    BY <1>4, <2>1, <2>2 DEF WriterNext
<1>5. ASSUME NEW v \in Writers, LeaveUnflushed(v)
      PROVE  FALSE
  BY <1>5 DEF LeaveUnflushed, Lapse
<1>6. ASSUME NEW s \in Servers, MakerEnds(s) \/ Crash(s)
      PROVE  FALSE
  BY <1>6 DEF MakerEnds, Crash, Lapse
<1>7. ASSUME NEW s \in Servers, MakerNext(s), ~(MakerStore(s) /\ w \in maker[s].board)
      PROVE  Coming(w)'
  <2>1. CASE Take(s)
    <3>8. lock => "dropped" \in lapses'
      BY <2>1, Zenon DEF Take, Lapse
    <3>9. "dropped" \notin lapses'
      OBVIOUS
    <3>1. ~lock /\ UNCHANGED writer
      BY <2>1, <3>8, <3>9 DEF Take
    <3>2. /\ queue[s] \in Seq(BOOLEAN) /\ queue[s] # <<>>
          /\ queue'[s] = Tail(queue[s])
          /\ maker' = [maker EXCEPT ![s] = At(IF Head(queue[s]) THEN "skip" ELSE "debounce")]
          /\ \A t \in Servers : t # s => queue'[t] = queue[t]
          /\ maker[s].step = "idle"
      BY <2>1, <3>1 DEF Take, TypeOK
    <3>3. CASE ~Head(queue[s])
      <4>1. maker'[s].step = "debounce"
        BY <3>2, <3>3 DEF At, TypeOK
      <4> QED
        BY <4>1 DEF Coming
    <3>4. ASSUME Head(queue[s]), NEW i \in 1..Len(queue[s]), ~queue[s][i]
          PROVE  Coming(w)'
      <4>1. \E j \in 1..Len(queue'[s]) : ~queue'[s][j]
        BY <3>2, <3>4, QueueKeepsTimely
      <4> QED
        BY <4>1 DEF Coming
    <3>5. \A t \in Servers : t # s => maker'[t] = maker[t]
      BY <3>2 DEF TypeOK
    <3> QED
      BY <3>1, <3>2, <3>3, <3>4, <3>5 DEF Coming
  <2>2. CASE Makes(s, "skip", "idle") /\ UNCHANGED <<queue, writer>>
    BY <2>2 DEF Makes, At, Coming, TypeOK
  <2>3. CASE maker[s].step = "debounce" /\ maker'[s] = At("lock")
    BY <2>3 DEF Coming, At
  <2>4. CASE Debounce(s)
    BY <2>2, <2>3, <2>4 DEF Debounce
  <2>5. CASE MakerSetLock(s)
    BY <2>5 DEF MakerSetLock, Makes, At, Coming, TypeOK
  <2>6. CASE Handle(s)
    BY <2>6 DEF Handle, Coming, TypeOK
  <2>7. CASE HandleFails(s)
    BY <2>7 DEF HandleFails, Lapse
  <2>8. CASE MakerStore(s)
    BY <1>7, <2>8 DEF MakerStore, Makes, At, Coming, TypeOK
  <2>9. CASE MakerUnlock(s)
    BY <2>9 DEF MakerUnlock, Makes, At, Coming, TypeOK
  <2> QED
    BY <1>7, <2>1, <2>4, <2>5, <2>6, <2>7, <2>8, <2>9 DEF MakerNext
<1> QED
  BY <1>1, <1>2, <1>3, <1>4, <1>5, <1>6, <1>7 DEF Next, Fault

-----------------------------------------------------------------------------
LEMMA CalmLasts == [Next]_vars /\ Calm' => Calm
  BY DEF Calm, Next, vars, Fault, ReaderNext, Leave, Get, CheckLock, WaitLock, GetAgain,
         ReaderSetLock, ReaderGenerate, ReaderFails, ReaderStore, ReleaseLock, SetLock, Lapse,
         WriterNext, Commit, Remove, Send, LeaveUnflushed, MakerNext, Take, Debounce,
         MakerSetLock, Handle, HandleFails, MakerStore, MakerUnlock, MakerEnds, Crash, Expire

\* Whoever sets the lock while another generates records an overlap.
LEMMA SetLockAlone == ASSUME SetLock, Calm'
                      PROVE  ~Someone
<1>1. Someone => "overlap" \in lapses'
  BY Zenon DEF SetLock, Lapse
<1> QED
  BY <1>1 DEF Calm

LEMMA TakeMakes ==
  ASSUME maker \in [Servers -> MakerStates], NEW s \in Servers, Take(s), NEW t \in Servers
  PROVE  maker'[t] \in {At("skip"), At("debounce"), maker[t]}
<1>1. CASE lock
  BY <1>1 DEF Take
<1>2. CASE ~lock
  <2>1. maker' = [maker EXCEPT ![s] = At(IF Head(queue[s]) THEN "skip" ELSE "debounce")]
    BY <1>2 DEF Take
  <2> QED
    BY <2>1
<1> QED
  BY <1>1, <1>2

LEMMA OneGeneratesStep == TypeOK /\ OneGenerates /\ [Next]_vars => OneGenerates'
<1> SUFFICES ASSUME TypeOK, OneGenerates, [Next]_vars, Calm'
             PROVE  OneGenerates'
  BY DEF OneGenerates
<1>1. Calm
  BY CalmLasts
<1> DEFINE Alone ==
        /\ \A p, q \in Readers :
              reader[p].step \in Generating /\ reader[q].step \in Generating => p = q
        /\ \A p, q \in Servers :
              maker[p].step \in Generating /\ maker[q].step \in Generating => p = q
        /\ \A p \in Readers, q \in Servers :
              ~(reader[p].step \in Generating /\ maker[q].step \in Generating)
<1>2. Alone
  BY <1>1 DEF OneGenerates
<1> SUFFICES Alone'
  BY DEF OneGenerates
<1>3. CASE UNCHANGED <<reader, maker>>
  BY <1>2, <1>3
<1>4. ASSUME NEW r \in Readers, ReaderNext(r) \/ Leave(r)
      PROVE  Alone'
  <2>1. CASE ReaderSetLock(r)
    <3>1. ~Someone
      BY <1>4, <2>1, SetLockAlone DEF ReaderSetLock
    <3>2. UNCHANGED maker /\ \A q \in Readers : q # r => reader'[q] = reader[q]
      BY <2>1 DEF ReaderSetLock, Reads, TypeOK
    <3> QED
      BY <3>1, <3>2 DEF Someone
  <2>2. CASE ~ReaderSetLock(r)
    <3>1. UNCHANGED maker /\ \A q \in Readers : q # r => reader'[q] = reader[q]
      BY <1>4, <2>2
      DEF TypeOK, ReaderNext, Leave, Get, CheckLock, WaitLock, GetAgain, ReaderGenerate,
          ReaderFails, ReaderStore, ReleaseLock, Reads
    <3>2. reader'[r].step \in Generating => reader[r].step \in Generating
      BY <1>4, <2>2
      DEF TypeOK, ReaderNext, Leave, Get, CheckLock, WaitLock, GetAgain, ReaderGenerate,
          ReaderFails, ReaderStore, ReleaseLock, Reads, At, Generating
    <3> QED
      BY <1>2, <3>1, <3>2
  <2> QED
    BY <2>1, <2>2
<1>5. ASSUME NEW s \in Servers, MakerNext(s)
      PROVE  Alone'
  <2>1. CASE MakerSetLock(s)
    <3>1. ~Someone
      BY <2>1, SetLockAlone DEF MakerSetLock
    <3>2. UNCHANGED reader /\ \A q \in Servers : q # s => maker'[q] = maker[q]
      BY <2>1 DEF MakerSetLock, Makes, TypeOK
    <3> QED
      BY <3>1, <3>2 DEF Someone
  <2>2. CASE Debounce(s)
    <3>1. UNCHANGED reader
      BY <2>2 DEF Debounce
    <3>2. ASSUME NEW t \in Servers, maker'[t].step \in Generating
          PROVE  maker[t].step \in Generating
      <4>1. CASE Makes(s, "skip", "idle")
        BY <3>2, <4>1 DEF Makes, At, Generating, TypeOK
      <4>2. CASE maker' = [u \in Servers |-> IF u = s THEN At("lock")
                                             ELSE IF maker[u].step = "debounce" THEN At("skip")
                                             ELSE maker[u]]
        <5>1. maker'[t] \in {At("lock"), At("skip"), maker[t]}
          BY <4>2
        <5> QED
          BY <3>2, <5>1 DEF At, Generating
      <4> QED
        BY <2>2, <4>1, <4>2 DEF Debounce
    <3> QED
      BY <1>2, <3>1, <3>2
  <2>3. CASE ~MakerSetLock(s) /\ ~Debounce(s)
    <3>0. maker \in [Servers -> MakerStates]
      BY DEF TypeOK
    <3>1. UNCHANGED reader /\ \A q \in Servers : q # s => maker'[q] = maker[q]
      <4>1. CASE Take(s)
        BY <3>0, <4>1 DEF Take
      <4>2. CASE Handle(s) \/ HandleFails(s)
        BY <3>0, <4>2 DEF Handle, HandleFails
      <4>3. CASE MakerStore(s) \/ MakerUnlock(s)
        BY <3>0, <4>3 DEF MakerStore, MakerUnlock, Makes
      <4> QED
        BY <1>5, <2>3, <4>1, <4>2, <4>3 DEF MakerNext
    <3>2. maker'[s].step \in Generating => maker[s].step \in Generating
      <4>1. CASE Take(s)
        BY <3>0, <4>1, TakeMakes DEF At, Generating
      <4>2. CASE Handle(s) \/ MakerStore(s) \/ MakerUnlock(s)
        BY <3>0, <4>2 DEF Handle, MakerStore, MakerUnlock, Makes, Generating
      \* A failure is a lapse.
      <4>3. ~HandleFails(s)
        BY DEF HandleFails, Lapse, Calm
      <4> QED
        BY <1>5, <2>3, <4>1, <4>2, <4>3 DEF MakerNext
    <3> QED
      BY <1>2, <3>1, <3>2
  <2> QED
    BY <2>1, <2>2, <2>3
<1>6. ASSUME NEW s \in Servers, MakerEnds(s) \/ Crash(s)
      PROVE  FALSE
  BY <1>6 DEF MakerEnds, Crash, Lapse, Calm
<1>7. ASSUME NEW w \in Writers, WriterNext(w) \/ LeaveUnflushed(w)
      PROVE  UNCHANGED <<reader, maker>>
  BY <1>7 DEF WriterNext, Commit, Remove, Send, LeaveUnflushed
<1>8. CASE Expire \/ UNCHANGED vars
  BY <1>3, <1>8 DEF Expire, vars
<1> QED
  BY <1>3, <1>4, <1>5, <1>6, <1>7, <1>8 DEF Next, Fault

\* A board comes to be stored when the database has been read.
LEMMA StoreIsFresh ==
  ASSUME TypeOK, [Next]_vars
  PROVE  /\ \A r \in Readers : reader'[r].step = "store" /\ reader'[r] # reader[r] =>
               reader'[r].board = scores /\ scores' = scores
         /\ \A s \in Servers : maker'[s].step = "store" /\ maker'[s] # maker[s] =>
               maker'[s].board = scores /\ scores' = scores
<1>0. reader \in [Readers -> ReaderStates] /\ maker \in [Servers -> MakerStates]
  BY DEF TypeOK
<1>1. ASSUME NEW r \in Readers, ReaderNext(r) \/ Leave(r),
             NEW q \in Readers, reader'[q].step = "store", reader'[q] # reader[q]
      PROVE  reader'[q].board = scores /\ scores' = scores
  BY <1>0, <1>1
  DEF ReaderNext, Leave, Get, CheckLock, WaitLock, GetAgain, ReaderSetLock, ReaderGenerate,
      ReaderFails, ReaderStore, ReleaseLock, Reads, At
<1>2. ASSUME NEW s \in Servers, MakerNext(s),
             NEW q \in Servers, maker'[q].step = "store", maker'[q] # maker[q]
      PROVE  maker'[q].board = scores /\ scores' = scores
  <2>1. CASE Debounce(s)
    <3>1. maker'[q] \in {At("idle"), At("lock"), At("skip"), maker[q]}
      BY <1>0, <2>1 DEF Debounce, Makes
    <3> QED
      BY <1>2, <3>1 DEF At
  <2>2. CASE Take(s)
    BY <1>0, <1>2, <2>2, TakeMakes DEF At
  <2>3. CASE MakerSetLock(s) \/ Handle(s) \/ HandleFails(s) \/ MakerStore(s) \/ MakerUnlock(s)
    BY <1>0, <1>2, <2>3 DEF MakerSetLock, Handle, HandleFails, MakerStore, MakerUnlock, Makes, At
  <2> QED
    BY <1>2, <2>1, <2>2, <2>3 DEF MakerNext
<1>4. ASSUME NEW s \in Servers, Crash(s)
      PROVE  /\ \A q \in Readers : reader'[q].step = "store" => reader'[q] = reader[q]
             /\ \A t \in Servers : maker'[t].step = "store" => maker'[t] = maker[t]
  <2>1. At("gone").step = "gone" /\ At("idle").step = "idle"
    BY DEF At
  <2>2. ASSUME NEW q \in Readers, reader'[q].step = "store"
        PROVE  reader'[q] = reader[q]
    BY <1>0, <1>4, <2>1, <2>2 DEF Crash
  <2>3. ASSUME NEW t \in Servers, maker'[t].step = "store"
        PROVE  maker'[t] = maker[t]
    BY <1>0, <1>4, <2>1, <2>3 DEF Crash
  <2> QED
    BY <2>2, <2>3
<1>5. ASSUME NEW s \in Servers, MakerEnds(s)
      PROVE  reader' = reader /\ \A t \in Servers : maker'[t].step = "store" => maker'[t] = maker[t]
  <2>1. At("ended").step = "ended"
    BY DEF At
  <2> QED
    BY <1>0, <1>5, <2>1 DEF MakerEnds
<1>6. /\ \A r \in Readers : ReaderNext(r) \/ Leave(r) => UNCHANGED maker
      /\ \A s \in Servers : MakerNext(s) => UNCHANGED reader
      /\ \A w \in Writers : WriterNext(w) \/ LeaveUnflushed(w) => UNCHANGED <<maker, reader>>
      /\ Expire \/ UNCHANGED vars => UNCHANGED <<maker, reader>>
  BY DEF ReaderNext, Leave, Get, CheckLock, WaitLock, GetAgain, ReaderSetLock, ReaderGenerate,
         ReaderFails, ReaderStore, ReleaseLock, MakerNext, Take, Debounce, MakerSetLock, Handle,
         HandleFails, MakerStore, MakerUnlock, WriterNext, Commit, Remove, Send, LeaveUnflushed,
         Expire, vars
<1> QED
  BY <1>1, <1>2, <1>4, <1>5, <1>6 DEF Next, Fault

\* A board that lacks a write holds it up only while the write is announced.
LEMMA StoresAnnouncedStep ==
  TypeOK /\ OneGenerates /\ StoresAnnounced /\ [Next]_vars => StoresAnnounced'
<1> SUFFICES ASSUME TypeOK, OneGenerates, StoresAnnounced, [Next]_vars, Calm'
             PROVE  StoresAnnounced'
  BY DEF StoresAnnounced
<1>1. Calm /\ lapses' \subseteq {"left"}
  BY CalmLasts DEF Calm
<1>2. \A w \in scores : Coming(w) =>
          Coming(w)' \/ (\E s \in Servers : MakerStore(s) /\ w \in maker[s].board)
  BY <1>1, ComingStays
<1>3. \A w \in scores' \ scores : Coming(w)'
  BY DEF Coming, TypeOK, Next, vars, Fault, ReaderNext, Leave, Get, CheckLock, WaitLock, GetAgain,
         ReaderSetLock, ReaderGenerate, ReaderFails, ReaderStore, ReleaseLock,
         WriterNext, Commit, Remove, Send, LeaveUnflushed, Writes, MakerNext, Take, Debounce,
         MakerSetLock, Handle, HandleFails, MakerStore, MakerUnlock, MakerEnds, Crash, Expire
<1>4. ASSUME NEW r \in Readers, reader'[r].step = "store", NEW w \in scores' \ reader'[r].board
      PROVE  Coming(w)'
  <2>1. CASE reader'[r] = reader[r]
    <3>1. \A s \in Servers : ~MakerStore(s)
      BY <1>1, <1>4, <2>1 DEF OneGenerates, MakerStore, Makes, Generating
    <3>2. CASE w \in scores
      BY <1>1, <1>2, <1>4, <2>1, <3>1, <3>2 DEF StoresAnnounced
    <3> QED
      BY <1>3, <1>4, <3>2
  <2>2. CASE reader'[r] # reader[r]
    <3>1. reader'[r].board = scores /\ scores' = scores
      BY <1>4, <2>2, StoreIsFresh
    <3> QED
      BY <1>4, <3>1
  <2> QED
    BY <2>1, <2>2
<1>5. ASSUME NEW s \in Servers, maker'[s].step = "store", NEW w \in scores' \ maker'[s].board
      PROVE  Coming(w)'
  <2>1. CASE maker'[s] = maker[s]
    <3>1. \A t \in Servers : MakerStore(t) => t = s
      BY <1>1, <1>5, <2>1 DEF OneGenerates, MakerStore, Makes, Generating
    <3>2. CASE w \in scores
      BY <1>1, <1>2, <1>5, <2>1, <3>1, <3>2 DEF StoresAnnounced
    <3> QED
      BY <1>3, <1>5, <3>2
  <2>2. CASE maker'[s] # maker[s]
    <3>1. maker'[s].board = scores /\ scores' = scores
      BY <1>5, <2>2, StoreIsFresh
    <3> QED
      BY <1>5, <3>1
  <2> QED
    BY <2>1, <2>2
<1> QED
  BY <1>4, <1>5 DEF StoresAnnounced

\* What is cached was about to be stored.
LEMMA StaleIsAnnouncedStep ==
  IInv /\ [Next]_vars => StaleIsAnnounced'
<1> SUFFICES ASSUME TypeOK, OneGenerates, StoresAnnounced, StaleIsAnnounced, [Next]_vars, Calm',
                    cache' # NoBoard, NEW w \in scores' \ cache'
             PROVE  Coming(w)'
  BY DEF StaleIsAnnounced, IInv, Calm
<1>1. Calm /\ lapses' \subseteq {"left"} /\ lapses \subseteq {"left"}
  BY CalmLasts DEF Calm
<1>2. ASSUME w \in scores, Coming(w),
             \A s \in Servers : MakerStore(s) => w \notin maker[s].board
      PROVE  Coming(w)'
  BY <1>1, <1>2, ComingStays
<1>3. CASE w \notin scores
  BY <1>3
  DEF Coming, TypeOK, Next, vars, Fault, ReaderNext, Leave, Get, CheckLock, WaitLock, GetAgain,
      ReaderSetLock, ReaderGenerate, ReaderFails, ReaderStore, ReleaseLock,
      WriterNext, Commit, Remove, Send, LeaveUnflushed, Writes, MakerNext, Take, Debounce,
      MakerSetLock, Handle, HandleFails, MakerStore, MakerUnlock, MakerEnds, Crash, Expire
<1>4. ASSUME w \in scores, NEW s \in Servers, MakerStore(s)
      PROVE  Coming(w)'
  <2>1. maker[s].step = "store" /\ cache' = maker[s].board /\ s \in Servers
    BY <1>4 DEF MakerStore, Makes
  <2>2. \A t \in Servers : MakerStore(t) => t = s
    BY <1>1, <2>1 DEF OneGenerates, MakerStore, Makes, Generating
  <2> QED
    BY <1>1, <1>2, <1>4, <2>1, <2>2 DEF StoresAnnounced
<1>5. ASSUME w \in scores, NEW r \in Readers, ReaderStore(r)
      PROVE  Coming(w)'
  <2>1. reader[r].step = "store" /\ cache' = reader[r].board
    BY <1>5 DEF ReaderStore, Reads
  <2>2. \A t \in Servers : ~MakerStore(t)
    BY <1>1, <2>1 DEF OneGenerates, MakerStore, Makes, Generating
  <2> QED
    BY <1>1, <1>2, <1>5, <2>1, <2>2 DEF StoresAnnounced
<1>6. CASE /\ w \in scores
           /\ \A r \in Readers : ~ReaderStore(r)
           /\ \A s \in Servers : ~MakerStore(s)
  <2>1. cache' = cache
    BY <1>6
    DEF Next, vars, Fault, ReaderNext, Leave, Get, CheckLock, WaitLock, GetAgain, ReaderSetLock,
        ReaderGenerate, ReaderFails, ReleaseLock, WriterNext, Commit, Remove, Send,
        LeaveUnflushed, MakerNext, Take, Debounce, MakerSetLock, Handle, HandleFails,
        MakerUnlock, MakerEnds, Crash, Expire
  <2> QED
    BY <1>1, <1>2, <1>6, <2>1 DEF StaleIsAnnounced
<1> QED
  BY <1>3, <1>4, <1>5, <1>6

LEMMA InvInit == Init => IInv
<1> SUFFICES ASSUME Init PROVE IInv
  OBVIOUS
<1>1. TypeOK
  BY TypeInit
<1>2. OneGenerates /\ StoresAnnounced /\ StaleIsAnnounced
  BY DEF Init, At, OneGenerates, StoresAnnounced, StaleIsAnnounced, Generating
<1> QED
  BY <1>1, <1>2 DEF IInv

LEMMA InvStep == IInv /\ [Next]_vars => IInv'
  BY TypeStep, OneGeneratesStep, StoresAnnouncedStep, StaleIsAnnouncedStep DEF IInv

\* The scoreboard that CacheHelper and CacheMaker keep is old only while a newer one is on
\* its way, unless one of the named lapses has happened.
THEOREM StaleAnnounced == Spec => []StaleIsAnnounced
<1>1. IInv => StaleIsAnnounced
  BY DEF IInv
<1> QED
  BY <1>1, InvInit, InvStep, PTL DEF Spec
=============================================================================

-------------------------------- MODULE Judge --------------------------------
(***************************************************************************)
(* What the flag pipeline promises its users: every submission is judged   *)
(* at most once, in one step; the first accepted submission of a team      *)
(* becomes the team's solve and stays it; a rejected answer that is        *)
(* another team's flag may be marked as cheating later.                    *)
(***************************************************************************)
CONSTANTS Teams, Ids, NoSolve

VARIABLES
    entry,    \* the submissions made: id -> [team, kind, status]
    solved    \* team -> the submission that solved the flag, or NoSolve

Init ==
    /\ \A i \in Ids : entry[i].status = "Absent"
    /\ solved = [t \in Teams |-> NoSolve]

SetStatus(i, s) == entry' = [entry EXCEPT ![i].status = s]

Submit(i) ==
    /\ entry[i].status = "Absent"
    /\ \E t \in Teams, k \in {"right", "foreign", "wrong", "noflag"} :
          entry' = [entry EXCEPT ![i] = [team |-> t, kind |-> k, status |-> "FlagSubmitted"]]
    /\ UNCHANGED solved

Accept(i) ==
    /\ entry[i].status = "FlagSubmitted" /\ entry[i].kind = "right"
    /\ SetStatus(i, "Accepted")
    /\ solved' = IF solved[entry[i].team] = NoSolve
                   THEN [solved EXCEPT ![entry[i].team] = i] ELSE solved

Reject(i) ==
    /\ entry[i].status = "FlagSubmitted"
    /\ \E s \in {"WrongAnswer", "NotFound"} : SetStatus(i, s)
    /\ UNCHANGED solved

DetectCheat(i) ==
    /\ entry[i].status = "WrongAnswer" /\ entry[i].kind = "foreign"
    /\ SetStatus(i, "CheatDetected")
    /\ UNCHANGED solved

Next == \E i \in Ids : Submit(i) \/ Accept(i) \/ Reject(i) \/ DetectCheat(i)

Spec == Init /\ [][Next]_<<entry, solved>>
=============================================================================

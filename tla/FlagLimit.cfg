SPECIFICATION Spec
CONSTANTS
    a = a  b = b  h1 = h1  h2 = h2  c1 = c1  c2 = c2
    Procs = {a}
    Http = {h1, h2}
    Checkers = {}
    Home <- Requests
    Teams = {t1, t2}
    NoTeam = NoTeam
    Ids = {1, 2}
    Kinds = {"right"}
    SubmissionLimit = 1
    MaxAttempts = 0
    MaxCrashes = 0
INVARIANTS LimitRespected
CHECK_DEADLOCK FALSE

SPECIFICATION Spec
CONSTANTS
    a = a  b = b  h1 = h1  h2 = h2  c1 = c1  c2 = c2
    Procs = {a, b}
    Http = {h1, h2}
    Checkers = {c2}
    Home <- Replicas
    Teams = {t1, t2}
    NoTeam = NoTeam
    Ids = {1, 2}
    Kinds = {"right"}
    SubmissionLimit = 0
    MaxAttempts = 1
    MaxCrashes = 0
SYMMETRY SymmetryTH
INVARIANTS AcceptedHasSolve RanksNotSkipped NoticesAreSolves
CHECK_DEADLOCK FALSE

SPECIFICATION FairSpec
CONSTANTS
    a = a  b = b  h1 = h1  h2 = h2  c1 = c1  c2 = c2
    Procs = {a}
    Http = {h1}
    Checkers = {c1}
    Home <- Recovery
    Teams = {t1, t2}
    NoTeam = NoTeam
    Ids = {1, 2}
    Kinds = {"right", "foreign", "noflag"}
    SubmissionLimit = 0
    MaxAttempts = 1
    MaxCrashes = 1
INVARIANTS TypeOK SolveIsAccepted EventsFollowVerdicts OneVerificationPastLock
PROPERTIES ImplementsJudge CrashLeavesNothing
CHECK_DEADLOCK FALSE

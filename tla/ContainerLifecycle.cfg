SPECIFICATION FairSpec
CONSTANTS
    web = web
    p1 = p1
    p2 = p2
    d1 = d1
    Chals = {web}
    Creates = {p1, p2}
    Deletes = {d1}
    Cron = Cron
    NoCont = NoCont
    Chal <- MCChal
    Named = {web}
    Limit = 1
    AutoDestroy = {TRUE, FALSE}
INVARIANTS TypeOK RunningIsRecorded
PROPERTIES LosesOnlyRemoved StrandedAreRemoved
CHECK_DEADLOCK FALSE

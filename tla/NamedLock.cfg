SPECIFICATION FairSpec
CONSTANTS
    Procs = {p1, p2, p3}
    Sems = {s1, s2, s3, s4}
    None = None
INVARIANTS TypeOK EntryHasActiveCaller TakenEntryHasHolder
PROPERTIES RegisteredWaiterServed

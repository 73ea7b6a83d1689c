SPECIFICATION Spec
CONSTANTS
    s1 = s1
    s2 = s2
    r1 = r1
    r2 = r2
    w1 = w1
    w2 = w2
    Servers = {s1, s2}
    Readers = {r1, r2}
    Writers = {w1, w2}
    Home <- MCHome
    NoBoard = NoBoard
INVARIANTS TypeOK StaleIsAnnounced
PROPERTIES WaitersServed
CHECK_DEADLOCK FALSE

SPECIFICATION FairSpec
CONSTANTS
    r1 = r1
    r2 = r2
    k1 = k1
    n1 = n1
    Local = local
    Reqs = {r1, r2}
    Kills = {k1}
    Nodes = {local, n1}
    NoNode = NoNode
    Queue = Queue
    Metrics = Metrics
    NoOne = NoOne
    NoReport = NoReport
    Capacity <- MCCapacity
    Preferable <- MCPreferable
    Victim <- MCVictim
INVARIANTS TypeOK CountersCover CapacityRespected TargetsNameTheirNode
PROPERTIES PlacedNotBookedAgain CountersConverge

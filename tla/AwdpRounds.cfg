SPECIFICATION Spec
SYMMETRY Symmetric
CONSTANTS
    l1 = l1
    l2 = l2
    alice = alice
    bob = bob
    red = red
    blue = blue
    Loops = {l1, l2}
    Players = {alice, bob}
    Teams = {red}
    NoLoop = NoLoop
    Admin = Admin
    NoBox = NoBox
    TeamOf <- MCTeamOf
    Kinds <- MCKinds
    TotalRounds = 2
    MaxResetCount = 1
    MaxRecoveryCount = 1
    MaxStarts = 2
    MaxStops = 1
    MaxCrashes = 1
INVARIANTS TypeOK RoundsInOrder NoStaleFlag ResetsWithinLimit
CHECK_DEADLOCK FALSE

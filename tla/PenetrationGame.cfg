SPECIFICATION Spec
CONSTANTS
    Requests = {r1, r2}
    Saves = {s1, s2, s3}
    Deployments = {d1, d2}
    MaxResetCount = 2
    MaxVersion = 1
SYMMETRY Symmetry
INVARIANTS TypeOK TopologyNotLost EnvironmentConsistent ResetsWithinLimit

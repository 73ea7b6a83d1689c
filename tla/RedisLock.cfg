SPECIFICATION Spec
CONSTANTS
    Procs = {p1, p2, p3, p4}
    NoToken = NoToken
PROPERTIES LeasesExclude

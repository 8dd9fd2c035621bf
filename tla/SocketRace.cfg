SPECIFICATION FairSpec
CONSTANTS
    d1 = d1
    d2 = d2
    d3 = d3
    s1 = s1
    s2 = s2
    s3 = s3
    s4 = s4
    f1 = f1
    None = None
    Daemons = {d1, d2}
    Sockets = {s1, s2, s3}
    Foreign = {}
    Supervised = FALSE
    Faults = {}
PROPERTY LiveSocketKept

SPECIFICATION Spec
CONSTANTS
    p1 = p1
    p2 = p2
    s1 = s1
    s2 = s2
    k1 = k1
    k2 = k2
    Unrooted = Unrooted
    Runtime = Runtime
    Temporary = Temporary
    None = None
    Damaged = Damaged
    Procs = {p1, p2}
    Passwords = {s1, s2}
    Keys = {k1, k2}
    Roots = {Unrooted, Runtime, Temporary}
    Absolute = {Runtime, Temporary}
    MaxAlterations = 1
    Times = {1}
CONSTANTS
    Fold <- ThreeNames
    Uuids <- TwoUuids
    Salts <- TwoSalts
    Argon2id <- Algorithm
    VaultFormat <- Format
    Candidates <- Proposed
    Overriding <- OnlyOverride
    Returned <- OneFieldChanged
SYMMETRY Symmetry
CONSTRAINT Bounds
CHECK_DEADLOCK FALSE
INVARIANTS
    TypeOK
    OpenedAsWritten
    WrittenOpens
    StableHome

SPECIFICATION FairSpec
CONSTANTS
    INT = INT
    TERM = TERM
    HUP = HUP
    None = None
    Signals = {INT, TERM, HUP}
CHECK_DEADLOCK FALSE
INVARIANTS
    TypeOK
    SealedAfterExit
PROPERTIES
    StrangerSpared
    Forwarded
    Seals

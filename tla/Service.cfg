SPECIFICATION FairSpec
CONSTANTS
    q1 = q1
    q2 = q2
    o1 = o1
    o2 = o2
    None = None
    Queries = {q1}
    Others = {o1}
    OtherPlans <- Awkward
    HeaderBytes = 2
    MaxFrame = 2
    Timeout = 2
    Backlog = 1
CHECK_DEADLOCK FALSE
INVARIANTS
    TypeOK
    RepliesDeserved
    FirstIsServed
    HoldBounded
PROPERTIES
    Stops
    ConnectionEnds

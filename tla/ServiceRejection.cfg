SPECIFICATION Spec
CONSTANTS
    q1 = q1
    q2 = q2
    o1 = o1
    o2 = o2
    None = None
    Queries = {q1}
    Others = {}
    OtherPlans = {}
    HeaderBytes = 2
    MaxFrame = 1
    Timeout = 1
    Backlog = 1
CHECK_DEADLOCK FALSE
INVARIANT RejectionIsProtocol

SPECIFICATION Spec
CONSTANTS
    p1 = p1
    p2 = p2
    pw1 = pw1
    pw2 = pw2
    weak = weak
    i1 = i1
    i2 = i2
    e1 = e1
    e2 = e2
    disk1 = disk1
    shm = shm
    None = None
    Procs = {p1, p2}
    Fold <- OneName
    Passwords = {pw1, pw2}
    Strong = {pw1, pw2}
    Ids = {i1}
    Edits = {e1}
    Roots = {disk1}
    VolatileRoots = {}
    Faults = {"io"}
CHECK_DEADLOCK FALSE
INVARIANT FailedRotationKeepsPassword

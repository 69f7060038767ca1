SPECIFICATION EndingsSpec
CONSTANTS
    s1 = s1
    s2 = s2
    r1 = r1
    r2 = r2
    r3 = r3
    q1 = q1
    q2 = q2
    p1 = p1
    p2 = p2
    Seeds = {s1, s2}
    Receipts = {r1}
    Requests = {q1, q2}
    Processes = {p1, p2}
    ProcessOf <- TwoProcesses
    Nobody = Nobody
    NoSeed = NoSeed
    NoReceipt = NoReceipt
    MaxFaults = 2
    m1 = m1
    m2 = m2
    f1 = f1
    c1 = c1
    c2 = c2
    y = y
    x = x
    d1 = d1
    d2 = d2
    general = general
    events = events
    NoForum = NoForum
    NoSession = NoSession
    NoMemory = NoMemory
    NoKey = NoKey
    NoTTL = NoTTL
CHECK_DEADLOCK FALSE
INVARIANT OneClaim
PROPERTIES
    CommittedResolves LockFreed RefusalEnds EveryRequestEnds PullEnds

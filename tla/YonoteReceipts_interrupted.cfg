SPECIFICATION FairSpec
CONSTANTS
    s1 = s1
    s2 = s2
    r1 = r1
    r2 = r2
    r3 = r3
    q1 = q1
    q2 = q2
    p1 = p1
    p2 = p2
    Seeds = {s1, s2}
    Receipts = {r1}
    Requests = {q1}
    Processes = {p1}
    ProcessOf <- OneRequest
    Nobody = Nobody
    NoSeed = NoSeed
    NoReceipt = NoReceipt
    MaxFaults = 1
PROPERTY InterruptedResolves

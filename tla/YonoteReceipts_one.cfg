SPECIFICATION Spec
CONSTANTS
    s1 = s1
    s2 = s2
    r1 = r1
    r2 = r2
    r3 = r3
    q1 = q1
    q2 = q2
    p1 = p1
    p2 = p2
    Seeds = {s1, s2}
    Receipts = {r1, r2, r3}
    Requests = {q1, q2}
    Processes = {p1}
    ProcessOf <- OneProcess
    Nobody = Nobody
    NoSeed = NoSeed
    NoReceipt = NoReceipt
    MaxFaults = 2
SYMMETRY OneProcessSymmetry
INVARIANTS
    TypeOK
    WriterSeesItsBase
    AppliedOnce
PROPERTY
    ImplementsSeedRegister

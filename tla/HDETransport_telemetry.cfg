SPECIFICATION Spec
CONSTANTS
    e1 = e1
    e2 = e2
    w1 = w1
    w2 = w2
    r1 = r1
    r2 = r2
    t1 = t1
    Events = {e1}
    Ticket <- OneEvent
    Workers = {w1, w2}
    Responses = {r1}
    Empty = Empty
    Blank = Blank
    NoText = NoText
    Nobody = Nobody
    NoEvent = NoEvent
    InboxMaxAttempts = 1
    OutboxMaxAttempts = 2
    MaxInboxRequeues = 0
    MaxOutboxRequeues = 1
    MaxId = 1
SYMMETRY WorkerSymmetry
CHECK_DEADLOCK FALSE
INVARIANT DeliveredTelemetry

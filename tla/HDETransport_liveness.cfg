SPECIFICATION FairSpec
CONSTANTS
    e1 = e1
    e2 = e2
    w1 = w1
    w2 = w2
    r1 = r1
    r2 = r2
    t1 = t1
    Events = {e1, e2}
    Ticket <- OneTicket
    Workers = {w1}
    Responses = {r1}
    Empty = Empty
    Blank = Blank
    NoText = NoText
    Nobody = Nobody
    NoEvent = NoEvent
    InboxMaxAttempts = 2
    OutboxMaxAttempts = 1
    MaxInboxRequeues = 0
    MaxOutboxRequeues = 0
    MaxId = 2
CHECK_DEADLOCK FALSE
PROPERTY EventuallySettled

SPECIFICATION ConversationSpec
CONSTANTS
    Yonote = {y1, y2}
    Other = {x}
    Volatile = {y2}
    RecoveryEnabled = TRUE
    CallCap = 8
    Messages = {m1, m2, m3}
    Fewer = {m1, m2}
    Long = {m1}
    Forums = {f1}
    NoForum = NoForum
    SessionTurns = 1
    SessionOfFewer = 2
    Faults = 1
    MoreFaults = 2
    Nobody = Nobody
    NoSession = NoSession
    NoMemory = NoMemory
    Calls = {r1, r2}
    MaxMessages = 3
    Window = 4
    MaxStops = 1
    NoKey = NoKey
    NoTTL = NoTTL
    Senders = {s1, s2}
    Rpm = 2
    Minute = 3
    Ban = 2
    Delays = {1, 4}
    MaxTime = 6
    Events = {e1}
    Never = Never
    MemoryTTL = 2
    TraceTTL = 1
    QueueTTL = 1
    Horizon = 1
    TurnsKept = 1
    MaxDays = 5
    MaxTurns = 3
    MaxRuns = 2
CHECK_DEADLOCK FALSE
INVARIANTS
    PartsTyped TurnsRemembered TwiceTheLimit OutcomeIsVerified
PROPERTIES
    LockHolds PostsLimited ModelCalls RetentionIsSafe

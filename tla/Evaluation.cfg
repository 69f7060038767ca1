SPECIFICATION EvaluationSpec
CONSTANTS
    Calls = {a1, a2}
    Unit = 2
    Skew = 2
    TTL = 6
    Latency = 2
    Signed = 3
    MaxTime = 26
    Runners = {a1, a2}
    Requests <- RoutineRuns
    Window = 2
    RollingCap = 5
    RoutineMaxCost = 2
    RoutineMaxCases = 2
    CaseCosts = {1}
    LastDay = 3
    FullRequests <- FullRuns
    ChainRunners = {a1, a2, a3}
    ChainRequests <- ChainOfRuns
    ChainWindow = 1
    LastChainDay = 2
    Refs = {v1, v2}
    Supersedes <- TwoVersions
    Contents = {good, other, bad}
    Sealed = {good, other}
    Commands = {b1}
    Operations <- AllOperations
    MaxEdits = 1
    MaxCrashes = 1
    Runs = {b1, b2}
    Modes = {"sealed", "replay"}
    Runtimes = {sha1, sha2}
    Paths = {p1, p2}
    CasesTotal = 2
    Cap = 2
    MaxCost = 2
    MaxDeploys = 0
    MaxFaults = 1
    DeployedCases = 1
    DeployedCap = 1
    DeployedCost = 0
    Deployments = 1
    PaidModes = {"phase0", "candidate"}
    PaidRuntimes = {sha1}
    PaidPaths = {p1}
    Jobs = {a1, a2, a3}
    Shas = {sha1}
    MaxRestarts = 0
    MaxReindex = 0
    MaxFailures = 0
    MovingJobs = {b1, b2}
    MovingShas = {sha1, sha2}
    Restarts = 1
    Reindexings = 1
    MovingFailures = 1
    None = None
    sha1 = sha1
    sha2 = sha2
    sha3 = sha3
    o1 = o1
    o2 = o2
    o3 = o3
    w1 = w1
    w2 = w2
    d1 = d1
    d2 = d2
    v1 = v1
    v2 = v2
    good = good
CHECK_DEADLOCK FALSE
INVARIANTS
    PartsTyped RunIsOnRecord GoodForOne
PROPERTIES
    LedgerHolds FreezeIsFinal AskedOnce LaunchIsSound

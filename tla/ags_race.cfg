SPECIFICATION Spec
CONSTANTS
    s1 = s1
    p1 = p1
    p2 = p2
    r1 = r1
    w1 = w1
    w2 = w2
    j1 = j1
    None = None
    Subjects = {s1}
    Assessments = {}
    Payloads = {p1, p2}
    Requests = {r1}
    Workers = {w1, w2}
    Kinds = {"finalize"}
    Tokens = {FALSE}
    Grants = {{}, {"score"}}
    Launchers = {}
    Movers = {}
    JobSlots = {}
    RowPool = 2
    RetryCap = 1
    MaxCrashes = 0
    MaxFaults = 0
    AutoRetry = TRUE
    MaxAttempts = 1
INVARIANTS
    PublishedWasDelivered
    QueueWithinBudget
    ScoreOutcomeRecorded
SYMMETRY WorkerSymmetry
CHECK_DEADLOCK FALSE

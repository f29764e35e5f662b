SPECIFICATION Spec
CONSTANTS
    s1 = s1
    p1 = p1
    p2 = p2
    r1 = r1
    w1 = w1
    w2 = w2
    j1 = j1
    None = None
    Subjects = {s1}
    Assessments = {}
    Payloads = {p1}
    Requests = {r1}
    Workers = {w1}
    Kinds = {"submit", "backfill"}
    Tokens = {TRUE, FALSE}
    Grants = {{}, {"score"}, {"create"}}
    Launchers = {}
    Movers = {}
    JobSlots = {j1}
    RowPool = 2
    RetryCap = 1
    MaxCrashes = 0
    MaxFaults = 1
    AutoRetry = TRUE
    MaxAttempts = 1
INVARIANTS
    TypeOK
    PublishedWasDelivered
    QueueWithinBudget
    ScoreOutcomeRecorded
CHECK_DEADLOCK FALSE

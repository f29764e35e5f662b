SPECIFICATION Spec
CONSTANTS
    s1 = s1
    p1 = p1
    p2 = p2
    r1 = r1
    w1 = w1
    w2 = w2
    j1 = j1
    None = None
    Subjects = {s1}
    Assessments = {}
    Payloads = {p1}
    Requests = {r1}
    Workers = {w1}
    Kinds = {"finalize", "submit", "partial", "propagate", "backfill"}
    Tokens = {FALSE}
    Grants = {{"line"}, {"score", "create"}}
    Launchers = {s1}
    Movers = {s1}
    JobSlots = {}
    RowPool = 2
    RetryCap = 1
    MaxCrashes = 1
    MaxFaults = 0
    AutoRetry = TRUE
    MaxAttempts = 1
PROPERTY
    ImplementsGradeSync
CHECK_DEADLOCK FALSE

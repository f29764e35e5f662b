SPECIFICATION FairSpec
CONSTANTS
    s1 = s1
    p1 = p1
    p2 = p2
    r1 = r1
    w1 = w1
    w2 = w2
    j1 = j1
    None = None
    Subjects = {s1}
    Assessments = {}
    Payloads = {p1}
    Requests = {r1}
    Workers = {w1}
    Kinds = {"finalize"}
    Tokens = {FALSE}
    Grants = {{"score", "create"}, {"line"}}
    Launchers = {}
    Movers = {s1}
    JobSlots = {}
    RowPool = 2
    RetryCap = 1
    MaxCrashes = 1
    MaxFaults = 0
    AutoRetry = TRUE
    MaxAttempts = 2
PROPERTIES
    QueuedEventuallySettles
    PublishedNotReopened
CHECK_DEADLOCK FALSE

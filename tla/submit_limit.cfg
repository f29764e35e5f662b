SPECIFICATION Spec
CONSTANTS
    q1 = q1
    q2 = q2
    r1 = r1
    r2 = r2
    None = None
    Questions = {q1, q2}
    Optional = {}
    Manual = {q2}
    MustPass = {q1}
    Limit <- OnceOnly
    Points <- OnePoint
    Requests = {r1, r2}
    Kinds = {"answer"}
    Assessing = {FALSE}
    Scores = {1}
    Sent <- OneAnswer
    SentStatus = {"in_progress"}
    Pool = 2
    MaxFaults = 0
INVARIANT
    AttemptLimitEnforced
CHECK_DEADLOCK FALSE

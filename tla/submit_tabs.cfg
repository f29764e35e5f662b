SPECIFICATION Spec
CONSTANTS
    q1 = q1
    q2 = q2
    r1 = r1
    r2 = r2
    None = None
    Questions = {q1, q2}
    Optional = {}
    Manual = {q2}
    MustPass = {q1}
    Limit <- OnceOnly
    Points <- OnePoint
    Requests = {r1, r2}
    Kinds = {"answer", "autosave", "grade"}
    Assessing = {TRUE, FALSE}
    Scores = {1, 2}
    Sent = {}
    SentStatus = {}
    Pool = 3
    MaxFaults = 1
INVARIANTS
    TypeOK
    ScoreNeedsWork
    ScoreWithinMaximum
    CompleteIsScored
    AttemptsWithinSlack
SYMMETRY RequestSymmetry
CHECK_DEADLOCK FALSE

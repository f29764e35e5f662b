SPECIFICATION Spec
CONSTANTS
    q1 = q1
    q2 = q2
    r1 = r1
    r2 = r2
    None = None
    Questions = {q1, q2}
    Optional = {}
    Manual = {q2}
    MustPass = {q1}
    Limit <- OnceOnly
    Points <- OnePoint
    Requests = {r1}
    Kinds = {"answer", "autosave", "direct", "grade", "instructor"}
    Assessing = {TRUE, FALSE}
    Scores = {0, 1, 2}
    Sent <- OneAnswer
    SentStatus = {"submitted"}
    Pool = 3
    MaxFaults = 1
INVARIANT
    ScoreIsCurrent
PROPERTY
    AssessmentStaysSubmitted
CHECK_DEADLOCK FALSE

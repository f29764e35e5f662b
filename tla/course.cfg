SPECIFICATION Spec
CONSTANTS
    None = None
    Items = {i1}
    Releases = {R1, R2}
    Cohorts = {c1, c2}
    Seeds <- MCSeeds
    Edits <- MCEdits
    MaxVersion = 2
    MaxRequests = 3
    Users = {u1, u2}
    Names = {s1, s2}
    Questions = {q1, q2}
    SquadRequests = {r1, r2}
    Pool = 2
    Mixes <- MCMixes
SYMMETRY Symmetric
INVARIANTS
    GateTypeOK
    GateAgrees
    ShownWasOpened
    HiddenStaysHidden
    ImportsKeepLocks
    SquadsTypeOK
    SquadWasAssigned
    SquadCompleteIsScored
    SquadSharesScore
    HistoryFollows
    AnswersShown
CHECK_DEADLOCK FALSE

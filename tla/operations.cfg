SPECIFICATION Spec
CONSTANTS
    None = None
    Rows = {a1, a2, a3}
    Processors = {w1}
    BatchSize = 2
    MaxRetries = 2
    MaxUpsets = 2
    Sinks = {s1, s2}
    Passes = {p1, p2}
    AutoRetry = TRUE
    Exhaustions = {e1}
    Notes = {n1, n2}
    MaxAttempts = 2
    Limit = 1
    MaxFaults = 1
    Reports = {r1, r2}
    BugSync = TRUE
    MaxEdits = 2
    MaxBugFaults = 1
INVARIANTS
    NotifyTypeOK
    DeadLetterEarned
    DeliveredWasStored
    AnnouncedOnce
    ExhaustionAnnounced
    PostsWithinBudget
    BugTypeOK
    LinkedIsSynced
    StateConverges
PROPERTIES
    QueueMoves
    NotificationsSettle
    ReportsSettle
CHECK_DEADLOCK FALSE

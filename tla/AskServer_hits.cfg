CONSTANTS
    k1 = k1  a1 = a1  a2 = a2  r1 = r1  d1 = d1  q1 = q1  q2 = q2
    None = None
    Kits = {k1}
    Tasks = {a1, a2}
    KitOf <- MCOneKit
    Databases = {d1}
    DbOf <- MCOneDb
    HasEngine = TRUE
    MaxClock = 1
    Asks = {a1, a2}
    Questions = {q1}
    Analysis = {}
    Replies <- MCTwoReplies
    MaxAttempts = 1
    MayStop = FALSE
SPECIFICATION ServerSpec
INVARIANTS HitsAreRecorded
CHECK_DEADLOCK FALSE

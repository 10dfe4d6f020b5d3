CONSTANTS
    None = None
    Dialects = {"postgresql", "mysql", "sqlite", "mongodb", "opensearch", "trino"}
    Tables = {1, 2}
    Shapes <- MCShapes
    MaxDDL = 1
    q1 = q1  q2 = q2  i1 = i1  c1 = c1  c2 = c2
    Engines = {"postgresql", "mysql", "sqlite"}
    Queries = {q1, q2}
    Introspections = {i1}
    Conns = {c1, c2}
    PoolSize = 1
    MaxRows = 4
    MaxPage = 2
    Statements <- MCStatements
    Pipelines <- MCPipelines
    Limits = {0, 2, 5}
    Docs = 4
    Fan = 2
    Budgets <- MCBudgets
    GoldenSets <- MCGoldenSets
    Frames <- MCFrames
    Tenths = 5
    Sizes = {3, 21}
    Starts <- MCStarts
    Latencies = {1, 3, 5}
    MaxBeyond = 3
    u1 = u1
    Users = {u1}
    Limit = 2
    Window = 2
    Life = 1
    Required = {"viewer", "admin"}
    MaxNow = 4
    MaxKeys = 2
    MaxTokens = 1
SPECIFICATION PartsSpec
INVARIANTS  DescriptionsAreOfOneMoment ConnectionsAreAccountedFor
    LimitsStayWithQueries OutcomeFitsReplies ResultIsWhole
    RowsAreLimitedExactly GateIsExact WindowNeverExceeded ThrottledOnlyAtLimit
    ServedRoleWasHeld
PROPERTIES ShownArePercentiles 
CHECK_DEADLOCK FALSE

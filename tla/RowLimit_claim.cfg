CONSTANTS
    Statements <- MCStatements
    Pipelines <- MCPipelines
    Limits = {0, 2, 5}
    Docs = 4
    Fan = 2
SPECIFICATION GuardSpec
INVARIANTS RowLimitIsEnforced
CHECK_DEADLOCK FALSE

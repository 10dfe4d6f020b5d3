------------------------------ MODULE MCParts ------------------------------
(***************************************************************************)
(* The parts that share no state with each other, in one state graph for   *)
(* TLC: the one named by part runs, the others stay in an initial state.   *)
(***************************************************************************)
EXTENDS MCIntrospection, QueryExecution, TrinoStatement, MCRowLimit, LlmRetry, MCEvaluation,
        MetricsWindow, AccessControl

CONSTANTS q1, q2, i1, c1, c2, u1

VARIABLE part

----------------------------------------------------------------------------
(* LlmRetry: budgets around the default of 2, none at all and a negative one *)

MCBudgets == -1..3

----------------------------------------------------------------------------
(* MetricsWindow: a short window, and one in which p95 is no longer the maximum *)

\* an empty window; or one about to be full, of fast requests and then slow ones
MCStarts(n) ==
    IF n < 10 THEN {<<>>}
    ELSE {[i \in 1..m |-> IF i <= k THEN 2 ELSE 4] : m \in {n - 2, n}, k \in {0, 1, n \div 2, n - 2, n}}

----------------------------------------------------------------------------

PartsInit ==
    /\ part \in {"introspect", "pool", "trino", "guard", "retry", "eval", "metrics", "access"}
    /\ IntrospectInit
    /\ part # "introspect" => dialect = "trino" /\ db = [t \in Tables |-> None]
    /\ site.view => dialect = "mysql"
    /\ site.owned # Tables => dialect = "postgresql"
    /\ PoolInit
    /\ part # "pool" => engine = "sqlite"
    /\ TrinoInit
    /\ part # "trino" => total = 0
    /\ GuardInit
    /\ part # "guard" => query = [sql |-> FALSE, body |-> <<>>] /\ limit = 0
    /\ RetryInit
    /\ part # "retry" => budget = 0
    /\ EvalInit
    /\ part # "eval" => golden = <<>>
    /\ MetricsInit
    /\ part # "metrics" => recorded = <<>>
    /\ AccessInit

IntrospectPart == part = "introspect" /\ IntrospectNext
PoolPart == part = "pool" /\ PoolNext
TrinoPart == part = "trino" /\ TrinoNext
GuardPart == part = "guard" /\ Guard
RetryPart == part = "retry" /\ RetryNext
EvalPart == part = "eval" /\ EvalNext
MetricsPart == part = "metrics" /\ MetricsNext
AccessPart == part = "access" /\ AccessNext

PartsNext ==
    /\ UNCHANGED part
    /\ IntrospectPart \/ UNCHANGED introspectVars
    /\ PoolPart \/ UNCHANGED poolVars
    /\ TrinoPart \/ UNCHANGED trinoVars
    /\ GuardPart \/ UNCHANGED guardVars
    /\ RetryPart \/ UNCHANGED retryVars
    /\ EvalPart \/ UNCHANGED evalVars
    /\ MetricsPart \/ UNCHANGED metricsVars
    /\ AccessPart \/ UNCHANGED accessVars

\* what each module assumes of its part, of that part alone
PartsSpec ==
    /\ PartsInit
    /\ [][PartsNext]_<<part, introspectVars, poolVars, trinoVars, guardVars, retryVars,
                      evalVars, metricsVars, accessVars>>
    /\ WF_introspectVars(part = "introspect" /\ GivesUpWaiting /\ Introspects)
    /\ \A j \in Jobs : /\ WF_poolVars(part = "pool" /\ TimesOut(j))
                       /\ WF_poolVars(part = "pool" /\ Close(j))
    /\ WF_trinoVars(part = "trino" /\ Ask("post"))
    /\ WF_trinoVars(part = "trino" /\ Read)
    /\ SF_trinoVars(part = "trino" /\ LimitStrikes)
    /\ WF_retryVars(part = "retry" /\ Proceeds)
    /\ WF_evalVars(part = "eval" /\ EvalNext)

\* Every query, statement on Trino, introspection over HTTP, call of the model and
\* evaluation ends, whatever the servers do: nothing is retried for ever, waits for a
\* connection that never comes, or follows a nextUri without end.
EveryPartEnds ==
    /\ part = "introspect" => IntrospectionEnds
    /\ part = "pool" => EveryQueryEnds
    /\ part = "trino" => StatementEnds
    /\ part = "retry" => CallEnds
    /\ part = "eval" => EvalEnds
=============================================================================

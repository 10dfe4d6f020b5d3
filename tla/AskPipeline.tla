---------------------------- MODULE AskPipeline ----------------------------
(***************************************************************************)
(* InsightKit.ask: a question goes through the result cache, the LLM, the  *)
(* guard, the database and the LLM again, with up to MAX_ATTEMPTS tries,   *)
(* and is audited, cached and announced on its event stream.               *)
(*                                                                         *)
(* Several asks run as coroutines on kits that share one meta store (audit *)
(* log, result cache, schema cache).  An action is what one ask does from  *)
(* one await to the next.  The schema calls an ask makes are the calls of  *)
(* KitSchema: the ask waits in "schema" or "refresh" while they advance,   *)
(* and the action that ends a call also resumes its ask.                   *)
(***************************************************************************)
EXTENDS KitSchema, Sequences

CONSTANTS
    Asks,         \* the tasks that run an ask; the others only use the schema
    Questions,    \* a question with the role and model that go into its key
    Analysis,     \* the questions is_analysis_question sends to _ask_analysis
    Replies,      \* the raw plans an LLM may return
    MaxAttempts,  \* MAX_ATTEMPTS
    MayStop       \* callers may cancel asks and processes may restart

(***************************************************************************)
(* A raw plan, by what parse_sql_plan and the two flows look at: whether   *)
(* it is a JSON object (plain prose counts as one, with needs_data false), *)
(* needs_data, the kind of its sql, whether its reasoning is a substantive *)
(* answer (60 characters or more) and the kinds of its queries.  A query   *)
(* the guard refuses is "unsafe"; a "volatile" one calls a function        *)
(* is_cacheable looks for.                                                 *)
(***************************************************************************)
QueryKind == {"unsafe", "stable", "volatile"}
DataKind == QueryKind \ {"unsafe"}
SqlKind == DataKind \cup {"none"}
Reply == [object : BOOLEAN, needs : BOOLEAN, sql : QueryKind \cup {"none"},
          long : BOOLEAN, queries : Seq(QueryKind)]

Status == {"ok", "no_data", "error"}
Waiting == {"schema", "lookup", "llm", "exec", "refresh", "explain", "final",
            "audit", "audited", "store", "stored"}
Settled == {"answered", "raised", "cancelled", "lost"}
Event == {"cached", "plan", "retry", "schema_refresh", "sql", "result",
          "insight", "chart", "done"}

Key == [question : Questions, version : 0..MaxClock]
Entry == [status : Status, data : SUBSET DataKind, schema : Schema]

ASSUME AskAssumption ==
    /\ Asks \subseteq Tasks
    /\ Analysis \subseteq Questions
    /\ Replies \subseteq Reply
    /\ MaxAttempts \in Nat \ {0}
    /\ MayStop \in BOOLEAN
    /\ None \notin Entry
    /\ None \notin Questions

(***************************************************************************)
(* The locals of each ask.  `sql' is result.sql and the attempt that set   *)
(* it; `long' whether the reasoning of the last plan it read was           *)
(* substantive; `data' the kinds of the queries whose rows are in df or    *)
(* frames; `events' everything its stream callback was given.              *)
(***************************************************************************)
VARIABLES
    ask,    \* the state of each ask
    cache,  \* the rows of the cache table that have not expired
    audit   \* the rows of audit_log, by the ask that wrote them

askVars == <<ask, cache, audit>>
vars == <<schemaVars, askVars>>

NoSql == [kind |-> "none", attempt |-> 0]

Fresh ==
    [at |-> "idle", question |-> None, schema |-> None, version |-> 0, attempts |-> 1,
     declines |-> 0, long |-> FALSE, sql |-> NoSql, status |-> "ok", data |-> {},
     queries |-> <<>>, cached |-> FALSE, events |-> <<>>]

AskState ==
    [at : {"idle"} \cup Waiting \cup Settled, question : Questions \cup {None},
     schema : Schema \cup {None}, version : 0..MaxClock, attempts : 1..MaxAttempts,
     declines : 0..MaxAttempts, long : BOOLEAN,
     sql : [kind : SqlKind, attempt : 0..MaxAttempts], status : Status,
     data : SUBSET DataKind, queries : Seq(QueryKind), cached : BOOLEAN,
     events : Seq(Event)]

AskTypeOK ==
    /\ ask \in [Asks -> AskState]
    /\ cache \in [Key -> Entry \cup {None}]
    /\ audit \in [Asks -> Seq([status : Status, sql : SqlKind])]

AskInit ==
    /\ ask = [a \in Asks |-> Fresh]
    /\ cache = [key \in Key |-> None]
    /\ audit = [a \in Asks |-> <<>>]

(***************************************************************************)
(* What the code between two awaits does to the locals s of an ask.        *)
(***************************************************************************)
At(a, step) == ask[a].at = step
Becomes(a, s) == ask' = [ask EXCEPT ![a] = s]
Moved(s, step) == [s EXCEPT !.at = step]
Emit(s, events) == [s EXCEPT !.events = @ \o events]

\* Mutant: one attempt too many.
NextAttemptOffByOne(s) ==
    IF s.attempts <= MaxAttempts
    THEN [s EXCEPT !.attempts = @ + 1, !.at = "llm"]
    ELSE [s EXCEPT !.status = "error", !.at = "audit"]

\* Mutant: running out of attempts is not made an error.
NextAttemptKeepsStatus(s) ==
    IF s.attempts < MaxAttempts
    THEN [s EXCEPT !.attempts = @ + 1, !.at = "llm"]
    ELSE [s EXCEPT !.at = "audit"]

\* the next iteration of `for attempt in range(MAX_ATTEMPTS)', or its else
NextAttempt(s) ==
    IF s.attempts < MaxAttempts
    THEN [s EXCEPT !.attempts = @ + 1, !.at = "llm"]
    ELSE [s EXCEPT !.status = "error", !.at = "audit"]

Retry(s) == NextAttempt(Emit(s, <<"retry">>))

KeyOf(a) == [question |-> ask[a].question, version |-> ask[a].version]

----------------------------------------------------------------------------
(* From the call to the first prompt *)

Looking(s, k) ==
    [s EXCEPT !.at = "lookup", !.schema = kitSchema'[k], !.version = kitVersion'[k]]

StartsWithSchema(a) ==
    /\ At(a, "idle")
    /\ HoldsSchema(KitOf[a])
    /\ UNCHANGED schemaVars
    /\ \E q \in Questions : Becomes(a, Looking([ask[a] EXCEPT !.question = q], KitOf[a]))
    /\ UNCHANGED <<cache, audit>>

StartsWithout(a) ==
    /\ At(a, "idle")
    /\ BeginGet(a)
    /\ \E q \in Questions :
          Becomes(a, [ask[a] EXCEPT !.at = "schema", !.question = q])
    /\ UNCHANGED <<cache, audit>>

GotSchema(a) ==
    /\ At(a, "schema")
    /\ ReturnLoaded(a) \/ InstallRefreshed(a)
    /\ Becomes(a, Looking(ask[a], KitOf[a]))
    /\ UNCHANGED <<cache, audit>>

\* cache.get found a row: the answer is rebuilt from it and nothing else runs
Hit(a) ==
    LET entry == cache[KeyOf(a)] IN
    /\ At(a, "lookup")
    /\ entry # None
    /\ Becomes(a, Emit([ask[a] EXCEPT !.at = "answered", !.cached = TRUE,
                                      !.status = entry.status, !.data = entry.data],
                       <<"cached">>))
    /\ UNCHANGED <<schemaVars, cache, audit>>

\* a miss, and the few-shot search after it
Miss(a) ==
    /\ At(a, "lookup")
    /\ cache[KeyOf(a)] = None
    /\ Becomes(a, Emit(Moved(ask[a], "llm"), <<"plan">>))
    /\ UNCHANGED <<schemaVars, cache, audit>>

----------------------------------------------------------------------------
(* The LLM's plan *)

ParseFails(r) == ~r.object \/ (r.needs /\ r.sql = "none" /\ r.queries = <<>>)
Declines(r) == ~r.needs \/ r.sql = "none"

\* a direct answer in prose instead of a query
Prose(s) == Emit([s EXCEPT !.status = "no_data", !.at = "audit"], <<"insight">>)

\* Mutant: the first refusal is accepted.
RefusedAtOnce(s) == Prose(Emit([s EXCEPT !.declines = @ + 1], <<"retry">>))

\* one refusal is nudged, the second is accepted
Refused(s) ==
    LET declined == [s EXCEPT !.declines = @ + 1] IN
    IF declined.declines >= 2 THEN Prose(Emit(declined, <<"retry">>)) ELSE Retry(declined)

Query(s, kind) ==
    Emit([s EXCEPT !.sql = [kind |-> kind, attempt |-> s.attempts], !.at = "exec"],
         <<"sql">>)

\* result.reasoning = plan.reasoning
Reasoned(s, r) == [s EXCEPT !.long = r.long]

PlainPlan(s, r) ==
    CASE ParseFails(r) -> Retry(s)
      [] ~ParseFails(r) /\ Declines(r) ->
            IF r.long THEN Prose(Reasoned(s, r)) ELSE Refused(Reasoned(s, r))
      [] ~Declines(r) /\ r.object ->
            IF r.sql = "unsafe" THEN Retry(Reasoned(s, r)) ELSE Query(Reasoned(s, r), r.sql)

\* validation of the next planned query; after the last one, the final prompt
NextQuery(s) ==
    IF s.queries = <<>> THEN [s EXCEPT !.sql = NoSql, !.at = "final"]
    ELSE IF Head(s.queries) = "unsafe" THEN Retry(s)
    ELSE Moved(s, "exec")

AnalysisPlan(s, r) ==
    CASE ParseFails(r) -> Retry(s)
      [] ~ParseFails(r) /\ r.queries = <<>> -> IF r.long THEN Prose(Reasoned(s, r)) ELSE Retry(s)
      [] r.object /\ r.queries # <<>> ->
            NextQuery([s EXCEPT !.queries = r.queries, !.data = {}])

IsAnalysis(a) == ask[a].question \in Analysis

Planned(a) ==
    /\ At(a, "llm")
    /\ \E r \in Replies :
          Becomes(a, IF IsAnalysis(a) THEN AnalysisPlan(ask[a], r) ELSE PlainPlan(ask[a], r))
    /\ UNCHANGED <<schemaVars, cache, audit>>

----------------------------------------------------------------------------
(* The query runs *)

\* the kind of the query being executed
Running(a) == IF IsAnalysis(a) THEN Head(ask[a].queries) ELSE ask[a].sql.kind

\* plain flow: rows to explain, or an empty frame that needs no LLM
Rows(a) ==
    /\ At(a, "exec")
    /\ ~IsAnalysis(a)
    /\ LET s == Emit([ask[a] EXCEPT !.data = {Running(a)}], <<"result">>) IN
          \/ Becomes(a, Moved(s, "explain"))
          \/ Becomes(a, Emit(Moved(s, "audit"), <<"insight">>))
    /\ UNCHANGED <<schemaVars, cache, audit>>

\* analysis flow: the rows join the frames and the next query is up
Frame(a) ==
    /\ At(a, "exec")
    /\ IsAnalysis(a)
    /\ Becomes(a, NextQuery([ask[a] EXCEPT !.data = @ \cup {Running(a)},
                                           !.queries = Tail(@)]))
    /\ UNCHANGED <<schemaVars, cache, audit>>

\* TableNotFoundError in the plain flow; only execute_query raises it
TableMissing(a) ==
    /\ At(a, "exec")
    /\ HasEngine
    /\ ~IsAnalysis(a)
    /\ BeginRefresh(a)
    /\ Becomes(a, Emit(Moved(ask[a], "refresh"), <<"schema_refresh">>))
    /\ UNCHANGED <<cache, audit>>

\* any other DBError, a timeout and a cancellation in execute_query included;
\* in the analysis flow a missing table too
QueryFails(a) ==
    /\ At(a, "exec")
    /\ HasEngine
    /\ Becomes(a, Retry(ask[a]))
    /\ UNCHANGED <<schemaVars, cache, audit>>

\* Mutant: the schema is loaded back from the store, which others may have saved to.
RefreshedFromStore(a) ==
    /\ At(a, "refresh")
    /\ InstallRefreshed(a)
    /\ Becomes(a, NextAttempt([ask[a] EXCEPT
                     !.schema = [tables |-> stored[DbOf[KitOf[a]]], extracted |-> storedAt]]))
    /\ UNCHANGED <<cache, audit>>

\* `schema = self._schema' after refresh_schema
Refreshed(a) ==
    /\ At(a, "refresh")
    /\ InstallRefreshed(a)
    /\ Becomes(a, NextAttempt([ask[a] EXCEPT !.schema = kitSchema'[KitOf[a]]]))
    /\ UNCHANGED <<cache, audit>>

Explained(a) ==
    /\ At(a, "explain")
    /\ \E chart \in {<<>>, <<"chart">>} :
          Becomes(a, Emit(Moved(ask[a], "audit"), <<"insight">> \o chart))
    /\ UNCHANGED <<schemaVars, cache, audit>>

\* the final analysis answer, or a reply with neither insight nor advice
Concluded(a) ==
    /\ At(a, "final")
    /\ \/ Becomes(a, Emit([ask[a] EXCEPT !.status = "ok", !.at = "audit"], <<"insight">>))
       \/ Becomes(a, [ask[a] EXCEPT !.status = "error", !.at = "audit"])
    /\ UNCHANGED <<schemaVars, cache, audit>>

----------------------------------------------------------------------------
(* _finalize: audit, cache, done *)

\* Mutant: only the status is looked at.
IsCacheableVolatile(s) == s.status \in {"ok", "no_data"}

\* Mutant: only the query is looked at.
IsCacheableError(s) == s.sql.kind # "volatile"

IsCacheable(s) == s.status \in {"ok", "no_data"} /\ s.sql.kind # "volatile"

\* the rows the answer rests on; what failed attempts left in frames is not in it
AnswerData(s) == IF s.status = "ok" THEN s.data ELSE {}

\* Mutant: the status is not passed on and AuditLog.record defaults it to "ok".
RecordedAsOk(a) ==
    /\ At(a, "audit")
    /\ audit' = [audit EXCEPT ![a] = Append(@, [status |-> "ok", sql |-> ask[a].sql.kind])]
    /\ Becomes(a, Moved(ask[a], "audited"))
    /\ UNCHANGED <<schemaVars, cache>>

Recorded(a) ==
    /\ At(a, "audit")
    /\ audit' = [audit EXCEPT ![a] =
                    Append(@, [status |-> ask[a].status, sql |-> ask[a].sql.kind])]
    /\ Becomes(a, Moved(ask[a], "audited"))
    /\ UNCHANGED <<schemaVars, cache>>

\* suppress(Exception): the answer goes on without its row
AuditFails(a) ==
    /\ At(a, "audit")
    /\ Becomes(a, Moved(ask[a], "audited"))
    /\ UNCHANGED <<schemaVars, cache, audit>>

Done(s) == Emit(Moved(s, "answered"), <<"done">>)

\* Mutant: "done" is sent only after an answer was cached.
AuditedSilently(a) ==
    /\ At(a, "audited")
    /\ Becomes(a, Moved(ask[a], IF IsCacheable(ask[a]) THEN "store" ELSE "answered"))
    /\ UNCHANGED <<schemaVars, cache, audit>>

\* Mutant: an answer that is not cached is not returned.
AuditedCacheableOnly(a) ==
    /\ At(a, "audited")
    /\ IsCacheable(ask[a])
    /\ Becomes(a, Moved(ask[a], "store"))
    /\ UNCHANGED <<schemaVars, cache, audit>>

Audited(a) ==
    /\ At(a, "audited")
    /\ Becomes(a, IF IsCacheable(ask[a]) THEN Moved(ask[a], "store") ELSE Done(ask[a]))
    /\ UNCHANGED <<schemaVars, cache, audit>>

\* Mutant: the key is computed again when the answer is stored.
StoredUnderNewKey(a) ==
    /\ At(a, "store")
    /\ cache' = [cache EXCEPT ![[question |-> ask[a].question,
                                 version |-> kitVersion[KitOf[a]]]] =
                    [status |-> ask[a].status, data |-> AnswerData(ask[a]),
                     schema |-> ask[a].schema]]
    /\ Becomes(a, Moved(ask[a], "stored"))
    /\ UNCHANGED <<schemaVars, audit>>

\* `schema' is history: the schema the answer was computed with
Stored(a) ==
    /\ At(a, "store")
    /\ cache' = [cache EXCEPT ![KeyOf(a)] =
                    [status |-> ask[a].status, data |-> AnswerData(ask[a]),
                     schema |-> ask[a].schema]]
    /\ Becomes(a, Moved(ask[a], "stored"))
    /\ UNCHANGED <<schemaVars, audit>>

\* Mutant: an answer in prose is finalized inside the loop and again after it.
FinishedTwice(a) ==
    /\ At(a, "stored")
    /\ Becomes(a, IF ask[a].status = "no_data" /\ Len(audit[a]) = 1
                  THEN Moved(ask[a], "audit") ELSE Done(ask[a]))
    /\ UNCHANGED <<schemaVars, cache, audit>>

Finished(a) ==
    /\ At(a, "stored")
    /\ Becomes(a, Done(ask[a]))
    /\ UNCHANGED <<schemaVars, cache, audit>>

----------------------------------------------------------------------------
(* Exceptions, cancellation, restarts, expiry *)

\* nothing in ask handles an LLMError, a failing meta store or an error of the
\* backend that is not a DBError; a failing audit is AuditFails
Raises(a) ==
    /\ ask[a].at \in {"lookup", "llm", "exec", "explain", "final", "store", "stored"}
    /\ Becomes(a, Moved(ask[a], "raised"))
    /\ UNCHANGED <<schemaVars, cache, audit>>

SchemaCallRaises(a) ==
    /\ ask[a].at \in {"schema", "refresh"}
    /\ Abandon(a)
    /\ Becomes(a, Moved(ask[a], "raised"))
    /\ UNCHANGED <<cache, audit>>

\* task.cancel(): CancelledError at the current await.  execute_query turns it
\* into a DBError, so an ask that is executing goes on (QueryFails).
Cancelled(a) ==
    /\ ask[a].at \in Waiting
    /\ ~(At(a, "exec") /\ HasEngine)
    /\ IF ask[a].at \in {"schema", "refresh"} THEN Abandon(a) ELSE UNCHANGED schemaVars
    /\ Becomes(a, Moved(ask[a], "cancelled"))
    /\ UNCHANGED <<cache, audit>>

Cancel(a) == Cancelled(a) \/ QueryFails(a)

\* the asks of a process die with it
ProcessRestarts(k) ==
    /\ Restart(k)
    /\ ask' = [a \in Asks |-> IF KitOf[a] = k /\ ask[a].at \in Waiting
                                 THEN Moved(ask[a], "lost") ELSE ask[a]]
    /\ UNCHANGED <<cache, audit>>

\* the TTL of a row runs out: cache.get no longer returns it
Expires(key) ==
    /\ cache[key] # None
    /\ cache' = [cache EXCEPT ![key] = None]
    /\ UNCHANGED <<schemaVars, ask, audit>>

----------------------------------------------------------------------------
(* Specification *)

AskStarts(a) == StartsWithSchema(a) \/ StartsWithout(a)

\* what an ask does by itself once it runs, exceptions included
AskAdvances(a) ==
    \/ GotSchema(a) \/ Hit(a) \/ Miss(a)
    \/ Planned(a)
    \/ Rows(a) \/ Frame(a) \/ TableMissing(a) \/ QueryFails(a) \/ Refreshed(a)
    \/ Explained(a) \/ Concluded(a)
    \/ Recorded(a) \/ AuditFails(a) \/ Audited(a) \/ Stored(a) \/ Finished(a)
    \/ Raises(a) \/ SchemaCallRaises(a)
    \/ CallAdvances(a) /\ UNCHANGED askVars

\* the other users of the schema: the schema endpoints, the CLI
SchemaTask(t) ==
    /\ CallBegins(t) \/ CallAdvances(t) \/ CallEnds(t)
    /\ UNCHANGED askVars

Init == KitInit /\ AskInit

Next ==
    \/ \E a \in Asks : AskStarts(a) \/ AskAdvances(a) \/ (MayStop /\ Cancel(a))
    \/ \E t \in Tasks \ Asks : SchemaTask(t)
    \/ \E k \in Kits : MayStop /\ ProcessRestarts(k)
    \/ \E key \in Key : Expires(key)

(***************************************************************************)
(* An ask that has started goes on: LLM calls, queries and the meta store  *)
(* end by a timeout at the latest.  Its introspections have none: an ask   *)
(* may wait for the database for ever.  Nobody has to start, stop or       *)
(* restart anything, and rows need not expire.                             *)
(***************************************************************************)
Spec ==
    /\ Init
    /\ [][Next]_vars
    /\ \A a \in Asks : WF_vars(~AwaitsDatabase(a) /\ AskAdvances(a))

----------------------------------------------------------------------------
(* Safety *)

\* An ask is audited at most once, with the status and the query it answers
\* with, and only when it reached _finalize (pipeline.py, the prose answer of the
\* analysis flow finalizes inside the loop and must not be finalized again).
AuditedOnce ==
    \A a \in Asks : audit[a] # <<>> =>
       /\ Len(audit[a]) = 1
       /\ ask[a].at \in {"audited", "store", "stored"} \cup Settled
       /\ audit[a][1] = [status |-> ask[a].status, sql |-> ask[a].sql.kind]

\* the tables are as new as the version, or the load that tore them gave the version
AsNewAs(schema, version) ==
    \/ schema.tables = None /\ schema.extracted >= version
    \/ schema.tables # None /\ schema.tables.at >= version
    \/ Torn(schema) /\ schema.extracted = version

\* An answer found under a key was computed from the tables of the version the key
\* names or of a newer one (an ask whose schema is refreshed on the way stores under the
\* key it began with), but for one case: the ask began with a schema torn by its load,
\* whose rows may be older than its stamp, and kept it to the end (db/cache.py, the
\* two SELECTs of load_schema; a refresh heals it).
CachedNotOlderThanKey ==
    \A key \in Key : cache[key] # None => AsNewAs(cache[key].schema, key.version)

\* Only final answers are cached, and an "ok" one rests on rows (_finalize).
CachedAnswersSound ==
    \A key \in Key : cache[key] # None =>
       /\ cache[key].status # "error"
       /\ cache[key].status = "ok" => cache[key].data # {}

\* No answer computed from a volatile query is cached for a plain question, even
\* when several attempts ran different queries (cache.py, is_cacheable).
NoVolatileCached ==
    \A key \in Key :
       cache[key] # None /\ key.question \notin Analysis => "volatile" \notin cache[key].data

\* An "ok" answer of the plain flow reports the query of its last attempt, and the
\* rows it explains are that query's; no "ok" answer has no rows.
OkAnswersRestOnTheirQuery ==
    \A a \in Asks :
       ask[a].at \in {"audit", "audited", "store", "stored"} /\ ask[a].status = "ok" =>
          /\ ask[a].data # {}
          /\ ~IsAnalysis(a) => /\ ask[a].data = {ask[a].sql.kind}
                               /\ ask[a].sql.attempt = ask[a].attempts

\* A plain ask that is not a hit reports an error only after all its attempts, and says
\* that there is no data only after two refusals or a substantive answer; the second
\* refusal always ends it (pipeline.py, decline_count and the for-else).
GivesUpOnlyAtTheEnd ==
    \A a \in Asks :
       ~IsAnalysis(a) /\ ~ask[a].cached =>
          /\ ask[a].status = "error" => ask[a].attempts = MaxAttempts
          /\ ask[a].status = "no_data" => ask[a].long \/ ask[a].declines = 2
          /\ ask[a].declines >= 2 => ask[a].status = "no_data"

\* The stream: "plan" opens it or "cached" is all of it, rows and drift reports
\* follow a query at once, nothing follows "done" and "done" means answered; and
\* whoever returns an answer has announced it.
StreamShape ==
    \A a \in Asks :
       LET events == ask[a].events  last == Len(events) IN
       /\ \A i \in 1..last :
             /\ events[i] = "plan" <=> i = 1 /\ ~ask[a].cached
             /\ events[i] \in {"result", "schema_refresh"} => events[i - 1] = "sql"
             /\ events[i] = "chart" => events[i - 1] = "insight"
             /\ events[i] \in {"done", "cached"} => i = last /\ At(a, "answered")
       /\ At(a, "answered") => last > 0 /\ events[last] \in {"done", "cached"}

----------------------------------------------------------------------------
(* Action properties *)

\* An ask whose query missed a table goes on with a schema extracted after the one it
\* had, whatever other tasks do to the kit in between (refresh_schema always
\* introspects; the stored copy would not do), and nothing else replaces its schema.
RefreshIsNewer ==
    [][\A a \in Asks :
          \/ ask[a].schema # None /\ ask'[a].schema # ask[a].schema
          \/ At(a, "refresh") /\ ask'[a].at \in {"llm", "audit"}
          => ask'[a].schema.extracted > ask[a].schema.extracted]_vars

\* Every ask that starts is answered, raises or is stopped, whatever the LLM replies and
\* its queries do: the attempt loop terminates.  Only an introspection that never ends can
\* keep it (pipeline.py, get_schema and refresh_schema; no limit is set there).
EveryAskSettles ==
    \A a \in Asks :
       ask[a].at \in Waiting ~> (ask[a].at \in Settled \/ []AwaitsDatabase(a))
----------------------------------------------------------------------------
(* Claims of the documentation *)

\* CHANGELOG.md: volatile queries are not cached, whichever flow ran them.
VolatileIsNeverCached ==
    \A key \in Key : cache[key] # None => "volatile" \notin cache[key].data

\* README.md: a failed execution is tried again, up to three times; an ask does not
\* end in an exception of its query.
FailedQueriesAreRetried ==
    [][\A a \in Asks : At(a, "exec") => ask'[a].at # "raised"]_vars
=============================================================================

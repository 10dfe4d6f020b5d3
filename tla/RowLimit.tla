------------------------------ MODULE RowLimit ------------------------------
(***************************************************************************)
(* How the guard bounds what a query may return: enforce_row_limit on SQL  *)
(* and the $limit of validate_mongo (security/guard.py).                   *)
(*                                                                         *)
(* A statement is a sequence of clauses: its head, "select" or "utility"   *)
(* (SHOW, PRAGMA), then subqueries with a LIMIT n inside ("sub"), and at   *)
(* the end "limit" n, which "offset" or the MySQL form "limit k, n"        *)
(* ("comma" n) may follow.  What has no LIMIT in it is left out.           *)
(***************************************************************************)
EXTENDS Naturals, Sequences, FiniteSetsExt

CONSTANTS
    Statements,   \* the statements to guard
    Pipelines,    \* the aggregation pipelines to guard
    Limits,       \* security.row_limit
    Docs,         \* bound: documents in a collection, rows of an unlimited query
    Fan           \* bound: the most elements an array has

\* clauses of statements and stages of pipelines
Clauses ==
    [kind : {"select", "utility", "sub", "limit", "offset", "comma", "match", "unwind"}, n : Nat]

ASSUME RowLimitAssumption ==
    /\ Statements \cup Pipelines \subseteq Seq(Clauses)
    /\ Limits \subseteq Nat
    /\ Docs \in Nat
    /\ Fan \in Nat \ {0}

VARIABLES
    query,     \* the statement or pipeline
    limit,
    verdict    \* "none" yet, "raised" or "passed"

guardVars == <<query, limit, verdict>>

Clause(kind, n) == [kind |-> kind, n |-> n]

\* where \blimit\s+(\d+) matches
Matches(sql) == {i \in DOMAIN sql : sql[i].kind \in {"limit", "sub"}}

\* Mutant: the number of the last match decides, wherever it stands.
enforce_row_limit_anywhere(sql, n) ==
    IF Matches(sql) = {} THEN Append(sql, Clause("limit", n))
    ELSE LET last == Max(Matches(sql)) IN
         IF sql[last].n > n THEN [sql EXCEPT ![last].n = n] ELSE sql

\* the last match is the limit of the statement only if nothing follows it
enforce_row_limit(sql, n) ==
    LET last == Max(Matches(sql)) IN
    IF Matches(sql) = {} \/ sql[last].kind = "sub" \/ last < Len(sql)
    THEN Append(sql, Clause("limit", n))
    ELSE IF sql[last].n > n THEN [sql EXCEPT ![last].n = n]
    ELSE sql

\* the end of validate_mongo: any $limit will do
mongo_limited(pipeline, n) ==
    IF n > 0 /\ \A i \in DOMAIN pipeline : pipeline[i].kind # "limit"
    THEN Append(pipeline, Clause("limit", n)) ELSE pipeline

GuardInit ==
    /\ query \in {[sql |-> TRUE, body |-> s] : s \in Statements}
                 \cup {[sql |-> FALSE, body |-> p] : p \in Pipelines}
    /\ limit \in Limits
    /\ verdict = [kind |-> "none"]

Guard ==
    /\ verdict.kind = "none"
    /\ verdict' = IF ~query.sql THEN [kind |-> "passed", body |-> mongo_limited(query.body, limit)]
                  ELSE IF limit = 0 THEN [kind |-> "raised"]
                  ELSE [kind |-> "passed", body |-> enforce_row_limit(query.body, limit)]
    /\ UNCHANGED <<query, limit>>

GuardSpec == GuardInit /\ [][Guard]_guardVars

----------------------------------------------------------------------------
(* What statements and pipelines mean *)

\* head, subqueries, and at the end a limit with at most one continuation
Valid(sql) ==
    /\ sql # <<>>
    /\ \/ sql[1].kind = "utility" /\ Len(sql) = 1
       \/ /\ sql[1].kind = "select"
          /\ \E m \in 1..Len(sql) :
                /\ \A i \in 2..m : sql[i].kind = "sub"
                /\ \/ m = Len(sql)
                   \/ m + 1 = Len(sql) /\ sql[m + 1].kind = "limit"
                   \/ /\ m + 2 = Len(sql)
                      /\ sql[m + 1].kind = "limit"
                      /\ sql[m + 2].kind \in {"offset", "comma"}

\* how many rows a valid statement may return
RowsOf(sql) ==
    LET end == sql[Len(sql)] IN
    CASE end.kind \in {"limit", "comma"} -> Min({Docs, end.n})
      [] end.kind = "offset" -> Min({Docs, sql[Len(sql) - 1].n})
      [] OTHER -> Docs

\* how many of n documents, or of what it makes of them, a stage may let through
Stage(n, s) ==
    CASE s.kind = "limit" -> Min({n, s.n})
      [] s.kind = "unwind" -> n * Fan
      [] OTHER -> n

\* how many documents a pipeline may return
DocsOf(pipeline) ==
    LET docs[i \in 0..Len(pipeline)] ==
            IF i = 0 THEN Docs ELSE Stage(docs[i - 1], pipeline[i])
    IN  docs[Len(pipeline)]

Passed == verdict.kind = "passed"

\* the statement ends with its own limit or without one: nothing follows the limit
EndsPlainly(sql) == sql[1].kind = "select" /\ sql[Len(sql)].kind \notin {"offset", "comma"}

OwnLimit(pipeline) == \E i \in DOMAIN pipeline : pipeline[i].kind = "limit"

\* what is limited stays a valid statement, returns the rows it asked for up to
\* row_limit, and its subqueries keep the limits they had; a statement with an OFFSET,
\* with "limit k, n", or that is no query, is one no database accepts any more
StatementsAreLimitedExactly ==
    Passed /\ query.sql /\ Valid(query.body) =>
       IF EndsPlainly(query.body)
       THEN /\ Valid(verdict.body)
            /\ RowsOf(verdict.body) = Min({RowsOf(query.body), limit})
            /\ \A i \in DOMAIN query.body :
                  query.body[i].kind = "sub" => verdict.body[i] = query.body[i]
       ELSE ~Valid(verdict.body)

\* a pipeline without a $limit returns the documents it asked for up to row_limit,
\* however its stages multiply them; with a $limit, as many as it asked for
PipelinesAreLimitedUnlessTheyAre ==
    Passed /\ ~query.sql =>
       DocsOf(verdict.body) = IF OwnLimit(query.body) \/ limit = 0 THEN DocsOf(query.body)
                              ELSE Min({DocsOf(query.body), limit})

\* What the guard makes of every statement and pipeline: no more rows than row_limit and
\* none of those within it lost, in whatever clause a LIMIT stands, or a statement that
\* fails; of pipelines only those without a $limit of their own are limited
\* (enforce_row_limit, validate_mongo).
RowsAreLimitedExactly == StatementsAreLimitedExactly /\ PipelinesAreLimitedUnlessTheyAre

----------------------------------------------------------------------------
(* Claims of the documentation *)

\* docs/security.md and the docstring of validate_mongo: the row limit is enforced, by
\* LIMIT and on MongoDB by $limit: what the guard lets through returns no more than
\* row_limit rows or documents.
RowLimitIsEnforced ==
    Passed /\ limit > 0 =>
       IF query.sql THEN Valid(verdict.body) => RowsOf(verdict.body) <= limit
       ELSE DocsOf(verdict.body) <= limit
=============================================================================

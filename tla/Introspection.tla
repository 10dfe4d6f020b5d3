--------------------------- MODULE Introspection ---------------------------
(***************************************************************************)
(* How a backend describes its database (db/introspect.py and the          *)
(* introspect methods of db/backends.py).                                  *)
(*                                                                         *)
(* Nothing is read in one piece.  PostgreSQL and MySQL are asked four      *)
(* questions about the whole database, in any order (asyncio.gather);      *)
(* SQLite, MongoDB, OpenSearch and Trino are asked for the names and then  *)
(* about each of them.  Others may change the schema in between.  The      *)
(* samples come last, one query per categorical column, in any order.      *)
(*                                                                         *)
(* Any statement may fail (connection, privileges, driver, HTTP status).   *)
(*                                                                         *)
(* A table is a shape: its columns with their kind, its primary key, its   *)
(* foreign keys.  A constraint has a name and refers from[i] to to[i], a   *)
(* table and a column; a column of None leaves the target to the key of    *)
(* the table.                                                              *)
(***************************************************************************)
EXTENDS NoValue, Naturals, Sequences, FiniteSets, Functions

CONSTANTS
    Dialects,   \* the dialects of this instance
    Tables,     \* numbers, in the order of the names
    Shapes,     \* what a table can look like
    MaxDDL      \* bound: changes of the schema while it is read

SQL == {"postgresql", "mysql", "sqlite"}
Bulk == {"postgresql", "mysql"}
Kinds == {"number", "text", "blank", "json"}

ASSUME IntrospectionAssumption ==
    /\ Dialects \subseteq SQL \cup {"mongodb", "opensearch", "trino"}
    /\ Tables \subseteq Nat \ {0}
    /\ \A s \in Shapes : /\ s.cols \in [DOMAIN s.cols -> Kinds]
                         /\ s.pk \subseteq DOMAIN s.cols
                         /\ \A k \in s.fks : /\ DOMAIN k.from = DOMAIN k.to
                                             /\ Range(k.from) \subseteq DOMAIN s.cols
                                             /\ \A i \in DOMAIN k.to : k.to[i][1] \in Tables
    /\ MaxDDL \in Nat

VARIABLES
    dialect,
    site,     \* whether there is a view, and the tables the role of the url owns
    db,       \* the shape of each table now
    past,     \* history: the shapes each table has had since the introspection began
    ddl,      \* how often the schema was changed
    readPc,       \* "reading", "sampling", "done" or "failed"
    todo,     \* the statements not yet run: what is asked, and of which table (0: of all)
    names, columns, pks, fks, counts,   \* what the statements returned
    samples,  \* the columns with sample values, and what kind of value that is
    aborted,  \* the transaction of the connection refuses further statements
    refused   \* history: the sample queries that failed for a reason of the server's

answers == <<names, columns, pks, fks, counts>>
introspectVars == <<dialect, site, db, past, ddl, readPc, todo, answers, samples, aborted, refused>>

Empty == [c \in {} |-> None]
Nowhere == [cols |-> Empty, pk |-> {}, fks |-> {}]
\* what a question about a table that is not there is answered with, when it is
Now(t) == IF db[t] = None THEN Nowhere ELSE db[t]
Real == {t \in Tables : db[t] # None}

IntrospectTypeOK ==
    /\ dialect \in Dialects
    /\ site \in [view : BOOLEAN, owned : SUBSET Tables]
    /\ db \in [Tables -> Shapes \cup {None}]
    /\ readPc \in {"reading", "sampling", "done", "failed"}
    /\ names \subseteq Tables
    /\ counts \subseteq Tables
    /\ \A t \in Tables : pks[t] \subseteq DOMAIN columns[t]
    /\ \A s \in DOMAIN samples : s[1] \in names /\ samples[s] \in {"value", "literal"}
    /\ aborted \in BOOLEAN

----------------------------------------------------------------------------
(* The statements *)

\* every way to give each u in S one of the answers it may get
AnswersTo(S, Possible(_)) ==
    {f \in [S -> UNION {Possible(u) : u \in S}] : \A u \in S : f[u] \in Possible(u)}

\* old, with the answers f about some of the tables
Updated(old, f) == [u \in DOMAIN old |-> IF u \in DOMAIN f THEN f[u] ELSE old[u]]

\* what is asked of each table, or of all at once
Asked == CASE dialect \in SQL -> {"columns", "fks", "counts"}
           [] dialect = "mongodb" -> {"columns", "counts"}
           [] OTHER -> {"columns"}

\* SQLite runs three loops side by side; the others do one thing at a time,
\* MongoDB the document before its count
Before(a, b) == IF dialect = "sqlite" THEN a[1] = b[1] /\ a[2] < b[2]
                ELSE dialect \notin Bulk /\ (a[2] < b[2] \/ (a[2] = b[2] /\ a[1] = "columns"))

Scope(t) == IF t = 0 THEN Tables ELSE {t}

\* a statement Trino fails midway is taken for the rows it has sent, here in order
ShownNames == IF dialect = "trino" THEN {Real \cap 1..n : n \in Tables \cup {0}} ELSE {Real}

\* OpenSearch lists the counts with the names
ReadNames ==
    /\ names' \in ShownNames
    /\ counts' = IF dialect = "opensearch" THEN Real ELSE counts
    /\ todo' = (todo \ {<<"names", 0>>}) \cup (IF dialect \in Bulk THEN {} ELSE Asked \X names')
    /\ UNCHANGED <<columns, pks, fks>>

\* MongoDB shows the keys of one document, Trino the rows it has sent
ShowsParts == dialect \in {"mongodb", "trino"}

ShownColumns(t) ==
    {Restrict(Now(t).cols, keys) :
        keys \in IF ShowsParts THEN SUBSET DOMAIN Now(t).cols ELSE {DOMAIN Now(t).cols}}

\* only MySQL and SQLite tell the primary key
ShownKey(t) == IF dialect \in {"mysql", "sqlite"} THEN Now(t).pk ELSE {}

ReadColumns(t) ==
    /\ \E f \in AnswersTo(Scope(t), ShownColumns) : columns' = Updated(columns, f)
    /\ pks' = Updated(pks, [u \in Scope(t) |-> ShownKey(u)])
    /\ todo' = todo \ {<<"columns", t>>}
    /\ UNCHANGED <<names, fks, counts>>

\* what column c of a table of shape s refers to
Targets(s, c) ==
    UNION {{k.to[i] : i \in {j \in DOMAIN k.to : k.from[j] = c}} : k \in s.fks}

Referring(s) == UNION {Range(k.from) : k \in s.fks}

\* the constraints of any table that have the name of one of table t
Namesakes(t) ==
    {k \in UNION {Now(u).fks : u \in Tables} : \E mine \in Now(t).fks : mine.name = k.name}

\* Joined on the name of the constraint alone: whatever column a namesake is on meets
\* whatever column one refers to.  The views show a role the constraints of its own
\* tables, and the targets among them.
_fks_pg(t, c) ==
    {to \in UNION {Range(k.to) : k \in {l \in Namesakes(t) :
                         \E m \in Namesakes(t) : m.name = l.name /\ c \in Range(m.from)}} :
        t \in site.owned /\ to[1] \in site.owned}

_fks_mysql(t, c) == Targets(Now(t), c)

\* an unnamed target is taken to be "id"
_fks_sqlite(t, c) == {<<to[1], IF to[2] = None THEN "id" ELSE to[2]>> : to \in Targets(Now(t), c)}

ShownTargets(t, c) ==
    CASE dialect = "postgresql" -> _fks_pg(t, c)
      [] dialect = "mysql" -> _fks_mysql(t, c)
      [] dialect = "sqlite" -> _fks_sqlite(t, c)

\* one answer per column stays: the last row
ShownFks(t) ==
    LET OfColumn(c) == ShownTargets(t, c)
    IN AnswersTo({c \in UNION {Referring(Now(u)) : u \in Tables} : OfColumn(c) # {}}, OfColumn)

ReadFks(t) ==
    /\ \E f \in AnswersTo(Scope(t), ShownFks) : fks' = Updated(fks, f)
    /\ todo' = todo \ {<<"fks", t>>}
    /\ UNCHANGED <<names, columns, pks, counts>>

\* an estimate, only for the tables that have been analysed
_row_counts_pg == SUBSET Real

_row_counts_mysql == {Real}

\* Mutant: every round of the loop starts a dictionary of its own.
_row_counts_anew(t) == {{t}}

_row_counts_sqlite(t) == {counts \cup {t}}

ReadCounts(t) ==
    /\ counts' \in CASE dialect = "postgresql" -> _row_counts_pg
                     [] dialect = "mysql" -> _row_counts_mysql
                     [] OTHER -> _row_counts_sqlite(t)
    /\ todo' = todo \ {<<"counts", t>>}
    /\ UNCHANGED <<names, columns, pks, fks>>

\* the statements that cannot succeed: COUNT of a table that is gone, the mapping of an
\* index that is gone (404), and int() of the row count MySQL does not have for a view
Raises(part, t) ==
    CASE part = "counts" -> (dialect = "sqlite" /\ db[t] = None) \/ (dialect = "mysql" /\ site.view)
      [] part = "columns" -> dialect = "opensearch" /\ db[t] = None
      [] OTHER -> FALSE

\* the next statement is answered, or raises and with it the introspection
Statement ==
    /\ readPc = "reading"
    /\ \E s \in todo :
          /\ \A other \in todo \ {s} : ~Before(other, s)
          /\ \/ /\ ~Raises(s[1], s[2])
                /\ \/ s[1] = "names" /\ ReadNames
                   \/ s[1] = "columns" /\ ReadColumns(s[2])
                   \/ s[1] = "fks" /\ ReadFks(s[2])
                   \/ s[1] = "counts" /\ ReadCounts(s[2])
                /\ UNCHANGED readPc
             \/ readPc' = "failed" /\ UNCHANGED <<todo, answers>>
    /\ UNCHANGED <<dialect, site, db, past, ddl, samples, aborted, refused>>

----------------------------------------------------------------------------
(* Putting the answers together, and the samples *)

\* the columns whose values are listed
Categorical(t) == {c \in DOMAIN columns[t] : columns[t][c] # "number"}

\* Mutant: the references are kept by name whatever columns there are.
_apply_fks_blindly(t) == fks[t]

\* a reference is kept for a column that was reported
_apply_fks(t) == Restrict(fks[t], DOMAIN fks[t] \cap DOMAIN columns[t])

Assembled ==
    /\ readPc = "reading"
    /\ todo = {}
    /\ readPc' = IF dialect \in SQL THEN "sampling" ELSE "done"
    /\ todo' = IF dialect \in SQL THEN UNION {Categorical(t) \X {t} : t \in names} ELSE {}
    /\ fks' = [t \in Tables |-> _apply_fks(t)]
    /\ UNCHANGED <<dialect, site, db, past, ddl, names, columns, pks, counts, samples, aborted, refused>>

\* "t" in double quotes is a string to MySQL, and no table.  PostgreSQL cannot
\* compare JSON values, and a failed statement fails the rest of its transaction.
SampleFails(c, t) ==
    \/ dialect = "mysql"
    \/ db[t] = None
    \/ dialect = "postgresql" /\ (aborted \/ c \notin DOMAIN db[t].cols \/ db[t].cols[c] = "json")

\* a failure is suppressed
FailedSample ==
    /\ aborted' = TRUE
    /\ UNCHANGED samples

\* SQLite reads a column that is gone as a string
SampleOf(c, t) ==
    /\ samples' = IF c \in DOMAIN Now(t).cols /\ Now(t).cols[c] = "blank" THEN samples
                  ELSE [x \in DOMAIN samples \cup {<<t, c>>} |->
                          IF x # <<t, c>> THEN samples[x]
                          ELSE IF c \in DOMAIN Now(t).cols THEN "value" ELSE "literal"]
    /\ UNCHANGED aborted

\* one query of _samples
Sample ==
    /\ readPc = "sampling"
    /\ \E s \in todo : LET c == s[1]  t == s[2] IN
          /\ todo' = todo \ {s}
          /\ IF SampleFails(c, t) THEN FailedSample /\ UNCHANGED refused
             ELSE \/ FailedSample /\ refused' = refused \cup {<<t, c>>}
                  \/ SampleOf(c, t) /\ UNCHANGED refused
    /\ UNCHANGED <<dialect, site, db, past, ddl, readPc, answers>>

Sampled ==
    /\ readPc = "sampling"
    /\ todo = {}
    /\ readPc' = "done"
    /\ UNCHANGED <<dialect, site, db, past, ddl, todo, answers, samples, aborted, refused>>

\* the owner of the database creates, drops or alters a table
Change ==
    /\ readPc \in {"reading", "sampling"}
    /\ ddl < MaxDDL
    /\ ddl' = ddl + 1
    /\ \E t \in Tables : \E s \in (Shapes \cup {None}) \ {db[t]} :
          /\ db' = [db EXCEPT ![t] = s]
          /\ past' = [past EXCEPT ![t] = @ \cup {s}]
    /\ UNCHANGED <<dialect, site, readPc, todo, answers, samples, aborted, refused>>

IntrospectInit ==
    /\ dialect \in Dialects
    /\ site \in [view : BOOLEAN, owned : SUBSET Tables]
    /\ db \in [Tables -> Shapes \cup {None}]
    /\ past = [t \in Tables |-> {db[t]}]
    /\ ddl = 0
    /\ readPc = "reading"
    /\ todo = {<<"names", 0>>} \cup (IF dialect \in Bulk THEN Asked \X {0} ELSE {})
    /\ names = {} /\ counts = {}
    /\ columns = [t \in Tables |-> Empty]
    /\ pks = [t \in Tables |-> {}]
    /\ fks = [t \in Tables |-> Empty]
    /\ samples = Empty
    /\ aborted = FALSE
    /\ refused = {}

Introspects == Statement \/ Assembled \/ Sample \/ Sampled

IntrospectNext == Introspects \/ Change

\* the backends whose client gives up on a request that is not answered (httpx: 15 s and
\* 20 s).  The drivers of the others wait for ever, and so does introspect.
GivesUpWaiting == dialect \in {"opensearch", "trino"}

IntrospectSpec ==
    /\ IntrospectInit
    /\ [][IntrospectNext]_introspectVars
    /\ WF_introspectVars(GivesUpWaiting /\ Introspects)

----------------------------------------------------------------------------
(* Properties *)

Untouched(t) == past[t] = {db[t]}

\* A reference that is reported leads where the constraint leads: to the column paired
\* with it, or to the key of the table when the constraint names none (_fks_pg,
\* _fks_mysql, _fks_sqlite).
RefsAreReal ==
    readPc = "done" =>
       \A t \in names : Untouched(t) =>
          \A c \in DOMAIN fks[t] :
             \E to \in Targets(db[t], c) :
                /\ fks[t][c][1] = to[1]
                /\ fks[t][c][2] \in IF to[2] = None THEN Now(to[1]).pk ELSE {to[2]}

\* The columns of the primary key are marked as such (the is_pk of ColumnMeta).
KeysAreMarked ==
    readPc = "done" => \A t \in names : Untouched(t) => pks[t] = db[t].pk

\* Every categorical column with values has samples, unless its table was changed or the
\* server failed its own query: a sample query that fails costs only its own column
\* (_samples, return_exceptions).
SamplesAreComplete ==
    readPc = "done" =>
       \A t \in names : Untouched(t) =>
          \A c \in Categorical(t) :
             columns[t][c] # "blank" => <<t, c>> \in DOMAIN samples \cup refused

\* no two tables have had constraints of one name
ConstraintsAreNamedApart ==
    \A t, u \in Tables : \A r \in past[t] \ {None}, s \in past[u] \ {None} :
       \A k \in r.fks, l \in s.fks : k.name = l.name => t = u

\* the references can all be told: always on MySQL and SQLite, on PostgreSQL by the owner
\* of the tables if constraints are named apart
ShowsReferences ==
    \/ dialect \in {"mysql", "sqlite"}
    \/ dialect = "postgresql" /\ site.owned = Tables /\ ConstraintsAreNamedApart

\* What is reported of a table nobody changed while the database was read is true,
\* whatever happened to the others and whichever statements failed: it exists, and its
\* columns are its own.  It is reported, with all its columns (MongoDB: some; Trino: some
\* or no tables, some or no columns), its row count and a reference for every column that
\* has one where those can be told (ShowsReferences); with its keys and where its
\* references lead on MySQL and SQLite, and with its samples on SQLite (introspect and its
\* statements, which share no transaction).
UntouchedAreExact ==
    /\ readPc = "done" =>
          \A t \in Tables : Untouched(t) =>
             /\ t \in names => db[t] # None
             /\ dialect # "trino" /\ db[t] # None => t \in names
             /\ t \in names =>
                   /\ IsRestriction(columns[t], db[t].cols)
                   /\ ~ShowsParts => columns[t] = db[t].cols
                   /\ ShowsReferences => DOMAIN fks[t] = Referring(db[t])
                   /\ dialect \in {"mysql", "sqlite", "mongodb", "opensearch"} => t \in counts
    /\ dialect \in {"mysql", "sqlite"} => KeysAreMarked /\ RefsAreReal
    /\ dialect = "sqlite" => SamplesAreComplete

\* However the schema changed meanwhile, the columns reported for a table are those it
\* had at one moment of the introspection, and no reference hangs off a column that is
\* not reported (the cols.get and _apply_fks of introspect).
DescriptionsAreOfOneMoment ==
    readPc = "done" =>
       \A t \in names :
          /\ \E s \in past[t] \cup {None} :
                IF s = None THEN columns[t] = Empty ELSE IsRestriction(columns[t], s.cols)
          /\ DOMAIN fks[t] \subseteq DOMAIN columns[t]

\* An introspection over HTTP ends, done or failed: introspect asks for finitely many
\* tables, one after the other, and its client gives up on each request in time.
IntrospectionEnds == GivesUpWaiting => <>(readPc \in {"done", "failed"})

\* What CHANGELOG.md says of introspection: it extracts the columns with their keys,
\* references and samples, on every SQL dialect.
SchemaIsExtracted == dialect \in SQL => KeysAreMarked /\ RefsAreReal /\ SamplesAreComplete
=============================================================================

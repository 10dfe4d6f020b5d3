----------------------------- MODULE KitSchema -----------------------------
(***************************************************************************)
(* The database schema an InsightKit works with: the copy each kit holds   *)
(* in memory (_schema, _schema_version), the copy in the SQLite meta store *)
(* (tables schema_meta and meta_info), and the calls of get_schema,        *)
(* refresh_schema and init that move a schema between them.                *)
(*                                                                         *)
(* A kit belongs to a process; kits of several processes may share one     *)
(* meta store.  A task is a coroutine that calls into its kit.  A step of  *)
(* a task runs from one await to the next, so everything between two       *)
(* awaits is one action and other tasks interleave at the awaits.          *)
(*                                                                         *)
(* `clock' stands for the wall clock that stamps a schema (extracted_at):  *)
(* every introspection takes a stamp of its own.  What the introspection   *)
(* read is a snapshot [db, at]: the database it was read from and the      *)
(* stamp of that introspection.  None is the absence of tables (or of a    *)
(* schema).                                                                *)
(***************************************************************************)
EXTENDS Naturals, FiniteSets

CONSTANTS
    Kits,       \* InsightKit objects
    Tasks,      \* coroutines that call a kit
    KitOf,      \* the kit a task calls
    Databases,  \* the databases, one db_key each
    DbOf,       \* the database a kit is configured for
    HasEngine,  \* the backend is SQL: only then is the schema persisted
    MaxClock,   \* bound: introspections that succeed
    None

Snapshot == [db : Databases, at : 1..MaxClock]
Schema == [tables : Snapshot \cup {None}, extracted : 1..MaxClock]

ASSUME KitAssumption ==
    /\ KitOf \in [Tasks -> Kits]
    /\ DbOf \in [Kits -> Databases]
    /\ HasEngine \in BOOLEAN
    /\ MaxClock \in Nat
    /\ None \notin Snapshot
    /\ None \notin Schema

VARIABLES
    clock,       \* the last stamp given to a schema
    kitSchema,   \* self._schema of each kit
    kitVersion,  \* self._schema_version of each kit, 0 for the initial "0"
    stored,      \* the rows of schema_meta under each db_key
    storedAt,    \* meta_info['schema_extracted_at'], 0 while it is missing
    saved,       \* history: the db_key and the stamp of every save committed
    call         \* where each task is in a call on its kit

kitVars == <<kitSchema, kitVersion>>
storeVars == <<stored, storedAt, saved>>
schemaVars == <<clock, kitVars, storeVars, call>>

(***************************************************************************)
(* A call in progress: the await it is at, the rows load_schema has read   *)
(* and the schema it is about to install.                                  *)
(***************************************************************************)
CallStep == {"idle", "ping", "rows", "stamp", "loaded", "introspect", "save", "install"}

Idle == [at |-> "idle", rows |-> None, meta |-> None]

KitTypeOK ==
    /\ clock \in 0..MaxClock
    /\ kitSchema \in [Kits -> Schema \cup {None}]
    /\ kitVersion \in [Kits -> 0..MaxClock]
    /\ stored \in [Databases -> Snapshot \cup {None}]
    /\ storedAt \in 0..MaxClock
    /\ saved \in SUBSET Snapshot
    /\ call \in [Tasks -> [at : CallStep, rows : Snapshot \cup {None},
                           meta : Schema \cup {None}]]

KitInit ==
    /\ clock = 0
    /\ kitSchema = [k \in Kits |-> None]
    /\ kitVersion = [k \in Kits |-> 0]
    /\ stored = [d \in Databases |-> None]
    /\ storedAt = 0
    /\ saved = {}
    /\ call = [t \in Tasks |-> Idle]

GoTo(t, step) == call' = [call EXCEPT ![t].at = step]

(***************************************************************************)
(* Calls.  get_schema returns at once when the kit holds a schema (no      *)
(* action: nothing changes); otherwise it loads, and refreshes when there  *)
(* is nothing to load.                                                     *)
(***************************************************************************)
HoldsSchema(k) == kitSchema[k] # None

BeginGet(t) ==
    /\ call[t] = Idle
    /\ ~HoldsSchema(KitOf[t])
    /\ GoTo(t, IF HasEngine THEN "rows" ELSE "introspect")
    /\ UNCHANGED <<clock, kitVars, storeVars>>

BeginRefresh(t) ==
    /\ call[t] = Idle
    /\ GoTo(t, "introspect")
    /\ UNCHANGED <<clock, kitVars, storeVars>>

BeginInit(t) ==
    /\ call[t] = Idle
    /\ GoTo(t, "ping")
    /\ UNCHANGED <<clock, kitVars, storeVars>>

Pinged(t) ==
    /\ call[t].at = "ping"
    /\ GoTo(t, "introspect")
    /\ UNCHANGED <<clock, kitVars, storeVars>>

(***************************************************************************)
(* load_schema: two SELECTs outside a transaction.  The stamp is one value *)
(* for the whole store, not one per db_key.                                *)
(***************************************************************************)
\* Mutant: the WHERE db_key is forgotten.
LoadAnyRows(t) ==
    /\ call[t].at = "rows"
    /\ \E d \in Databases : call' = [call EXCEPT ![t].at = "stamp", ![t].rows = stored[d]]
    /\ UNCHANGED <<clock, kitVars, storeVars>>

LoadRows(t) ==
    /\ call[t].at = "rows"
    /\ call' = [call EXCEPT ![t].at = "stamp", ![t].rows = stored[DbOf[KitOf[t]]]]
    /\ UNCHANGED <<clock, kitVars, storeVars>>

\* Mutant: no rows are taken for a schema without tables.
AlwaysBuilt(rows, stamp) == [tables |-> rows, extracted |-> stamp]

Built(rows, stamp) ==
    IF rows = None THEN None ELSE [tables |-> rows, extracted |-> stamp]

LoadStamp(t) ==
    /\ call[t].at = "stamp"
    /\ call' = [call EXCEPT ![t].at = "loaded",
                            ![t].meta = Built(call[t].rows,
                                              IF storedAt = 0 THEN clock ELSE storedAt)]
    /\ UNCHANGED <<clock, kitVars, storeVars>>

\* Mutant: _schema_version is not set after a load.
ReturnLoadedUnversioned(t) ==
    /\ call[t].at = "loaded"
    /\ call[t].meta # None
    /\ kitSchema' = [kitSchema EXCEPT ![KitOf[t]] = call[t].meta]
    /\ call' = [call EXCEPT ![t] = Idle]
    /\ UNCHANGED <<clock, kitVersion, storeVars>>

\* get_schema assigns what load_schema returned, and is done when it is a schema
ReturnLoaded(t) ==
    LET k == KitOf[t]  meta == call[t].meta IN
    /\ call[t].at = "loaded"
    /\ meta # None
    /\ kitSchema' = [kitSchema EXCEPT ![k] = meta]
    /\ kitVersion' = [kitVersion EXCEPT ![k] = meta.extracted]
    /\ call' = [call EXCEPT ![t] = Idle]
    /\ UNCHANGED <<clock, storeVars>>

\* Mutant: a miss loads again instead of refreshing.
MissLoadsAgain(t) ==
    /\ call[t].at = "loaded"
    /\ call[t].meta = None
    /\ kitSchema' = [kitSchema EXCEPT ![KitOf[t]] = None]
    /\ GoTo(t, "rows")
    /\ UNCHANGED <<clock, kitVersion, storeVars>>

\* the None of an empty store is assigned too, over whatever the kit holds by now
MissLoaded(t) ==
    /\ call[t].at = "loaded"
    /\ call[t].meta = None
    /\ kitSchema' = [kitSchema EXCEPT ![KitOf[t]] = None]
    /\ GoTo(t, "introspect")
    /\ UNCHANGED <<clock, kitVersion, storeVars>>

(***************************************************************************)
(* refresh_schema: introspect, save (one transaction), install.  The       *)
(* catalogue may hold no table at all.                                     *)
(***************************************************************************)
\* Mutant: the schema is installed without being saved.
IntrospectUnsaved(t) ==
    /\ call[t].at = "introspect"
    /\ clock < MaxClock
    /\ clock' = clock + 1
    /\ call' = [call EXCEPT ![t].at = "install",
                            ![t].meta = [tables |-> None, extracted |-> clock + 1]]
    /\ UNCHANGED <<kitVars, storeVars>>

Introspect(t) ==
    /\ call[t].at = "introspect"
    /\ clock < MaxClock
    /\ clock' = clock + 1
    /\ \E tables \in {None, [db |-> DbOf[KitOf[t]], at |-> clock + 1]} :
          call' = [call EXCEPT ![t].at = IF HasEngine THEN "save" ELSE "install",
                               ![t].meta = [tables |-> tables, extracted |-> clock + 1]]
    /\ UNCHANGED <<kitVars, storeVars>>

\* Mutant: the stamp is inserted but never replaced.
SaveKeepsStamp(t) ==
    LET meta == call[t].meta IN
    /\ call[t].at = "save"
    /\ stored' = [stored EXCEPT ![DbOf[KitOf[t]]] = meta.tables]
    /\ storedAt' = IF storedAt = 0 THEN meta.extracted ELSE storedAt
    /\ saved' = saved \cup {[db |-> DbOf[KitOf[t]], at |-> meta.extracted]}
    /\ GoTo(t, "install")
    /\ UNCHANGED <<clock, kitVars>>

Save(t) ==
    LET meta == call[t].meta IN
    /\ call[t].at = "save"
    /\ stored' = [stored EXCEPT ![DbOf[KitOf[t]]] = meta.tables]
    /\ storedAt' = meta.extracted
    /\ saved' = saved \cup {[db |-> DbOf[KitOf[t]], at |-> meta.extracted]}
    /\ GoTo(t, "install")
    /\ UNCHANGED <<clock, kitVars>>

InstallRefreshed(t) ==
    LET k == KitOf[t]  meta == call[t].meta IN
    /\ call[t].at = "install"
    /\ kitSchema' = [kitSchema EXCEPT ![k] = meta]
    /\ kitVersion' = [kitVersion EXCEPT ![k] = meta.extracted]
    /\ call' = [call EXCEPT ![t] = Idle]
    /\ UNCHANGED <<clock, storeVars>>

(***************************************************************************)
(* An await of the call raises (the database or the meta store fails) or   *)
(* the task is cancelled there; after a commit the save stays.             *)
(***************************************************************************)
Abandon(t) ==
    /\ call[t] # Idle
    /\ call' = [call EXCEPT ![t] = Idle]
    /\ UNCHANGED <<clock, kitVars, storeVars>>

\* the process of kit k dies and starts again: __init__ runs anew
Restart(k) ==
    /\ kitSchema' = [kitSchema EXCEPT ![k] = None]
    /\ kitVersion' = [kitVersion EXCEPT ![k] = 0]
    /\ call' = [t \in Tasks |-> IF KitOf[t] = k THEN Idle ELSE call[t]]
    /\ UNCHANGED <<clock, storeVars>>

\* the steps inside a call that do not end it
CallAdvances(t) ==
    \/ Pinged(t)
    \/ LoadRows(t)
    \/ LoadStamp(t)
    \/ MissLoaded(t)
    \/ Introspect(t)
    \/ Save(t)

CallEnds(t) == ReturnLoaded(t) \/ InstallRefreshed(t) \/ Abandon(t)

CallBegins(t) == BeginGet(t) \/ BeginRefresh(t) \/ BeginInit(t)

KitNext ==
    \/ \E t \in Tasks : CallBegins(t) \/ CallAdvances(t) \/ CallEnds(t)
    \/ \E k \in Kits : Restart(k)

\* the awaits that no timeout ends: ping and the introspection of the database
AwaitsDatabase(t) == call[t].at \in {"ping", "introspect"}

(***************************************************************************)
(* Every other await of a call ends, with a result or an exception: they   *)
(* are on the meta store, whose busy_timeout is the longest they wait.     *)
(* Nothing is assumed of the database: a call may wait for it for ever.    *)
(***************************************************************************)
KitSpec ==
    /\ KitInit
    /\ [][KitNext]_schemaVars
    /\ \A t \in Tasks :
          WF_schemaVars(~AwaitsDatabase(t) /\ (CallAdvances(t) \/ CallEnds(t)))

----------------------------------------------------------------------------
(* Safety *)

\* rows of one save under the stamp of another, as a load finds them when a save
\* comes between its two SELECTs, or when another database shares the store
Torn(schema) == schema.tables # None /\ schema.tables.at # schema.extracted

\* The version that goes into every cache key is the stamp of the schema the
\* kit holds, however loads, refreshes and restarts of several tasks interleave
\* (pipeline.py, the assignments of _schema and _schema_version).
VersionOfHeldSchema ==
    \A k \in Kits : HoldsSchema(k) => kitVersion[k] = kitSchema[k].extracted

\* A kit never works with, nor stores, the tables of another database, although
\* all databases share one meta store (db/cache.py, the db_key filters).
OwnDatabaseOnly ==
    /\ \A d \in Databases : stored[d] # None => stored[d].db = d
    /\ \A k \in Kits :
          HoldsSchema(k) /\ kitSchema[k].tables # None
             => kitSchema[k].tables.db = DbOf[k]

\* As long as one database uses the store, its rows and its stamp come from the
\* same introspection, whatever fails or restarts around a save (db/cache.py,
\* save_schema commits once; the stamp has no db_key).
RowsAndStampAgree ==
    \A d \in Databases :
       stored[d] # None => storedAt = stored[d].at \/ \E x \in saved : x.db # d

\* A version an ask may use as a key is one the store has committed: a restart
\* can find it again (refresh_schema saves before it installs).
HeldVersionWasSaved ==
    HasEngine => \A k \in Kits : HoldsSchema(k) => \E x \in saved : x.at = kitVersion[k]

(* Liveness *)

\* Only the database keeps a call from returning: a call that has begun returns or
\* raises, or from some moment on it waits for a ping or an introspection that never
\* ends (pipeline.py, get_schema has no loop; backends.py sets no limit there).
EveryCallReturns ==
    \A t \in Tasks : call[t] # Idle ~> (call[t] = Idle \/ []AwaitsDatabase(t))
=============================================================================

--------------------------- MODULE QueryExecution ---------------------------
(***************************************************************************)
(* Jobs on the connection pool of an SQL engine: queries (execute_query,   *)
(* db/executor.py) and introspections (SQLBackend.introspect), over the    *)
(* pool build_engine configures (db/connector.py).                         *)
(*                                                                         *)
(* A query has a time limit of its own (asyncio.wait_for) and sets one on  *)
(* the server; an introspection has neither.  The server may never answer. *)
(***************************************************************************)
EXTENDS NoValue, Naturals, FiniteSets

CONSTANTS
    Engines,
    Queries, Introspections,   \* the jobs
    Conns,      \* the connections there can be: pool_size + max_overflow of them
    PoolSize    \* how many idle ones are kept

Jobs == Queries \cup Introspections
Outcomes == {"rows", "missing", "error", "timeout", "raised"}

ASSUME PoolAssumption ==
    /\ Engines \subseteq {"postgresql", "mysql", "sqlite"}
    /\ Queries \cap Introspections = {}
    /\ IsFiniteSet(Conns)
    /\ PoolSize \in Nat
    /\ None \notin Conns \cup Outcomes

VARIABLES
    engine,   \* the dialect of the engine
    pc,       \* where each job is
    conn,     \* the connection it has checked out
    outcome,  \* what it ended with, or will once its connection is closed
    idle,     \* the connections kept in the pool
    limited   \* the connections whose session has a statement timeout

poolVars == <<engine, pc, conn, outcome, idle, limited>>

Places == {"connect", "limit", "statement", "close", "ended"}

PoolTypeOK ==
    /\ engine \in Engines
    /\ pc \in [Jobs -> Places]
    /\ conn \in [Jobs -> Conns \cup {None}]
    /\ \A j \in Jobs : conn[j] = None <=> pc[j] \in {"connect", "ended"}
    /\ outcome \in [Jobs -> Outcomes \cup {None}]
    /\ idle \subseteq Conns
    /\ limited \subseteq Conns

InUse == {conn[j] : j \in Jobs} \ {None}

PoolInit ==
    /\ engine \in Engines
    /\ pc = [j \in Jobs |-> "connect"]
    /\ conn = [j \in Jobs |-> None]
    /\ outcome = [j \in Jobs |-> None]
    /\ idle = {}
    /\ limited = {}

\* _statement_timeout_sql: SQLite has none
HasLimit(j) == j \in Queries /\ engine \in {"postgresql", "mysql"}

\* an idle connection if there is one, a new one while the pool may grow
Available == IF idle # {} THEN idle ELSE Conns \ InUse

Checkout(j) ==
    /\ pc[j] = "connect"
    /\ \E c \in Available :
          /\ conn' = [conn EXCEPT ![j] = c]
          /\ idle' = idle \ {c}
          /\ limited' = IF c \in idle THEN limited ELSE limited \ {c}
    /\ pc' = [pc EXCEPT ![j] = IF HasLimit(j) THEN "limit" ELSE "statement"]
    /\ UNCHANGED <<engine, outcome>>

SetLimit(j) ==
    /\ pc[j] = "limit"
    /\ limited' = limited \cup {conn[j]}
    /\ pc' = [pc EXCEPT ![j] = "statement"]
    /\ UNCHANGED <<engine, conn, outcome, idle>>

EndsWith(j, o) ==
    /\ outcome' = [outcome EXCEPT ![j] = o]
    /\ pc' = [pc EXCEPT ![j] = IF conn[j] = None THEN "ended" ELSE "close"]
    /\ UNCHANGED <<engine, conn, idle, limited>>

\* no connection, because the server refuses it or the pool is exhausted too long;
\* the message of the refusal may read like that of a missing table
NoConnection(j) ==
    /\ pc[j] = "connect"
    /\ \E o \in IF j \in Queries THEN {"missing", "error"} ELSE {"raised"} : EndsWith(j, o)

\* the server answers: rows, an error that reads like a missing table, another error,
\* or rows no frame can be built of, which is no SQLAlchemyError and passes through
Reply(j) ==
    /\ pc[j] \in {"limit", "statement"}
    /\ \E o \in (IF pc[j] = "statement" THEN {"rows"} ELSE {})
                \cup (IF j \in Queries THEN {"missing", "error", "raised"} ELSE {"raised"}) :
          EndsWith(j, o)

\* Mutant: a query that times out is over without closing its connection.
TimesOutUnclosed(j) ==
    /\ j \in Queries
    /\ pc[j] \in {"connect", "limit", "statement", "close"}
    /\ outcome' = [outcome EXCEPT ![j] = "timeout"]
    /\ pc' = [pc EXCEPT ![j] = "ended"]
    /\ UNCHANGED <<engine, conn, idle, limited>>

\* Mutant: the time limit starts when the query has its connection.
TimesOutConnected(j) ==
    /\ j \in Queries
    /\ pc[j] \in {"limit", "statement", "close"}
    /\ outcome[j] # "timeout"
    /\ EndsWith(j, "timeout")

\* wait_for, or the cancellation of the ask: both become a DBError, whatever the query
\* was doing, and the connection is closed all the same
TimesOut(j) ==
    /\ j \in Queries
    /\ pc[j] \in {"connect", "limit", "statement", "close"}
    /\ outcome[j] # "timeout"
    /\ EndsWith(j, "timeout")

\* Mutant: closing a connection leaves its transaction open.
CloseWithoutReset(j) ==
    /\ pc[j] = "close"
    /\ pc' = [pc EXCEPT ![j] = "ended"]
    /\ conn' = [conn EXCEPT ![j] = None]
    /\ idle' = IF Cardinality(idle) < PoolSize THEN idle \cup {conn[j]} ELSE idle
    /\ UNCHANGED <<engine, outcome, limited>>

\* the connection goes back to the pool, or is dropped when the pool is full; the
\* rollback undoes SET LOCAL (PostgreSQL) and not SET SESSION (MySQL)
Close(j) ==
    /\ pc[j] = "close"
    /\ pc' = [pc EXCEPT ![j] = "ended"]
    /\ conn' = [conn EXCEPT ![j] = None]
    /\ idle' = IF Cardinality(idle) < PoolSize THEN idle \cup {conn[j]} ELSE idle
    /\ limited' = IF engine = "postgresql" THEN limited \ {conn[j]} ELSE limited
    /\ UNCHANGED <<engine, outcome>>

\* pool_recycle and pool_pre_ping replace an idle connection by a new one
Recycle(c) ==
    /\ c \in idle \cap limited
    /\ limited' = limited \ {c}
    /\ UNCHANGED <<engine, pc, conn, outcome, idle>>

PoolNext ==
    \/ \E j \in Jobs : Checkout(j) \/ NoConnection(j) \/ SetLimit(j) \/ Reply(j)
                       \/ TimesOut(j) \/ Close(j)
    \/ \E c \in Conns : Recycle(c)

\* nothing is assumed of the server: the client gives up waiting and closes
PoolSpec ==
    /\ PoolInit
    /\ [][PoolNext]_poolVars
    /\ \A j \in Jobs : WF_poolVars(TimesOut(j)) /\ WF_poolVars(Close(j))

----------------------------------------------------------------------------
(* Properties *)

\* no connection serves two jobs at once, or one while it lies idle in the pool
NoneIsShared ==
    /\ \A i, j \in Jobs : i # j /\ conn[i] # None => conn[i] # conn[j]
    /\ InUse \cap idle = {}
    /\ Cardinality(idle) <= PoolSize

\* a job that has ended holds no connection, however it ended, and the pool has none to
\* give only while jobs that have not ended use them all
NoneIsHeldBack ==
    /\ \A j \in Jobs : conn[j] # None <=> pc[j] \in {"limit", "statement", "close"}
    /\ Available = {} => \A c \in Conns : \E j \in Jobs : conn[j] = c /\ pc[j] # "ended"

\* a connection that was opened stays open, in use or idle, while the pool may keep one
NoneIsDropped ==
    PoolSize > 0 /\ (\E j \in Jobs : outcome[j] = "rows") => InUse \cup idle # {}

\* Every path out of the block, the time limit at any await included, gives the
\* connection back exactly once: none is given to two jobs, and none stays with a job
\* that is over (async with in execute_query and introspect, wait_for around it).
ConnectionsAreAccountedFor == NoneIsShared /\ NoneIsHeldBack /\ NoneIsDropped

\* A query runs under a limit of the server, where the dialect has one, and an
\* introspection, which may take longer, runs without (SET LOCAL; the rollback when a
\* connection is returned).  On MySQL a limit set once stays with the session.
LimitsStayWithQueries ==
    engine # "mysql" => \A j \in Jobs : pc[j] = "statement" => (conn[j] \in limited <=> HasLimit(j))

\* Every query ends, even when the server answers nobody and introspections hold
\* connections for ever (the time limit covers waiting for the pool too).
EveryQueryEnds == \A j \in Queries : <>(pc[j] = "ended")
=============================================================================

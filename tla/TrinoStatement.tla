--------------------------- MODULE TrinoStatement ---------------------------
(***************************************************************************)
(* A statement on Trino: TrinoBackend._query and execute (db/backends.py). *)
(* The statement is posted, then its nextUri is polled until there is none *)
(* and the rows of every answer are put one after the other.  Rows are     *)
(* numbers in the order the server produces them.                          *)
(***************************************************************************)
EXTENDS Naturals, Sequences

CONSTANTS
    MaxRows,   \* bound: rows of a result
    MaxPage    \* bound: rows of one answer

ASSUME TrinoAssumption == MaxRows \in Nat /\ MaxPage \in Nat \ {0}

VARIABLES
    total,    \* the rows the statement has, should it succeed
    server,   \* "queued", "running", "finished" or "failed"
    sent,     \* rows the server has handed out
    trinoPc,  \* "post", "read", "poll", "returned", "raised" or "timedout"
    state,    \* the answer in hand: its rows, whether it names columns and has a nextUri
    rows, cols

trinoVars == <<total, server, sent, trinoPc, state, rows, cols>>

\* the numbers after lo up to hi, in order
Between(lo, hi) == [i \in 1..(hi - lo) |-> lo + i]

Nothing == [data |-> <<>>, columns |-> FALSE, nextUri |-> FALSE]

TrinoTypeOK ==
    /\ total \in 0..MaxRows
    /\ sent \in 0..total
    /\ server \in {"queued", "running", "finished", "failed"}
    /\ trinoPc \in {"post", "read", "poll", "returned", "raised", "timedout"}
    /\ rows \in Seq(1..total) /\ Len(rows) <= sent
    /\ cols \in BOOLEAN

TrinoInit ==
    /\ total \in 0..MaxRows
    /\ server = "queued"
    /\ sent = 0
    /\ trinoPc = "post"
    /\ state = Nothing
    /\ rows = <<>>
    /\ cols = FALSE

\* what the server may answer next: a wait, a page, the last page, or that the
\* statement has failed, which is an answer with status 200 and no nextUri
ServerAnswers ==
    \/ /\ UNCHANGED <<server, sent>>
       /\ state' = [Nothing EXCEPT !.nextUri = TRUE, !.columns = (server = "running")]
    \/ \E n \in sent..total :
          /\ n - sent <= MaxPage
          /\ sent' = n
          /\ \E last \in BOOLEAN :
                /\ last => n = total
                /\ server' = IF last THEN "finished" ELSE "running"
                /\ state' = [data |-> Between(sent, n), columns |-> TRUE, nextUri |-> ~last]
    \/ /\ server' = "failed"
       /\ state' = Nothing
       /\ UNCHANGED sent

\* the POST and every GET: an answer, or an HTTP error (raise_for_status)
Ask(from) ==
    /\ trinoPc = from
    /\ \/ ServerAnswers /\ trinoPc' = "read"
       \/ trinoPc' = "raised" /\ UNCHANGED <<server, sent, state>>
    /\ UNCHANGED <<total, rows, cols>>

\* Mutant: the first answer is appended when it arrives and again when the loop reads it.
ReadTwice ==
    /\ trinoPc = "read"
    /\ cols' = (cols \/ state.columns)
    /\ rows' = rows \o state.data \o state.data
    /\ trinoPc' = IF state.nextUri THEN "poll" ELSE "returned"
    /\ UNCHANGED <<total, server, sent, state>>

\* one turn of the loop; whether the statement has failed is not looked at
Read ==
    /\ trinoPc = "read"
    /\ cols' = (cols \/ state.columns)
    /\ rows' = rows \o state.data
    /\ trinoPc' = IF state.nextUri THEN "poll" ELSE "returned"
    /\ UNCHANGED <<total, server, sent, state>>

\* asyncio.timeout; the server is not told.  The POST is outside it.
LimitStrikes ==
    /\ trinoPc = "poll"
    /\ trinoPc' = "timedout"
    /\ UNCHANGED <<total, server, sent, state, rows, cols>>

TrinoNext == Ask("post") \/ Ask("poll") \/ Read \/ LimitStrikes

\* every request is answered or refused (httpx times out after 20 s), and the limit
\* strikes in the end, while a request is awaited
TrinoSpec ==
    /\ TrinoInit
    /\ [][TrinoNext]_trinoVars
    /\ WF_trinoVars(Ask("post"))
    /\ WF_trinoVars(Read)
    /\ SF_trinoVars(LimitStrikes)

----------------------------------------------------------------------------
(* Properties *)

\* What is returned for a statement that finished is its whole result, every row once
\* and in order, however it was cut into pages (_query).
ResultIsWhole ==
    trinoPc = "returned" /\ server = "finished" => rows = Between(0, total) /\ cols

\* A statement ends within its time limit even if the server keeps naming a nextUri
\* (asyncio.timeout around the loop).
StatementEnds == <>(trinoPc \in {"returned", "raised", "timedout"})
=============================================================================

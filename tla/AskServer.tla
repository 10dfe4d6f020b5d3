----------------------------- MODULE AskServer -----------------------------
(***************************************************************************)
(* POST /api/v1/ask: event_generator runs an ask of AskPipeline as a task, *)
(* forwards what its callback queues to the client as server-sent events,  *)
(* counts the "done" events in the metrics, and cancels the task when the  *)
(* stream ends before it.                                                  *)
(*                                                                         *)
(* The queue of a request is the part of ask[a].events not yet `read'.     *)
(* wait_for(queue.get(), 0.5) either delivers an event or times out on an  *)
(* empty queue; every yield and every wait is a point where the client may *)
(* have gone.                                                              *)
(***************************************************************************)
EXTENDS AskPipeline

VARIABLES
    stream,  \* the generator of each request
    metrics  \* requests, errors and cache_hits of Metrics

serverVars == <<stream, metrics>>
allVars == <<vars, serverVars>>

\* `gone': the client left before the generator ended; `left' (history): in which
\* attempt, if the ask was executing the query of one, and 0 otherwise
Stream == [at : {"off", "open", "closed"}, read : Nat, gone : BOOLEAN, left : 0..MaxAttempts]

ServerTypeOK ==
    /\ stream \in [Asks -> Stream]
    /\ \A a \in Asks : stream[a].read <= Len(ask[a].events)
    /\ metrics \in [requests : Nat, errors : Nat, hits : Nat]

ServerInit ==
    /\ Init
    /\ stream = [a \in Asks |-> [at |-> "off", read |-> 0, gone |-> FALSE, left |-> 0]]
    /\ metrics = [requests |-> 0, errors |-> 0, hits |-> 0]

IsOpen(a) == stream[a].at = "open"
Queued(a) == SubSeq(ask[a].events, stream[a].read + 1, Len(ask[a].events))
TaskDone(a) == ask[a].at \in Settled
Read(a) == SubSeq(ask[a].events, 1, stream[a].read)

\* the request passed require_role and the response starts: create_task
Opens(a) ==
    /\ stream[a].at = "off"
    /\ stream' = [stream EXCEPT ![a].at = "open"]
    /\ UNCHANGED <<vars, metrics>>

\* metrics.record with what the "done" event says
Record(cached, ok) ==
    metrics' = [requests |-> metrics.requests + 1,
                errors |-> metrics.errors + (IF ok THEN 0 ELSE 1),
                hits |-> metrics.hits + (IF cached THEN 1 ELSE 0)]

Forwards(a) ==
    /\ IsOpen(a)
    /\ Queued(a) # <<>>
    /\ Head(Queued(a)) # "done"
    /\ stream' = [stream EXCEPT ![a].read = @ + 1]
    /\ UNCHANGED <<vars, metrics>>

\* "done" is counted, forwarded and ends the stream
ForwardsDone(a) ==
    /\ IsOpen(a)
    /\ Queued(a) # <<>>
    /\ Head(Queued(a)) = "done"
    /\ stream' = [stream EXCEPT ![a].read = @ + 1, ![a].at = "closed"]
    /\ Record(ask[a].cached, ask[a].status = "ok")
    /\ UNCHANGED vars

\* Mutant: the queue is not looked at when the task is done.
GivesUpEarly(a) ==
    /\ IsOpen(a)
    /\ TaskDone(a)
    /\ stream' = [stream EXCEPT ![a].at = "closed"]
    /\ UNCHANGED <<vars, metrics>>

\* Mutant: the request is counted whenever the generator ends.
GivesUpCounted(a) ==
    /\ IsOpen(a)
    /\ TaskDone(a)
    /\ Queued(a) = <<>>
    /\ stream' = [stream EXCEPT ![a].at = "closed"]
    /\ Record(FALSE, FALSE)
    /\ UNCHANGED vars

\* a timeout on an empty queue ends the stream once the task is done
GivesUp(a) ==
    /\ IsOpen(a)
    /\ TaskDone(a)
    /\ Queued(a) = <<>>
    /\ stream' = [stream EXCEPT ![a].at = "closed"]
    /\ UNCHANGED <<vars, metrics>>

Scheduled(a) == IsOpen(a) /\ At(a, "idle")

\* Mutant: a task that has not run yet is forgotten instead of cancelled.
NeverRunsNorEnds(a) ==
    /\ At(a, "idle")
    /\ UNCHANGED vars

\* task.cancel() on a task that has not run yet: its coroutine never starts
NeverRuns(a) ==
    /\ At(a, "idle")
    /\ Becomes(a, Moved(ask[a], "cancelled"))
    /\ UNCHANGED <<schemaVars, cache, audit>>

\* the response is torn down under the generator
Breaks(a) ==
    /\ IsOpen(a)
    /\ stream' = [stream EXCEPT ![a].at = "closed", ![a].gone = TRUE,
                                ![a].left = IF At(a, "exec") THEN ask[a].attempts ELSE 0]

\* Mutant: `finally' does not cancel.
DisconnectsOnly(a) ==
    /\ Breaks(a)
    /\ UNCHANGED <<vars, metrics>>

\* the client is gone: `finally' cancels the task unless it is done
Disconnects(a) ==
    /\ Breaks(a)
    /\ \/ TaskDone(a) /\ UNCHANGED vars
       \/ NeverRuns(a)
       \/ Cancelled(a)
       \/ QueryFails(a)
    /\ UNCHANGED metrics

StreamAdvances(a) == Forwards(a) \/ ForwardsDone(a) \/ GivesUp(a)

\* the server's process restarts (ProcessRestarts, with the tasks that have not
\* run yet): its streams break and its metrics start anew
ServerRestarts(k) ==
    /\ Restart(k)
    /\ ask' = [a \in Asks |-> IF KitOf[a] = k /\ (ask[a].at \in Waiting \/ Scheduled(a))
                                 THEN Moved(ask[a], "lost") ELSE ask[a]]
    /\ UNCHANGED <<cache, audit>>
    /\ stream' = [a \in Asks |-> IF KitOf[a] = k /\ IsOpen(a)
                                    THEN [stream[a] EXCEPT !.at = "closed", !.gone = TRUE]
                                    ELSE stream[a]]
    /\ metrics' = [requests |-> 0, errors |-> 0, hits |-> 0]

ServerNext ==
    \/ \E a \in Asks :
          \/ Opens(a)
          \/ IsOpen(a) /\ AskStarts(a) /\ UNCHANGED serverVars
          \/ AskAdvances(a) /\ UNCHANGED serverVars
          \/ StreamAdvances(a)
          \/ Disconnects(a)
    \/ \E t \in Tasks \ Asks : SchemaTask(t) /\ UNCHANGED serverVars
    \/ \E k \in Kits : MayStop /\ ServerRestarts(k)
    \/ \E key \in Key : Expires(key) /\ UNCHANGED serverVars

(***************************************************************************)
(* The event loop runs every task that can run: the asks (create_task      *)
(* schedules them) and the generators.  As in AskPipeline, an ask that     *)
(* awaits an introspection may do so for ever.                             *)
(***************************************************************************)
ServerSpec ==
    /\ ServerInit
    /\ [][ServerNext]_allVars
    /\ \A a \in Asks : /\ WF_allVars(IsOpen(a) /\ AskStarts(a) /\ UNCHANGED serverVars)
                       /\ WF_allVars(~AwaitsDatabase(a) /\ AskAdvances(a) /\ UNCHANGED serverVars)
                       /\ WF_allVars(StreamAdvances(a))

----------------------------------------------------------------------------
(* Safety *)

\* A stream that ends with its client still there has delivered every event its
\* ask queued, the ones queued just before the task ended included (app.py, the
\* timeout checks the task and then the queue).
NothingIsDropped ==
    \A a \in Asks :
       stream[a].at = "closed" /\ ~stream[a].gone
          => TaskDone(a) /\ stream[a].read = Len(ask[a].events)

\* The metrics count each "done" that was forwarded once, and an error for each
\* of them whose answer is not "ok" (no restart: they live in memory).
MetricsCountForwardedDone ==
    LET counted == {a \in Asks : "done" \in {Read(a)[i] : i \in 1..stream[a].read}} IN
    ~MayStop => /\ metrics.requests = Cardinality(counted)
                /\ metrics.errors = Cardinality({a \in counted : ask[a].status # "ok"})

\* An ask that goes on without its client was executing a query at the moment the client
\* left, on an SQL backend (executor.py turns the CancelledError into a DBError): no other
\* await survives the cancellation.  What it goes on with is another attempt, new calls of
\* the LLM included, or the error after the last one: never with that query.
OnlyQueriesOutliveClients ==
    \A a \in Asks :
       /\ stream[a].gone /\ ~TaskDone(a) => HasEngine /\ stream[a].left # 0
       /\ HasEngine /\ stream[a].left # 0 => \/ ask[a].attempts > stream[a].left
                                             \/ ask[a].status = "error"

(* Liveness *)

\* A client that leaves does not leave its ask running for good, unless the ask waits for
\* an introspection that never ends.
AbandonedAsksSettle ==
    \A a \in Asks : stream[a].gone ~> (TaskDone(a) \/ []AwaitsDatabase(a))

\* Every stream ends although not every ask ends with "done": cached answers and
\* exceptions do not (app.py, task.done() on a timeout); and so does an ask whose
\* stream ended before it.  A stream stays open, and an abandoned ask unsettled, only as
\* long as the ask waits for an introspection, which nothing limits.
EveryStreamEnds ==
    /\ \A a \in Asks : IsOpen(a) ~> (stream[a].at = "closed" \/ []AwaitsDatabase(a))
    /\ AbandonedAsksSettle

----------------------------------------------------------------------------
(* Claims of the documentation *)

\* docs/security.md: every ask is recorded; docs/api.md offers the cache hit rate.  An
\* answer taken from the cache is an answered ask as well: with no stream open it has
\* its row in the audit log and is among the hits.
HitsAreRecorded ==
    (\A a \in Asks : stream[a].at = "closed" /\ ~stream[a].gone)
       => LET hits == {a \in Asks : ask[a].cached} IN
          /\ metrics.hits = Cardinality(hits)
          /\ \A a \in hits : audit[a] # <<>>
=============================================================================

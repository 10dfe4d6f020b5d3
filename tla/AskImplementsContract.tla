----------------------- MODULE AskImplementsContract -----------------------
(***************************************************************************)
(* AskPipeline implements AskContract.  An ask has decided once it has     *)
(* entered _finalize; what is published is what the cache table holds.     *)
(***************************************************************************)
EXTENDS AskPipeline

Finalizing == {"audit", "audited", "store", "stored"}

\* where an ask with the locals s stands
Phase(s) ==
    CASE s.at = "idle" -> "idle"
      [] s.at = "answered" -> "answered"
      [] s.at \in Settled \ {"answered"} -> "failed"
      [] s.at \in Finalizing -> "decided"
      [] s.at \in Waiting \ Finalizing -> "open"

\* the answer it has decided on
Decision(s) ==
    IF s.at \in Finalizing \cup {"answered"}
    THEN [question |-> s.question, status |-> s.status, data |-> AnswerData(s)]
    ELSE None

Phases == [a \in Asks |-> Phase(ask[a])]
Asked == [a \in Asks |-> ask[a].question]
Decisions == [a \in Asks |-> Decision(ask[a])]
Logged == [a \in Asks |-> {audit[a][i].status : i \in DOMAIN audit[a]}]

Published ==
    {[question |-> key.question, status |-> cache[key].status, data |-> cache[key].data] :
        key \in {k \in Key : cache[k] # None}}

Contract == INSTANCE AskContract WITH
    Kinds <- DataKind,
    phase <- Phases,
    asked <- Asked,
    answer <- Decisions,
    log <- Logged,
    published <- Published

\* Every step of the pipeline is one the contract allows: an answer is decided
\* once and logged at most once, with its own status, before it is given; a cached
\* answer was decided for the same question (pipeline.py, ask, _finalize).
ImplementsContract == Contract!Spec
=============================================================================

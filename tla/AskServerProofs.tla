-------------------------- MODULE AskServerProofs --------------------------
(***************************************************************************)
(* What holds of AskServer for any number of requests, whatever their asks *)
(* go through.                                                             *)
(*                                                                         *)
(* An ask only adds to its events, and none once it is settled; so what a  *)
(* generator has read stays what it read.  "done" is the last event of an  *)
(* ask (AllAnnounced, of AskPipelineProofs): a request has forwarded it    *)
(* exactly if its ask was answered, not from the cache, and its queue is   *)
(* empty.                                                                  *)
(***************************************************************************)
EXTENDS AskServer, AskPipelineProofs, FiniteSetTheorems

\* r has said all that s has, about the same question, in this attempt or a later one
Grows(s, r) ==
    /\ r.question = s.question
    /\ r.attempts \in Nat /\ r.attempts >= s.attempts
    /\ \E more \in Seq(Event) : r.events = s.events \o more

----------------------------------------------------------------------------
(* The functions on locals only add events. *)

\* So does whatever leaves the events alone.
LEMMA SameGrows ==
    ASSUME NEW s \in AskState, NEW r, r.question = s.question, r.events = s.events,
           r.attempts = s.attempts
    PROVE  Grows(s, r)
<1>0. r.attempts \in Nat /\ r.attempts >= s.attempts
    BY DEF AskState
<1>1. <<>> \in Seq(Event) /\ s.events \in Seq(Event) /\ s.events \o <<>> = s.events
    BY DEF AskState
<1>2. QED
    BY <1>0, <1>1 DEF Grows

\* Adding twice is adding.
LEMMA GrowsOn ==
    ASSUME NEW s \in AskState, NEW r, Grows(s, r), NEW t, Grows(r, t)
    PROVE  Grows(s, t)
<1>1. PICK first \in Seq(Event) : r.events = s.events \o first
    BY DEF Grows
<1>2. PICK second \in Seq(Event) : t.events = r.events \o second
    BY DEF Grows
<1>3. first \o second \in Seq(Event) /\ s.events \in Seq(Event)
    BY <1>1, <1>2 DEF AskState
<1>4. (s.events \o first) \o second = s.events \o (first \o second)
    BY <1>3, OneByOne
<1>5. t.events = s.events \o (first \o second)
    BY <1>1, <1>2, <1>4
<1>6. t.question = s.question /\ t.attempts \in Nat /\ t.attempts >= s.attempts
    BY SMTT(30) DEF Grows, AskState
<1>7. QED
    BY <1>3, <1>5, <1>6 DEF Grows

LEMMA EmitGrows ==
    ASSUME NEW s \in AskState, NEW events \in Seq(Event)
    PROVE  Grows(s, Emit(s, events)) /\ Emit(s, events) \in AskState
<1>1. /\ Emit(s, events).events = s.events \o events
      /\ Emit(s, events).question = s.question
      /\ Emit(s, events).attempts \in Nat /\ Emit(s, events).attempts >= s.attempts
    BY DEF Emit, AskState
<1>2. QED
    BY <1>1, EmitOK DEF Grows, Alike

LEMMA MovedGrows ==
    ASSUME NEW s \in AskState, NEW step \in Step
    PROVE  Grows(s, Moved(s, step)) /\ Moved(s, step) \in AskState
<1>1. /\ Moved(s, step).events = s.events /\ Moved(s, step).question = s.question
      /\ Moved(s, step).attempts = s.attempts
    BY DEF Moved, AskState
<1>2. QED
    BY <1>1, SameGrows, MovedOK DEF Alike

LEMMA NextAttemptGrows == ASSUME NEW s \in AskState PROVE Grows(s, NextAttempt(s))
<1>1. NextAttempt(s).events = s.events /\ NextAttempt(s).question = s.question
    BY DEF NextAttempt, AskState
<1>2. NextAttempt(s).attempts \in Nat /\ NextAttempt(s).attempts >= s.attempts
    BY DEF NextAttempt, AskState
<1>3. <<>> \in Seq(Event) /\ s.events \in Seq(Event) /\ s.events \o <<>> = s.events
    BY DEF AskState
<1>4. QED
    BY <1>1, <1>2, <1>3 DEF Grows

LEMMA RetryGrows == ASSUME NEW s \in AskState PROVE Grows(s, Retry(s))
<1> DEFINE r == Emit(s, <<"retry">>)
<1>1. <<"retry">> \in Seq(Event)
    BY DEF Event
<1>2. Grows(s, r) /\ r \in AskState
    BY <1>1, EmitGrows
<1> HIDE DEF r
<1>4. Grows(r, NextAttempt(r))
    BY <1>2, NextAttemptGrows
<1>5. Grows(s, NextAttempt(r))
    BY <1>2, <1>4, GrowsOn
<1>6. QED
    BY <1>5 DEF Retry, r

LEMMA ProseGrows == ASSUME NEW s \in AskState PROVE Grows(s, Prose(s))
<1>1. /\ Prose(s).events = s.events \o <<"insight">>
      /\ Prose(s).question = s.question
      /\ Prose(s).attempts \in Nat /\ Prose(s).attempts >= s.attempts
    BY DEF Prose, Emit, AskState
<1>2. <<"insight">> \in Seq(Event)
    BY DEF Event
<1>3. QED
    BY <1>1, <1>2 DEF Grows

LEMMA RefusedGrows ==
    ASSUME NEW s, InFlight(s), s.declines < s.attempts PROVE Grows(s, Refused(s))
<1> DEFINE declined == [s EXCEPT !.declines = s.declines + 1]
           r == Emit(declined, <<"retry">>)
<1>1. s \in AskState /\ s.declines + 1 \in 0..MaxAttempts
    BY AskAssumption DEF InFlight, AskState
<1>2. /\ declined \in AskState
      /\ declined.events = s.events /\ declined.question = s.question
      /\ declined.attempts = s.attempts
      /\ declined = [s EXCEPT !.declines = @ + 1]
    BY <1>1 DEF AskState
<1>3. Refused(s) = IF declined.declines >= 2 THEN Prose(r) ELSE Retry(declined)
    BY <1>2 DEF Refused
<1> HIDE DEF declined
<1>4. <<"retry">> \in Seq(Event)
    BY DEF Event
<1>5. Grows(declined, r) /\ r \in AskState
    BY <1>2, <1>4, EmitGrows
<1> HIDE DEF r
<1>6. Grows(s, declined)
    BY <1>1, <1>2, SameGrows
<1>7. Grows(s, Prose(r))
    BY <1>1, <1>2, <1>5, <1>6, ProseGrows, GrowsOn
<1>8. Grows(s, Retry(declined))
    BY <1>1, <1>2, <1>6, RetryGrows, GrowsOn
<1>9. QED
    BY <1>3, <1>7, <1>8

LEMMA QueryGrows == ASSUME NEW s \in AskState, NEW kind PROVE Grows(s, Query(s, kind))
<1>1. /\ Query(s, kind).events = s.events \o <<"sql">>
      /\ Query(s, kind).question = s.question
      /\ Query(s, kind).attempts \in Nat /\ Query(s, kind).attempts >= s.attempts
    BY DEF Query, Emit, AskState
<1>2. <<"sql">> \in Seq(Event)
    BY DEF Event
<1>3. QED
    BY <1>1, <1>2 DEF Grows

LEMMA NextQueryGrows == ASSUME NEW s \in AskState PROVE Grows(s, NextQuery(s))
<1> DEFINE r == [s EXCEPT !.sql = NoSql, !.at = "final"]
<1>1. r.events = s.events /\ r.question = s.question /\ r.attempts = s.attempts
    BY DEF AskState
<1>2. Grows(s, r)
    BY <1>1, SameGrows
<1>3. Grows(s, Moved(s, "exec"))
    BY MovedGrows DEF Step, Waiting
<1>4. QED
    BY <1>2, <1>3, RetryGrows DEF NextQuery

\* Whatever the LLM plans.
LEMMA PlanGrows ==
    ASSUME NEW s, InFlight(s), s.declines < s.attempts, NEW r \in Reply
    PROVE  Grows(s, PlainPlan(s, r)) /\ Grows(s, AnalysisPlan(s, r))
<1>1. s \in AskState
    BY DEF InFlight
<1> DEFINE read == Reasoned(s, r)
<1>0. /\ read \in AskState /\ InFlight(read) /\ read.declines < read.attempts
      /\ Grows(s, read)
    BY <1>1, ReasonedOK, AlikeInFlight, SameGrows DEF Alike
<1> HIDE DEF read
<1>2. Grows(s, PlainPlan(s, r))
  <2>1. ParseFails(r) \/ (~ParseFails(r) /\ Declines(r)) \/ (~Declines(r) /\ r.object)
    BY DEF ParseFails, Declines
  <2>2. \/ PlainPlan(s, r) = Retry(s) \/ PlainPlan(s, r) = Retry(read)
        \/ PlainPlan(s, r) = Prose(read) \/ PlainPlan(s, r) = Refused(read)
        \/ PlainPlan(s, r) = Query(read, r.sql)
    BY <2>1 DEF PlainPlan, read
  <2>3. /\ Grows(read, Retry(read)) /\ Grows(read, Prose(read))
        /\ Grows(read, Refused(read)) /\ Grows(read, Query(read, r.sql))
    BY <1>0, RetryGrows, ProseGrows, RefusedGrows, QueryGrows
  <2>4. QED
    BY <1>0, <1>1, <2>2, <2>3, RetryGrows, GrowsOn
<1>3. Grows(s, AnalysisPlan(s, r))
  <2> DEFINE p == [s EXCEPT !.queries = r.queries, !.data = {}]
  <2>1. r.queries \in Seq(QueryKind)
    BY DEF Reply
  <2>2. /\ p \in AskState /\ p.events = s.events /\ p.question = s.question
        /\ p.attempts = s.attempts
    BY <1>1, <2>1 DEF AskState
  <2>3. ParseFails(r) \/ (~ParseFails(r) /\ r.queries = <<>>) \/ (r.object /\ r.queries # <<>>)
    BY DEF ParseFails
  <2>4. \/ AnalysisPlan(s, r) = Retry(s) \/ AnalysisPlan(s, r) = Prose(read)
        \/ AnalysisPlan(s, r) = NextQuery(p)
    BY <2>3 DEF AnalysisPlan, read
  <2> HIDE DEF p
  <2>5. Grows(s, NextQuery(p))
    BY <1>1, <2>2, SameGrows, NextQueryGrows, GrowsOn
  <2>6. Grows(s, Prose(read))
    BY <1>0, <1>1, ProseGrows, GrowsOn
  <2>7. QED
    BY <1>1, <2>4, <2>5, <2>6, RetryGrows
<1>4. QED
    BY <1>2, <1>3

----------------------------------------------------------------------------
(* So do the steps.  What a step of ask a makes of it, if anything:        *)

\* what an ask that ends says of itself, it keeps saying
EndsAlike(s, r) == s.at \in Ending => r.at \in Ending /\ r.status = s.status

Advances(a) ==
    /\ ask[a].at \in Waiting
    /\ \E s : Becomes(a, s) /\ Grows(ask[a], s) /\ EndsAlike(ask[a], s)

\* The schema is there, and the cache is asked.
LEMMA LookupGrows ==
    ASSUME Inv, NEW a \in Asks, GotSchema(a) \/ Hit(a) \/ Miss(a) PROVE Advances(a)
<1>1. ask[a] \in AskState /\ ask[a].at \in Waiting /\ ask[a].at \notin Ending
    BY DEF Inv, AskInv, GotSchema, Hit, Miss, At, Waiting, Ending, Finishing, Saving, Settled
<1>2. CASE GotSchema(a)
  <2>1. /\ Looking(ask[a], KitOf[a]).events = ask[a].events
        /\ Looking(ask[a], KitOf[a]).question = ask[a].question
        /\ Looking(ask[a], KitOf[a]).attempts = ask[a].attempts
    BY <1>1 DEF Looking, AskState
  <2>2. Grows(ask[a], Looking(ask[a], KitOf[a]))
    BY <1>1, <2>1, SameGrows
  <2>3. QED
    BY <1>1, <1>2, <2>2 DEF GotSchema, Advances, EndsAlike
<1>3. CASE Hit(a)
  <2> DEFINE entry == cache[KeyOf(a)]
             s == Emit([ask[a] EXCEPT !.at = "answered", !.cached = TRUE,
                                      !.status = entry.status, !.data = entry.data],
                       <<"cached">>)
  <2>1. /\ s.events = ask[a].events \o <<"cached">> /\ s.question = ask[a].question
        /\ s.attempts \in Nat /\ s.attempts >= ask[a].attempts
    BY <1>1, SMTT(30) DEF Emit, AskState
  <2>2. Becomes(a, s)
    BY <1>3 DEF Hit
  <2> HIDE DEF s
  <2>3. <<"cached">> \in Seq(Event)
    BY DEF Event
  <2>4. Grows(ask[a], s)
    BY <2>1, <2>3 DEF Grows
  <2>5. QED
    BY <1>1, <2>2, <2>4 DEF Advances, EndsAlike
<1>4. CASE Miss(a)
  <2> DEFINE s == Emit(Moved(ask[a], "llm"), <<"plan">>)
  <2>1. /\ s.events = ask[a].events \o <<"plan">> /\ s.question = ask[a].question
        /\ s.attempts \in Nat /\ s.attempts >= ask[a].attempts
    BY <1>1, SMTT(30) DEF Emit, Moved, AskState
  <2>2. Becomes(a, s)
    BY <1>4 DEF Miss
  <2> HIDE DEF s
  <2>3. <<"plan">> \in Seq(Event)
    BY DEF Event
  <2>4. Grows(ask[a], s)
    BY <2>1, <2>3 DEF Grows
  <2>5. QED
    BY <1>1, <2>2, <2>4 DEF Advances, EndsAlike
<1>5. QED
    BY <1>2, <1>3, <1>4

\* The attempts.
LEMMA WorkGrows ==
    ASSUME Inv, NEW a \in Asks,
           \/ Planned(a) \/ Rows(a) \/ Frame(a) \/ TableMissing(a)
           \/ QueryFails(a) \/ Refreshed(a) \/ Explained(a) \/ Concluded(a)
    PROVE  Advances(a)
<1>1. /\ ask[a].at \in {"llm", "exec", "refresh", "explain", "final"}
      /\ ask[a] \in AskState /\ Locals(ask[a]) /\ InFlight(ask[a])
    BY DEF Inv, AskInv, At, Planned, Rows, Frame, TableMissing, QueryFails, Refreshed,
           Explained, Concluded, Locals, Working, Waiting
<1>2. SUFFICES \E s : Becomes(a, s) /\ Grows(ask[a], s)
    BY <1>1 DEF Advances, EndsAlike, Waiting, Ending, Finishing, Saving, Settled
<1>3. /\ <<"result">> \in Seq(Event) /\ <<"insight">> \in Seq(Event)
      /\ <<"schema_refresh">> \in Seq(Event) /\ <<"chart">> \in Seq(Event)
      /\ <<>> \in Seq(Event)
    BY DEF Event
<1>4. CASE Planned(a)
  <2>1. PICK r \in Replies :
           Becomes(a, IF IsAnalysis(a) THEN AnalysisPlan(ask[a], r) ELSE PlainPlan(ask[a], r))
    BY <1>4 DEF Planned
  <2>2. ask[a].declines < ask[a].attempts /\ r \in Reply
    BY <1>1, <1>4, AskAssumption DEF Planned, At, Locals
  <2>3. QED
    BY <1>1, <2>1, <2>2, PlanGrows
<1>5. CASE Rows(a)
  <2> DEFINE r == [ask[a] EXCEPT !.data = {Running(a)}]
             s == Emit(r, <<"result">>)
             t == Emit(Moved(s, "audit"), <<"insight">>)
  <2>1. Running(a) \in DataKind
    BY <1>1, <1>5 DEF Rows, At, Plain, IsAnalysis, Running, Locals, OnQuery
  <2>2. /\ r \in AskState /\ r.events = ask[a].events /\ r.question = ask[a].question
        /\ r.attempts = ask[a].attempts
    BY <1>1, <2>1 DEF AskState
  <2>3. Becomes(a, Moved(s, "explain")) \/ Becomes(a, t)
    BY <1>5 DEF Rows
  <2> HIDE DEF r
  <2>4. Grows(ask[a], r)
    BY <1>1, <2>2, SameGrows
  <2>5. Grows(r, s) /\ s \in AskState
    BY <1>3, <2>2, EmitGrows
  <2>6. Grows(ask[a], s)
    BY <1>1, <2>4, <2>5, GrowsOn
  <2> HIDE DEF s
  <2>7. ASSUME NEW step \in {"explain", "audit"}
        PROVE  Grows(ask[a], Moved(s, step)) /\ Moved(s, step) \in AskState
    BY <1>1, <2>5, <2>6, MovedGrows, GrowsOn DEF Step, Waiting
  <2>8. Grows(Moved(s, "audit"), t)
    BY <1>3, <2>7, EmitGrows
  <2>9. Grows(ask[a], t)
    BY <1>1, <2>7, <2>8, GrowsOn
  <2>10. QED
    BY <2>3, <2>7, <2>9
<1>6. CASE Frame(a)
  <2> DEFINE s == [ask[a] EXCEPT !.data = ask[a].data \cup {Running(a)},
                                 !.queries = Tail(ask[a].queries)]
  <2>1. Becomes(a, NextQuery(s))
    BY <1>1, <1>6 DEF Frame
  <2>2. ask[a].queries # <<>> /\ Running(a) \in DataKind
    BY <1>1, <1>6 DEF Frame, At, Locals, Plain, IsAnalysis, Running
  <2>3. Tail(ask[a].queries) \in Seq(QueryKind)
    BY <1>1, <2>2 DEF AskState
  <2>4. /\ s \in AskState /\ s.events = ask[a].events /\ s.question = ask[a].question
        /\ s.attempts = ask[a].attempts
    BY <1>1, <2>2, <2>3 DEF AskState
  <2> HIDE DEF s
  <2>5. Grows(ask[a], NextQuery(s))
    BY <1>1, <2>4, SameGrows, NextQueryGrows, GrowsOn
  <2>6. QED
    BY <2>1, <2>5
<1>7. CASE TableMissing(a)
  <2> DEFINE r == Moved(ask[a], "refresh")
             s == Emit(r, <<"schema_refresh">>)
  <2>1. Becomes(a, s)
    BY <1>7 DEF TableMissing
  <2>2. Grows(ask[a], r) /\ r \in AskState
    BY <1>1, MovedGrows DEF Step, Waiting
  <2> HIDE DEF r
  <2>3. Grows(ask[a], s)
    BY <1>1, <1>3, <2>2, EmitGrows, GrowsOn
  <2>4. QED
    BY <2>1, <2>3
<1>8. CASE QueryFails(a)
    BY <1>1, <1>8, RetryGrows DEF QueryFails
<1>9. CASE Refreshed(a)
  <2> DEFINE s == [ask[a] EXCEPT !.schema = kitSchema'[KitOf[a]]]
  <2>1. Becomes(a, NextAttempt(s))
    BY <1>9 DEF Refreshed
  <2>2. /\ s.events = ask[a].events /\ s.question = ask[a].question
        /\ s.attempts = ask[a].attempts
    BY <1>1 DEF AskState
  <2>3. s \in AskState
    <3>1. kitSchema'[KitOf[a]] \in Schema
        BY <1>9, Installed, AskAssumption DEF Refreshed, Inv
    <3>2. QED
        BY <1>1, <3>1 DEF AskState
  <2> HIDE DEF s
  <2>4. Grows(ask[a], s) /\ Grows(s, NextAttempt(s))
    BY <1>1, <2>2, <2>3, SameGrows, NextAttemptGrows
  <2>5. QED
    BY <1>1, <2>1, <2>4, GrowsOn
<1>10. CASE Explained(a)
  <2> DEFINE r == Moved(ask[a], "audit")
  <2>1. PICK chart \in {<<>>, <<"chart">>} : Becomes(a, Emit(r, <<"insight">> \o chart))
    BY <1>10 DEF Explained
  <2>2. Grows(ask[a], r) /\ r \in AskState
    BY <1>1, MovedGrows DEF Step, Waiting
  <2> HIDE DEF r
  <2>3. <<"insight">> \o chart \in Seq(Event)
    <3>1. chart \in Seq(Event)
        BY <1>3
    <3>2. QED
        BY <1>3, <3>1
  <2>4. Grows(r, Emit(r, <<"insight">> \o chart))
    BY <2>2, <2>3, EmitGrows
  <2>5. Grows(ask[a], Emit(r, <<"insight">> \o chart))
    BY <1>1, <2>2, <2>4, GrowsOn
  <2>6. QED
    BY <2>1, <2>5
<1>11. CASE Concluded(a)
  <2> DEFINE r == [ask[a] EXCEPT !.status = "ok", !.at = "audit"]
             e == [ask[a] EXCEPT !.status = "error", !.at = "audit"]
             s == Emit(r, <<"insight">>)
  <2>1. Becomes(a, s) \/ Becomes(a, e)
    BY <1>11 DEF Concluded
  <2>2. /\ s.events = ask[a].events \o <<"insight">> /\ s.question = ask[a].question
        /\ s.attempts \in Nat /\ s.attempts >= ask[a].attempts
        /\ e.events = ask[a].events /\ e.question = ask[a].question
        /\ e.attempts = ask[a].attempts
    BY <1>1, SMTT(30) DEF Emit, AskState
  <2> HIDE DEF s, e
  <2>3. Grows(ask[a], s)
    BY <1>3, <2>2 DEF Grows
  <2>4. Grows(ask[a], e)
    BY <1>1, <2>2, SameGrows
  <2>5. QED
    BY <2>1, <2>3, <2>4
<1>12. QED
    BY <1>4, <1>5, <1>6, <1>7, <1>8, <1>9, <1>10, <1>11

\* The tail, and an ask that is stopped.
LEMMA EndGrows ==
    ASSUME Inv, NEW a \in Asks,
           \/ Recorded(a) \/ AuditFails(a) \/ Audited(a) \/ Stored(a) \/ Finished(a)
           \/ Raises(a) \/ SchemaCallRaises(a) \/ Cancelled(a)
    PROVE  Advances(a)
<1>1. ask[a] \in AskState
    BY DEF Inv, AskInv
<1>2. \A step \in Step :
         Grows(ask[a], Moved(ask[a], step)) /\ Moved(ask[a], step) \in AskState
    BY <1>1, MovedGrows
<1>3. Grows(ask[a], Done(ask[a]))
  <2> DEFINE r == Moved(ask[a], "answered")
  <2>1. Grows(ask[a], r) /\ r \in AskState
    BY <1>2 DEF Step, Settled
  <2>2. <<"done">> \in Seq(Event)
    BY DEF Event
  <2> HIDE DEF r
  <2>3. Grows(r, Emit(r, <<"done">>))
    BY <2>1, <2>2, EmitGrows
  <2>4. Grows(ask[a], Emit(r, <<"done">>))
    BY <1>1, <2>1, <2>3, GrowsOn
  <2>5. QED
    BY <2>4 DEF Done, r
<1>4. /\ ask[a].at \in Waiting
      /\ \/ Becomes(a, Done(ask[a]))
         \/ \E step \in Ending : Becomes(a, Moved(ask[a], step))
    BY DEF Recorded, AuditFails, Audited, Stored, Finished, Raises, SchemaCallRaises,
           Cancelled, At, Waiting, Ending, Finishing, Saving, Settled
<1>5. EndsAlike(ask[a], Done(ask[a]))
    BY <1>1 DEF EndsAlike, Done, Emit, Moved, AskState, Ending, Settled
<1>6. \A step \in Ending : step \in Step /\ EndsAlike(ask[a], Moved(ask[a], step))
    BY <1>1 DEF EndsAlike, Moved, AskState, Step, Waiting, Ending, Finishing, Saving
<1>7. QED
    BY <1>2, <1>3, <1>4, <1>5, <1>6 DEF Advances

LEMMA AskGrows ==
    ASSUME Inv, NEW a \in Asks, AskAdvances(a) \/ Cancelled(a)
    PROVE  Advances(a) \/ UNCHANGED ask
BY LookupGrows, WorkGrows, EndGrows DEF AskAdvances, askVars

\* A settled ask stays as it is; any other only adds to its events, about the question it
\* began with, and begins only while its stream is open; one that ends keeps its status.
Progress ==
    \A a \in Asks :
       \/ ask'[a] = ask[a]
       \/ /\ ~TaskDone(a)
          /\ EndsAlike(ask[a], ask'[a])
          /\ Grows(ask[a], ask'[a]) \/ (At(a, "idle") /\ IsOpen(a) /\ ask'[a].events = <<>>)

\* A step of one ask.
LEMMA OneProgress ==
    ASSUME Inv, NEW a \in Asks, Advances(a) PROVE Progress
<1>1. PICK s : Becomes(a, s) /\ Grows(ask[a], s) /\ EndsAlike(ask[a], s)
    BY DEF Advances
<1>2. ask'[a] = s /\ \A b \in Asks \ {a} : ask'[b] = ask[b]
    BY <1>1 DEF Inv, AskInv, Becomes
<1>3. ~TaskDone(a)
    BY DEF Advances, TaskDone, Waiting, Settled
<1>4. QED
    BY <1>1, <1>2, <1>3 DEF Progress

\* A beginning, on an open stream.
LEMMA StartProgress ==
    ASSUME Inv, AllAnnounced, NEW a \in Asks, AskStarts(a), IsOpen(a) PROVE Progress
<1>1. /\ ask[a].at = "idle" /\ ask[a] \in AskState /\ ask[a].events = <<>>
    BY DEF Inv, AskInv, AllAnnounced, Announced, Silent, TalksOn, Stopped, Ended, Working,
           Waiting, AskStarts, StartsWithSchema, StartsWithout, At
<1>2. \E s : Becomes(a, s) /\ s.events = <<>>
  <2>1. CASE StartsWithSchema(a)
    <3>1. PICK q \in Questions :
             Becomes(a, Looking([ask[a] EXCEPT !.question = q], KitOf[a]))
        BY <2>1 DEF StartsWithSchema
    <3>2. Looking([ask[a] EXCEPT !.question = q], KitOf[a]).events = <<>>
        BY <1>1 DEF Looking, AskState
    <3>3. QED
        BY <3>1, <3>2
  <2>2. CASE StartsWithout(a)
    <3>1. PICK q \in Questions :
             Becomes(a, [ask[a] EXCEPT !.at = "schema", !.question = q])
        BY <2>2 DEF StartsWithout
    <3>2. [ask[a] EXCEPT !.at = "schema", !.question = q].events = <<>>
        BY <1>1 DEF AskState
    <3>3. QED
        BY <3>1, <3>2
  <2>3. QED
    BY <2>1, <2>2 DEF AskStarts
<1>3. ask'[a].events = <<>> /\ \A b \in Asks \ {a} : ask'[b] = ask[b]
    BY <1>2 DEF Inv, AskInv, Becomes
<1>4. ~TaskDone(a) /\ EndsAlike(ask[a], ask'[a])
    BY <1>1 DEF TaskDone, EndsAlike, Ending, Finishing, Saving, Settled
<1>5. QED
    BY <1>1, <1>3, <1>4 DEF Progress, At

----------------------------------------------------------------------------
(* The server stops asks that have not run yet as well as those that wait. *)

\* What it stops, it leaves as it is.
StopsSome ==
    /\ ask' = [a \in Asks |-> ask'[a]]
    /\ UNCHANGED <<cache, audit>>
    /\ \A a \in Asks :
          \/ ask'[a] = ask[a]
          \/ /\ ~TaskDone(a)
             /\ \E step \in Settled \ {"answered"} : ask'[a] = Moved(ask[a], step)

LEMMA StopsSomeKeeps ==
    ASSUME Inv, AllAnnounced, StopsSome PROVE AskInv' /\ AllAnnounced' /\ Progress
<1>1. ASSUME NEW a \in Asks, NEW step \in Settled \ {"answered"}, ~TaskDone(a)
      PROVE  /\ Locals(Moved(ask[a], step)) /\ Moved(ask[a], step).at \in Settled
             /\ Alike(ask[a], Moved(ask[a], step))
             /\ Announced(Moved(ask[a], step))
             /\ Grows(ask[a], Moved(ask[a], step))
             /\ EndsAlike(ask[a], Moved(ask[a], step))
  <2>1. ask[a] \in AskState /\ Locals(ask[a]) /\ Announced(ask[a])
    BY DEF Inv, AskInv, AllAnnounced
  <2>2. /\ Locals(Moved(ask[a], step)) /\ Moved(ask[a], step).at = step
        /\ Alike(ask[a], Moved(ask[a], step))
    BY <2>1, StopOK
  <2>3. Moved(ask[a], step).events = ask[a].events
    BY <2>1 DEF Moved, AskState
  <2>4. Silent(ask[a]) \/ Talking(ask[a])
    BY <1>1, <2>1 DEF Announced, TalksOn, Stopped, Ended, TaskDone, Settled
  <2>5. Announced(Moved(ask[a], step))
    BY <2>2, <2>3, <2>4 DEF Announced, Silent, Stopped, Talking, Alike, Settled
  <2>6. Grows(ask[a], Moved(ask[a], step))
    BY <2>1, MovedGrows DEF Step
  <2>7. EndsAlike(ask[a], Moved(ask[a], step))
    BY <2>2 DEF EndsAlike, Alike, Ending
  <2>8. QED
    BY <2>2, <2>5, <2>6, <2>7
<1>2. ASSUME NEW a \in Asks
      PROVE  /\ Locals(ask'[a]) /\ ask'[a] \in AskState /\ Announced(ask'[a])
             /\ ask'[a] = ask[a] \/ (ask'[a].at \in Settled /\ Alike(ask[a], ask'[a]))
             /\ \/ ask'[a] = ask[a]
                \/ ~TaskDone(a) /\ Grows(ask[a], ask'[a]) /\ EndsAlike(ask[a], ask'[a])
  <2>1. ask[a] \in AskState /\ Locals(ask[a]) /\ Announced(ask[a])
    BY DEF Inv, AskInv, AllAnnounced
  <2>2. CASE ask'[a] = ask[a]
    BY <2>1, <2>2
  <2>3. CASE ~TaskDone(a) /\ \E step \in Settled \ {"answered"} : ask'[a] = Moved(ask[a], step)
    BY <1>1, <2>3 DEF Alike
  <2>4. QED
    BY <2>2, <2>3 DEF StopsSome
<1>3. ask' \in [Asks -> AskState]
    BY <1>2 DEF StopsSome
<1>4. \A a \in Asks : Locals(ask[a])'
    BY <1>2 DEF Locals, InFlight, OnQuery, Answers, Plain, IsCacheable
<1>5. ASSUME NEW a \in Asks PROVE AuditSound(a)'
  <2>1. AuditSound(a) /\ audit'[a] = audit[a]
    BY DEF Inv, AskInv, StopsSome
  <2>2. QED
    BY <1>2, <2>1 DEF AuditSound, Alike
<1>6. CacheSound'
    BY DEF StopsSome, Inv, AskInv, CacheSound, CachedAnswersSound, NoVolatileCached
<1>7. AskInv'
    BY <1>3, <1>4, <1>5, <1>6 DEF Inv, AskInv, StopsSome
<1>8. AllAnnounced'
    BY <1>2 DEF AllAnnounced, Announced, Silent, TalksOn, Stopped, Ended, Talking, Saying,
                Plain
<1>9. QED
    BY <1>2, <1>7, <1>8 DEF Progress

LEMMA NeverRunsStops ==
    ASSUME Inv, NEW a \in Asks, NeverRuns(a) PROVE StopsSome
<1>1. ask' = [ask EXCEPT ![a] = Moved(ask[a], "cancelled")] /\ ask[a].at = "idle"
    BY DEF NeverRuns, Becomes, At
<1>2. ~TaskDone(a)
    BY <1>1 DEF TaskDone, Settled
<1>3. QED
    BY <1>1, <1>2 DEF StopsSome, NeverRuns, Inv, AskInv, Settled

LEMMA ServerRestartsStops ==
    ASSUME Inv, NEW k \in Kits, ServerRestarts(k) PROVE StopsSome
<1>1. ask' = [a \in Asks |-> IF KitOf[a] = k /\ (ask[a].at \in Waiting \/ Scheduled(a))
                                 THEN Moved(ask[a], "lost") ELSE ask[a]]
    BY DEF ServerRestarts
<1>2. \A a \in Asks : ask[a].at \in Waiting \/ Scheduled(a) => ~TaskDone(a)
    BY DEF Scheduled, At, TaskDone, Waiting, Settled
<1>3. QED
    BY <1>1, <1>2 DEF StopsSome, ServerRestarts, Settled

----------------------------------------------------------------------------
(* Every step of the server keeps the invariants of the pipeline.          *)

Kept == Inv /\ AllAnnounced

LEMMA KeptInit == ServerInit => Kept
<1>1. Init => AllAnnounced
    BY DEF Init, AskInit, AllAnnounced, Announced, Silent, Fresh
<1>2. QED
    BY <1>1, InvInit DEF ServerInit, Kept

\* A step of the pipeline.
LEMMA PipelineKeeps ==
    ASSUME Kept, [Next]_vars PROVE Kept'
BY InvStep, AnnounceStep DEF Kept

\* A generator's step leaves the asks alone.
LEMMA StillKept == ASSUME Kept, UNCHANGED vars PROVE Kept' /\ Progress
<1>1. [Next]_vars
    OBVIOUS
<1>2. QED
    BY <1>1, PipelineKeeps DEF Progress, vars, askVars

LEMMA CancelledKeeps ==
    ASSUME Kept, NEW a \in Asks, Cancelled(a) PROVE Kept' /\ Progress
<1>1. AskInv'
    BY StopSteps DEF Kept
<1>2. AllAnnounced'
    BY EndAnnounced DEF Kept
<1>3. [KitNext]_schemaVars
    BY AskAssumption DEF Cancelled, KitNext, CallEnds
<1>4. KitInv'
    BY <1>3, KitInvStep DEF Kept, Inv
<1>5. Progress
    BY EndGrows, OneProgress DEF Kept
<1>6. QED
    BY <1>1, <1>2, <1>4, <1>5 DEF Kept, Inv

LEMMA DisconnectsKeeps ==
    ASSUME Kept, NEW a \in Asks, Disconnects(a) PROVE Kept' /\ Progress
<1>1. CASE UNCHANGED vars
    BY <1>1, StillKept
<1>2. CASE NeverRuns(a)
  <2>1. AskInv' /\ AllAnnounced' /\ Progress
    BY <1>2, NeverRunsStops, StopsSomeKeeps DEF Kept
  <2>2. KitInv'
    BY <1>2, KitInvStep DEF NeverRuns, Kept, Inv
  <2>3. QED
    BY <2>1, <2>2 DEF Kept, Inv
<1>3. CASE Cancelled(a)
    BY <1>3, CancelledKeeps
<1>4. CASE QueryFails(a)
  <2>1. [Next]_vars
    BY <1>4 DEF Next, AskAdvances
  <2>2. Progress
    BY <1>4, WorkGrows, OneProgress DEF Kept
  <2>3. QED
    BY <2>1, <2>2, PipelineKeeps
<1>5. QED
    BY <1>1, <1>2, <1>3, <1>4 DEF Disconnects

LEMMA ServerRestartsKeeps ==
    ASSUME Kept, NEW k \in Kits, ServerRestarts(k) PROVE Kept' /\ Progress
<1>1. AskInv' /\ AllAnnounced' /\ Progress
    BY ServerRestartsStops, StopsSomeKeeps DEF Kept
<1>2. [KitNext]_schemaVars
    BY DEF ServerRestarts, KitNext
<1>3. KitInv'
    BY <1>2, KitInvStep DEF Kept, Inv
<1>4. QED
    BY <1>1, <1>3 DEF Kept, Inv

\* Every step of the server is one of these.
LEMMA ServerKeeps == Kept /\ [ServerNext]_allVars => Kept' /\ Progress
<1> SUFFICES ASSUME Kept, [ServerNext]_allVars PROVE Kept' /\ Progress
    OBVIOUS
<1>1. ASSUME NEW a \in Asks, IsOpen(a) /\ AskStarts(a) PROVE Kept' /\ Progress
  <2>1. [Next]_vars
    BY <1>1 DEF Next
  <2>2. QED
    BY <1>1, <2>1, PipelineKeeps, StartProgress DEF Kept
<1>2. ASSUME NEW a \in Asks, AskAdvances(a) PROVE Kept' /\ Progress
  <2>1. [Next]_vars
    BY <1>2 DEF Next
  <2>2. Advances(a) \/ UNCHANGED ask
    BY <1>2, AskGrows DEF Kept
  <2>3. Progress
    BY <2>2, OneProgress DEF Kept, Progress
  <2>4. QED
    BY <2>1, <2>3, PipelineKeeps
<1>3. ASSUME NEW t \in Tasks \ Asks, SchemaTask(t) PROVE Kept' /\ Progress
  <2>1. [Next]_vars /\ UNCHANGED ask
    BY <1>3 DEF Next, SchemaTask, askVars
  <2>2. QED
    BY <2>1, PipelineKeeps DEF Progress
<1>4. ASSUME NEW key \in Key, Expires(key) PROVE Kept' /\ Progress
  <2>1. [Next]_vars /\ UNCHANGED ask
    BY <1>4 DEF Next, Expires
  <2>2. QED
    BY <2>1, PipelineKeeps DEF Progress
<1>5. ASSUME NEW a \in Asks, Opens(a) \/ StreamAdvances(a) PROVE Kept' /\ Progress
  <2>1. UNCHANGED vars
    BY <1>5 DEF Opens, StreamAdvances, Forwards, ForwardsDone, GivesUp
  <2>2. QED
    BY <2>1, StillKept
<1>6. CASE UNCHANGED allVars
    BY <1>6, StillKept DEF allVars
<1>7. QED
    BY <1>1, <1>2, <1>3, <1>4, <1>5, <1>6, DisconnectsKeeps, ServerRestartsKeeps
       DEF ServerNext

----------------------------------------------------------------------------
(* The generators.  The inductive invariant says of each what the three    *)
(* properties ask, and of the metrics that they count the requests whose   *)
(* ask was answered and whose queue has been read to its end.              *)

Counts(a) ==
    ask[a].at = "answered" /\ ~ask[a].cached /\ stream[a].read = Len(ask[a].events)

Counted == {a \in Asks : Counts(a)}
Failed == {a \in Counted : ask[a].status # "ok"}

\* the ask has given up the attempt in which its client left
WentOn(a) ==
    \/ ask[a].attempts > stream[a].left
    \/ ask[a].status = "error" /\ ask[a].at \in Ending

StreamSound(a) ==
    /\ stream[a] \in Stream
    /\ stream[a].read <= Len(ask[a].events)
    /\ stream[a].gone => stream[a].at = "closed"
    /\ stream[a].at = "closed" /\ ~stream[a].gone
          => TaskDone(a) /\ stream[a].read = Len(ask[a].events)
    /\ stream[a].gone /\ ~TaskDone(a) => HasEngine /\ stream[a].left # 0
    /\ stream[a].left # 0 => stream[a].at = "closed" /\ (HasEngine => WentOn(a))

MetricsSound ==
    /\ metrics \in [requests : Nat, errors : Nat, hits : Nat]
    /\ ~MayStop => /\ IsFiniteSet(Counted)
                   /\ metrics.requests = Cardinality(Counted)
                   /\ metrics.errors = Cardinality(Failed)

StreamsSound ==
    /\ stream = [a \in Asks |-> stream[a]]
    /\ \A a \in Asks : StreamSound(a)

ServerInv == Kept /\ StreamsSound /\ MetricsSound

\* A generator ends, having forwarded n events, and its client is there or not.
LEMMA EndsOK ==
    ASSUME NEW s \in Stream, NEW n \in Nat
    PROVE  LET r == [s EXCEPT !.read = n, !.at = "closed"] IN
           r \in Stream /\ r.at = "closed" /\ r.read = n /\ r.gone = s.gone /\ r.left = s.left
BY DEF Stream

LEMMA LeavesOK ==
    ASSUME NEW s \in Stream, NEW n \in 0..MaxAttempts
    PROVE  LET r == [s EXCEPT !.at = "closed", !.gone = TRUE, !.left = n] IN
           r \in Stream /\ r.at = "closed" /\ r.read = s.read /\ r.gone = TRUE /\ r.left = n
BY DEF Stream

LEMMA LosesOK ==
    ASSUME NEW s \in Stream
    PROVE  LET r == [s EXCEPT !.at = "closed", !.gone = TRUE] IN
           r \in Stream /\ r.at = "closed" /\ r.read = s.read /\ r.gone = TRUE
              /\ r.left = s.left
BY DEF Stream

\* "done" is the last event of an answered ask, and of no other.
LEMMA DoneIsLast ==
    ASSUME NEW s \in AskState, Announced(s)
    PROVE  /\ \A i \in 1..Len(s.events) : s.events[i] = "done" =>
                  s.at = "answered" /\ ~s.cached /\ i = Len(s.events)
           /\ s.at = "answered" /\ ~s.cached =>
                  Len(s.events) > 0 /\ s.events[Len(s.events)] = "done"
<1>1. CASE Silent(s)
    BY <1>1 DEF Silent
<1>2. CASE TalksOn(s) \/ Stopped(s)
    BY <1>2 DEF TalksOn, Stopped, Talking, Ordered, Working, Waiting
<1>3. CASE s.at = "answered" /\ s.cached /\ s.events = <<"cached">>
  <2>1. Len(<<"cached">>) = 1 /\ <<"cached">>[1] = "cached"
    OBVIOUS
  <2>2. QED
    BY <1>3, <2>1
<1>4. CASE /\ s.at = "answered" /\ ~s.cached
           /\ \E events : Ordered(events) /\ s.events = events \o <<"done">>
  <2>1. PICK events : Ordered(events) /\ s.events = events \o <<"done">>
    BY <1>4
  <2>2. /\ events \in Seq(Event) /\ Len(events) \in Nat /\ <<"done">> \in Seq(Event)
    BY <2>1 DEF Ordered, Event
  <2>3. /\ Len(s.events) = Len(events) + 1
        /\ s.events[Len(events) + 1] = "done"
        /\ \A i \in 1..Len(events) : s.events[i] = events[i]
    BY <2>1, <2>2
  <2>4. \A i \in 1..Len(events) : s.events[i] # "done"
    BY <2>1, <2>3 DEF Ordered
  <2>5. QED
    BY <1>4, <2>2, <2>3, <2>4
<1>5. QED
    BY <1>1, <1>2, <1>3, <1>4 DEF Announced, Ended

\* What Grows says of the events, one by one.
LEMMA GrownEvents ==
    ASSUME NEW s \in AskState, NEW r \in AskState, Grows(s, r)
    PROVE  /\ Len(s.events) \in Nat /\ Len(r.events) \in Nat
           /\ Len(s.events) <= Len(r.events)
           /\ \A i \in 1..Len(s.events) : r.events[i] = s.events[i]
<1>1. PICK more \in Seq(Event) : r.events = s.events \o more
    BY DEF Grows
<1>2. s.events \in Seq(Event) /\ r.events \in Seq(Event)
    BY DEF AskState
<1>3. QED
    BY <1>1, <1>2

\* A request that reads nothing is counted if it was, and the ask of one that is counted
\* stays as it is.
LEMMA Unread ==
    ASSUME Kept, Kept', Progress, NEW a \in Asks, stream[a].read \in Nat,
           stream[a].read <= Len(ask[a].events), stream'[a].read = stream[a].read
    PROVE  /\ stream'[a].read <= Len(ask'[a].events)
           /\ Counts(a)' <=> Counts(a)
           /\ Counts(a) => ask'[a] = ask[a]
<1>1. /\ ask[a] \in AskState /\ ask'[a] \in AskState
      /\ Announced(ask[a])
    BY DEF Kept, Inv, AskInv, AllAnnounced
<1>2. ask'[a].at = "answered" /\ ~ask'[a].cached =>
         Len(ask'[a].events) > 0 /\ ask'[a].events[Len(ask'[a].events)] = "done"
  <2>1. \A b \in Asks : Announced(ask[b])'
    BY DEF Kept, AllAnnounced
  <2>2. Announced(ask'[a])
    BY <2>1 DEF Announced, Silent, TalksOn, Stopped, Ended, Talking, Saying, Plain
  <2>3. QED
    BY <1>1, <2>2, DoneIsLast
<1>3. CASE ask'[a] = ask[a]
    BY <1>3 DEF Counts
<1>4. CASE ~TaskDone(a) /\ Grows(ask[a], ask'[a])
  <2>1. ~Counts(a)
    BY <1>4 DEF Counts, TaskDone, Settled
  <2>2. /\ Len(ask[a].events) \in Nat /\ Len(ask'[a].events) \in Nat
        /\ Len(ask[a].events) <= Len(ask'[a].events)
        /\ \A i \in 1..Len(ask[a].events) : ask'[a].events[i] = ask[a].events[i]
    BY <1>1, <1>4, GrownEvents
  <2>3. ASSUME Counts(a)' PROVE FALSE
    <3>1. /\ ask'[a].at = "answered" /\ ~ask'[a].cached
          /\ stream'[a].read = Len(ask'[a].events)
        BY <2>3 DEF Counts
    <3>2. /\ Len(ask'[a].events) \in 1..Len(ask[a].events)
          /\ ask'[a].events[Len(ask'[a].events)] = "done"
        BY <1>2, <2>2, <3>1
    <3>3. ask[a].events[Len(ask'[a].events)] = "done"
        BY <2>2, <3>2
    <3>4. ask[a].at = "answered"
        BY <1>1, <3>2, <3>3, DoneIsLast
    <3>5. QED
        BY <1>4, <3>4 DEF TaskDone, Settled
  <2>4. QED
    BY <2>1, <2>2, <2>3
<1>5. CASE At(a, "idle") /\ ask'[a].events = <<>>
  <2>1. ask[a].events = <<>> /\ ~Counts(a)
    BY <1>1, <1>5 DEF At, Announced, Silent, TalksOn, Stopped, Ended, Working, Waiting, Counts
  <2>2. stream'[a].read = 0 /\ Len(ask'[a].events) = 0
    BY <1>5, <2>1
  <2>3. ~Counts(a)'
    BY <1>2, <2>2 DEF Counts
  <2>4. QED
    BY <2>1, <2>2, <2>3
<1>6. QED
    BY <1>3, <1>4, <1>5 DEF Progress

\* An attempt that was given up is not taken up again.
LEMMA WentOnStays ==
    ASSUME Kept, Kept', Progress, NEW a \in Asks, ~IsOpen(a), WentOn(a),
           stream'[a].left = stream[a].left, stream[a].left \in 0..MaxAttempts
    PROVE  WentOn(a)'
<1>1. ask[a].attempts \in Nat /\ stream[a].left \in Nat
    BY AskAssumption DEF Kept, Inv, AskInv, AskState
<1>2. CASE ask'[a] = ask[a]
    BY <1>2 DEF WentOn
<1>3. CASE Grows(ask[a], ask'[a]) /\ EndsAlike(ask[a], ask'[a])
    BY <1>1, <1>3 DEF WentOn, Grows, EndsAlike
<1>4. QED
    BY <1>2, <1>3 DEF Progress

\* A request whose generator does nothing.
LEMMA StreamStays ==
    ASSUME Kept, Kept', Progress, NEW a \in Asks, StreamSound(a), stream'[a] = stream[a]
    PROVE  StreamSound(a)'
<1>1. stream[a].read \in Nat /\ stream'[a].read <= Len(ask'[a].events)
    BY Unread DEF StreamSound, Stream
<1>2. TaskDone(a) => ask'[a] = ask[a]
    BY DEF Progress
<1>3. stream'[a].gone /\ ~TaskDone(a)' => HasEngine /\ stream'[a].left # 0
    BY <1>2 DEF StreamSound, TaskDone
<1>4. HasEngine /\ stream[a].left # 0 => WentOn(a)'
    BY WentOnStays DEF StreamSound, Stream, IsOpen
<1>5. QED
    BY <1>1, <1>2, <1>3, <1>4 DEF StreamSound, TaskDone

\* If nothing is read, the metrics have nothing to count.
LEMMA NothingCounted ==
    ASSUME Kept, Kept', Progress, StreamsSound, MetricsSound, UNCHANGED metrics,
           \A a \in Asks : stream'[a].read = stream[a].read
    PROVE  MetricsSound'
<1>1. \A a \in Asks : (Counts(a)' <=> Counts(a)) /\ (Counts(a) => ask'[a] = ask[a])
    BY Unread DEF StreamsSound, StreamSound, Stream
<1>2. Counted' = Counted
    BY <1>1 DEF Counted
<1>3. Failed' = Failed
  <2>1. \A a \in Counted : ask'[a].status = ask[a].status
    BY <1>1 DEF Counted
  <2>2. QED
    BY <1>2, <2>1 DEF Failed
<1>4. QED
    BY <1>2, <1>3 DEF MetricsSound

\* The asks and the schema move on without the generators.
LEMMA AsksMove ==
    ASSUME Kept, Kept', Progress, StreamsSound, MetricsSound, UNCHANGED serverVars
    PROVE  StreamsSound' /\ MetricsSound'
<1>1. stream' = stream /\ metrics' = metrics
    BY DEF serverVars
<1>2. StreamsSound'
    BY <1>1, StreamStays DEF StreamsSound
<1>3. QED
    BY <1>1, <1>2, NothingCounted

\* What the generator of a does to its record leaves the other requests as they are.
LEMMA OneStream ==
    ASSUME Kept, Kept', Progress, StreamsSound, NEW a \in Asks, NEW r,
           stream' = [stream EXCEPT ![a] = r], StreamSound(a)'
    PROVE  /\ StreamsSound'
           /\ stream'[a] = r
           /\ \A b \in Asks \ {a} : stream'[b] = stream[b]
<1>1. stream'[a] = r /\ \A b \in Asks \ {a} : stream'[b] = stream[b]
    BY DEF StreamsSound
<1>2. stream' = [b \in Asks |-> stream'[b]]
    BY DEF StreamsSound
<1>3. \A b \in Asks \ {a} : StreamSound(b)'
    BY <1>1, StreamStays DEF StreamsSound
<1>4. QED
    BY <1>1, <1>2, <1>3 DEF StreamsSound

\* What is left of a sequence of which n are read.
LEMMA RestOfQueue ==
    ASSUME NEW events \in Seq(Event), NEW n \in Nat, n <= Len(events)
    PROVE  LET rest == SubSeq(events, n + 1, Len(events)) IN
           /\ rest = <<>> <=> n = Len(events)
           /\ rest # <<>> => n + 1 \in 1..Len(events) /\ Head(rest) = events[n + 1]
<1> DEFINE rest == SubSeq(events, n + 1, Len(events))
<1>1. Len(events) \in Nat
    OBVIOUS
<1>2. CASE n = Len(events)
    BY <1>1, <1>2
<1>3. CASE n < Len(events)
  <2>1. n + 1 \in 1..Len(events) /\ Len(rest) = Len(events) - n
    BY <1>1, <1>3
  <2>2. rest[1] = events[n + 1]
    BY <1>1, <1>3
  <2>3. rest \in Seq(Event)
    BY <1>1, <1>3
  <2> HIDE DEF rest
  <2>4. rest # <<>>
    BY <1>1, <1>3, <2>1, <2>3
  <2>5. Head(rest) = events[n + 1]
    BY <2>2, <2>3, <2>4
  <2>6. QED
    BY <1>3, <2>1, <2>4, <2>5
<1>4. QED
    BY <1>1, <1>2, <1>3

\* The queue of a request.
LEMMA QueueOK ==
    ASSUME Kept, NEW a \in Asks, StreamSound(a)
    PROVE  /\ stream[a].read \in Nat /\ Len(ask[a].events) \in Nat
           /\ Queued(a) = <<>> <=> stream[a].read = Len(ask[a].events)
           /\ Queued(a) # <<>> => /\ stream[a].read + 1 \in 1..Len(ask[a].events)
                                  /\ Head(Queued(a)) = ask[a].events[stream[a].read + 1]
<1>1. /\ ask[a].events \in Seq(Event) /\ stream[a].read \in Nat
      /\ stream[a].read <= Len(ask[a].events)
    BY DEF Kept, Inv, AskInv, AskState, StreamSound, Stream
<1>2. Len(ask[a].events) \in Nat
    BY <1>1
<1>3. QED
    BY <1>1, <1>2, RestOfQueue DEF Queued

\* Opens, Forwards and GivesUp read no "done": the counted requests stay.
LEMMA OpensKeeps ==
    ASSUME ServerInv, Kept', Progress, NEW a \in Asks, Opens(a)
    PROVE  StreamsSound' /\ MetricsSound'
<1> DEFINE r == [stream[a] EXCEPT !.at = "open"]
<1>1. StreamSound(a) /\ stream[a].at = "off"
    BY DEF ServerInv, StreamsSound, Opens
<1>2. stream' = [stream EXCEPT ![a] = r] /\ UNCHANGED <<vars, metrics>>
    BY DEF Opens
<1>3. /\ r \in Stream /\ r.at = "open" /\ r.read = stream[a].read
      /\ r.gone = stream[a].gone /\ r.left = stream[a].left
    BY <1>1 DEF StreamSound, Stream
<1> HIDE DEF r
<1>4. stream'[a] = r /\ ask' = ask
    BY <1>2 DEF ServerInv, StreamsSound, vars, askVars
<1>5. StreamSound(a)'
    BY <1>1, <1>3, <1>4 DEF StreamSound, TaskDone
<1>6. /\ StreamsSound'
      /\ \A b \in Asks : stream'[b].read = stream[b].read
    BY <1>2, <1>3, <1>4, <1>5, OneStream DEF ServerInv
<1>7. QED
    BY <1>2, <1>6, NothingCounted DEF ServerInv

LEMMA GivesUpKeeps ==
    ASSUME ServerInv, Kept', Progress, NEW a \in Asks, GivesUp(a)
    PROVE  StreamsSound' /\ MetricsSound'
<1> DEFINE r == [stream[a] EXCEPT !.at = "closed"]
<1>1. StreamSound(a) /\ stream[a].at = "open" /\ TaskDone(a) /\ Queued(a) = <<>>
    BY DEF ServerInv, StreamsSound, GivesUp, IsOpen
<1>2. stream' = [stream EXCEPT ![a] = r] /\ UNCHANGED <<vars, metrics>>
    BY DEF GivesUp
<1>3. /\ r \in Stream /\ r.at = "closed" /\ r.read = stream[a].read
      /\ r.gone = stream[a].gone /\ r.left = stream[a].left
    BY <1>1 DEF StreamSound, Stream
<1> HIDE DEF r
<1>4. stream'[a] = r /\ ask' = ask
    BY <1>2 DEF ServerInv, StreamsSound, vars, askVars
<1>5. stream[a].read = Len(ask[a].events)
    BY <1>1, QueueOK DEF ServerInv
<1>6. StreamSound(a)'
    BY <1>1, <1>3, <1>4, <1>5 DEF StreamSound, TaskDone
<1>7. /\ StreamsSound'
      /\ \A b \in Asks : stream'[b].read = stream[b].read
    BY <1>2, <1>3, <1>4, <1>6, OneStream DEF ServerInv
<1>8. QED
    BY <1>2, <1>7, NothingCounted DEF ServerInv

LEMMA ForwardsKeeps ==
    ASSUME ServerInv, Kept', Progress, NEW a \in Asks, Forwards(a)
    PROVE  StreamsSound' /\ MetricsSound'
<1> DEFINE n == stream[a].read
           r == [stream[a] EXCEPT !.read = n + 1]
<1>1. StreamSound(a) /\ stream[a].at = "open"
    BY DEF ServerInv, StreamsSound, Forwards, IsOpen
<1>2. stream' = [stream EXCEPT ![a] = r] /\ UNCHANGED <<vars, metrics>>
    BY DEF Forwards
<1>3. /\ n \in Nat /\ Len(ask[a].events) \in Nat
      /\ n + 1 \in 1..Len(ask[a].events)
      /\ ask[a].events[n + 1] # "done"
    BY <1>1, QueueOK DEF ServerInv, Forwards
<1>4. /\ r \in Stream /\ r.at = "open" /\ r.read = n + 1 /\ r.gone = stream[a].gone
      /\ r.left = stream[a].left
    BY <1>1, <1>3 DEF StreamSound, Stream
<1> HIDE DEF r, n
<1>5. stream'[a] = r /\ ask' = ask /\ metrics' = metrics
    BY <1>2 DEF ServerInv, StreamsSound, vars, askVars
<1>6. StreamSound(a)'
    BY <1>1, <1>3, <1>4, <1>5 DEF StreamSound, TaskDone
<1>7. StreamsSound' /\ \A b \in Asks \ {a} : stream'[b] = stream[b]
    BY <1>2, <1>6, OneStream DEF ServerInv
<1>8. ~Counts(a) /\ ~Counts(a)'
  <2>1. ask[a] \in AskState /\ Announced(ask[a])
    BY DEF ServerInv, Kept, Inv, AskInv, AllAnnounced
  <2>2. ask[a].at = "answered" /\ ~ask[a].cached => n + 1 # Len(ask[a].events)
    BY <1>3, <2>1, DoneIsLast
  <2>3. n # Len(ask[a].events)
    BY <1>3
  <2>4. QED
    BY <1>4, <1>5, <2>2, <2>3 DEF Counts, n
<1>9. Counted' = Counted /\ Failed' = Failed
  <2>1. \A b \in Asks : Counts(b)' <=> Counts(b)
    BY <1>5, <1>7, <1>8 DEF Counts
  <2>2. QED
    BY <1>5, <2>1 DEF Counted, Failed
<1>10. QED
    BY <1>5, <1>7, <1>9 DEF ServerInv, MetricsSound

\* "done" counts the request, once: until then its queue was not empty.
LEMMA ForwardsDoneKeeps ==
    ASSUME ServerInv, Kept', Progress, NEW a \in Asks, ForwardsDone(a)
    PROVE  StreamsSound' /\ MetricsSound'
<1> DEFINE n == stream[a].read
           r == [stream[a] EXCEPT !.read = n + 1, !.at = "closed"]
<1>1. StreamSound(a) /\ stream[a].at = "open"
    BY DEF ServerInv, StreamsSound, ForwardsDone, IsOpen
<1>2. /\ stream' = [stream EXCEPT ![a] = r]
      /\ UNCHANGED vars
      /\ Record(ask[a].cached, ask[a].status = "ok")
    BY DEF ForwardsDone, ServerInv, StreamsSound
<1>3. /\ n \in Nat /\ Len(ask[a].events) \in Nat
      /\ n + 1 \in 1..Len(ask[a].events)
      /\ ask[a].events[n + 1] = "done"
    BY <1>1, QueueOK DEF ServerInv, ForwardsDone
<1>4. /\ r \in Stream /\ r.at = "closed" /\ r.read = n + 1 /\ r.gone = stream[a].gone
      /\ r.left = stream[a].left
  <2>1. stream[a] \in Stream /\ n + 1 \in Nat
    BY <1>1, <1>3 DEF StreamSound
  <2>2. QED
    BY <2>1, EndsOK
<1> HIDE DEF r
<1>5. stream'[a] = r /\ ask' = ask
    BY <1>2 DEF ServerInv, StreamsSound, vars, askVars
<1>6. ask[a].at = "answered" /\ ~ask[a].cached /\ n + 1 = Len(ask[a].events)
  <2>1. ask[a] \in AskState /\ Announced(ask[a])
    BY DEF ServerInv, Kept, Inv, AskInv, AllAnnounced
  <2>2. QED
    BY <1>3, <2>1, DoneIsLast
<1>7. StreamSound(a)'
    BY <1>1, <1>4, <1>5, <1>6 DEF StreamSound, TaskDone, Settled
<1>8. StreamsSound' /\ \A b \in Asks \ {a} : stream'[b] = stream[b]
    BY <1>2, <1>7, OneStream DEF ServerInv
<1>9. ~Counts(a) /\ Counts(a)'
    BY <1>3, <1>4, <1>5, <1>6 DEF Counts
<1>10. /\ Counted' = Counted \cup {a} /\ a \notin Counted
       /\ Failed' = IF ask[a].status = "ok" THEN Failed ELSE Failed \cup {a}
       /\ a \notin Failed
  <2>1. \A b \in Asks \ {a} : Counts(b)' <=> Counts(b)
    BY <1>5, <1>8 DEF Counts
  <2>2. Counted' = Counted \cup {a} /\ a \notin Counted
    BY <1>9, <2>1 DEF Counted
  <2>3. QED
    BY <1>5, <2>2 DEF Failed
<1>11. /\ metrics'.requests = metrics.requests + 1
       /\ metrics'.errors = metrics.errors + (IF ask[a].status = "ok" THEN 0 ELSE 1)
       /\ metrics' \in [requests : Nat, errors : Nat, hits : Nat]
    BY <1>2 DEF Record, ServerInv, MetricsSound
<1>12. ASSUME ~MayStop
       PROVE  /\ IsFiniteSet(Counted')
              /\ metrics'.requests = Cardinality(Counted')
              /\ metrics'.errors = Cardinality(Failed')
  <2>1. /\ IsFiniteSet(Counted) /\ metrics.requests = Cardinality(Counted)
        /\ metrics.errors = Cardinality(Failed)
    BY <1>12 DEF ServerInv, MetricsSound
  <2>2. IsFiniteSet(Failed)
    BY <2>1, FS_Subset DEF Failed
  <2>3. /\ IsFiniteSet(Counted \cup {a})
        /\ Cardinality(Counted \cup {a}) = Cardinality(Counted) + 1
    BY <1>10, <2>1, FS_AddElement
  <2>4. Cardinality(Failed \cup {a}) = Cardinality(Failed) + 1
    BY <1>10, <2>2, FS_AddElement
  <2>5. Cardinality(Failed) \in Nat
    BY <2>2, FS_CardinalityType
  <2>6. QED
    BY <1>10, <1>11, <2>1, <2>3, <2>4, <2>5
<1>13. QED
    BY <1>8, <1>11, <1>12 DEF MetricsSound

\* Whoever loses its client is settled, or gives up the query it was executing.
LEMMA DisconnectsStreams ==
    ASSUME ServerInv, Kept', Progress, NEW a \in Asks, Disconnects(a)
    PROVE  StreamsSound' /\ MetricsSound'
<1> DEFINE n == IF At(a, "exec") THEN ask[a].attempts ELSE 0
           r == [stream[a] EXCEPT !.at = "closed", !.gone = TRUE, !.left = n]
<1>1. /\ StreamSound(a) /\ ask[a] \in AskState /\ ask'[a] \in AskState
      /\ Locals(ask[a])
    BY DEF ServerInv, StreamsSound, Kept, Inv, AskInv
<1>2. stream' = [stream EXCEPT ![a] = r] /\ metrics' = metrics
    BY DEF Disconnects, Breaks, ServerInv, StreamsSound
<1>10. n \in 0..MaxAttempts /\ (At(a, "exec") => n = ask[a].attempts /\ n # 0)
    BY <1>1, AskAssumption DEF AskState
<1>11. ~At(a, "exec") => n = 0
    OBVIOUS
<1> HIDE DEF n
<1>3. r \in Stream /\ r.at = "closed" /\ r.read = stream[a].read /\ r.gone = TRUE
         /\ r.left = n
    BY <1>1, <1>10, LeavesOK DEF StreamSound
<1> HIDE DEF r
<1>4. stream'[a] = r
    BY <1>2 DEF ServerInv, StreamsSound
<1>5. stream'[a].read <= Len(ask'[a].events)
    BY <1>1, <1>3, <1>4, Unread DEF ServerInv, StreamSound, Stream
<1>6. /\ ~TaskDone(a)' => HasEngine /\ n # 0
      /\ HasEngine /\ n # 0 => WentOn(a)'
  <2>1. CASE TaskDone(a) /\ UNCHANGED vars
    BY <1>11, <2>1 DEF TaskDone, At, Settled, vars, askVars
  <2>2. CASE NeverRuns(a) \/ Cancelled(a)
    <3>1. Becomes(a, Moved(ask[a], "cancelled"))
        BY <2>2 DEF NeverRuns, Cancelled
    <3>2. ask'[a] = Moved(ask[a], "cancelled")
        BY <3>1 DEF Becomes, ServerInv, Kept, Inv, AskInv
    <3>3. ask'[a].at = "cancelled"
        BY <1>1, <3>2, MovedOK DEF Step, Settled
    <3>4. HasEngine => ~At(a, "exec")
        BY <2>2 DEF NeverRuns, Cancelled, At
    <3>5. QED
        BY <1>11, <3>3, <3>4 DEF TaskDone, Settled
  <2>3. CASE QueryFails(a)
    <3>1. HasEngine /\ ask[a].at = "exec" /\ ask'[a] = Retry(ask[a])
        BY <2>3 DEF QueryFails, At, Becomes, ServerInv, Kept, Inv, AskInv
    <3>2. \/ Retry(ask[a]).attempts = ask[a].attempts + 1
          \/ Retry(ask[a]).status = "error" /\ Retry(ask[a]).at = "audit"
      <4> DEFINE e == Emit(ask[a], <<"retry">>)
      <4>1. <<"retry">> \in Seq(Event)
          BY DEF Event
      <4>2. e \in AskState /\ e.attempts = ask[a].attempts
          BY <1>1, <4>1, EmitOK DEF Alike
      <4>3. Retry(ask[a]) = NextAttempt(e)
          BY DEF Retry
      <4> HIDE DEF e
      <4>4. QED
          BY <4>2, <4>3 DEF NextAttempt, AskState
    <3>3. n = ask[a].attempts /\ n # 0 /\ ask[a].attempts \in Nat
        BY <1>1, <1>10, <3>1, AskAssumption DEF At, AskState
    <3>4. WentOn(a)'
        BY <1>3, <1>4, <3>1, <3>2, <3>3 DEF WentOn, Ending, Finishing
    <3>5. QED
        BY <3>1, <3>3, <3>4
  <2>4. QED
    BY <2>1, <2>2, <2>3 DEF Disconnects
<1>7. StreamSound(a)'
    BY <1>3, <1>4, <1>5, <1>6 DEF StreamSound
<1>8. /\ StreamsSound'
      /\ \A b \in Asks : stream'[b].read = stream[b].read
    BY <1>2, <1>3, <1>4, <1>7, OneStream DEF ServerInv
<1>9. QED
    BY <1>2, <1>8, NothingCounted DEF ServerInv

\* A restart ends the streams of the kit, and their asks with them.
LEMMA ServerRestartsStreams ==
    ASSUME ServerInv, Kept', Progress, NEW k \in Kits, MayStop, ServerRestarts(k)
    PROVE  StreamsSound' /\ MetricsSound'
<1>1. /\ stream' = [a \in Asks |-> IF KitOf[a] = k /\ IsOpen(a)
                                      THEN [stream[a] EXCEPT !.at = "closed", !.gone = TRUE]
                                      ELSE stream[a]]
      /\ ask' = [a \in Asks |-> IF KitOf[a] = k /\ (ask[a].at \in Waiting \/ Scheduled(a))
                                   THEN Moved(ask[a], "lost") ELSE ask[a]]
      /\ metrics' = [requests |-> 0, errors |-> 0, hits |-> 0]
    BY DEF ServerRestarts
<1>2. ASSUME NEW a \in Asks PROVE StreamSound(a)'
  <2>1. StreamSound(a) /\ ask[a] \in AskState
    BY DEF ServerInv, StreamsSound, Kept, Inv, AskInv
  <2>2. CASE KitOf[a] = k /\ IsOpen(a)
    <3> DEFINE r == [stream[a] EXCEPT !.at = "closed", !.gone = TRUE]
    <3>1. r \in Stream /\ r.at = "closed" /\ r.read = stream[a].read /\ r.gone = TRUE
             /\ r.left = 0
        BY <2>1, <2>2, LosesOK DEF StreamSound, IsOpen
    <3>2. stream'[a] = r
        BY <1>1, <2>2
    <3> HIDE DEF r
    <3>3. stream'[a].read <= Len(ask'[a].events)
        BY <2>1, <3>1, <3>2, Unread DEF ServerInv, StreamSound, Stream
    <3>4. TaskDone(a)'
      <4>1. CASE TaskDone(a)
          BY <4>1 DEF Progress, TaskDone
      <4>2. CASE ~TaskDone(a)
        <5>1. ask[a].at \in Waiting \/ Scheduled(a)
            BY <2>1, <2>2, <4>2 DEF AskState, TaskDone, Scheduled, At
        <5>2. ask'[a] = Moved(ask[a], "lost")
            BY <1>1, <2>2, <5>1
        <5>3. ask'[a].at = "lost"
            BY <2>1, <5>2, MovedOK DEF Step, Settled
        <5>4. QED
            BY <5>3 DEF TaskDone, Settled
      <4>3. QED
          BY <4>1, <4>2
    <3>5. QED
        BY <3>1, <3>2, <3>3, <3>4 DEF StreamSound
  <2>3. CASE ~(KitOf[a] = k /\ IsOpen(a))
    BY <1>1, <2>1, <2>3, StreamStays DEF ServerInv
  <2>4. QED
    BY <2>2, <2>3
<1>3. MetricsSound'
    BY <1>1 DEF MetricsSound
<1>4. stream' = [a \in Asks |-> stream'[a]]
    BY <1>1
<1>5. QED
    BY <1>2, <1>3, <1>4 DEF StreamsSound

----------------------------------------------------------------------------
(* The theorems. *)

LEMMA ServerInvInit == ServerInit => ServerInv
<1> SUFFICES ASSUME ServerInit PROVE ServerInv
    OBVIOUS
<1>1. Kept
    BY KeptInit
<1>2. \A a \in Asks : /\ stream[a] = [at |-> "off", read |-> 0, gone |-> FALSE, left |-> 0]
                      /\ ask[a] = Fresh
    BY DEF ServerInit, Init, AskInit
<1>3. Fresh.events = <<>> /\ Fresh.at = "idle" /\ Len(<<>>) = 0
    BY DEF Fresh
<1>4. ASSUME NEW a \in Asks PROVE StreamSound(a)
  <2>1. /\ stream[a] \in Stream /\ stream[a].at = "off" /\ stream[a].read = 0
        /\ ~stream[a].gone /\ stream[a].left = 0
    <3>1. [at |-> "off", read |-> 0, gone |-> FALSE, left |-> 0] \in Stream
        BY AskAssumption DEF Stream
    <3>2. QED
        BY <1>2, <3>1
  <2>2. ask[a].events = <<>>
    BY <1>2, <1>3
  <2>3. stream[a].read <= Len(ask[a].events)
    BY <2>1, <2>2
  <2>4. QED
    BY <2>1, <2>3 DEF StreamSound
<1>5. Counted = {} /\ Failed = {}
    BY <1>2, <1>3 DEF Counted, Counts, Failed
<1>6. MetricsSound
    BY <1>5, FS_EmptySet DEF MetricsSound, ServerInit
<1>7. stream = [a \in Asks |-> stream[a]]
    BY DEF ServerInit
<1>8. QED
    BY <1>1, <1>4, <1>6, <1>7 DEF ServerInv, StreamsSound

LEMMA ServerInvStep == ServerInv /\ [ServerNext]_allVars => ServerInv'
<1> SUFFICES ASSUME ServerInv, [ServerNext]_allVars PROVE StreamsSound' /\ MetricsSound'
    BY ServerKeeps DEF ServerInv
<1>1. Kept' /\ Progress
    BY ServerKeeps DEF ServerInv
<1>2. CASE UNCHANGED serverVars
    BY <1>1, <1>2, AsksMove DEF ServerInv
<1>3. ASSUME NEW a \in Asks, Opens(a) \/ StreamAdvances(a)
      PROVE  StreamsSound' /\ MetricsSound'
    BY <1>1, <1>3, OpensKeeps, ForwardsKeeps, ForwardsDoneKeeps, GivesUpKeeps
       DEF StreamAdvances
<1>4. ASSUME NEW a \in Asks, Disconnects(a) PROVE StreamsSound' /\ MetricsSound'
    BY <1>1, <1>4, DisconnectsStreams
<1>5. ASSUME NEW k \in Kits, MayStop, ServerRestarts(k) PROVE StreamsSound' /\ MetricsSound'
    BY <1>1, <1>5, ServerRestartsStreams
<1>6. QED
    BY <1>2, <1>3, <1>4, <1>5 DEF ServerNext, allVars

\* The inductive invariant of the server, with those of the pipeline under it.
THEOREM ServerInvariance == ServerSpec => []ServerInv
BY ServerInvInit, ServerInvStep, PTL DEF ServerSpec

\* No generator reads past the queue of its ask.
THEOREM ServerTypeCorrect == ServerSpec => []ServerTypeOK
<1>1. ServerInv => ServerTypeOK
  <2> SUFFICES ASSUME ServerInv PROVE ServerTypeOK
    OBVIOUS
  <2>1. \A a \in Asks : stream[a] \in Stream /\ stream[a].read <= Len(ask[a].events)
    BY DEF ServerInv, StreamsSound, StreamSound
  <2>2. stream \in [Asks -> Stream]
    BY <2>1 DEF ServerInv, StreamsSound
  <2>3. QED
    BY <2>1, <2>2 DEF ServerInv, MetricsSound, ServerTypeOK
<1>2. QED
    BY <1>1, ServerInvariance, PTL

\* A generator that ends for its client has delivered all its ask queued, what it queued
\* just before it ended included (app.py, event_generator).
THEOREM NothingIsEverDropped == ServerSpec => []NothingIsDropped
<1>1. ServerInv => NothingIsDropped
    BY DEF ServerInv, StreamsSound, StreamSound, NothingIsDropped
<1>2. QED
    BY <1>1, ServerInvariance, PTL

\* However many requests there are and in whatever order they end, the metrics count each
\* "done" once, and an error for each that was not "ok" (app.py, metrics.record).
THEOREM MetricsCountDone == ServerSpec => []MetricsCountForwardedDone
<1>1. ASSUME ServerInv, NEW a \in Asks
      PROVE  "done" \in {Read(a)[i] : i \in 1..stream[a].read} <=> Counts(a)
  <2>1. /\ StreamSound(a) /\ ask[a] \in AskState /\ Announced(ask[a])
    BY <1>1 DEF ServerInv, StreamsSound, Kept, Inv, AskInv, AllAnnounced
  <2>2. /\ stream[a].read \in Nat /\ Len(ask[a].events) \in Nat
        /\ stream[a].read <= Len(ask[a].events) /\ ask[a].events \in Seq(Event)
    BY <2>1 DEF StreamSound, Stream, AskState
  <2>3. \A i \in 1..stream[a].read : /\ i \in 1..Len(ask[a].events)
                                     /\ Read(a)[i] = ask[a].events[i]
    BY <2>2 DEF Read
  <2>4. Counts(a) => "done" \in {Read(a)[i] : i \in 1..stream[a].read}
    BY <2>1, <2>2, <2>3, DoneIsLast DEF Counts
  <2>5. ASSUME NEW i \in 1..stream[a].read, Read(a)[i] = "done" PROVE Counts(a)
    BY <2>1, <2>2, <2>3, <2>5, DoneIsLast DEF Counts
  <2>6. QED
    BY <2>4, <2>5
<1>2. ServerInv => MetricsCountForwardedDone
  <2> SUFFICES ASSUME ServerInv, ~MayStop
               PROVE  LET counted == {a \in Asks : "done" \in {Read(a)[i] : i \in 1..stream[a].read}}
                      IN  /\ metrics.requests = Cardinality(counted)
                          /\ metrics.errors = Cardinality({a \in counted : ask[a].status # "ok"})
    BY DEF MetricsCountForwardedDone
  <2>1. {a \in Asks : "done" \in {Read(a)[i] : i \in 1..stream[a].read}} = Counted
    BY <1>1 DEF Counted
  <2>2. QED
    BY <2>1 DEF ServerInv, MetricsSound, Failed
<1>3. QED
    BY <1>2, ServerInvariance, PTL

\* Only an ask that was executing a query when its client left goes on without it, and it
\* goes on in a later attempt or to its error (executor.py, CancelledError).
THEOREM OnlyQueriesGoOn == ServerSpec => []OnlyQueriesOutliveClients
<1>1. ServerInv => OnlyQueriesOutliveClients
    BY DEF ServerInv, StreamsSound, StreamSound, WentOn, OnlyQueriesOutliveClients
<1>2. QED
    BY <1>1, ServerInvariance, PTL
=============================================================================

------------------------- MODULE AskContractProofs -------------------------
(***************************************************************************)
(* AskPipeline implements AskContract, for any number of asks, questions,  *)
(* attempts and shapes of reply: a step of the pipeline is a step of the   *)
(* contract or changes nothing the contract speaks of.                     *)
(*                                                                         *)
(* Time comes first, as the contract speaks of it: no stamp is from the    *)
(* future, an ask never works with a schema older than the version in its  *)
(* key, and what a refresh brings it is newer than what it had.            *)
(***************************************************************************)
EXTENDS AskImplementsContract, AskPipelineProofs

----------------------------------------------------------------------------
(* Time *)

\* stamps are those of introspections that have taken place
KitFresh ==
    /\ \A k \in Kits : kitVersion[k] <= clock
    /\ \A k \in Kits : HoldsSchema(k) => kitSchema[k].extracted <= clock
    /\ storedAt <= clock
    /\ \A t \in Tasks : call[t].meta # None => call[t].meta.extracted <= clock

\* the call of an ask that refreshes carries a schema newer than the ask's, all of it
\* from one introspection
BringsNewer(a) ==
    /\ call[a].at \in {"introspect", "save", "install"}
    /\ call[a].at \in {"save", "install"}
          => /\ call[a].meta.extracted > ask[a].schema.extracted
             /\ ~Torn(call[a].meta)

AskFresh(a) ==
    /\ ask[a].at \in {"idle", "schema"} => ask[a].schema = None
    /\ ask[a].schema # None => ask[a].schema.extracted <= clock
    /\ ask[a].at \in Working => /\ ask[a].version <= ask[a].schema.extracted
                               /\ AsNewAs(ask[a].schema, ask[a].version)
    /\ ask[a].at = "refresh" => BringsNewer(a)

FreshInv ==
    /\ KitFresh
    /\ \A a \in Asks : AskFresh(a)
    /\ CachedNotOlderThanKey

\* the ask goes on with the question, the schema and the version it has
Keeps(s, r) ==
    r.question = s.question /\ r.schema = s.schema /\ r.version = s.version

----------------------------------------------------------------------------
(* Functions on locals that keep both. *)

\* Announcing events keeps both.
LEMMA EmitKeeps ==
    ASSUME NEW s \in AskState, NEW events \in Seq(Event) PROVE Keeps(s, Emit(s, events))
BY EmitOK DEF Alike, Keeps

\* So do another attempt, giving up and answering in prose.
LEMMA RetryKeeps ==
    ASSUME NEW s \in AskState
    PROVE  Keeps(s, NextAttempt(s)) /\ Keeps(s, Retry(s)) /\ Keeps(s, Prose(s))
<1>1. ASSUME NEW r \in AskState PROVE Keeps(r, NextAttempt(r))
    BY DEF NextAttempt, Keeps, AskState
<1>2. <<"retry">> \in Seq(Event)
    BY DEF Event
<1>3. Keeps(s, Retry(s))
  <2> DEFINE e == Emit(s, <<"retry">>)
  <2>1. e \in AskState /\ Keeps(s, e)
    BY <1>2, EmitOK DEF Alike, Keeps
  <2>2. Retry(s) = NextAttempt(e)
    BY DEF Retry
  <2> HIDE DEF e
  <2>3. QED
    BY <1>1, <2>1, <2>2 DEF Keeps
<1>4. Keeps(s, Prose(s))
    BY DEF Prose, Emit, Keeps, AskState
<1>5. QED
    BY <1>1, <1>3, <1>4

\* So does a refusal of the LLM, the first and the second.
LEMMA RefusedKeeps ==
    ASSUME NEW s, InFlight(s), s.declines < s.attempts PROVE Keeps(s, Refused(s))
<1> DEFINE declined == [s EXCEPT !.declines = s.declines + 1]
<1>1. s \in AskState /\ s.declines + 1 \in 0..MaxAttempts
    BY AskAssumption DEF InFlight, AskState
<1>2. declined \in AskState
    BY <1>1 DEF AskState
<1>3. declined = [s EXCEPT !.declines = @ + 1] /\ Keeps(s, declined)
    BY <1>1 DEF AskState, Keeps
<1> DEFINE e == Emit(declined, <<"retry">>)
<1>4. Refused(s) = IF declined.declines >= 2 THEN Prose(e) ELSE Retry(declined)
    BY <1>3 DEF Refused
<1> HIDE DEF declined
<1>5. <<"retry">> \in Seq(Event)
    BY DEF Event
<1>6. e \in AskState /\ Keeps(declined, e)
    BY <1>2, <1>5, EmitOK DEF Alike, Keeps
<1> HIDE DEF e
<1>7. Keeps(e, Prose(e)) /\ Keeps(declined, Retry(declined))
    BY <1>2, <1>6, RetryKeeps
<1>8. Refused(s) = Prose(e) \/ Refused(s) = Retry(declined)
    BY <1>4
<1>9. QED
    BY <1>3, <1>6, <1>7, <1>8 DEF Keeps

\* So does the next query of an analysis.
LEMMA NextQueryKeeps == ASSUME NEW s \in AskState PROVE Keeps(s, NextQuery(s))
<1>1. Keeps(s, [s EXCEPT !.sql = NoSql, !.at = "final"])
    BY DEF Keeps, AskState
<1>2. Keeps(s, Moved(s, "exec"))
    BY DEF Keeps, Moved, AskState
<1>3. QED
    BY <1>1, <1>2, RetryKeeps DEF NextQuery

\* So does whatever follows a reply of the LLM.
LEMMA PlanKeeps ==
    ASSUME NEW s, InFlight(s), s.declines < s.attempts, NEW r \in Reply
    PROVE  Keeps(s, PlainPlan(s, r)) /\ Keeps(s, AnalysisPlan(s, r))
<1>1. s \in AskState
    BY DEF InFlight
<1> DEFINE read == Reasoned(s, r)
<1>6. /\ read \in AskState /\ InFlight(read) /\ Keeps(s, read)
      /\ read.declines < read.attempts
    BY <1>1, ReasonedOK, AlikeInFlight DEF Alike, Keeps
<1> HIDE DEF read
<1>2. Keeps(read, Query(read, r.sql))
    BY <1>6 DEF Query, Emit, Keeps, AskState
<1>3. Keeps(s, PlainPlan(s, r))
  <2>1. ParseFails(r) \/ (~ParseFails(r) /\ Declines(r)) \/ (~Declines(r) /\ r.object)
    BY DEF ParseFails, Declines
  <2>2. \/ PlainPlan(s, r) = Retry(s) \/ PlainPlan(s, r) = Retry(read)
        \/ PlainPlan(s, r) = Prose(read) \/ PlainPlan(s, r) = Refused(read)
        \/ PlainPlan(s, r) = Query(read, r.sql)
    BY <2>1 DEF PlainPlan, read
  <2>3. QED
    BY <1>1, <1>2, <1>6, <2>2, RetryKeeps, RefusedKeeps DEF Keeps
<1>4. Keeps(s, AnalysisPlan(s, r))
  <2> DEFINE p == [s EXCEPT !.queries = r.queries, !.data = {}]
  <2>1. r.queries \in Seq(QueryKind)
    BY DEF Reply
  <2>2. p \in AskState /\ Keeps(s, p)
    BY <1>1, <2>1 DEF AskState, Keeps
  <2>3. ParseFails(r) \/ (~ParseFails(r) /\ r.queries = <<>>) \/ (r.object /\ r.queries # <<>>)
    BY DEF ParseFails
  <2>4. \/ AnalysisPlan(s, r) = Retry(s) \/ AnalysisPlan(s, r) = Prose(read)
        \/ AnalysisPlan(s, r) = NextQuery(p)
    BY <2>3 DEF AnalysisPlan, read
  <2> HIDE DEF p
  <2>5. QED
    BY <1>1, <1>6, <2>2, <2>4, RetryKeeps, NextQueryKeeps DEF Keeps
<1>5. QED
    BY <1>3, <1>4

----------------------------------------------------------------------------
(* The schema store. *)

\* No step of the schema store invents a stamp, and the clock does not go back.
LEMMA KitFreshStep ==
    ASSUME Inv, KitFresh, KitNext
    PROVE  KitFresh' /\ clock <= clock'
<1> USE KitAssumption DEF Inv, KitInv, KitTypeOK, KitFresh, kitVars, storeVars, HoldsSchema
<1>1. ASSUME NEW t \in Tasks, CallBegins(t) \/ Pinged(t) \/ LoadRows(t)
      PROVE  KitFresh' /\ clock <= clock'
  <2>1. UNCHANGED <<clock, kitVars, storeVars>>
    BY <1>1 DEF CallBegins, BeginGet, BeginRefresh, BeginInit, Pinged, LoadRows
  <2>2. \A u \in Tasks : call'[u].meta = call[u].meta
    <3>1. ASSUME NEW step, GoTo(t, step)
          PROVE  \A u \in Tasks : call'[u].meta = call[u].meta
        BY <3>1 DEF GoTo
    <3>2. CASE LoadRows(t)
        BY <3>2 DEF LoadRows
    <3>3. CASE CallBegins(t) \/ Pinged(t)
        BY <3>1, <3>3 DEF CallBegins, BeginGet, BeginRefresh, BeginInit, Pinged
    <3>4. QED
        BY <1>1, <3>2, <3>3
  <2>3. QED
    BY <2>1, <2>2
<1>2. ASSUME NEW t \in Tasks, Abandon(t) PROVE KitFresh' /\ clock <= clock'
    BY <1>2 DEF Abandon, Idle
<1>3. ASSUME NEW t \in Tasks, LoadStamp(t) PROVE KitFresh' /\ clock <= clock'
  <2> DEFINE stamp == IF storedAt = 0 THEN clock ELSE storedAt
             meta == Built(call[t].rows, stamp)
  <2>1. call' = [call EXCEPT ![t].at = "loaded", ![t].meta = meta]
        /\ UNCHANGED <<clock, kitVars, storeVars>>
    BY <1>3 DEF LoadStamp
  <2>2. meta # None => meta.extracted = stamp
    BY DEF Built
  <2>3. stamp <= clock
    OBVIOUS
  <2> HIDE DEF meta, stamp
  <2>4. \A u \in Tasks : call'[u].meta = IF u = t THEN meta ELSE call[u].meta
    BY <2>1
  <2>5. QED
    BY <2>1, <2>2, <2>3, <2>4
<1>4. ASSUME NEW t \in Tasks, MissLoaded(t) PROVE KitFresh' /\ clock <= clock'
    BY <1>4 DEF MissLoaded, GoTo
<1>5. ASSUME NEW t \in Tasks, Introspect(t) PROVE KitFresh' /\ clock <= clock'
    BY <1>5 DEF Introspect, Schema
<1>6. ASSUME NEW t \in Tasks, Save(t) PROVE KitFresh' /\ clock <= clock'
    BY <1>6 DEF Save, GoTo, CallsAreSound, CarriesSchema
<1>7. ASSUME NEW t \in Tasks, ReturnLoaded(t) \/ InstallRefreshed(t)
      PROVE  KitFresh' /\ clock <= clock'
  <2> DEFINE k == KitOf[t]  meta == call[t].meta
  <2>1. /\ kitSchema' = [kitSchema EXCEPT ![k] = meta]
        /\ kitVersion' = [kitVersion EXCEPT ![k] = meta.extracted]
        /\ call' = [call EXCEPT ![t] = Idle]
        /\ UNCHANGED <<clock, storeVars>>
    BY <1>7 DEF ReturnLoaded, InstallRefreshed
  <2>2. meta # None /\ meta.extracted <= clock
    BY <1>7 DEF ReturnLoaded, InstallRefreshed, CallsAreSound, CarriesSchema
  <2> HIDE DEF meta
  <2>3. \A u \in Tasks : call'[u].meta # None => call'[u].meta.extracted <= clock
    BY <2>1 DEF Idle
  <2>4. QED
    BY <2>1, <2>2, <2>3
<1>8. ASSUME NEW k \in Kits, Restart(k) PROVE KitFresh' /\ clock <= clock'
    BY <1>8 DEF Restart, Idle
<1>9. QED
    BY <1>1, <1>2, <1>3, <1>4, <1>5, <1>6, <1>7, <1>8
       DEF KitNext, CallAdvances, CallEnds

----------------------------------------------------------------------------
(* The asks. *)

\* What a step of one ask leaves to be shown: that this ask stays fresh.
LEMMA OneAskStaysFresh ==
    ASSUME Inv, FreshInv, [KitNext]_schemaVars, NEW a \in Asks, NEW s, Becomes(a, s),
           \A t \in Tasks \ {a} : call'[t] = call[t],
           cache' = cache, AskFresh(a)'
    PROVE  FreshInv'
<1>1. KitFresh' /\ clock <= clock'
  <2>1. CASE KitNext
    BY <2>1, KitFreshStep DEF FreshInv
  <2>2. CASE UNCHANGED schemaVars
    BY <2>2 DEF schemaVars, kitVars, storeVars, FreshInv, KitFresh, HoldsSchema,
                Inv, KitInv, KitTypeOK
  <2>3. QED
    BY <2>1, <2>2
<1>2. \A b \in Asks \ {a} : ask'[b] = ask[b] /\ call'[b] = call[b]
    BY AskAssumption DEF Inv, AskInv, Becomes
<1>3. ASSUME NEW b \in Asks \ {a} PROVE AskFresh(b)'
  <2>1. AskFresh(b) /\ ask[b] \in AskState
    BY DEF FreshInv, Inv, AskInv
  <2>2. ask[b].schema # None => ask[b].schema.extracted \in Nat
    BY <2>1 DEF AskState, Schema
  <2>3. clock \in Nat /\ clock' \in Nat
    BY KitAssumption, StepsOfTheKit, KitInvStep DEF Inv, KitInv, KitTypeOK
  <2>4. QED
    BY <1>1, <1>2, <2>1, <2>2, <2>3 DEF AskFresh, BringsNewer
<1>4. CachedNotOlderThanKey'
    BY DEF FreshInv, CachedNotOlderThanKey
<1>5. QED
    BY <1>1, <1>3, <1>4 DEF FreshInv

\* A step that leaves the schema alone, and the ask with the schema it has.
LEMMA QuietStep ==
    ASSUME Inv, FreshInv, NEW a \in Asks, NEW s \in AskState, Becomes(a, s), Keeps(ask[a], s),
           UNCHANGED <<schemaVars, cache>>, s.at \notin {"idle", "schema", "refresh"},
           s.at \in Working => ask[a].at \in Working
    PROVE  FreshInv'
<1>1. ask'[a] = s
    BY DEF Inv, AskInv, Becomes
<1>2. AskFresh(a)'
    BY <1>1 DEF FreshInv, AskFresh, Keeps, schemaVars
<1>3. QED
    BY <1>2, OneAskStaysFresh DEF schemaVars

\* An ask that took schema and version from its kit has a version that is not newer.
LEMMA StartsFresh ==
    ASSUME Inv, Inv', FreshInv, [KitNext]_schemaVars, NEW a \in Asks, NEW s \in AskState,
           s.at = "lookup", s.schema = kitSchema'[KitOf[a]], s.version = kitVersion'[KitOf[a]],
           s.schema \in Schema, KitFresh'
    PROVE  ask'[a] = s => AskFresh(a)'
<1>1. KitOf[a] \in Kits /\ HoldsSchema(KitOf[a])'
    BY KitAssumption, AskAssumption DEF HoldsSchema
<1>2. s.schema.extracted = s.version /\ s.schema.extracted <= clock'
    BY <1>1 DEF Inv, KitInv, VersionOfHeldSchema, KitFresh
<1>3. s.version \in Nat /\ s.schema.extracted \in Nat
    BY <1>2 DEF AskState
<1>4. AsNewAs(s.schema, s.version)
    BY <1>2, <1>3 DEF AsNewAs, Torn
<1>5. QED
    BY <1>2, <1>3, <1>4 DEF AskFresh

\* The schema store stays fresh under every step of the pipeline.
LEMMA KitStaysFresh ==
    ASSUME Inv, FreshInv, [Next]_vars
    PROVE  [KitNext]_schemaVars /\ KitFresh' /\ clock <= clock' /\ Inv'
<1>1. [KitNext]_schemaVars /\ Inv'
    BY StepsOfTheKit, InvStep
<1>2. CASE KitNext
    BY <1>1, <1>2, KitFreshStep DEF FreshInv
<1>3. CASE UNCHANGED schemaVars
    BY <1>1, <1>3 DEF schemaVars, kitVars, storeVars, FreshInv, KitFresh, HoldsSchema,
                      Inv, KitInv, KitTypeOK
<1>4. QED
    BY <1>1, <1>2, <1>3

\* The ask begins with the schema its key is computed from.
LEMMA BeginsFresh ==
    ASSUME Inv, FreshInv, [Next]_vars, NEW a \in Asks,
           StartsWithSchema(a) \/ GotSchema(a)
    PROVE  FreshInv'
<1>1. PICK r \in AskState : r.schema = ask[a].schema /\ Becomes(a, Looking(r, KitOf[a]))
  <2>1. ask[a] \in AskState
    BY DEF Inv, AskInv
  <2>2. CASE GotSchema(a)
    BY <2>1, <2>2 DEF GotSchema
  <2>3. CASE StartsWithSchema(a)
    <3>1. PICK q \in Questions : Becomes(a, Looking([ask[a] EXCEPT !.question = q], KitOf[a]))
        BY <2>3 DEF StartsWithSchema
    <3> DEFINE r == [ask[a] EXCEPT !.question = q]
    <3>2. r \in AskState /\ r.schema = ask[a].schema
        BY <2>1 DEF AskState
    <3>3. QED
        BY <3>1, <3>2
  <2>4. QED
    BY <2>2, <2>3
<1> DEFINE s == Looking(r, KitOf[a])
<1>2. KitOf[a] \in Kits /\ a \in Tasks
    BY KitAssumption, AskAssumption
<1>3. kitSchema'[KitOf[a]] \in Schema /\ kitVersion'[KitOf[a]] \in 0..MaxClock
  <2>1. CASE GotSchema(a)
    BY <1>2, <2>1, Installed DEF GotSchema
  <2>2. CASE StartsWithSchema(a)
    BY <1>2, <2>2
       DEF Inv, KitInv, KitTypeOK, StartsWithSchema, HoldsSchema, schemaVars, kitVars
  <2>3. QED
    BY <2>1, <2>2
<1>4. "lookup" \in {"idle"} \cup Waiting \cup Settled
    BY DEF Waiting
<1>5. s \in AskState
    BY <1>3, <1>4 DEF Looking, AskState
<1>6. s.at = "lookup" /\ s.schema = kitSchema'[KitOf[a]] /\ s.version = kitVersion'[KitOf[a]]
    BY <1>4 DEF Looking, AskState
<1>7. Becomes(a, s)
    BY <1>1
<1> HIDE DEF s
<1>8. ask'[a] = s
    BY <1>7 DEF Inv, AskInv, Becomes
<1>9. AskFresh(a)'
    BY <1>3, <1>5, <1>6, <1>8, KitStaysFresh, StartsFresh
<1>10. \A t \in Tasks \ {a} : call'[t] = call[t]
  <2>1. CASE GotSchema(a)
    BY <2>1 DEF GotSchema, ReturnLoaded, InstallRefreshed, Inv, KitInv, KitTypeOK
  <2>2. CASE StartsWithSchema(a)
    BY <2>2 DEF StartsWithSchema, schemaVars
  <2>3. QED
    BY <2>1, <2>2
<1>11. cache' = cache
    BY DEF StartsWithSchema, GotSchema
<1>12. QED
    BY <1>7, <1>9, <1>10, <1>11, KitStaysFresh, OneAskStaysFresh

\* An ask that waits for its first schema has none yet.
LEMMA WaitsFresh ==
    ASSUME Inv, FreshInv, [Next]_vars, NEW a \in Asks, StartsWithout(a)
    PROVE  FreshInv'
<1>1. ask[a] \in AskState /\ ask[a].at = "idle" /\ ask[a].schema = None
    BY DEF Inv, AskInv, FreshInv, AskFresh, StartsWithout, At
<1>2. PICK q \in Questions : Becomes(a, [ask[a] EXCEPT !.at = "schema", !.question = q])
    BY DEF StartsWithout
<1> DEFINE s == [ask[a] EXCEPT !.at = "schema", !.question = q]
<1>3. s.at = "schema" /\ s.schema = None
    BY <1>1 DEF AskState
<1>4. Becomes(a, s)
    BY <1>2
<1> HIDE DEF s
<1>5. ask'[a] = s
    BY <1>4 DEF Inv, AskInv, Becomes
<1>6. AskFresh(a)'
    BY <1>3, <1>5 DEF AskFresh, Working
<1>7. \A t \in Tasks \ {a} : call'[t] = call[t]
    BY DEF StartsWithout, BeginGet, GoTo, Inv, KitInv, KitTypeOK
<1>8. cache' = cache
    BY DEF StartsWithout
<1>9. QED
    BY <1>4, <1>6, <1>7, <1>8, KitStaysFresh, OneAskStaysFresh

\* The steps between two schema calls, up to the decision ...
EarlyStepOf(a) ==
    \/ Miss(a) \/ Planned(a) \/ Rows(a) \/ Frame(a) \/ QueryFails(a)
    \/ Explained(a) \/ Concluded(a)

\* ... and all of them.
QuietStepOf(a) ==
    \/ EarlyStepOf(a)
    \/ Hit(a) \/ Recorded(a) \/ AuditFails(a) \/ Audited(a) \/ Finished(a) \/ Raises(a)

\* The early steps leave question, schema and version of every ask as they are, and
\* lead to another await before the decision, or to _finalize.
LEMMA EarlyKeeps ==
    ASSUME Inv, Inv', NEW a \in Asks, EarlyStepOf(a)
    PROVE  /\ Keeps(ask[a], ask'[a])
           /\ ask[a].at \in {"lookup", "llm", "exec", "explain", "final"}
           /\ ask'[a].at \in {"llm", "exec", "explain", "final", "audit"}
<1>1. ask[a] \in AskState /\ Locals(ask[a]) /\ ask'[a] \in AskState
    BY DEF Inv, AskInv
<1>2. ASSUME NEW s, Becomes(a, s) PROVE s = ask'[a]
    BY <1>2 DEF Inv, AskInv, Becomes
<1>3. ask[a].at \in {"lookup", "llm", "exec", "explain", "final"}
    BY DEF EarlyStepOf, Miss, Planned, Rows, Frame, QueryFails, Explained, Concluded, At
<1> SUFFICES Keeps(ask[a], ask'[a])
             /\ ask'[a].at \in {"llm", "exec", "explain", "final", "audit"}
    BY <1>3
<1>4. CASE Miss(a)
    BY <1>1, <1>2, <1>4 DEF Miss, Moved, Emit, Keeps, AskState
<1>5. CASE Planned(a)
  <2>1. InFlight(ask[a]) /\ ask[a].declines < ask[a].attempts /\ Replies \subseteq Reply
      BY <1>1, <1>5, AskAssumption DEF Planned, At, Locals, Working, Waiting
  <2>2. PICK r \in Replies :
           Becomes(a, IF IsAnalysis(a) THEN AnalysisPlan(ask[a], r)
                      ELSE PlainPlan(ask[a], r))
      BY <1>5 DEF Planned
  <2>3. CASE IsAnalysis(a)
      BY <1>2, <2>1, <2>2, <2>3, PlanKeeps, AnalysisPlanOK DEF IsAnalysis, Plain
  <2>4. CASE ~IsAnalysis(a)
      BY <1>2, <2>1, <2>2, <2>4, PlanKeeps, PlainPlanOK DEF IsAnalysis, Plain
  <2>5. QED
      BY <2>3, <2>4
<1>6. CASE Rows(a)
    BY <1>1, <1>2, <1>6, ZenonT(60) DEF Rows, Moved, Emit, Keeps, AskState
<1>7. CASE Frame(a)
  <2> DEFINE s == [ask[a] EXCEPT !.data = ask[a].data \cup {Running(a)},
                                 !.queries = Tail(ask[a].queries)]
  <2>1. InFlight(ask[a]) /\ ~Plain(ask[a]) /\ ask[a].queries # <<>>
        /\ Head(ask[a].queries) \in DataKind
      BY <1>1, <1>7 DEF Frame, At, Locals, Working, Waiting, IsAnalysis, Plain
  <2>2. /\ Running(a) \in DataKind
        /\ ask[a].data \cup {Running(a)} \in SUBSET DataKind
        /\ Tail(ask[a].queries) \in Seq(QueryKind)
    <3>1. ask[a].data \subseteq DataKind /\ ask[a].queries \in Seq(QueryKind)
        BY <1>1 DEF AskState
    <3>2. Running(a) \in DataKind
        BY <1>7, <2>1 DEF Running, Frame
    <3>3. Tail(ask[a].queries) \in Seq(QueryKind)
        BY <2>1, <3>1
    <3>4. QED
        BY <3>1, <3>2, <3>3
  <2>3. s \in AskState
      BY <1>1, <2>2 DEF AskState
  <2>4. /\ s.question = ask[a].question /\ s.declines = ask[a].declines
        /\ s.attempts = ask[a].attempts /\ s.data # {} /\ Keeps(ask[a], s)
      BY <1>1 DEF AskState, Keeps
  <2>5. Becomes(a, NextQuery(s))
      BY <1>1, <1>7 DEF Frame
  <2> HIDE DEF s
  <2>6. InFlight(s) /\ ~Plain(s)
      BY <2>1, <2>3, <2>4 DEF InFlight, Plain, Keeps
  <2>7. QED
      BY <1>2, <2>3, <2>4, <2>5, <2>6, NextQueryKeeps, NextQueryOK DEF Keeps
<1>8. CASE QueryFails(a)
  <2>1. InFlight(ask[a])
      BY <1>1, <1>8 DEF QueryFails, At, Locals, Working, Waiting
  <2>2. QED
      BY <1>1, <1>2, <1>8, <2>1, RetryKeeps, RetryOK DEF QueryFails, Restarted
<1>9. CASE Explained(a)
    BY <1>1, <1>2, <1>9 DEF Explained, Moved, Emit, Keeps, AskState
<1>10. CASE Concluded(a)
    BY <1>1, <1>2, <1>10, ZenonT(60) DEF Concluded, Emit, Keeps, AskState
<1>11. QED
    BY <1>4, <1>5, <1>6, <1>7, <1>8, <1>9, <1>10 DEF EarlyStepOf

\* The quiet steps leave schema and version of every ask as they are.
LEMMA QuietKeeps ==
    ASSUME Inv, Inv', NEW a \in Asks, QuietStepOf(a)
    PROVE  /\ ask'[a] \in AskState
           /\ Becomes(a, ask'[a])
           /\ UNCHANGED <<schemaVars, cache>>
           /\ Keeps(ask[a], ask'[a])
           /\ ask'[a].at \notin {"idle", "schema", "refresh"}
           /\ ask[a].at \in Working
<1> USE DEF QuietStepOf, EarlyStepOf
<1>1. ask[a] \in AskState /\ Locals(ask[a]) /\ ask'[a] \in AskState
    BY DEF Inv, AskInv
<1>2. ASSUME NEW s, Becomes(a, s) PROVE s = ask'[a]
    BY <1>2 DEF Inv, AskInv, Becomes
<1>3. /\ <<"cached">> \in Seq(Event) /\ <<"plan">> \in Seq(Event)
      /\ <<"done">> \in Seq(Event)
    BY DEF Event
<1>4. ask[a].at \in Working
    BY DEF Hit, Miss, Planned, Rows, Frame, QueryFails, Explained, Concluded, Recorded,
           AuditFails, Audited, Finished, Raises, At, Working, Waiting
<1>5. UNCHANGED <<schemaVars>>
    BY DEF Hit, Miss, Planned, Rows, Frame, QueryFails, Explained, Concluded, Recorded,
           AuditFails, Audited, Finished, Raises
<1>6. cache' = cache
    BY DEF Hit, Miss, Planned, Rows, Frame, QueryFails, Explained, Concluded, Recorded,
           AuditFails, Audited, Finished, Raises
<1>7. Keeps(ask[a], ask'[a]) /\ ask'[a].at \notin {"idle", "schema", "refresh"}
  <2>1. CASE Hit(a)
    <3> DEFINE entry == cache[KeyOf(a)]
               s == Emit([ask[a] EXCEPT !.at = "answered", !.cached = TRUE,
                                        !.status = entry.status, !.data = entry.data],
                         <<"cached">>)
    <3>1. Becomes(a, s)
      BY <2>1 DEF Hit
    <3> HIDE DEF entry
    <3>2. s.question = ask[a].question /\ s.schema = ask[a].schema /\ s.version = ask[a].version
      BY <1>1, SMTT(30) DEF Emit, AskState
    <3>3. s.at = "answered"
      BY <1>1, SMTT(30) DEF Emit, AskState
    <3> HIDE DEF s
    <3>4. QED
      BY <1>2, <3>1, <3>2, <3>3 DEF Keeps
  <2>2. CASE Recorded(a) \/ AuditFails(a) \/ Raises(a)
    BY <1>1, <1>2, <2>2, ZenonT(60) DEF Recorded, AuditFails, Raises, Moved, Keeps, AskState
  <2>3. CASE Audited(a) \/ Finished(a)
    BY <1>1, <1>2, <2>3, ZenonT(60) DEF Audited, Finished, Done, Emit, Moved, Keeps, AskState
  <2>4. CASE EarlyStepOf(a)
    BY <2>4, EarlyKeeps
  <2>5. QED
    BY <2>1, <2>2, <2>3, <2>4
<1>8. \E s : Becomes(a, s)
  <2>1. Becomes(a, ask'[a])
    BY DEF Hit, Miss, Planned, Rows, Frame, QueryFails, Explained, Concluded, Recorded,
           AuditFails, Audited, Finished, Raises, Becomes, Inv, AskInv
  <2>2. QED
    BY <2>1
<1>9. Becomes(a, ask'[a])
    BY <1>2, <1>8
<1>10. QED
    BY <1>1, <1>4, <1>5, <1>6, <1>7, <1>9

\* They keep the invariant.
LEMMA QuietSteps ==
    ASSUME Inv, FreshInv, Inv', NEW a \in Asks, QuietStepOf(a) PROVE FreshInv'
BY QuietKeeps, QuietStep

\* A refresh begins with an introspection.
LEMMA TableMissingFresh ==
    ASSUME Inv, FreshInv, [Next]_vars, NEW a \in Asks, TableMissing(a)
    PROVE  FreshInv'
<1> DEFINE s == Emit(Moved(ask[a], "refresh"), <<"schema_refresh">>)
<1>1. ask[a] \in AskState /\ ask[a].at = "exec" /\ a \in Tasks
    BY AskAssumption DEF Inv, AskInv, TableMissing, At
<1>2. s.at = "refresh" /\ Keeps(ask[a], s)
    BY <1>1 DEF Emit, Moved, Keeps, AskState
<1>3. Becomes(a, s) /\ cache' = cache /\ BeginRefresh(a)
    BY DEF TableMissing
<1> HIDE DEF s
<1>4. ask'[a] = s
    BY <1>3 DEF Inv, AskInv, Becomes
<1>5. /\ call'[a].at = "introspect" /\ clock' = clock
      /\ \A t \in Tasks \ {a} : call'[t] = call[t]
    BY <1>1, <1>3 DEF BeginRefresh, GoTo, Inv, KitInv, KitTypeOK
<1>6. AskFresh(a)'
    BY <1>1, <1>2, <1>4, <1>5
       DEF FreshInv, AskFresh, BringsNewer, Keeps, Working, Waiting
<1>7. QED
    BY <1>3, <1>5, <1>6, KitStaysFresh, OneAskStaysFresh

\* ... and what it installs is newer than what the ask had.
LEMMA RefreshedNewer ==
    ASSUME Inv, FreshInv, NEW a \in Asks, Refreshed(a)
    PROVE  /\ ask'[a].schema \in Schema
           /\ ask'[a].schema = kitSchema'[KitOf[a]]
           /\ ask'[a].schema.extracted > ask[a].schema.extracted
           /\ ~Torn(ask'[a].schema)
           /\ ask'[a].version = ask[a].version
           /\ ask'[a].question = ask[a].question
           /\ ask'[a].at \in {"llm", "audit"}
<1> DEFINE s == [ask[a] EXCEPT !.schema = kitSchema'[KitOf[a]]]
<1>1. ask[a] \in AskState /\ ask[a].at = "refresh" /\ InFlight(ask[a]) /\ a \in Tasks
    BY AskAssumption DEF Inv, AskInv, Refreshed, At, Locals, Working, Waiting
<1>2. kitSchema'[KitOf[a]] \in Schema /\ kitSchema'[KitOf[a]] = call[a].meta
  <2>1. KitOf[a] \in Kits
    BY <1>1, KitAssumption
  <2>2. QED
    BY <1>1, <2>1, Installed DEF Refreshed, InstallRefreshed, Inv, KitInv, KitTypeOK
<1>3. call[a].meta.extracted > ask[a].schema.extracted /\ ~Torn(call[a].meta)
    BY <1>1 DEF FreshInv, AskFresh, BringsNewer, Refreshed, InstallRefreshed
<1>4. s \in AskState
    BY <1>1, <1>2 DEF AskState
<1>5. /\ s.question = ask[a].question /\ s.schema = kitSchema'[KitOf[a]]
      /\ s.declines = ask[a].declines /\ s.attempts = ask[a].attempts
      /\ s.version = ask[a].version
    BY <1>1 DEF AskState
<1>6. Becomes(a, NextAttempt(s))
    BY DEF Refreshed
<1> HIDE DEF s
<1>7. InFlight(s)
    BY <1>1, <1>2, <1>4, <1>5 DEF InFlight
<1>8. Keeps(s, NextAttempt(s)) /\ NextAttempt(s).at \in {"llm", "audit"}
    BY <1>4, <1>7, RetryKeeps, NextAttemptOK DEF Restarted
<1>9. ask'[a] = NextAttempt(s)
    BY <1>6 DEF Inv, AskInv, Becomes
<1>10. QED
    BY <1>2, <1>3, <1>5, <1>8, <1>9 DEF Keeps

\* The ask resumes with tables newer than the version of its key.
LEMMA RefreshedFresh ==
    ASSUME Inv, FreshInv, [Next]_vars, NEW a \in Asks, Refreshed(a)
    PROVE  FreshInv'
<1>1. /\ ask[a] \in AskState /\ ask[a].at = "refresh" /\ a \in Tasks /\ KitOf[a] \in Kits
      /\ ask[a].schema \in Schema
    BY AskAssumption, KitAssumption
       DEF Inv, AskInv, Refreshed, At, Locals, InFlight, Working, Waiting
<1>2. /\ ask'[a].schema \in Schema /\ ask'[a].schema = kitSchema'[KitOf[a]]
      /\ ask'[a].schema.extracted > ask[a].schema.extracted
      /\ ask'[a].version = ask[a].version /\ ask'[a].at \in {"llm", "audit"}
      /\ ~Torn(ask'[a].schema)
    BY RefreshedNewer
<1>3. ask[a].version <= ask[a].schema.extracted
    BY <1>1 DEF FreshInv, AskFresh, Working, Waiting
<1>4. ask[a].version \in Nat /\ ask[a].schema.extracted \in Nat
      /\ ask'[a].schema.extracted \in Nat
    BY <1>1, <1>2 DEF AskState, Schema
<1>5. ask'[a].schema.extracted <= clock'
    BY <1>1, <1>2, KitAssumption, KitStaysFresh DEF KitFresh, HoldsSchema
<1>10. AsNewAs(ask'[a].schema, ask'[a].version)
    BY <1>2, <1>3, <1>4 DEF AsNewAs, Torn
<1>6. AskFresh(a)'
    BY <1>2, <1>3, <1>4, <1>5, <1>10 DEF AskFresh
<1>7. /\ cache' = cache
      /\ \A t \in Tasks \ {a} : call'[t] = call[t]
    BY DEF Refreshed, InstallRefreshed, Inv, KitInv, KitTypeOK
<1>8. PICK s : Becomes(a, s)
    BY DEF Refreshed
<1>9. QED
    BY <1>6, <1>7, <1>8, KitStaysFresh, OneAskStaysFresh

\* An ask that is stopped in a call of the schema store abandons the call.
LEMMA StopFresh ==
    ASSUME Inv, FreshInv, [Next]_vars, NEW a \in Asks, SchemaCallRaises(a) \/ Cancelled(a)
    PROVE  FreshInv'
<1>1. ask[a] \in AskState
    BY DEF Inv, AskInv
<1>2. PICK step \in {"raised", "cancelled"} : Becomes(a, Moved(ask[a], step))
    BY DEF SchemaCallRaises, Cancelled
<1>3. Keeps(ask[a], Moved(ask[a], step)) /\ Moved(ask[a], step).at = step
    BY <1>1 DEF Moved, Keeps, AskState
<1>4. ask'[a] = Moved(ask[a], step)
    BY <1>2 DEF Inv, AskInv, Becomes
<1>5. clock' = clock
    BY DEF SchemaCallRaises, Cancelled, Abandon, schemaVars
<1>6. AskFresh(a)'
    BY <1>3, <1>4, <1>5 DEF FreshInv, AskFresh, Keeps, Working, Waiting
<1>7. \A t \in Tasks \ {a} : call'[t] = call[t]
    BY DEF SchemaCallRaises, Cancelled, Abandon, schemaVars, Inv, KitInv, KitTypeOK
<1>8. cache' = cache
    BY DEF SchemaCallRaises, Cancelled
<1>9. QED
    BY <1>2, <1>6, <1>7, <1>8, KitStaysFresh, OneAskStaysFresh

\* The entry was computed from tables as new as the key it is stored under.
LEMMA StoredFresh ==
    ASSUME Inv, FreshInv, [Next]_vars, NEW a \in Asks, Stored(a)
    PROVE  FreshInv'
<1> DEFINE entry == [status |-> ask[a].status, data |-> AnswerData(ask[a]),
                     schema |-> ask[a].schema]
           s == Moved(ask[a], "stored")
<1>1. ask[a] \in AskState /\ ask[a].at = "store"
    BY DEF Inv, AskInv, Stored, At
<1>2. /\ cache' = [cache EXCEPT ![KeyOf(a)] = entry]
      /\ Becomes(a, s) /\ UNCHANGED schemaVars
    BY DEF Stored
<1>3. AsNewAs(entry.schema, KeyOf(a).version)
    BY <1>1 DEF KeyOf, FreshInv, AskFresh, Working, Waiting
<1> HIDE DEF entry
<1>4. CachedNotOlderThanKey'
    BY <1>2, <1>3 DEF FreshInv, CachedNotOlderThanKey, Inv, AskInv, CacheSound
<1>5. s.at = "stored" /\ Keeps(ask[a], s)
    BY <1>1 DEF Moved, Keeps, AskState
<1> HIDE DEF s
<1>6. /\ ask'[a] = s /\ \A b \in Asks \ {a} : ask'[b] = ask[b]
    BY <1>2 DEF Inv, AskInv, Becomes
<1>7. AskFresh(a)'
    BY <1>1, <1>2, <1>5, <1>6
       DEF FreshInv, AskFresh, Keeps, schemaVars, Working, Waiting
<1>8. \A b \in Asks \ {a} : AskFresh(b)'
    BY <1>2, <1>6 DEF FreshInv, AskFresh, BringsNewer, schemaVars
<1>9. QED
    BY <1>4, <1>7, <1>8, KitStaysFresh DEF FreshInv

\* A call advances under the ask that waits for it, or under nobody.
LEMMA CallFresh ==
    ASSUME Inv, FreshInv, [Next]_vars, NEW t \in Tasks, UNCHANGED askVars,
           CallAdvances(t) \/ (t \notin Asks /\ (CallBegins(t) \/ CallEnds(t)))
    PROVE  FreshInv'
<1>1. \A u \in Tasks \ {t} : call'[u] = call[u]
    BY DEF CallAdvances, Pinged, LoadRows, LoadStamp, MissLoaded, Introspect, Save, GoTo,
           CallBegins, BeginGet, BeginRefresh, BeginInit, CallEnds, ReturnLoaded,
           InstallRefreshed, Abandon, Inv, KitInv, KitTypeOK
<1>2. KitFresh' /\ clock <= clock' /\ clock \in Nat /\ clock' \in Nat
    BY KitStaysFresh, KitAssumption DEF Inv, KitInv, KitTypeOK
<1>3. ask' = ask /\ cache' = cache
    BY DEF askVars
<1>4. ASSUME NEW a \in Asks PROVE AskFresh(a)'
  <2>1. AskFresh(a) /\ ask[a] \in AskState /\ a \in Tasks
    BY AskAssumption DEF FreshInv, Inv, AskInv
  <2>2. ask[a].schema # None => ask[a].schema.extracted \in Nat
    BY <2>1 DEF AskState, Schema
  <2>3. ask[a].at = "refresh" => ask[a].schema # None
    BY KitAssumption DEF Inv, AskInv, Locals, InFlight, Working, Waiting
  <2>4. ASSUME ask[a].at = "refresh" PROVE BringsNewer(a)'
    <3>1. BringsNewer(a) /\ ask[a].schema.extracted <= clock
        BY <2>1, <2>3, <2>4 DEF AskFresh
    <3>2. CASE a # t
        BY <1>1, <1>3, <2>1, <3>1, <3>2 DEF BringsNewer
    <3>3. CASE a = t /\ Introspect(t)
      <4>1. /\ call'[t].at \in {"save", "install"}
            /\ call'[t].meta.extracted = clock + 1
            /\ ~Torn(call'[t].meta)
          BY <3>3 DEF Introspect, Inv, KitInv, KitTypeOK, Torn
      <4>2. QED
          BY <1>2, <1>3, <2>2, <2>3, <2>4, <3>1, <3>3, <4>1 DEF BringsNewer
    <3>4. CASE a = t /\ Save(t)
      <4>1. call'[t].at = "install" /\ call'[t].meta = call[t].meta /\ call[t].at = "save"
          BY <3>4 DEF Save, GoTo, Inv, KitInv, KitTypeOK
      <4>2. QED
          BY <1>3, <3>1, <3>4, <4>1 DEF BringsNewer
    <3>5. CASE a = t /\ (Pinged(t) \/ LoadRows(t) \/ LoadStamp(t) \/ MissLoaded(t))
        BY <3>1, <3>5 DEF BringsNewer, Pinged, LoadRows, LoadStamp, MissLoaded
    <3>6. QED
        BY <3>2, <3>3, <3>4, <3>5 DEF CallAdvances
  <2>5. QED
    BY <1>2, <1>3, <2>1, <2>2, <2>4 DEF AskFresh
<1>5. CachedNotOlderThanKey'
    BY <1>3 DEF FreshInv, CachedNotOlderThanKey
<1>6. QED
    BY <1>2, <1>4, <1>5 DEF FreshInv

\* The asks that wait for a call of the process die with it.
LEMMA ProcessRestartsFresh ==
    ASSUME Inv, FreshInv, [Next]_vars, NEW k \in Kits, ProcessRestarts(k)
    PROVE  FreshInv'
<1>1. /\ ask' = [a \in Asks |-> IF KitOf[a] = k /\ ask[a].at \in Waiting
                                   THEN Moved(ask[a], "lost") ELSE ask[a]]
      /\ cache' = cache /\ clock' = clock
      /\ call' = [t \in Tasks |-> IF KitOf[t] = k THEN Idle ELSE call[t]]
    BY DEF ProcessRestarts, Restart
<1>2. ASSUME NEW a \in Asks PROVE AskFresh(a)'
  <2>1. AskFresh(a) /\ ask[a] \in AskState /\ a \in Tasks
    BY AskAssumption DEF FreshInv, Inv, AskInv
  <2>2. CASE KitOf[a] = k /\ ask[a].at \in Waiting
    <3>1. ask'[a] = Moved(ask[a], "lost")
        BY <1>1, <2>2
    <3>2. Keeps(ask[a], Moved(ask[a], "lost")) /\ Moved(ask[a], "lost").at = "lost"
        BY <2>1 DEF Moved, Keeps, AskState
    <3>3. QED
        BY <1>1, <2>1, <3>1, <3>2 DEF AskFresh, Keeps, Working, Waiting
  <2>3. CASE ~(KitOf[a] = k /\ ask[a].at \in Waiting)
    <3>1. ask'[a] = ask[a] /\ (ask[a].at = "refresh" => call'[a] = call[a])
        BY <1>1, <2>1, <2>3 DEF Waiting
    <3>2. QED
        BY <1>1, <2>1, <3>1 DEF AskFresh, BringsNewer
  <2>4. QED
    BY <2>2, <2>3
<1>3. CachedNotOlderThanKey'
    BY <1>1 DEF FreshInv, CachedNotOlderThanKey
<1>4. QED
    BY <1>2, <1>3, KitStaysFresh DEF FreshInv

\* An expired entry is no entry.
LEMMA ExpiresFresh ==
    ASSUME Inv, FreshInv, [Next]_vars, NEW key \in Key, Expires(key)
    PROVE  FreshInv'
<1>1. cache' = [cache EXCEPT ![key] = None] /\ ask' = ask /\ UNCHANGED schemaVars
    BY DEF Expires
<1>2. CachedNotOlderThanKey'
    BY <1>1 DEF FreshInv, CachedNotOlderThanKey, Inv, AskInv, CacheSound
<1>3. \A a \in Asks : AskFresh(a)'
    BY <1>1 DEF FreshInv, AskFresh, BringsNewer, schemaVars
<1>4. QED
    BY <1>2, <1>3, KitStaysFresh DEF FreshInv

\* Nothing changes, nothing ages.
LEMMA FreshStutter ==
    ASSUME Inv, FreshInv, [Next]_vars, UNCHANGED vars PROVE FreshInv'
<1>1. UNCHANGED <<clock, call, ask, cache>>
    BY DEF vars, schemaVars, askVars
<1>2. QED
    BY <1>1, KitStaysFresh DEF FreshInv, AskFresh, BringsNewer, CachedNotOlderThanKey

----------------------------------------------------------------------------
(* The theorems. *)

\* At the start there are no stamps, no asks and no entries.
LEMMA FreshInit == Init => FreshInv
<1> SUFFICES ASSUME Init PROVE FreshInv
    OBVIOUS
<1>1. KitFresh
    BY DEF Init, KitInit, KitFresh, HoldsSchema, Idle
<1>2. ASSUME NEW a \in Asks PROVE AskFresh(a)
    BY DEF Init, AskInit, Fresh, AskFresh, Working, Waiting
<1>3. CachedNotOlderThanKey
    BY DEF Init, AskInit, CachedNotOlderThanKey
<1>4. QED
    BY <1>1, <1>2, <1>3 DEF FreshInv

\* Every step keeps the invariant.
LEMMA FreshStep == Inv /\ FreshInv /\ [Next]_vars => FreshInv'
<1> SUFFICES ASSUME Inv, FreshInv, [Next]_vars PROVE FreshInv'
    OBVIOUS
<1>0. Inv'
    BY InvStep
<1>1. ASSUME NEW a \in Asks, AskStarts(a) PROVE FreshInv'
    BY <1>1, BeginsFresh, WaitsFresh DEF AskStarts
<1>2. ASSUME NEW a \in Asks, AskAdvances(a) PROVE FreshInv'
  <2>1. a \in Tasks
    BY AskAssumption
  <2>2. CASE CallAdvances(a) /\ UNCHANGED askVars
    BY <2>1, <2>2, CallFresh
  <2>3. CASE GotSchema(a)
    BY <2>3, BeginsFresh
  <2>4. CASE TableMissing(a) \/ Refreshed(a) \/ Stored(a) \/ SchemaCallRaises(a)
    BY <2>4, TableMissingFresh, RefreshedFresh, StoredFresh, StopFresh
  <2>5. QED
    BY <1>0, <1>2, <2>2, <2>3, <2>4, QuietSteps DEF AskAdvances, QuietStepOf, EarlyStepOf
<1>3. ASSUME NEW a \in Asks, Cancel(a) PROVE FreshInv'
    BY <1>0, <1>3, StopFresh, QuietSteps DEF Cancel, QuietStepOf, EarlyStepOf
<1>4. ASSUME NEW t \in Tasks \ Asks, SchemaTask(t) PROVE FreshInv'
    BY <1>4, CallFresh DEF SchemaTask
<1>5. CASE UNCHANGED vars
    BY <1>5, FreshStutter
<1>6. QED
    BY <1>1, <1>2, <1>3, <1>4, <1>5, ProcessRestartsFresh, ExpiresFresh DEF Next

\* The inductive invariant about stamps, on top of that of the pipeline: no stamp is from
\* the future, and no ask works with a schema older than the version its key was made of.
THEOREM FreshInvariance == Spec => [](Inv /\ FreshInv)
<1>1. Init => Inv /\ FreshInv
    BY InvInit, FreshInit
<1>2. Inv /\ FreshInv /\ [Next]_vars => Inv' /\ FreshInv'
    BY InvStep, FreshStep
<1>3. QED
    BY <1>1, <1>2, PTL DEF Spec

\* An answer found under a key was computed from tables as new as the version the key
\* names, unless the ask began with a schema its load had torn and never refreshed it (ask
\* computes the key before the attempts; load_schema reads rows and stamp apart).
THEOREM CacheIsNotOlderThanItsKeys == Spec => []CachedNotOlderThanKey
<1>1. FreshInv => CachedNotOlderThanKey
    BY DEF FreshInv
<1>2. QED
    BY <1>1, FreshInvariance, PTL

\* what RefreshIsNewer asks of a step
Newer(a) ==
    \/ ask[a].schema # None /\ ask'[a].schema # ask[a].schema
    \/ At(a, "refresh") /\ ask'[a].at \in {"llm", "audit"}
    => ask'[a].schema.extracted > ask[a].schema.extracted

\* A step of one ask need only be looked at for that ask.
LEMMA OneAskNewer ==
    ASSUME Inv, NEW a \in Asks, NEW s, Becomes(a, s), Newer(a)
    PROVE  \A b \in Asks : Newer(b)
BY DEF Inv, AskInv, Becomes, Newer, At

\* The only step that replaces a schema is Refreshed, and it brings a newer one.
LEMMA StepsAreNewer ==
    ASSUME Inv, FreshInv, [Next]_vars PROVE \A b \in Asks : Newer(b)
<1>0. Inv'
    BY InvStep
<1>1. ASSUME NEW a \in Asks, QuietStepOf(a) PROVE \A b \in Asks : Newer(b)
  <2>1. ~At(a, "refresh")
    BY <1>1 DEF QuietStepOf, EarlyStepOf, At, Hit, Miss, Planned, Rows, Frame, QueryFails, Explained, Concluded,
                Recorded, AuditFails, Audited, Finished, Raises, Running
  <2>2. QED
    BY <1>0, <1>1, <2>1, QuietKeeps, OneAskNewer DEF Keeps, Newer
<1>2. ASSUME NEW a \in Asks, AskStarts(a) \/ GotSchema(a) PROVE \A b \in Asks : Newer(b)
  <2>1. ask[a].schema = None /\ ~At(a, "refresh")
    BY <1>2 DEF AskStarts, StartsWithSchema, StartsWithout, GotSchema, At, FreshInv, AskFresh
  <2>2. \E s : Becomes(a, s)
    BY <1>2 DEF AskStarts, StartsWithSchema, StartsWithout, GotSchema
  <2>3. QED
    BY <2>1, <2>2, OneAskNewer DEF Newer
<1>3. ASSUME NEW a \in Asks,
             TableMissing(a) \/ Stored(a) \/ SchemaCallRaises(a) \/ Cancelled(a)
      PROVE  \A b \in Asks : Newer(b)
  <2>1. ask[a] \in AskState
    BY DEF Inv, AskInv
  <2>2. ASSUME NEW s, Becomes(a, s), s.schema = ask[a].schema, s.at \notin {"llm", "audit"}
        PROVE  \A b \in Asks : Newer(b)
    <3>1. ask'[a] = s
        BY <2>2 DEF Inv, AskInv, Becomes
    <3>2. QED
        BY <2>2, <3>1, OneAskNewer DEF Newer
  <2>3. CASE TableMissing(a)
    <3> DEFINE s == Emit(Moved(ask[a], "refresh"), <<"schema_refresh">>)
    <3>1. s.schema = ask[a].schema /\ s.at = "refresh"
        BY <2>1 DEF Emit, Moved, AskState
    <3>2. Becomes(a, s)
        BY <2>3 DEF TableMissing
    <3> HIDE DEF s
    <3>3. QED
        BY <2>2, <3>1, <3>2
  <2>4. CASE Stored(a)
    <3> DEFINE s == Moved(ask[a], "stored")
    <3>1. s.schema = ask[a].schema /\ s.at = "stored"
        BY <2>1 DEF Moved, AskState
    <3>2. Becomes(a, s)
        BY <2>4 DEF Stored
    <3> HIDE DEF s
    <3>3. QED
        BY <2>2, <3>1, <3>2
  <2>5. CASE SchemaCallRaises(a)
    <3> DEFINE s == Moved(ask[a], "raised")
    <3>1. s.schema = ask[a].schema /\ s.at = "raised"
        BY <2>1 DEF Moved, AskState
    <3>2. Becomes(a, s)
        BY <2>5 DEF SchemaCallRaises
    <3> HIDE DEF s
    <3>3. QED
        BY <2>2, <3>1, <3>2
  <2>6. CASE Cancelled(a)
    <3> DEFINE s == Moved(ask[a], "cancelled")
    <3>1. s.schema = ask[a].schema /\ s.at = "cancelled"
        BY <2>1 DEF Moved, AskState
    <3>2. Becomes(a, s)
        BY <2>6 DEF Cancelled
    <3> HIDE DEF s
    <3>3. QED
        BY <2>2, <3>1, <3>2
  <2>7. QED
    BY <1>3, <2>3, <2>4, <2>5, <2>6
<1>4. ASSUME NEW a \in Asks, Refreshed(a) PROVE \A b \in Asks : Newer(b)
  <2>1. \E s : Becomes(a, s)
    BY <1>4 DEF Refreshed
  <2>2. Newer(a)
    BY <1>4, RefreshedNewer DEF Newer
  <2>3. QED
    BY <2>1, <2>2, OneAskNewer
<1>5. ASSUME UNCHANGED ask PROVE \A b \in Asks : Newer(b)
    BY <1>5 DEF Newer, At
<1>6. ASSUME NEW k \in Kits, ProcessRestarts(k) PROVE \A b \in Asks : Newer(b)
  <2>1. ASSUME NEW b \in Asks
        PROVE  /\ ask'[b].schema = ask[b].schema
               /\ ask'[b].at \in {ask[b].at, "lost"}
    <3>1. ask[b] \in AskState
        BY DEF Inv, AskInv
    <3>2. ask'[b] = ask[b] \/ ask'[b] = Moved(ask[b], "lost")
        BY <1>6 DEF ProcessRestarts
    <3>3. QED
        BY <3>1, <3>2 DEF Moved, AskState
  <2>2. QED
    BY <2>1 DEF Newer, At
<1>7. QED
  <2>1. ASSUME NEW a \in Asks, AskAdvances(a) PROVE \A b \in Asks : Newer(b)
    BY <1>1, <1>2, <1>3, <1>4, <1>5, <2>1 DEF AskAdvances, QuietStepOf, EarlyStepOf, askVars
  <2>2. ASSUME NEW a \in Asks, Cancel(a) PROVE \A b \in Asks : Newer(b)
    BY <1>1, <1>3, <2>2 DEF Cancel, QuietStepOf, EarlyStepOf
  <2>3. ASSUME NEW t \in Tasks, SchemaTask(t) PROVE \A b \in Asks : Newer(b)
    BY <1>5, <2>3 DEF SchemaTask, askVars
  <2>4. ASSUME NEW key \in Key, Expires(key) PROVE \A b \in Asks : Newer(b)
    BY <1>5, <2>4 DEF Expires
  <2>5. CASE UNCHANGED vars
    BY <1>5, <2>5 DEF vars, askVars
  <2>6. QED
    BY <1>2, <1>6, <2>1, <2>2, <2>3, <2>4, <2>5 DEF Next

\* After a missing table an ask goes on with a newer schema, whatever other tasks load,
\* refresh or overwrite meanwhile (refresh_schema always introspects).
THEOREM RefreshBringsNewer == Spec => RefreshIsNewer
<1>1. Inv /\ FreshInv /\ [Next]_vars
        => [\A a \in Asks :
              \/ ask[a].schema # None /\ ask'[a].schema # ask[a].schema
              \/ At(a, "refresh") /\ ask'[a].at \in {"llm", "audit"}
              => ask'[a].schema.extracted > ask[a].schema.extracted]_vars
    BY StepsAreNewer DEF Newer
<1>2. QED
    BY <1>1, FreshInvariance, PTL DEF Spec, RefreshIsNewer

----------------------------------------------------------------------------
(* The contract *)

Undecided == Waiting \ Finalizing

\* The phase of an ask, by where it is.
LEMMA PhaseOfAsk ==
    ASSUME NEW s
    PROVE  /\ s.at = "idle" => Phase(s) = "idle"
           /\ s.at \in Undecided => Phase(s) = "open"
           /\ s.at \in Finalizing => Phase(s) = "decided"
           /\ s.at = "answered" => Phase(s) = "answered"
           /\ s.at \in Settled \ {"answered"} => Phase(s) = "failed"
BY DEF Phase, Undecided, Waiting, Finalizing, Settled

\* The answer of an ask, by where it is.
LEMMA DecisionOfAsk ==
    ASSUME NEW s
    PROVE  /\ s.at \in Finalizing \cup {"answered"} =>
                 Decision(s) = [question |-> s.question, status |-> s.status,
                                data |-> AnswerData(s)]
           /\ s.at \in {"idle"} \cup Undecided \cup (Settled \ {"answered"})
                 => Decision(s) = None
BY DEF Decision, Undecided, Waiting, Finalizing, Settled

\* A step of one ask is seen by the contract in the entries of that ask.
LEMMA SeenOfOneAsk ==
    ASSUME Inv, NEW a \in Asks, NEW s, Becomes(a, s)
    PROVE  /\ ask'[a] = s
           /\ Phases' = [Phases EXCEPT ![a] = Phase(s)]
           /\ Asked' = [Asked EXCEPT ![a] = s.question]
           /\ Decisions' = [Decisions EXCEPT ![a] = Decision(s)]
<1>1. ask'[a] = s /\ \A b \in Asks \ {a} : ask'[b] = ask[b]
    BY DEF Inv, AskInv, Becomes
<1>2. Phases' = [Phases EXCEPT ![a] = Phase(s)]
    BY <1>1 DEF Phases
<1>3. Asked' = [Asked EXCEPT ![a] = s.question]
    BY <1>1 DEF Asked
<1>4. Decisions' = [Decisions EXCEPT ![a] = Decision(s)]
    BY <1>1 DEF Decisions
<1>5. QED
    BY <1>1, <1>2, <1>3, <1>4

\* An entry that is set to what it was is unchanged.
LEMMA NoNewEntry ==
    ASSUME NEW a \in Asks
    PROVE  /\ Phases' = [Phases EXCEPT ![a] = Phase(ask[a])] => Phases' = Phases
           /\ Asked' = [Asked EXCEPT ![a] = ask[a].question] => Asked' = Asked
           /\ Decisions' = [Decisions EXCEPT ![a] = Decision(ask[a])]
                 => Decisions' = Decisions
<1>1. /\ Phases = [b \in Asks |-> Phase(ask[b])]
      /\ Asked = [b \in Asks |-> ask[b].question]
      /\ Decisions = [b \in Asks |-> Decision(ask[b])]
    BY DEF Phases, Asked, Decisions
<1> HIDE DEF Phases, Asked, Decisions
<1>2. QED
    BY <1>1

\* What the contract sees of an ask that keeps its question, phase and answer.
LEMMA UnseenOfOneAsk ==
    ASSUME Inv, NEW a \in Asks, NEW s, Becomes(a, s), s.question = ask[a].question,
           Phase(s) = Phase(ask[a]), Decision(s) = Decision(ask[a])
    PROVE  UNCHANGED <<Phases, Asked, Decisions>>
<1>1. /\ Phases' = [Phases EXCEPT ![a] = Phase(ask[a])]
      /\ Asked' = [Asked EXCEPT ![a] = ask[a].question]
      /\ Decisions' = [Decisions EXCEPT ![a] = Decision(ask[a])]
    BY SeenOfOneAsk
<1>2. QED
    BY <1>1, NoNewEntry

\* The log and the published answers are those of the two tables.
LEMMA SameTables ==
    /\ audit' = audit => Logged' = Logged
    /\ cache' = cache => Published' = Published
BY DEF Logged, Published

ContractStep == [Contract!Next]_(Contract!contract)

LEMMA ContractStutter ==
    ASSUME UNCHANGED <<Phases, Asked, Decisions, Logged, Published>> PROVE ContractStep
BY DEF ContractStep, Contract!contract

\* What an ask decides on is an answer, and "ok" only with rows.
LEMMA DecisionIsAnswer ==
    ASSUME NEW s, Locals(s), s.at \in Finalizing
    PROVE  /\ Decision(s) \in Contract!Answers
           /\ Decision(s).question = s.question
           /\ Decision(s).status = s.status
           /\ Decision(s).status = "ok" => Decision(s).data # {}
<1>1. /\ s \in AskState /\ s.question \in Questions
      /\ s.status = "ok" => Answers(s)
    BY DEF Locals, InFlight, Finalizing, Finishing, Saving, Working, Waiting
<1>2. AnswerData(s) \in SUBSET DataKind /\ s.status \in {"ok", "no_data", "error"}
    BY <1>1 DEF AnswerData, AskState, Status
<1>3. Decision(s) = [question |-> s.question, status |-> s.status, data |-> AnswerData(s)]
    BY DecisionOfAsk
<1>4. s.status = "ok" => AnswerData(s) # {}
    BY <1>1 DEF AnswerData, Answers
<1>5. QED
    BY <1>1, <1>2, <1>3, <1>4 DEF Contract!Answers

----------------------------------------------------------------------------
(* The steps. *)

\* An ask that starts is opened.
LEMMA OpenStep ==
    ASSUME Inv, Inv', NEW a \in Asks, AskStarts(a) PROVE ContractStep
<1>1. ask[a].at = "idle" /\ ask[a] \in AskState /\ UNCHANGED <<cache, audit>>
    BY DEF AskStarts, StartsWithSchema, StartsWithout, At, Inv, AskInv
<1>q. PICK q \in Questions :
         \E s : Becomes(a, s) /\ s.question = q /\ s.at \in {"lookup", "schema"}
  <2>1. ASSUME NEW q \in Questions, NEW k
        PROVE  /\ Looking([ask[a] EXCEPT !.question = q], k).question = q
               /\ Looking([ask[a] EXCEPT !.question = q], k).at = "lookup"
               /\ [ask[a] EXCEPT !.at = "schema", !.question = q].question = q
               /\ [ask[a] EXCEPT !.at = "schema", !.question = q].at = "schema"
    BY <1>1 DEF Looking, AskState
  <2>2. CASE StartsWithSchema(a)
    <3>1. PICK q \in Questions :
             Becomes(a, Looking([ask[a] EXCEPT !.question = q], KitOf[a]))
        BY <2>2 DEF StartsWithSchema
    <3> DEFINE r == Looking([ask[a] EXCEPT !.question = q], KitOf[a])
    <3>2. Becomes(a, r) /\ r.question = q /\ r.at \in {"lookup", "schema"}
        BY <2>1, <3>1
    <3> HIDE DEF r
    <3>3. QED
        BY <3>2
  <2>3. CASE StartsWithout(a)
    <3>1. PICK q \in Questions :
             Becomes(a, [ask[a] EXCEPT !.at = "schema", !.question = q])
        BY <2>3 DEF StartsWithout
    <3> DEFINE r == [ask[a] EXCEPT !.at = "schema", !.question = q]
    <3>2. Becomes(a, r) /\ r.question = q /\ r.at \in {"lookup", "schema"}
        BY <2>1, <3>1
    <3> HIDE DEF r
    <3>3. QED
        BY <3>2
  <2>4. QED
    BY <2>2, <2>3 DEF AskStarts
<1>2. PICK s : Becomes(a, s) /\ s.question = q /\ s.at \in {"lookup", "schema"}
    BY <1>q
<1>3. Phase(ask[a]) = "idle" /\ Phase(s) = "open"
      /\ Decision(ask[a]) = None /\ Decision(s) = None
    BY <1>1, <1>2, PhaseOfAsk, DecisionOfAsk DEF Undecided, Waiting, Finalizing
<1>4. Phases[a] = "idle" /\ Phases' = [Phases EXCEPT ![a] = "open"]
      /\ Asked' = [Asked EXCEPT ![a] = q]
    BY <1>2, <1>3, SeenOfOneAsk DEF Phases
<1>5. Decisions' = Decisions
    BY <1>2, <1>3, SeenOfOneAsk DEF Decisions
<1>6. Contract!Open(a)
    BY <1>1, <1>4, <1>5, SameTables DEF Contract!Open
<1>7. QED
    BY <1>6 DEF ContractStep, Contract!Next

\* An ask that goes on with its question is still open, or decides.
LEMMA GoesOnStep ==
    ASSUME Inv, Inv', NEW a \in Asks, NEW s, Becomes(a, s), UNCHANGED <<cache, audit>>,
           ask[a].at \in Undecided, s.at \in Undecided \cup {"audit"},
           s.question = ask[a].question
    PROVE  ContractStep
<1>1. Phase(ask[a]) = "open" /\ Decision(ask[a]) = None
    BY PhaseOfAsk, DecisionOfAsk
<1>2. CASE s.at \in Undecided
  <2>1. Phase(s) = "open" /\ Decision(s) = None
    BY <1>2, PhaseOfAsk, DecisionOfAsk
  <2>2. QED
    BY <1>1, <2>1, UnseenOfOneAsk, SameTables, ContractStutter
<1>3. CASE s.at = "audit"
  <2>1. ask'[a] = s /\ Locals(s) /\ s.at \in Finalizing
    BY <1>3, SeenOfOneAsk DEF Inv, AskInv, Finalizing, Locals, InFlight, OnQuery, Answers, Plain
  <2>2. /\ Phase(s) = "decided"
        /\ Decision(s) \in Contract!Answers
        /\ Decision(s).question = ask[a].question
        /\ Decision(s).status = "ok" => Decision(s).data # {}
    BY <2>1, PhaseOfAsk, DecisionIsAnswer
  <2>3. /\ Phases[a] = "open" /\ Asked[a] = ask[a].question
        /\ Phases' = [Phases EXCEPT ![a] = "decided"]
        /\ Decisions' = [Decisions EXCEPT ![a] = Decision(s)]
    BY <1>1, <2>2, SeenOfOneAsk DEF Phases, Asked
  <2>4. Asked' = Asked
    <3>1. Asked' = [Asked EXCEPT ![a] = ask[a].question]
        BY SeenOfOneAsk
    <3>2. QED
        BY <3>1, NoNewEntry
  <2>5. Contract!Decide(a)
    BY <2>2, <2>3, <2>4, SameTables DEF Contract!Decide
  <2>6. QED
    BY <2>5 DEF ContractStep, Contract!Next
<1>4. QED
    BY <1>2, <1>3

\* A hit gives what was published for the question.
LEMMA ReuseStep ==
    ASSUME Inv, Inv', NEW a \in Asks, Hit(a) PROVE ContractStep
<1> DEFINE entry == cache[KeyOf(a)]
           r == [ask[a] EXCEPT !.at = "answered", !.cached = TRUE,
                               !.status = entry.status, !.data = entry.data]
           x == [question |-> ask[a].question, status |-> entry.status, data |-> entry.data]
           s == Emit(r, <<"cached">>)
<1>1. ask[a].at = "lookup" /\ ask[a] \in AskState /\ ask[a].question \in Questions
      /\ UNCHANGED <<cache, audit>>
    BY DEF Hit, At, Inv, AskInv, Locals, InFlight, Working, Waiting
<1>2. KeyOf(a) \in Key /\ KeyOf(a).question = ask[a].question /\ entry # None
    BY <1>1 DEF KeyOf, Key, AskState, Hit
<1>3. entry.status = "ok" \/ entry.data = {}
    BY <1>2 DEF Inv, AskInv, CacheSound
<1>4. x \in Published
    BY <1>2 DEF Published
<1>5. Becomes(a, s)
    BY DEF Hit
<1>6. /\ s.at = "answered" /\ s.question = ask[a].question
      /\ s.status = entry.status /\ s.data = entry.data
    BY <1>1 DEF Emit, AskState
<1> HIDE DEF entry, s
<1>7. Decision(s) = x
    BY <1>3, <1>6, DecisionOfAsk DEF AnswerData
<1>8. Phases[a] = "open" /\ Asked[a] = ask[a].question /\ Phase(s) = "answered"
    BY <1>1, <1>6, PhaseOfAsk DEF Phases, Asked, Undecided, Waiting, Finalizing
<1> HIDE DEF x
<1>9. /\ Phases' = [Phases EXCEPT ![a] = "answered"]
      /\ Decisions' = [Decisions EXCEPT ![a] = x]
    BY <1>5, <1>7, <1>8, SeenOfOneAsk
<1>10. Asked' = Asked
  <2>1. Asked' = [Asked EXCEPT ![a] = ask[a].question]
    BY <1>5, <1>6, SeenOfOneAsk
  <2>2. QED
    BY <2>1, NoNewEntry
<1>11. x.question = Asked[a]
    BY <1>8 DEF x
<1>12. Contract!Reuse(a)
    BY <1>1, <1>4, <1>8, <1>9, <1>10, <1>11, SameTables DEF Contract!Reuse
<1>13. QED
    BY <1>12 DEF ContractStep, Contract!Next

\* An ask in _finalize keeps its question and its answer wherever it moves.
LEMMA TailKeeps ==
    ASSUME Inv, NEW a \in Asks, NEW s, ask[a].at \in Finalizing,
           s.at \in Finalizing \cup {"answered"}, Alike(ask[a], s)
    PROVE  s.question = ask[a].question /\ Decision(s) = Decision(ask[a])
BY DecisionOfAsk DEF Alike, AnswerData

\* Moving on within _finalize is not seen.
LEMMA TailStep ==
    ASSUME Inv, NEW a \in Asks, NEW step \in Finalizing, ask[a].at \in Finalizing,
           Becomes(a, Moved(ask[a], step))
    PROVE  UNCHANGED <<Phases, Asked, Decisions>>
<1> DEFINE s == Moved(ask[a], step)
<1>1. s.at = step /\ Alike(ask[a], s)
    BY MovedOK DEF Inv, AskInv, Finalizing, Step, Waiting
<1> HIDE DEF s
<1>2. s.question = ask[a].question /\ Decision(s) = Decision(ask[a])
      /\ Phase(s) = Phase(ask[a])
    BY <1>1, TailKeeps, PhaseOfAsk
<1>3. QED
    BY <1>2, UnseenOfOneAsk DEF s

\* The audit row logs the status of the answer.
LEMMA LogStep ==
    ASSUME Inv, NEW a \in Asks, Recorded(a) PROVE ContractStep
<1> DEFINE row == [status |-> ask[a].status, sql |-> ask[a].sql.kind]
<1>1. ask[a].at = "audit" /\ ask[a].at \in Finalizing /\ Locals(ask[a]) /\ AuditSound(a)
    BY DEF Recorded, At, Inv, AskInv, Finalizing
<1>2. audit[a] = <<>>
    BY <1>1 DEF AuditSound, Saving, Settled
<1>3. audit'[a] = <<row>> /\ \A b \in Asks \ {a} : audit'[b] = audit[b]
    BY <1>2 DEF Inv, AskInv, Recorded
<1>4. UNCHANGED <<Phases, Asked, Decisions>> /\ cache' = cache
    BY <1>1, TailStep DEF Recorded, Finalizing
<1>5. Phases[a] = "decided" /\ Decisions[a].status = ask[a].status
    BY <1>1, PhaseOfAsk, DecisionIsAnswer DEF Phases, Decisions
<1>6. Logged[a] = {}
    BY <1>2 DEF Logged
<1>7. {audit'[a][i].status : i \in DOMAIN audit'[a]} = {ask[a].status}
  <2>1. DOMAIN <<row>> = {1} /\ <<row>>[1].status = ask[a].status
    OBVIOUS
  <2> HIDE DEF row
  <2>2. QED
    BY <1>3, <2>1
<1>8. Logged' = [Logged EXCEPT ![a] = {Decisions[a].status}]
  <2>1. Logged' = [b \in Asks |-> {audit'[b][i].status : i \in DOMAIN audit'[b]}]
    BY DEF Logged
  <2>2. \A b \in Asks \ {a} : {audit'[b][i].status : i \in DOMAIN audit'[b]} = Logged[b]
    BY <1>3 DEF Logged
  <2>3. Logged' = [b \in Asks |-> IF b = a THEN {Decisions[a].status} ELSE Logged[b]]
    BY <1>5, <1>7, <2>1, <2>2
  <2>4. DOMAIN Logged = Asks /\ Logged = [b \in Asks |-> Logged[b]]
    BY DEF Logged
  <2>5. QED
    BY <2>3, <2>4
<1>9. Contract!Log(a)
    BY <1>4, <1>5, <1>6, <1>8, SameTables DEF Contract!Log
<1>10. QED
    BY <1>9 DEF ContractStep, Contract!Next

\* "done" gives the answer.
LEMMA GiveStep ==
    ASSUME Inv, NEW a \in Asks, ask[a].at \in Finalizing, Becomes(a, Done(ask[a])),
           UNCHANGED <<cache, audit>>
    PROVE  ContractStep
<1> DEFINE m == Moved(ask[a], "answered")
           s == Done(ask[a])
<1>1. <<"done">> \in Seq(Event) /\ "answered" \in Step
    BY DEF Event, Step, Settled
<1>2. m.at = "answered" /\ Alike(ask[a], m)
    BY <1>1, MovedOK DEF Inv, AskInv
<1>3. s = Emit(m, <<"done">>)
    BY DEF Done
<1> HIDE DEF m, s
<1>4. s.at = "answered" /\ Alike(ask[a], s)
    BY <1>1, <1>2, <1>3, EmitOK DEF Alike
<1>5. s.question = ask[a].question /\ Decision(s) = Decision(ask[a])
      /\ Phase(s) = "answered" /\ Phase(ask[a]) = "decided"
    BY <1>4, TailKeeps, PhaseOfAsk
<1>6. Becomes(a, s)
    BY DEF s
<1>7. Phases[a] = "decided" /\ Phases' = [Phases EXCEPT ![a] = "answered"]
    BY <1>5, <1>6, SeenOfOneAsk DEF Phases
<1>8. Asked' = Asked /\ Decisions' = Decisions
  <2>1. /\ Asked' = [Asked EXCEPT ![a] = ask[a].question]
        /\ Decisions' = [Decisions EXCEPT ![a] = Decision(ask[a])]
    BY <1>5, <1>6, SeenOfOneAsk
  <2>2. QED
    BY <2>1, NoNewEntry
<1>9. Contract!Give(a)
    BY <1>7, <1>8, SameTables DEF Contract!Give
<1>10. QED
    BY <1>9 DEF ContractStep, Contract!Next

\* A row of the cache is published; the row it replaces is not any more.
LEMMA PublishStep ==
    ASSUME Inv, NEW a \in Asks, Stored(a) PROVE ContractStep
<1> DEFINE entry == [status |-> ask[a].status, data |-> AnswerData(ask[a]),
                     schema |-> ask[a].schema]
           x == [question |-> ask[a].question, status |-> ask[a].status,
                 data |-> AnswerData(ask[a])]
           old == Published \ Published'
<1>1. ask[a].at = "store" /\ ask[a].at \in Finalizing /\ Locals(ask[a])
      /\ ask[a] \in AskState /\ ask[a].question \in Questions /\ ask[a].schema \in Schema
      /\ ask[a].status # "error"
    BY DEF Stored, At, Inv, AskInv, Finalizing, Locals, InFlight, Working, Waiting,
           IsCacheable
<1>2. UNCHANGED <<Phases, Asked, Decisions>> /\ audit' = audit
    BY <1>1, TailStep DEF Stored, Finalizing
<1>3. Phases[a] = "decided" /\ Decisions[a] = x /\ x.status # "error"
    BY <1>1, PhaseOfAsk, DecisionOfAsk DEF Phases, Decisions
<1>4. KeyOf(a) \in Key /\ KeyOf(a).question = ask[a].question
    BY <1>1 DEF KeyOf, Key, AskState
<1>5. cache' = [cache EXCEPT ![KeyOf(a)] = entry] /\ DOMAIN cache = Key
    BY DEF Stored, Inv, AskInv, CacheSound
<1>6. entry # None
  <2>1. AnswerData(ask[a]) \in SUBSET DataKind /\ ask[a].status \in Status
    BY <1>1 DEF AnswerData, AskState
  <2>2. entry \in Entry
    BY <1>1, <2>1 DEF Entry
  <2>3. QED
    BY <2>2, AskAssumption
<1>7. entry.status = x.status /\ entry.data = x.data /\ KeyOf(a).question = x.question
    BY <1>4
<1>8. x = [question |-> KeyOf(a).question, status |-> entry.status, data |-> entry.data]
    BY <1>4
<1> HIDE DEF entry, x
<1>9. x \in Published'
    BY <1>4, <1>5, <1>6, <1>8 DEF Published
<1>10. ASSUME NEW y \in Published' PROVE y \in Published \cup {x}
  <2>1. PICK key \in Key :
           /\ cache'[key] # None
           /\ y = [question |-> key.question, status |-> cache'[key].status,
                   data |-> cache'[key].data]
    BY <1>10 DEF Published
  <2>2. CASE key = KeyOf(a)
    BY <1>4, <1>5, <1>8, <2>1, <2>2
  <2>3. CASE key # KeyOf(a)
    BY <1>5, <2>1, <2>3 DEF Published
  <2>4. QED
    BY <2>2, <2>3
<1>11. Published' = (Published \ old) \cup {x} /\ old \in SUBSET Published
    BY <1>9, <1>10
<1> HIDE DEF old
<1>12. Contract!Publish(a)
    BY <1>2, <1>3, <1>11, SameTables DEF Contract!Publish
<1>13. QED
    BY <1>12 DEF ContractStep, Contract!Next

\* Asks that are stopped fail, with whatever they had decided on.
LEMMA FailStep ==
    ASSUME Inv, NEW some \in SUBSET Asks, UNCHANGED <<cache, audit>>,
           NEW step \in Settled \ {"answered"},
           \A a \in some : ask[a].at \in Waiting /\ ask'[a] = Moved(ask[a], step),
           \A a \in Asks \ some : ask'[a] = ask[a]
    PROVE  ContractStep
<1>1. ASSUME NEW a \in some
      PROVE  /\ Phase(ask[a]) \in {"open", "decided"} /\ Phase(ask'[a]) = "failed"
             /\ Decision(ask'[a]) = None /\ ask'[a].question = ask[a].question
  <2>1. a \in Asks /\ ask[a] \in AskState
    BY DEF Inv, AskInv
  <2>2. ask'[a].at = step /\ ask'[a].question = ask[a].question
    BY <2>1 DEF Moved, AskState
  <2>3. QED
    BY <2>2, PhaseOfAsk, DecisionOfAsk DEF Undecided
<1>2. Phases' = [a \in Asks |-> IF a \in some THEN "failed" ELSE Phases[a]]
    BY <1>1 DEF Phases
<1>3. Decisions' = [a \in Asks |-> IF a \in some THEN None ELSE Decisions[a]]
    BY <1>1 DEF Decisions
<1>4. Asked' = Asked
    BY <1>1 DEF Asked
<1>5. \A a \in some : Phases[a] \in {"open", "decided"}
    BY <1>1 DEF Phases
<1>6. Contract!Fail(some)
    BY <1>2, <1>3, <1>4, <1>5, SameTables DEF Contract!Fail
<1>7. QED
    BY <1>6 DEF ContractStep, Contract!Next

\* In particular one ask.
LEMMA StopsStep ==
    ASSUME Inv, NEW a \in Asks, Raises(a) \/ SchemaCallRaises(a) \/ Cancelled(a)
    PROVE  ContractStep
<1>1. ask[a].at \in Waiting /\ UNCHANGED <<cache, audit>>
    BY DEF Raises, SchemaCallRaises, Cancelled, Waiting
<1>2. PICK step \in {"raised", "cancelled"} : Becomes(a, Moved(ask[a], step))
    BY DEF Raises, SchemaCallRaises, Cancelled
<1>3. step \in Settled \ {"answered"}
    BY DEF Settled
<1>4. ask'[a] = Moved(ask[a], step) /\ \A b \in Asks \ {a} : ask'[b] = ask[b]
    BY <1>2 DEF Inv, AskInv, Becomes
<1> DEFINE some == {a}
<1>5. /\ some \in SUBSET Asks
      /\ \A b \in some : ask[b].at \in Waiting /\ ask'[b] = Moved(ask[b], step)
      /\ \A b \in Asks \ some : ask'[b] = ask[b]
    BY <1>1, <1>4
<1> HIDE DEF some
<1>6. QED
    BY <1>1, <1>3, <1>5, FailStep

\* A restart fails all asks of the kit.
LEMMA LostStep ==
    ASSUME Inv, NEW k \in Kits, ProcessRestarts(k) PROVE ContractStep
<1> DEFINE some == {b \in Asks : KitOf[b] = k /\ ask[b].at \in Waiting}
<1>1. /\ \A b \in some : ask[b].at \in Waiting /\ ask'[b] = Moved(ask[b], "lost")
      /\ \A b \in Asks \ some : ask'[b] = ask[b]
      /\ UNCHANGED <<cache, audit>>
    BY DEF ProcessRestarts
<1>2. some \in SUBSET Asks /\ "lost" \in Settled \ {"answered"}
    BY DEF Settled
<1> HIDE DEF some
<1>3. QED
    BY <1>1, <1>2, FailStep

\* An expired row is published no more, unless another row says the same.
LEMMA ForgetStep ==
    ASSUME Inv, NEW key \in Key, Expires(key) PROVE ContractStep
<1> DEFINE old == Published \ Published'
<1>1. cache' = [cache EXCEPT ![key] = None] /\ ask' = ask /\ audit' = audit
      /\ DOMAIN cache = Key
    BY DEF Expires, Inv, AskInv, CacheSound
<1>2. UNCHANGED <<Phases, Asked, Decisions, Logged>>
    BY <1>1 DEF Phases, Asked, Decisions, Logged
<1>3. Published' \subseteq Published
    BY <1>1 DEF Published
<1>4. Published' = Published \ old /\ old \in SUBSET Published
    BY <1>3
<1> HIDE DEF old
<1>5. Contract!Forget
    BY <1>2, <1>4 DEF Contract!Forget
<1>6. QED
    BY <1>5 DEF ContractStep, Contract!Next

\* What leaves the asks and the tables alone is not seen.
LEMMA UnseenStep == ASSUME UNCHANGED askVars PROVE ContractStep
<1>1. UNCHANGED <<Phases, Asked, Decisions, Logged, Published>>
    BY DEF askVars, Phases, Asked, Decisions, Logged, Published
<1>2. QED
    BY <1>1, ContractStutter

----------------------------------------------------------------------------
(* The theorem. *)

\* Asks that have not begun have promised nothing.
LEMMA ContractInit == Init => Contract!Init
<1> SUFFICES ASSUME Init PROVE Contract!Init
    OBVIOUS
<1>1. ask = [a \in Asks |-> Fresh] /\ cache = [key \in Key |-> None]
      /\ audit = [a \in Asks |-> <<>>]
    BY DEF Init, AskInit
<1>2. Fresh.at = "idle" /\ Fresh.question = None
    BY DEF Fresh
<1>3. Phase(Fresh) = "idle" /\ Decision(Fresh) = None
    BY <1>2, PhaseOfAsk, DecisionOfAsk
<1> HIDE DEF Fresh
<1>4. Phases = [a \in Asks |-> "idle"] /\ Asked = [a \in Asks |-> None]
      /\ Decisions = [a \in Asks |-> None]
    BY <1>1, <1>2, <1>3 DEF Phases, Asked, Decisions
<1>5. Logged = [a \in Asks |-> {}]
    BY <1>1 DEF Logged
<1>6. Published = {}
    BY <1>1 DEF Published
<1>7. QED
    BY <1>4, <1>5, <1>6 DEF Contract!Init

\* What an ask does by itself, exceptions and cancellation included.
LEMMA AdvanceStep ==
    ASSUME Inv, FreshInv, Inv', NEW a \in Asks, AskAdvances(a) \/ Cancelled(a)
    PROVE  ContractStep
<1>1. CASE EarlyStepOf(a)
  <2>1. QuietStepOf(a)
    BY <1>1 DEF QuietStepOf
  <2>2. Becomes(a, ask'[a]) /\ cache' = cache /\ ask'[a].question = ask[a].question
    BY <2>1, QuietKeeps DEF Keeps
  <2>3. audit' = audit
    BY <1>1 DEF EarlyStepOf, Miss, Planned, Rows, Frame, QueryFails, Explained, Concluded
  <2>4. /\ ask[a].at \in Undecided
        /\ ask'[a].at \in Undecided \cup {"audit"}
    BY <1>1, EarlyKeeps DEF Undecided, Waiting, Finalizing
  <2>5. QED
    BY <2>2, <2>3, <2>4, GoesOnStep
<1>2. CASE GotSchema(a)
  <2>1. ask[a].at = "schema" /\ ask[a] \in AskState /\ UNCHANGED <<cache, audit>>
        /\ Becomes(a, Looking(ask[a], KitOf[a]))
    BY <1>2 DEF GotSchema, At, Inv, AskInv
  <2>2. /\ Looking(ask[a], KitOf[a]).at = "lookup"
        /\ Looking(ask[a], KitOf[a]).question = ask[a].question
    BY <2>1 DEF Looking, AskState
  <2>3. QED
    BY <2>1, <2>2, GoesOnStep DEF Undecided, Waiting, Finalizing
<1>3. CASE TableMissing(a)
  <2> DEFINE s == Emit(Moved(ask[a], "refresh"), <<"schema_refresh">>)
  <2>1. ask[a].at = "exec" /\ ask[a] \in AskState /\ UNCHANGED <<cache, audit>>
        /\ Becomes(a, s)
    BY <1>3 DEF TableMissing, At, Inv, AskInv
  <2>2. s.at = "refresh" /\ s.question = ask[a].question
    BY <2>1 DEF Emit, Moved, AskState
  <2> HIDE DEF s
  <2>3. QED
    BY <2>1, <2>2, GoesOnStep DEF Undecided, Waiting, Finalizing
<1>4. CASE Refreshed(a)
  <2>1. ask[a].at = "refresh" /\ UNCHANGED <<cache, audit>> /\ Becomes(a, ask'[a])
    BY <1>4 DEF Refreshed, At, Inv, AskInv, Becomes
  <2>2. ask'[a].at \in {"llm", "audit"} /\ ask'[a].question = ask[a].question
    BY <1>4, RefreshedNewer
  <2>3. QED
    BY <2>1, <2>2, GoesOnStep DEF Undecided, Waiting, Finalizing
<1>5. CASE AuditFails(a)
  <2>1. UNCHANGED <<Phases, Asked, Decisions>>
    BY <1>5, TailStep DEF AuditFails, At, Finalizing
  <2>2. QED
    BY <1>5, <2>1, SameTables, ContractStutter DEF AuditFails
<1>6. CASE Audited(a)
  <2>1. ask[a].at \in Finalizing /\ UNCHANGED <<cache, audit>>
    BY <1>6 DEF Audited, At, Finalizing
  <2>2. CASE IsCacheable(ask[a])
    <3>1. UNCHANGED <<Phases, Asked, Decisions>>
        BY <1>6, <2>1, <2>2, TailStep DEF Audited, Finalizing
    <3>2. QED
        BY <2>1, <3>1, SameTables, ContractStutter
  <2>3. CASE ~IsCacheable(ask[a])
    BY <1>6, <2>1, <2>3, GiveStep DEF Audited
  <2>4. QED
    BY <2>2, <2>3
<1>7. CASE Finished(a)
    BY <1>7, GiveStep DEF Finished, At, Finalizing
<1>8. CASE CallAdvances(a) /\ UNCHANGED askVars
    BY <1>8, UnseenStep
<1>9. QED
    BY <1>1, <1>2, <1>3, <1>4, <1>5, <1>6, <1>7, <1>8, ReuseStep, LogStep, PublishStep,
       StopsStep DEF AskAdvances, EarlyStepOf

\* Every step of the pipeline is one of the contract, or not seen by it.
LEMMA ContractNext == Inv /\ FreshInv /\ [Next]_vars => ContractStep
<1> SUFFICES ASSUME Inv, FreshInv, [Next]_vars PROVE ContractStep
    OBVIOUS
<1>1. Inv'
    BY InvStep
<1>2. ASSUME NEW a \in Asks, AskStarts(a) PROVE ContractStep
    BY <1>1, <1>2, OpenStep
<1>3. ASSUME NEW a \in Asks, AskAdvances(a) PROVE ContractStep
    BY <1>1, <1>3, AdvanceStep
<1>4. ASSUME NEW a \in Asks, Cancel(a) PROVE ContractStep
    BY <1>1, <1>4, AdvanceStep DEF Cancel, AskAdvances
<1>5. ASSUME NEW t \in Tasks, SchemaTask(t) PROVE ContractStep
    BY <1>5, UnseenStep DEF SchemaTask
<1>6. ASSUME NEW k \in Kits, ProcessRestarts(k) PROVE ContractStep
    BY <1>6, LostStep
<1>7. ASSUME NEW key \in Key, Expires(key) PROVE ContractStep
    BY <1>7, ForgetStep
<1>8. CASE UNCHANGED vars
    BY <1>8, UnseenStep DEF vars
<1>9. QED
    BY <1>2, <1>3, <1>4, <1>5, <1>6, <1>7, <1>8 DEF Next

\* Whatever the asks, attempts, replies, failures, refreshes and restarts, the pipeline
\* keeps the contract: an answer is decided once and logged at most once, with its own
\* status, before it is given, and a cached one was decided for the same question.
THEOREM PipelineKeepsContract == Spec => ImplementsContract
<1>1. Inv /\ FreshInv /\ [Next]_vars => [Contract!Next]_(Contract!contract)
    BY ContractNext DEF ContractStep
<1>2. QED
    BY ContractInit, <1>1, FreshInvariance, PTL DEF Spec, ImplementsContract, Contract!Spec
=============================================================================

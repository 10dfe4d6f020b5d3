------------------------- MODULE AskPipelineProofs -------------------------
(***************************************************************************)
(* What holds of AskPipeline for any number of asks, questions, attempts   *)
(* and shapes of reply.                                                    *)
(*                                                                         *)
(* Locals(s) says what the locals of one ask are at each of its awaits.    *)
(* The functions on locals that AskPipeline is built from come first, one  *)
(* lemma each; then every step of an ask is such a function, applied to    *)
(* one ask.                                                                *)
(***************************************************************************)
EXTENDS AskPipeline, KitSchemaProofs, SequenceTheorems

Step == {"idle"} \cup Waiting \cup Settled
Saving == {"audited", "store", "stored"}
Finishing == {"audit"} \cup Saving
Working == Waiting \ {"schema"}

Plain(s) == s.question \notin Analysis

\* an ask that has its schema
InFlight(s) ==
    /\ s \in AskState
    /\ s.question \in Questions
    /\ s.schema \in Schema
    /\ s.declines <= s.attempts

\* the query that runs, or ran last, is the one of this attempt
OnQuery(s) == s.sql.kind \in DataKind /\ s.sql.attempt = s.attempts

Answers(s) == s.data # {} /\ (Plain(s) => OnQuery(s) /\ s.data = {s.sql.kind})

Locals(s) ==
    /\ s \in AskState
    /\ s.at \in {"idle", "schema"} => s.declines = 0
    /\ s.at = "schema" => s.question \in Questions
    /\ s.at \in Working => InFlight(s)
    /\ s.at \in {"lookup", "llm"} => s.declines < s.attempts
    /\ s.at = "exec" /\ Plain(s) => OnQuery(s)
    /\ s.at = "exec" /\ ~Plain(s) => s.queries # <<>> /\ Head(s.queries) \in DataKind
    /\ s.at = "explain" => Plain(s) /\ Answers(s)
    /\ s.at = "final" => ~Plain(s) /\ s.data # {}
    /\ s.at \in Finishing /\ s.status = "ok" => Answers(s)
    /\ s.at = "store" => IsCacheable(s)

\* r differs from s at most in where it is, in the reasoning it read and in its events
Alike(s, r) ==
    /\ r \in AskState
    /\ r.question = s.question /\ r.schema = s.schema /\ r.version = s.version
    /\ r.attempts = s.attempts /\ r.declines = s.declines
    /\ r.sql = s.sql /\ r.status = s.status /\ r.data = s.data
    /\ r.queries = s.queries /\ r.cached = s.cached

\* where a failed attempt, or a refusal, may lead
Restarted(r) == Locals(r) /\ r.at \in {"llm", "audit"}

----------------------------------------------------------------------------
(* The functions on locals. *)

\* Announcing events changes nothing else.
LEMMA EmitOK ==
    ASSUME NEW s \in AskState, NEW events \in Seq(Event)
    PROVE  Alike(s, Emit(s, events)) /\ Emit(s, events).at = s.at
           /\ Emit(s, events).long = s.long
<1>1. s.events \o events \in Seq(Event)
    BY DEF AskState
<1>2. Emit(s, events) = [s EXCEPT !.events = s.events \o events]
    BY DEF Emit, AskState
<1>3. Emit(s, events) \in AskState
    BY <1>1, <1>2 DEF AskState
<1>4. QED
    BY <1>2, <1>3 DEF Alike, AskState

\* Neither does moving on to another await.
LEMMA MovedOK ==
    ASSUME NEW s \in AskState, NEW step \in Step
    PROVE  Alike(s, Moved(s, step)) /\ Moved(s, step).at = step
           /\ Moved(s, step).long = s.long
<1>1. Moved(s, step) \in AskState
    BY DEF Moved, AskState, Step
<1>2. QED
    BY <1>1 DEF Alike, AskState, Moved

\* Nor does reading the reasoning of a plan.
LEMMA ReasonedOK ==
    ASSUME NEW s \in AskState, NEW r \in Reply
    PROVE  /\ Alike(s, Reasoned(s, r)) /\ Reasoned(s, r).at = s.at
           /\ Reasoned(s, r).long = r.long /\ Reasoned(s, r).events = s.events
<1>1. r.long \in BOOLEAN
    BY DEF Reply
<1>2. Reasoned(s, r) \in AskState
    BY <1>1 DEF Reasoned, AskState
<1>3. QED
    BY <1>2 DEF Alike, AskState, Reasoned

\* Locals does not look at events.
LEMMA AlikeLocals ==
    ASSUME NEW s, Locals(s), NEW r, Alike(s, r), r.at = s.at
    PROVE  Locals(r)
BY DEF Locals, Alike, InFlight, OnQuery, Answers, Plain, IsCacheable

\* So events may be announced anywhere.
LEMMA EmitLocals ==
    ASSUME NEW s, Locals(s), NEW events \in Seq(Event)
    PROVE  Locals(Emit(s, events)) /\ Emit(s, events).at = s.at
BY EmitOK, AlikeLocals DEF Locals

\* Being in flight does not depend on where the ask is.
LEMMA AlikeInFlight ==
    ASSUME NEW s, InFlight(s), NEW r, Alike(s, r) PROVE InFlight(r)
BY DEF Alike, InFlight

\* Whatever an ask in flight finishes with, but "ok", is sound.
LEMMA FinishOK ==
    ASSUME NEW s, InFlight(s), NEW status \in {"error", "no_data"}
    PROVE  Restarted([s EXCEPT !.status = status, !.at = "audit"])
<1> DEFINE r == [s EXCEPT !.status = status, !.at = "audit"]
<1>1. s \in AskState /\ status \in Status /\ "audit" \in {"idle"} \cup Waiting \cup Settled
    BY DEF InFlight, Status, Waiting
<1>2. r \in AskState
    BY <1>1 DEF AskState
<1>3. /\ r.at = "audit" /\ r.status = status /\ r.attempts = s.attempts
      /\ r.question = s.question /\ r.schema = s.schema /\ r.declines = s.declines
    BY <1>1 DEF AskState
<1> HIDE DEF r
<1>4. InFlight(r)
    BY <1>2, <1>3 DEF InFlight
<1>5. Restarted(r)
    BY <1>2, <1>3, <1>4 DEF Restarted, Locals, Working, Waiting, Finishing, Saving
<1>6. QED
    BY <1>5 DEF r

\* The next attempt, or an error when there is none.
LEMMA NextAttemptOK == ASSUME NEW s, InFlight(s) PROVE Restarted(NextAttempt(s))
<1>1. CASE s.attempts < MaxAttempts
  <2> DEFINE r == [s EXCEPT !.attempts = s.attempts + 1, !.at = "llm"]
  <2>1. NextAttempt(s) = r
    BY <1>1 DEF NextAttempt, InFlight, AskState
  <2>2. /\ s \in AskState
        /\ s.attempts + 1 \in 1..MaxAttempts
        /\ "llm" \in {"idle"} \cup Waiting \cup Settled
    BY <1>1, AskAssumption DEF InFlight, AskState, Waiting
  <2>3. r \in AskState
    BY <2>2 DEF AskState
  <2>4. /\ r.at = "llm" /\ r.attempts = s.attempts + 1
        /\ r.question = s.question /\ r.schema = s.schema /\ r.declines = s.declines
    BY <2>2 DEF AskState
  <2> HIDE DEF r
  <2>5. s.declines \in Nat /\ s.attempts \in Nat
    BY <2>2 DEF AskState
  <2>6. InFlight(r) /\ r.declines < r.attempts
    BY <2>3, <2>4, <2>5 DEF InFlight
  <2>7. QED
    BY <2>1, <2>3, <2>4, <2>6 DEF Restarted, Locals, Working, Waiting, Finishing, Saving
<1>2. CASE ~(s.attempts < MaxAttempts)
    BY <1>2, FinishOK DEF NextAttempt
<1>3. QED
    BY <1>1, <1>2

\* A failed attempt is announced and tried again.
LEMMA RetryOK == ASSUME NEW s, InFlight(s) PROVE Restarted(Retry(s))
<1>1. <<"retry">> \in Seq(Event)
    BY DEF Event
<1>2. InFlight(Emit(s, <<"retry">>))
    BY <1>1, EmitOK, AlikeInFlight DEF InFlight
<1>3. QED
    BY <1>2, NextAttemptOK DEF Retry

\* An answer in prose has no data.
LEMMA ProseOK == ASSUME NEW s, InFlight(s) PROVE Restarted(Prose(s))
<1>1. <<"insight">> \in Seq(Event)
    BY DEF Event
<1>2. Restarted([s EXCEPT !.status = "no_data", !.at = "audit"])
    BY FinishOK
<1>3. QED
    BY <1>1, <1>2, EmitLocals DEF Prose, Restarted

\* A refusal is counted, and there is no more than one per attempt.
LEMMA RefusedOK ==
    ASSUME NEW s, InFlight(s), s.declines < s.attempts
    PROVE  Restarted(Refused(s))
<1> DEFINE declined == [s EXCEPT !.declines = s.declines + 1]
<1>1. s \in AskState /\ s.declines + 1 \in 0..MaxAttempts /\ s.declines + 1 <= s.attempts
    BY AskAssumption DEF InFlight, AskState
<1>2. declined \in AskState
    BY <1>1 DEF AskState
<1>3. /\ declined.declines = s.declines + 1 /\ declined.attempts = s.attempts
      /\ declined.question = s.question /\ declined.schema = s.schema
      /\ declined = [s EXCEPT !.declines = @ + 1]
    BY <1>1 DEF AskState
<1>4. Refused(s) = IF declined.declines >= 2 THEN Prose(Emit(declined, <<"retry">>))
                   ELSE Retry(declined)
    BY <1>3 DEF Refused
<1> HIDE DEF declined
<1>5. InFlight(declined)
    BY <1>1, <1>2, <1>3 DEF InFlight
<1>6. <<"retry">> \in Seq(Event)
    BY DEF Event
<1>7. InFlight(Emit(declined, <<"retry">>))
    BY <1>5, <1>6, EmitOK, AlikeInFlight DEF InFlight
<1>8. QED
    BY <1>4, <1>5, <1>7, ProseOK, RetryOK

\* A query of the plain flow runs in the attempt that planned it.
LEMMA QueryOK ==
    ASSUME NEW s, InFlight(s), Plain(s), NEW kind \in DataKind
    PROVE  Locals(Query(s, kind)) /\ Query(s, kind).at = "exec"
<1> DEFINE sql == [kind |-> kind, attempt |-> s.attempts]
           r == [s EXCEPT !.sql = sql, !.at = "exec"]
<1>1. /\ s \in AskState
      /\ sql \in [kind : SqlKind, attempt : 0..MaxAttempts]
      /\ "exec" \in {"idle"} \cup Waiting \cup Settled
    BY AskAssumption DEF InFlight, AskState, SqlKind, Waiting
<1>2. r \in AskState
    BY <1>1 DEF AskState
<1>3. /\ r.at = "exec" /\ r.sql.kind = kind /\ r.sql.attempt = s.attempts
      /\ r.question = s.question /\ r.schema = s.schema
      /\ r.declines = s.declines /\ r.attempts = s.attempts
    BY <1>1 DEF AskState
<1>4. Query(s, kind) = Emit(r, <<"sql">>)
    BY DEF Query
<1> HIDE DEF r
<1>5. Locals(r)
    BY <1>2, <1>3 DEF Locals, InFlight, OnQuery, Plain, Working, Waiting, Finishing, Saving
<1>6. <<"sql">> \in Seq(Event)
    BY DEF Event
<1>7. QED
    BY <1>3, <1>4, <1>5, <1>6, EmitLocals

\* The next planned query runs, is refused, or there is none left and rows to conclude
\* from.
LEMMA NextQueryOK ==
    ASSUME NEW s, InFlight(s), ~Plain(s), s.queries = <<>> => s.data # {}
    PROVE  Locals(NextQuery(s)) /\ NextQuery(s).at \in {"final", "exec", "llm", "audit"}
<1>1. s \in AskState /\ s.queries \in Seq(QueryKind)
    BY DEF InFlight, AskState
<1>2. CASE s.queries = <<>>
  <2> DEFINE r == [s EXCEPT !.sql = NoSql, !.at = "final"]
  <2>1. NoSql \in [kind : SqlKind, attempt : 0..MaxAttempts]
        /\ "final" \in {"idle"} \cup Waiting \cup Settled
    BY AskAssumption DEF NoSql, SqlKind, Waiting
  <2>2. r \in AskState
    BY <1>1, <2>1 DEF AskState
  <2>3. /\ r.at = "final" /\ r.question = s.question /\ r.schema = s.schema
        /\ r.declines = s.declines /\ r.attempts = s.attempts /\ r.data = s.data
        /\ NextQuery(s) = r
    BY <1>1, <1>2 DEF AskState, NextQuery
  <2> HIDE DEF r
  <2>4. QED
    BY <1>2, <2>2, <2>3 DEF Locals, InFlight, Plain, Working, Waiting, Finishing, Saving
<1>3. CASE s.queries # <<>> /\ Head(s.queries) = "unsafe"
    BY <1>3, RetryOK DEF NextQuery, Restarted
<1>4. CASE s.queries # <<>> /\ Head(s.queries) # "unsafe"
  <2>1. NextQuery(s) = Moved(s, "exec")
    BY <1>4 DEF NextQuery
  <2>2. Alike(s, Moved(s, "exec")) /\ Moved(s, "exec").at = "exec"
    BY <1>1, MovedOK DEF Step, Waiting
  <2>3. Head(s.queries) \in QueryKind
    BY <1>1, <1>4
  <2> DEFINE r == Moved(s, "exec")
  <2> HIDE DEF r
  <2>4. Locals(r)
    BY <1>4, <2>2, <2>3, AlikeInFlight
       DEF r, Locals, Alike, Plain, DataKind, Working, Waiting, Finishing, Saving
  <2>5. QED
    BY <2>1, <2>2, <2>4 DEF r
<1>5. QED
    BY <1>2, <1>3, <1>4

\* Whatever the LLM plans for a plain question.
LEMMA PlainPlanOK ==
    ASSUME NEW s, InFlight(s), Plain(s), s.declines < s.attempts, NEW r \in Reply
    PROVE  Locals(PlainPlan(s, r)) /\ PlainPlan(s, r).at \in {"exec", "llm", "audit"}
<1> DEFINE read == Reasoned(s, r)
<1>0. InFlight(read) /\ Plain(read) /\ read.declines < read.attempts
    BY ReasonedOK, AlikeInFlight DEF Alike, Plain, InFlight
<1> HIDE DEF read
<1>1. CASE ParseFails(r)
  <2>1. PlainPlan(s, r) = Retry(s)
    BY <1>1 DEF PlainPlan, ParseFails, Declines
  <2>2. QED
    BY <2>1, RetryOK DEF Restarted
<1>2. CASE ~ParseFails(r) /\ Declines(r)
  <2>1. PlainPlan(s, r) = IF r.long THEN Prose(read) ELSE Refused(read)
    BY <1>2 DEF PlainPlan, read
  <2>2. QED
    BY <1>0, <2>1, ProseOK, RefusedOK DEF Restarted
<1>3. CASE ~ParseFails(r) /\ ~Declines(r)
  <2>1. r.object /\ r.sql \in QueryKind
    BY <1>3 DEF ParseFails, Declines, Reply
  <2>2. PlainPlan(s, r) = IF r.sql = "unsafe" THEN Retry(read) ELSE Query(read, r.sql)
    BY <1>3, <2>1 DEF PlainPlan, read
  <2>3. QED
    BY <1>0, <2>1, <2>2, RetryOK, QueryOK DEF Restarted, DataKind
<1>4. QED
    BY <1>1, <1>2, <1>3

\* Whatever it plans for an analysis.
LEMMA AnalysisPlanOK ==
    ASSUME NEW s, InFlight(s), ~Plain(s), NEW r \in Reply
    PROVE  /\ Locals(AnalysisPlan(s, r))
           /\ AnalysisPlan(s, r).at \in {"final", "exec", "llm", "audit"}
<1>1. CASE ParseFails(r)
  <2>1. AnalysisPlan(s, r) = Retry(s)
    BY <1>1 DEF AnalysisPlan, ParseFails
  <2>2. QED
    BY <2>1, RetryOK DEF Restarted
<1>2. CASE ~ParseFails(r) /\ r.queries = <<>>
  <2>1. AnalysisPlan(s, r) = IF r.long THEN Prose(Reasoned(s, r)) ELSE Retry(s)
    BY <1>2 DEF AnalysisPlan
  <2>2. InFlight(Reasoned(s, r))
    BY ReasonedOK, AlikeInFlight DEF InFlight
  <2>3. QED
    BY <2>1, <2>2, ProseOK, RetryOK DEF Restarted
<1>3. CASE ~ParseFails(r) /\ r.queries # <<>>
  <2> DEFINE p == [s EXCEPT !.queries = r.queries, !.data = {}]
  <2>1. s \in AskState /\ r.queries \in Seq(QueryKind)
    BY DEF InFlight, Reply
  <2>2. AnalysisPlan(s, r) = NextQuery(p)
    BY <1>3 DEF AnalysisPlan, ParseFails
  <2>3. p \in AskState
    BY <2>1 DEF AskState
  <2>4. /\ p.question = s.question /\ p.schema = s.schema /\ p.queries = r.queries
        /\ p.declines = s.declines /\ p.attempts = s.attempts
    BY <2>1 DEF AskState
  <2> HIDE DEF p
  <2>5. InFlight(p) /\ ~Plain(p) /\ p.queries # <<>>
    BY <1>3, <2>3, <2>4 DEF InFlight, Plain
  <2>6. QED
    BY <2>2, <2>5, NextQueryOK
<1>4. QED
    BY <1>1, <1>2, <1>3

----------------------------------------------------------------------------
(* The inductive invariant. *)

Row == [status : Status, sql : SqlKind]

\* the row of an ask, written once, in _finalize, about the answer it returns
AuditSound(a) ==
    /\ audit[a] \in Seq(Row)
    /\ audit[a] # <<>> =>
          /\ ask[a].at \in Saving \cup Settled
          /\ audit[a] = <<[status |-> ask[a].status, sql |-> ask[a].sql.kind]>>

CacheSound ==
    /\ cache \in [Key -> Entry \cup {None}]
    /\ CachedAnswersSound
    /\ NoVolatileCached
    /\ \A key \in Key : cache[key] # None /\ cache[key].status # "ok" => cache[key].data = {}

AskInv ==
    /\ ask \in [Asks -> AskState]
    /\ DOMAIN audit = Asks /\ audit = [a \in Asks |-> audit[a]]
    /\ \A a \in Asks : Locals(ask[a]) /\ AuditSound(a)
    /\ CacheSound

Inv == KitInv /\ AskInv

\* Asks that have not begun and an empty cache are sound.
LEMMA AskInvInit == AskInit => AskInv
<1> SUFFICES ASSUME AskInit PROVE AskInv
    OBVIOUS
<1>1. Fresh \in AskState
  <2>1. NoSql \in [kind : SqlKind, attempt : 0..MaxAttempts]
    BY AskAssumption DEF NoSql, SqlKind
  <2>2. 1 \in 1..MaxAttempts /\ 0 \in 0..MaxAttempts /\ 0 \in 0..MaxClock
    BY AskAssumption, KitAssumption
  <2>3. <<>> \in Seq(QueryKind) /\ <<>> \in Seq(Event) /\ "ok" \in Status
        /\ {} \in SUBSET DataKind
    BY DEF Status
  <2>4. QED
    BY <2>1, <2>2, <2>3 DEF Fresh, AskState
<1>2. Locals(Fresh)
    BY <1>1 DEF Fresh, Locals, Working, Waiting, Finishing, Saving
<1>3. ask \in [Asks -> AskState] /\ \A a \in Asks : Locals(ask[a])
    BY <1>1, <1>2 DEF AskInit
<1>4. audit = [a \in Asks |-> <<>>] /\ \A a \in Asks : AuditSound(a)
    BY DEF AskInit, AuditSound
<1>5. CacheSound
    BY DEF AskInit, CacheSound, CachedAnswersSound, NoVolatileCached
<1>6. QED
    BY <1>3, <1>4, <1>5 DEF AskInv

\* A step of one ask that leaves cache and audit log alone.
LEMMA OneAskStep ==
    ASSUME AskInv, NEW a \in Asks, NEW s, Becomes(a, s), Locals(s),
           UNCHANGED <<cache, audit>>,
           audit[a] # <<>> => /\ s.at \in Saving \cup Settled
                              /\ s.status = ask[a].status /\ s.sql = ask[a].sql
    PROVE  AskInv'
<1>1. s \in AskState
    BY DEF Locals
<1>2. /\ ask' \in [Asks -> AskState] /\ ask'[a] = s
      /\ \A b \in Asks \ {a} : ask'[b] = ask[b]
    BY <1>1 DEF AskInv, Becomes
<1>3. \A b \in Asks : Locals(ask[b])'
    BY <1>2 DEF AskInv, Locals, InFlight, OnQuery, Answers, Plain, IsCacheable
<1>4. ASSUME NEW b \in Asks PROVE AuditSound(b)'
  <2>1. AuditSound(b) /\ audit'[b] = audit[b]
    BY DEF AskInv
  <2>2. CASE b = a
    BY <1>2, <2>1, <2>2 DEF AuditSound
  <2>3. CASE b # a
    BY <1>2, <2>1, <2>3 DEF AuditSound
  <2>4. QED
    BY <2>2, <2>3
<1>5. CacheSound'
    BY DEF AskInv, CacheSound, CachedAnswersSound, NoVolatileCached
<1>6. QED
    BY <1>2, <1>3, <1>4, <1>5 DEF AskInv

\* Before the audit there is no row to agree with.
LEMMA EarlyStep ==
    ASSUME AskInv, NEW a \in Asks, NEW s, Becomes(a, s), Locals(s),
           UNCHANGED <<cache, audit>>, ask[a].at \notin Saving \cup Settled
    PROVE  AskInv'
BY OneAskStep DEF AskInv, AuditSound

----------------------------------------------------------------------------
(* The steps, in the order of the code. *)

\* The ask has its schema: it looks its key up.
LEMMA LookingOK ==
    ASSUME NEW s, s \in AskState, s.question \in Questions, s.declines = 0, NEW k,
           kitSchema'[k] \in Schema, kitVersion'[k] \in 0..MaxClock
    PROVE  Locals(Looking(s, k))
<1> DEFINE r == Looking(s, k)
<1>1. "lookup" \in {"idle"} \cup Waiting \cup Settled
    BY DEF Waiting
<1>2. r \in AskState
    BY <1>1 DEF Looking, AskState
<1>3. /\ r.at = "lookup" /\ r.schema \in Schema /\ r.question \in Questions
      /\ r.declines = 0 /\ r.attempts \in Nat \ {0}
    BY <1>1 DEF Looking, AskState
<1> HIDE DEF r
<1>4. Locals(r)
    BY <1>2, <1>3 DEF Locals, InFlight, Working, Waiting, Finishing, Saving
<1>5. QED
    BY <1>4 DEF r

\* The ask begins on a kit that holds a schema.
LEMMA StartsWithSchemaStep ==
    ASSUME Inv, NEW a \in Asks, StartsWithSchema(a) PROVE AskInv'
<1>1. ask[a].at = "idle" /\ Locals(ask[a]) /\ ask[a] \in AskState
    BY DEF Inv, AskInv, StartsWithSchema, At
<1>2. PICK q \in Questions : Becomes(a, Looking([ask[a] EXCEPT !.question = q], KitOf[a]))
    BY DEF StartsWithSchema
<1> DEFINE s == [ask[a] EXCEPT !.question = q]
<1>3. s \in AskState /\ s.question = q /\ s.declines = 0
    BY <1>1 DEF AskState, Locals
<1>4. /\ KitOf[a] \in Kits
      /\ kitSchema'[KitOf[a]] \in Schema /\ kitVersion'[KitOf[a]] \in 0..MaxClock
    BY KitAssumption, AskAssumption
       DEF Inv, KitInv, KitTypeOK, StartsWithSchema, HoldsSchema, schemaVars, kitVars
<1> HIDE DEF s
<1>5. Locals(Looking(s, KitOf[a]))
    BY <1>3, <1>4, LookingOK
<1>6. QED
    BY <1>1, <1>2, <1>5, EarlyStep DEF s, Inv, StartsWithSchema, Saving, Settled

\* The ask begins with a call of get_schema, with nothing to carry yet.
LEMMA StartsWithoutStep ==
    ASSUME Inv, NEW a \in Asks, StartsWithout(a) PROVE AskInv'
<1>1. ask[a].at = "idle" /\ Locals(ask[a]) /\ ask[a] \in AskState
    BY DEF Inv, AskInv, StartsWithout, At
<1>2. PICK q \in Questions : Becomes(a, [ask[a] EXCEPT !.at = "schema", !.question = q])
    BY DEF StartsWithout
<1> DEFINE s == [ask[a] EXCEPT !.at = "schema", !.question = q]
<1>3. "schema" \in {"idle"} \cup Waiting \cup Settled
    BY DEF Waiting
<1>4. s \in AskState
    BY <1>1, <1>3 DEF AskState
<1>5. s.at = "schema" /\ s.question = q /\ s.declines = 0
    BY <1>1 DEF AskState, Locals
<1>6. Becomes(a, s)
    BY <1>2
<1> HIDE DEF s
<1>7. Locals(s)
    BY <1>4, <1>5 DEF Locals, Working, Finishing, Saving
<1>8. QED
    BY <1>1, <1>6, <1>7, EarlyStep DEF Inv, StartsWithout, Saving, Settled

\* What a call of the ask installs is a schema with a stamp.
LEMMA Installed ==
    ASSUME Inv, NEW t \in Tasks, ReturnLoaded(t) \/ InstallRefreshed(t)
    PROVE  kitSchema'[KitOf[t]] \in Schema /\ kitVersion'[KitOf[t]] \in 0..MaxClock
<1> DEFINE k == KitOf[t]  meta == call[t].meta
<1>1. /\ kitSchema' = [kitSchema EXCEPT ![k] = meta]
      /\ kitVersion' = [kitVersion EXCEPT ![k] = meta.extracted]
    BY DEF ReturnLoaded, InstallRefreshed
<1>2. meta \in Schema
    BY DEF ReturnLoaded, InstallRefreshed, Inv, KitInv, KitTypeOK, CallsAreSound, CarriesSchema
<1>3. meta.extracted \in 0..MaxClock
    BY <1>2, KitAssumption DEF Schema
<1>4. k \in Kits /\ DOMAIN kitSchema = Kits /\ DOMAIN kitVersion = Kits
    BY KitAssumption DEF Inv, KitInv, KitTypeOK
<1>5. QED
    BY <1>1, <1>2, <1>3, <1>4

\* The call returns a schema with a stamp, the ask looks its key up.
LEMMA GotSchemaStep == ASSUME Inv, NEW a \in Asks, GotSchema(a) PROVE AskInv'
<1>1. ask[a].at = "schema" /\ Locals(ask[a]) /\ ask[a] \in AskState
    BY DEF Inv, AskInv, GotSchema, At
<1>2. kitSchema'[KitOf[a]] \in Schema /\ kitVersion'[KitOf[a]] \in 0..MaxClock
    BY Installed, AskAssumption DEF GotSchema
<1>3. Locals(Looking(ask[a], KitOf[a]))
    BY <1>1, <1>2, LookingOK DEF Locals
<1>4. QED
    BY <1>1, <1>3, EarlyStep DEF Inv, GotSchema, Saving, Settled

\* A settled ask, and one that only moves on, needs no more than its type.
LEMMA SettledOK ==
    ASSUME NEW s \in AskState, s.at \in Settled PROVE Locals(s)
BY DEF Locals, Settled, Working, Waiting, Finishing, Saving

\* A cached answer is as sound as its entry.
LEMMA HitStep == ASSUME Inv, NEW a \in Asks, Hit(a) PROVE AskInv'
<1> DEFINE entry == cache[KeyOf(a)]
           r == [ask[a] EXCEPT !.at = "answered", !.cached = TRUE,
                               !.status = entry.status, !.data = entry.data]
<1>1. ask[a].at = "lookup" /\ Locals(ask[a]) /\ ask[a] \in AskState /\ InFlight(ask[a])
    BY DEF Inv, AskInv, Hit, At, Locals, Working, Waiting
<1>2. KeyOf(a) \in Key
    BY <1>1 DEF KeyOf, Key, InFlight, AskState
<1>3. entry \in Entry
    BY <1>2 DEF Inv, AskInv, CacheSound, Hit
<1>4. entry.status \in Status /\ entry.data \in SUBSET DataKind
    BY <1>3 DEF Entry
<1> HIDE DEF entry
<1>5. "answered" \in {"idle"} \cup Waiting \cup Settled
    BY DEF Settled
<1>6. r \in AskState
    BY <1>1, <1>4, <1>5 DEF AskState
<1>7. r.at = "answered"
    BY <1>1 DEF AskState
<1>8. Becomes(a, Emit(r, <<"cached">>))
    BY DEF Hit, entry
<1> HIDE DEF r
<1>9. Locals(r)
    BY <1>6, <1>7, SettledOK DEF Settled
<1>10. Locals(Emit(r, <<"cached">>))
  <2>1. <<"cached">> \in Seq(Event)
    BY DEF Event
  <2>2. QED
    BY <1>9, <2>1, EmitLocals
<1>11. QED
    BY <1>1, <1>8, <1>10, EarlyStep DEF Inv, Hit, Saving, Settled

\* Without an entry the first attempt begins, with no refusals so far.
LEMMA MissStep == ASSUME Inv, NEW a \in Asks, Miss(a) PROVE AskInv'
<1> DEFINE r == Moved(ask[a], "llm")
<1>1. ask[a].at = "lookup" /\ Locals(ask[a]) /\ ask[a] \in AskState /\ InFlight(ask[a])
      /\ ask[a].declines < ask[a].attempts
    BY DEF Inv, AskInv, Miss, At, Locals, Working, Waiting
<1>2. Alike(ask[a], r) /\ r.at = "llm"
    BY <1>1, MovedOK DEF Step, Waiting
<1>3. Becomes(a, Emit(r, <<"plan">>))
    BY DEF Miss
<1> HIDE DEF r
<1>4. Locals(r)
    BY <1>1, <1>2, AlikeInFlight
       DEF Locals, Alike, Working, Waiting, Finishing, Saving
<1>5. <<"plan">> \in Seq(Event)
    BY DEF Event
<1>6. QED
    BY <1>1, <1>3, <1>4, <1>5, EmitLocals, EarlyStep DEF Inv, Miss, Saving, Settled

\* Whatever the LLM replies, the ask runs a query of this attempt, retries or ends.
LEMMA PlannedStep == ASSUME Inv, NEW a \in Asks, Planned(a) PROVE AskInv'
<1>1. ask[a].at = "llm" /\ InFlight(ask[a]) /\ ask[a].declines < ask[a].attempts
    BY DEF Inv, AskInv, Planned, At, Locals, Working, Waiting
<1>2. PICK r \in Replies :
         Becomes(a, IF IsAnalysis(a) THEN AnalysisPlan(ask[a], r) ELSE PlainPlan(ask[a], r))
    BY DEF Planned
<1>3. r \in Reply
    BY AskAssumption
<1>4. CASE IsAnalysis(a)
    BY <1>1, <1>2, <1>3, <1>4, AnalysisPlanOK, EarlyStep
       DEF IsAnalysis, Plain, Inv, Planned, Saving, Settled
<1>5. CASE ~IsAnalysis(a)
    BY <1>1, <1>2, <1>3, <1>5, PlainPlanOK, EarlyStep
       DEF IsAnalysis, Plain, Inv, Planned, Saving, Settled
<1>6. QED
    BY <1>4, <1>5

\* The rows of a plain query are its own.
LEMMA RowsStep == ASSUME Inv, NEW a \in Asks, Rows(a) PROVE AskInv'
<1> DEFINE rows == [ask[a] EXCEPT !.data = {Running(a)}]
           s == Emit(rows, <<"result">>)
<1>1. ask[a].at = "exec" /\ ask[a] \in AskState /\ InFlight(ask[a]) /\ Plain(ask[a])
      /\ OnQuery(ask[a])
    BY DEF Inv, AskInv, Rows, At, Locals, Working, Waiting, IsAnalysis, Plain
<1>2. Running(a) = ask[a].sql.kind /\ Running(a) \in DataKind
    BY <1>1 DEF Running, Rows, OnQuery
<1>3. rows \in AskState
    BY <1>1, <1>2 DEF AskState
<1>4. /\ rows.question = ask[a].question /\ rows.schema = ask[a].schema
      /\ rows.declines = ask[a].declines /\ rows.attempts = ask[a].attempts
      /\ rows.sql = ask[a].sql /\ rows.data = {ask[a].sql.kind}
    BY <1>1, <1>2 DEF AskState
<1> HIDE DEF rows
<1>5. InFlight(rows) /\ Plain(rows) /\ Answers(rows)
    BY <1>1, <1>3, <1>4 DEF InFlight, Plain, Answers, OnQuery
<1>6. <<"result">> \in Seq(Event) /\ <<"insight">> \in Seq(Event)
    BY DEF Event
<1>7. Alike(rows, s)
    BY <1>3, <1>6, EmitOK
<1>8. Becomes(a, Moved(s, "explain")) \/ Becomes(a, Emit(Moved(s, "audit"), <<"insight">>))
    BY DEF Rows, rows
<1> HIDE DEF s
<1>9. InFlight(s) /\ Plain(s) /\ Answers(s) /\ s \in AskState
    BY <1>5, <1>7, AlikeInFlight DEF Alike, Plain, Answers, OnQuery
<1>10. ASSUME NEW step \in {"explain", "audit"} PROVE Locals(Moved(s, step))
  <2> DEFINE r == Moved(s, step)
  <2>1. Alike(s, r) /\ r.at = step
    BY <1>9, MovedOK DEF Step, Waiting
  <2> HIDE DEF r
  <2>2. InFlight(r) /\ Plain(r) /\ Answers(r)
    BY <1>9, <2>1, AlikeInFlight DEF Alike, Plain, Answers, OnQuery
  <2>3. Locals(r)
    BY <2>1, <2>2 DEF Locals, InFlight, Finishing, Saving
  <2>4. QED
    BY <2>3 DEF r
<1>11. Locals(Emit(Moved(s, "audit"), <<"insight">>))
    BY <1>6, <1>10, EmitLocals
<1>12. QED
    BY <1>1, <1>8, <1>10, <1>11, EarlyStep DEF Inv, Rows, Saving, Settled

\* The frames of an analysis add up, query by query.
LEMMA FrameStep == ASSUME Inv, NEW a \in Asks, Frame(a) PROVE AskInv'
<1> DEFINE s == [ask[a] EXCEPT !.data = ask[a].data \cup {Running(a)},
                               !.queries = Tail(ask[a].queries)]
<1>1. ask[a].at = "exec" /\ ask[a] \in AskState /\ InFlight(ask[a]) /\ ~Plain(ask[a])
      /\ ask[a].queries # <<>> /\ Head(ask[a].queries) \in DataKind
    BY DEF Inv, AskInv, Frame, At, Locals, Working, Waiting, IsAnalysis, Plain
<1>2. Running(a) \in DataKind
    BY <1>1 DEF Running, Frame
<1>3. /\ ask[a].data \cup {Running(a)} \in SUBSET DataKind
      /\ Tail(ask[a].queries) \in Seq(QueryKind)
    BY <1>1, <1>2 DEF AskState
<1>4. s \in AskState
    BY <1>1, <1>3 DEF AskState
<1>5. /\ s.question = ask[a].question /\ s.schema = ask[a].schema
      /\ s.declines = ask[a].declines /\ s.attempts = ask[a].attempts
      /\ s.data = ask[a].data \cup {Running(a)}
    BY <1>1 DEF AskState
<1>6. Becomes(a, NextQuery(s))
    BY <1>1 DEF Frame
<1> HIDE DEF s
<1>7. InFlight(s) /\ ~Plain(s) /\ s.data # {}
    BY <1>1, <1>4, <1>5 DEF InFlight, Plain
<1>8. QED
    BY <1>1, <1>6, <1>7, NextQueryOK, EarlyStep DEF Inv, Frame, Saving, Settled

\* A missing table leaves the locals alone until the refresh is over.
LEMMA TableMissingStep == ASSUME Inv, NEW a \in Asks, TableMissing(a) PROVE AskInv'
<1> DEFINE r == Moved(ask[a], "refresh")
<1>1. ask[a].at = "exec" /\ InFlight(ask[a]) /\ ask[a] \in AskState
    BY DEF Inv, AskInv, TableMissing, At, Locals, Working, Waiting
<1>2. Alike(ask[a], r) /\ r.at = "refresh"
    BY <1>1, MovedOK DEF Step, Waiting
<1>3. Becomes(a, Emit(r, <<"schema_refresh">>))
    BY DEF TableMissing
<1> HIDE DEF r
<1>4. Locals(r)
    BY <1>1, <1>2, AlikeInFlight DEF Locals, InFlight, Finishing, Saving
<1>5. <<"schema_refresh">> \in Seq(Event)
    BY DEF Event
<1>6. QED
    BY <1>1, <1>3, <1>4, <1>5, EmitLocals, EarlyStep DEF Inv, TableMissing, Saving, Settled

\* A failed query leads to another attempt or to an error.
LEMMA QueryFailsStep == ASSUME Inv, NEW a \in Asks, QueryFails(a) PROVE AskInv'
<1>1. ask[a].at = "exec" /\ InFlight(ask[a])
    BY DEF Inv, AskInv, QueryFails, At, Locals, Working, Waiting
<1>2. QED
    BY <1>1, RetryOK, EarlyStep DEF Restarted, Inv, QueryFails, Saving, Settled

\* After the refresh the ask makes another attempt with the schema it brought.
LEMMA RefreshedStep == ASSUME Inv, NEW a \in Asks, Refreshed(a) PROVE AskInv'
<1> DEFINE s == [ask[a] EXCEPT !.schema = kitSchema'[KitOf[a]]]
<1>1. ask[a].at = "refresh" /\ InFlight(ask[a]) /\ ask[a] \in AskState
    BY DEF Inv, AskInv, Refreshed, At, Locals, Working, Waiting
<1>2. kitSchema'[KitOf[a]] \in Schema
    BY Installed, AskAssumption DEF Refreshed
<1>3. s \in AskState
    BY <1>1, <1>2 DEF AskState
<1>4. /\ s.question = ask[a].question /\ s.schema \in Schema
      /\ s.declines = ask[a].declines /\ s.attempts = ask[a].attempts
    BY <1>1, <1>2 DEF AskState
<1>5. Becomes(a, NextAttempt(s))
    BY DEF Refreshed
<1> HIDE DEF s
<1>6. InFlight(s)
    BY <1>1, <1>3, <1>4 DEF InFlight
<1>7. QED
    BY <1>1, <1>5, <1>6, NextAttemptOK, EarlyStep
       DEF Restarted, Inv, Refreshed, Saving, Settled

\* The explanation is of the rows of this attempt.
LEMMA ExplainedStep == ASSUME Inv, NEW a \in Asks, Explained(a) PROVE AskInv'
<1> DEFINE r == Moved(ask[a], "audit")
<1>1. ask[a].at = "explain" /\ InFlight(ask[a]) /\ ask[a] \in AskState /\ Answers(ask[a])
    BY DEF Inv, AskInv, Explained, At, Locals, Working, Waiting
<1>2. Alike(ask[a], r) /\ r.at = "audit"
    BY <1>1, MovedOK DEF Step, Waiting
<1>3. PICK chart \in {<<>>, <<"chart">>} : Becomes(a, Emit(r, <<"insight">> \o chart))
    BY DEF Explained
<1> HIDE DEF r
<1>4. InFlight(r) /\ Answers(r)
    BY <1>1, <1>2, AlikeInFlight DEF Alike, Answers, OnQuery, Plain
<1>5. Locals(r)
    BY <1>2, <1>4 DEF Locals, InFlight, Finishing, Saving
<1>6. <<"insight">> \o chart \in Seq(Event)
  <2>1. <<"insight">> \in Seq(Event) /\ <<"chart">> \in Seq(Event) /\ <<>> \in Seq(Event)
    BY DEF Event
  <2>2. chart \in Seq(Event)
    BY <2>1
  <2>3. QED
    BY <2>1, <2>2
<1>7. QED
    BY <1>1, <1>3, <1>5, <1>6, EmitLocals, EarlyStep DEF Inv, Explained, Saving, Settled

\* The conclusion of an analysis is "ok" only over some rows.
LEMMA ConcludedStep == ASSUME Inv, NEW a \in Asks, Concluded(a) PROVE AskInv'
<1> DEFINE r == [ask[a] EXCEPT !.status = "ok", !.at = "audit"]
           e == [ask[a] EXCEPT !.status = "error", !.at = "audit"]
<1>1. ask[a].at = "final" /\ InFlight(ask[a]) /\ ask[a] \in AskState
      /\ ~Plain(ask[a]) /\ ask[a].data # {}
    BY DEF Inv, AskInv, Concluded, At, Locals, Working, Waiting
<1>2. "ok" \in Status /\ "audit" \in {"idle"} \cup Waiting \cup Settled
    BY DEF Status, Waiting
<1>3. r \in AskState
    BY <1>1, <1>2 DEF AskState
<1>4. /\ r.at = "audit" /\ r.question = ask[a].question /\ r.schema = ask[a].schema
      /\ r.declines = ask[a].declines /\ r.attempts = ask[a].attempts /\ r.data = ask[a].data
    BY <1>1 DEF AskState
<1>5. Becomes(a, Emit(r, <<"insight">>)) \/ Becomes(a, e)
    BY DEF Concluded
<1>6. Locals(e)
    BY <1>1, FinishOK DEF Restarted
<1> HIDE DEF r, e
<1>7. Locals(r)
    BY <1>1, <1>3, <1>4 DEF Locals, InFlight, Plain, Answers, Finishing, Saving
<1>8. <<"insight">> \in Seq(Event)
    BY DEF Event
<1>9. Locals(Emit(r, <<"insight">>))
    BY <1>7, <1>8, EmitLocals
<1>10. QED
    BY <1>1, <1>5, <1>6, <1>9, EarlyStep DEF Inv, Concluded, Saving, Settled

----------------------------------------------------------------------------
(* The tail: audit, cache, done. *)

\* An ask that moves on within the tail keeps its answer.
LEMMA TailMovedOK ==
    ASSUME NEW s, Locals(s), s.at \in Finishing, NEW step \in Saving,
           step = "store" => IsCacheable(s)
    PROVE  /\ Locals(Moved(s, step))
           /\ Moved(s, step).at = step
           /\ Alike(s, Moved(s, step))
<1> DEFINE r == Moved(s, step)
<1>1. s \in AskState /\ InFlight(s) /\ (s.status = "ok" => Answers(s))
    BY DEF Locals, Working, Waiting, Finishing, Saving
<1>2. Alike(s, r) /\ r.at = step
    BY <1>1, MovedOK DEF Step, Waiting, Saving
<1> HIDE DEF r
<1>3. InFlight(r) /\ (r.status = "ok" => Answers(r))
    BY <1>1, <1>2, AlikeInFlight DEF Alike, Answers, OnQuery, Plain
<1>4. Locals(r)
    BY <1>2, <1>3 DEF Locals, InFlight, Alike, Finishing, Saving, IsCacheable
<1>5. QED
    BY <1>2, <1>4 DEF r

\* The one audit row is written with the status and the query of the answer.
LEMMA RecordedStep == ASSUME Inv, NEW a \in Asks, Recorded(a) PROVE AskInv'
<1> DEFINE s == Moved(ask[a], "audited")
           row == [status |-> ask[a].status, sql |-> ask[a].sql.kind]
<1>1. ask[a].at = "audit" /\ Locals(ask[a]) /\ ask[a] \in AskState /\ AuditSound(a)
    BY DEF Inv, AskInv, Recorded, At
<1>2. Locals(s) /\ s.at = "audited" /\ Alike(ask[a], s)
    BY <1>1, TailMovedOK DEF Finishing, Saving
<1>3. audit[a] = <<>>
    BY <1>1 DEF AuditSound, Saving, Settled
<1>4. audit'[a] = <<row>> /\ \A b \in Asks \ {a} : audit'[b] = audit[b]
    BY <1>3 DEF Inv, AskInv, Recorded
<1>5. row \in Row
    BY <1>1 DEF Row, AskState
<1>6. Becomes(a, s) /\ cache' = cache
    BY DEF Recorded
<1> HIDE DEF s
<1>7. /\ ask' \in [Asks -> AskState] /\ ask'[a] = s
      /\ \A b \in Asks \ {a} : ask'[b] = ask[b]
    BY <1>2, <1>6 DEF Inv, AskInv, Becomes, Alike
<1>8. \A b \in Asks : Locals(ask[b])'
    BY <1>2, <1>7 DEF Inv, AskInv, Locals, InFlight, OnQuery, Answers, Plain, IsCacheable
<1>9. ASSUME NEW b \in Asks PROVE AuditSound(b)'
  <2>1. CASE b = a
    <3>1. audit'[a] = <<row>> /\ <<row>> \in Seq(Row)
        BY <1>4, <1>5
    <3>2. ask'[a].at = "audited" /\ ask'[a].status = ask[a].status /\ ask'[a].sql = ask[a].sql
        BY <1>2, <1>7 DEF Alike
    <3>3. QED
        BY <2>1, <3>1, <3>2 DEF AuditSound, Saving
  <2>2. CASE b # a
    BY <1>4, <1>7, <2>2 DEF AuditSound, Inv, AskInv
  <2>3. QED
    BY <2>1, <2>2
<1>10. CacheSound'
    BY <1>6 DEF Inv, AskInv, CacheSound, CachedAnswersSound, NoVolatileCached
<1>11. DOMAIN audit' = Asks /\ audit' = [b \in Asks |-> audit'[b]]
    BY DEF Inv, AskInv, Recorded
<1>12. QED
    BY <1>7, <1>8, <1>9, <1>10, <1>11 DEF AskInv

\* A failed audit write leaves no row, the ask goes on.
LEMMA AuditFailsStep == ASSUME Inv, NEW a \in Asks, AuditFails(a) PROVE AskInv'
<1> DEFINE s == Moved(ask[a], "audited")
<1>1. ask[a].at = "audit" /\ Locals(ask[a])
    BY DEF Inv, AskInv, AuditFails, At
<1>2. Locals(s)
    BY <1>1, TailMovedOK DEF Finishing, Saving
<1>3. QED
    BY <1>1, <1>2, EarlyStep DEF Inv, AuditFails, Saving, Settled

\* "done" ends the ask with the answer it has.
LEMMA DoneOK ==
    ASSUME NEW s, Locals(s)
    PROVE  /\ Locals(Done(s)) /\ Done(s).at \in Settled
           /\ Done(s).status = s.status /\ Done(s).sql = s.sql
<1> DEFINE r == Moved(s, "answered")
<1>1. s \in AskState
    BY DEF Locals
<1>2. Alike(s, r) /\ r.at = "answered"
    BY <1>1, MovedOK DEF Step, Settled
<1>3. Done(s) = Emit(r, <<"done">>)
    BY DEF Done
<1> HIDE DEF r
<1>4. Locals(r) /\ r \in AskState
    BY <1>2, SettledOK DEF Alike, Settled
<1>5. <<"done">> \in Seq(Event)
    BY DEF Event
<1>6. Locals(Emit(r, <<"done">>)) /\ Emit(r, <<"done">>).at = "answered"
    BY <1>2, <1>4, <1>5, EmitLocals
<1>7. Alike(r, Emit(r, <<"done">>))
    BY <1>4, <1>5, EmitOK
<1>8. QED
    BY <1>2, <1>3, <1>6, <1>7 DEF Alike, Settled

\* After the audit comes the cache, for answers that may be cached, or the end.
LEMMA AuditedStep == ASSUME Inv, NEW a \in Asks, Audited(a) PROVE AskInv'
<1>1. ask[a].at = "audited" /\ Locals(ask[a])
    BY DEF Inv, AskInv, Audited, At
<1>2. CASE IsCacheable(ask[a])
  <2> DEFINE s == Moved(ask[a], "store")
  <2>1. Locals(s) /\ s.at = "store" /\ Alike(ask[a], s)
    BY <1>1, <1>2, TailMovedOK DEF Finishing, Saving
  <2>2. Becomes(a, s)
    BY <1>2 DEF Audited
  <2> HIDE DEF s
  <2>3. QED
    BY <2>1, <2>2, OneAskStep DEF Inv, Audited, Alike, Saving
<1>3. CASE ~IsCacheable(ask[a])
    BY <1>1, <1>3, DoneOK, OneAskStep DEF Inv, Audited
<1>4. QED
    BY <1>2, <1>3

\* After the cache comes the end.
LEMMA FinishedStep == ASSUME Inv, NEW a \in Asks, Finished(a) PROVE AskInv'
<1>1. Locals(ask[a])
    BY DEF Inv, AskInv
<1>2. QED
    BY <1>1, DoneOK, OneAskStep DEF Inv, Finished

\* Only a final answer is stored, and an "ok" one with its rows.
LEMMA StoredStep == ASSUME Inv, NEW a \in Asks, Stored(a) PROVE AskInv'
<1> DEFINE s == Moved(ask[a], "stored")
           entry == [status |-> ask[a].status, data |-> AnswerData(ask[a]),
                     schema |-> ask[a].schema]
<1>1. ask[a].at = "store" /\ Locals(ask[a]) /\ ask[a] \in AskState /\ InFlight(ask[a])
      /\ IsCacheable(ask[a]) /\ (ask[a].status = "ok" => Answers(ask[a]))
    BY DEF Inv, AskInv, Stored, At, Locals, Working, Waiting, Finishing, Saving
<1>2. Locals(s) /\ s.at = "stored" /\ Alike(ask[a], s)
    BY <1>1, TailMovedOK DEF Finishing, Saving
<1>3. KeyOf(a) \in Key
    BY <1>1 DEF KeyOf, Key, InFlight, AskState
<1>4. ask[a].schema \in Schema
    BY <1>1 DEF InFlight
<1>5. AnswerData(ask[a]) \in SUBSET DataKind
    BY <1>1 DEF AnswerData, AskState
<1>6. entry \in Entry
    BY <1>1, <1>4, <1>5 DEF Entry, AskState
<1>7. /\ entry.status # "error"
      /\ IF entry.status = "ok" THEN entry.data # {} ELSE entry.data = {}
      /\ KeyOf(a).question \notin Analysis => "volatile" \notin entry.data
    BY <1>1 DEF AnswerData, Answers, IsCacheable, KeyOf, Plain
<1>8. Becomes(a, s) /\ audit' = audit /\ cache' = [cache EXCEPT ![KeyOf(a)] = entry]
    BY DEF Stored
<1> HIDE DEF s, entry
<1>9. CacheSound'
    BY <1>3, <1>6, <1>7, <1>8 DEF Inv, AskInv, CacheSound, CachedAnswersSound, NoVolatileCached
<1>10. /\ ask' \in [Asks -> AskState] /\ ask'[a] = s
       /\ \A b \in Asks \ {a} : ask'[b] = ask[b]
    BY <1>2, <1>8 DEF Inv, AskInv, Becomes, Alike
<1>11. \A b \in Asks : Locals(ask[b])'
    BY <1>2, <1>10 DEF Inv, AskInv, Locals, InFlight, OnQuery, Answers, Plain, IsCacheable
<1>12. ASSUME NEW b \in Asks PROVE AuditSound(b)'
  <2>1. AuditSound(b) /\ audit'[b] = audit[b]
    BY <1>8 DEF Inv, AskInv
  <2>2. CASE b = a
    BY <1>2, <1>10, <2>1, <2>2 DEF AuditSound, Alike, Saving
  <2>3. CASE b # a
    BY <1>10, <2>1, <2>3 DEF AuditSound
  <2>4. QED
    BY <2>2, <2>3
<1>13. QED
    BY <1>8, <1>9, <1>10, <1>11, <1>12 DEF Inv, AskInv

----------------------------------------------------------------------------
(* Exceptions, cancellation, restarts, expiry. *)

\* An ask that is stopped keeps its answer, whatever it was at.
LEMMA StopOK ==
    ASSUME NEW s, Locals(s), NEW step \in Settled
    PROVE  /\ Locals(Moved(s, step)) /\ Moved(s, step).at = step
           /\ Alike(s, Moved(s, step))
<1>1. Alike(s, Moved(s, step)) /\ Moved(s, step).at = step
    BY MovedOK DEF Locals, Step
<1>2. QED
    BY <1>1, SettledOK DEF Alike

\* A stopped ask changes nothing but where it is.
LEMMA StopStep ==
    ASSUME Inv, NEW a \in Asks, NEW step \in Settled, Becomes(a, Moved(ask[a], step)),
           UNCHANGED <<cache, audit>>
    PROVE  AskInv'
<1>1. Locals(ask[a])
    BY DEF Inv, AskInv
<1>2. QED
    BY <1>1, StopOK, OneAskStep DEF Inv, Alike

\* Exceptions and cancellation stop an ask.
LEMMA StopSteps ==
    ASSUME Inv, NEW a \in Asks, Raises(a) \/ SchemaCallRaises(a) \/ Cancelled(a)
    PROVE  AskInv'
<1>1. CASE Raises(a)
    BY <1>1, StopStep DEF Raises, Settled
<1>2. CASE SchemaCallRaises(a)
    BY <1>2, StopStep DEF SchemaCallRaises, Settled
<1>3. CASE Cancelled(a)
    BY <1>3, StopStep DEF Cancelled, Settled
<1>4. QED
    BY <1>1, <1>2, <1>3

\* A restart stops every ask of the kit at once.
LEMMA ProcessRestartsStep ==
    ASSUME Inv, NEW k \in Kits, ProcessRestarts(k) PROVE AskInv'
<1>1. /\ ask' = [a \in Asks |-> IF KitOf[a] = k /\ ask[a].at \in Waiting
                                   THEN Moved(ask[a], "lost") ELSE ask[a]]
      /\ UNCHANGED <<cache, audit>>
    BY DEF ProcessRestarts
<1>2. ASSUME NEW a \in Asks
      PROVE  /\ Locals(ask'[a]) /\ ask'[a] \in AskState
             /\ \/ ask'[a] = ask[a]
                \/ ask'[a].at \in Settled /\ Alike(ask[a], ask'[a])
  <2>1. Locals(ask[a])
    BY DEF Inv, AskInv
  <2>2. /\ Locals(Moved(ask[a], "lost")) /\ Moved(ask[a], "lost").at \in Settled
        /\ Alike(ask[a], Moved(ask[a], "lost"))
    BY <2>1, StopOK DEF Settled
  <2>3. ask'[a] = ask[a] \/ ask'[a] = Moved(ask[a], "lost")
    BY <1>1
  <2>4. QED
    BY <2>1, <2>2, <2>3 DEF Locals
<1>3. ask' \in [Asks -> AskState]
    BY <1>1, <1>2
<1>4. \A a \in Asks : Locals(ask[a])'
    BY <1>2 DEF Locals, InFlight, OnQuery, Answers, Plain, IsCacheable
<1>5. ASSUME NEW a \in Asks PROVE AuditSound(a)'
  <2>1. AuditSound(a) /\ audit'[a] = audit[a]
    BY <1>1 DEF Inv, AskInv
  <2>2. QED
    BY <1>2, <2>1 DEF AuditSound, Alike
<1>6. CacheSound'
    BY <1>1 DEF Inv, AskInv, CacheSound, CachedAnswersSound, NoVolatileCached
<1>7. QED
    BY <1>1, <1>3, <1>4, <1>5, <1>6 DEF Inv, AskInv

\* Expiry only removes an entry.
LEMMA ExpiresStep == ASSUME Inv, NEW key \in Key, Expires(key) PROVE AskInv'
<1>1. cache' = [cache EXCEPT ![key] = None] /\ ask' = ask /\ audit' = audit
    BY DEF Expires
<1>2. CacheSound'
    BY <1>1 DEF Inv, AskInv, CacheSound, CachedAnswersSound, NoVolatileCached
<1>3. QED
    BY <1>1, <1>2 DEF Inv, AskInv, Locals, InFlight, OnQuery, Answers, Plain,
                     IsCacheable, AuditSound

\* The schema moves on without the asks.
LEMMA AskStutter == ASSUME Inv, UNCHANGED askVars PROVE AskInv'
BY DEF Inv, AskInv, askVars, Locals, InFlight, OnQuery, Answers, Plain, IsCacheable,
       AuditSound, CacheSound, CachedAnswersSound, NoVolatileCached

----------------------------------------------------------------------------
(* The theorems. *)

\* What AskPipeline does to the schema is a step of KitSchema.
LEMMA StepsOfTheKit == [Next]_vars => [KitNext]_schemaVars
<1> USE AskAssumption DEF KitNext
<1>1. ASSUME NEW a \in Asks, AskStarts(a) PROVE [KitNext]_schemaVars
    BY <1>1 DEF AskStarts, StartsWithSchema, StartsWithout, CallBegins
<1>2. ASSUME NEW a \in Asks, AskAdvances(a) PROVE [KitNext]_schemaVars
    BY <1>2 DEF AskAdvances, GotSchema, Hit, Miss, Planned, Rows, Frame, TableMissing,
         QueryFails, Refreshed, Explained, Concluded, Recorded, AuditFails, Audited, Stored,
         Finished, Raises, SchemaCallRaises, CallBegins, CallEnds
<1>3. ASSUME NEW a \in Asks, Cancel(a) PROVE [KitNext]_schemaVars
    BY <1>3 DEF Cancel, Cancelled, QueryFails, CallEnds
<1>4. ASSUME NEW t \in Tasks \ Asks, SchemaTask(t) PROVE [KitNext]_schemaVars
    BY <1>4 DEF SchemaTask
<1>5. ASSUME NEW k \in Kits, ProcessRestarts(k) PROVE [KitNext]_schemaVars
    BY <1>5 DEF ProcessRestarts
<1>6. ASSUME NEW key \in Key, Expires(key) PROVE [KitNext]_schemaVars
    BY <1>6 DEF Expires
<1>7. QED
    BY <1>1, <1>2, <1>3, <1>4, <1>5, <1>6 DEF Next, vars

\* The pipeline starts with a sound schema store.
LEMMA InvInit == Init => Inv
BY KitInvInit, AskInvInit DEF Init, Inv

\* Every step keeps both invariants.
LEMMA InvStep == Inv /\ [Next]_vars => Inv'
<1> SUFFICES ASSUME Inv, [Next]_vars PROVE AskInv'
    BY StepsOfTheKit, KitInvStep DEF Inv
<1>1. ASSUME NEW a \in Asks, AskStarts(a) PROVE AskInv'
    BY <1>1, StartsWithSchemaStep, StartsWithoutStep DEF AskStarts
<1>2. ASSUME NEW a \in Asks, AskAdvances(a) PROVE AskInv'
    BY <1>2, GotSchemaStep, HitStep, MissStep, PlannedStep, RowsStep, FrameStep,
       TableMissingStep, QueryFailsStep, RefreshedStep, ExplainedStep, ConcludedStep,
       RecordedStep, AuditFailsStep, AuditedStep, StoredStep, FinishedStep, StopSteps,
       AskStutter DEF AskAdvances
<1>3. ASSUME NEW a \in Asks, Cancel(a) PROVE AskInv'
    BY <1>3, StopSteps, QueryFailsStep DEF Cancel
<1>4. ASSUME NEW t \in Tasks, SchemaTask(t) PROVE AskInv'
    BY <1>4, AskStutter DEF SchemaTask
<1>5. CASE UNCHANGED vars
    BY <1>5, AskStutter DEF vars
<1>6. QED
    BY <1>1, <1>2, <1>3, <1>4, <1>5, ProcessRestartsStep, ExpiresStep DEF Next

\* The inductive invariant of the pipeline and of the schema store under it.
THEOREM AskInvariance == Spec => []Inv
    BY InvInit, InvStep, PTL DEF Spec

\* The locals of an ask, the rows of the cache and those of the audit log keep their
\* types; no ask makes more than MAX_ATTEMPTS attempts.
THEOREM AskTypeCorrect == Spec => []AskTypeOK
<1>1. Inv => AskTypeOK
    BY DEF Inv, AskInv, AskTypeOK, AuditSound, CacheSound, Row
<1>2. QED
    BY <1>1, AskInvariance, PTL

\* An ask leaves at most one audit row, and the row tells the answer (_finalize).
THEOREM AuditedAtMostOnce == Spec => []AuditedOnce
<1>1. ASSUME Inv, NEW a \in Asks, audit[a] # <<>>
      PROVE  /\ Len(audit[a]) = 1
             /\ ask[a].at \in Saving \cup Settled
             /\ audit[a][1] = [status |-> ask[a].status, sql |-> ask[a].sql.kind]
  <2> DEFINE row == [status |-> ask[a].status, sql |-> ask[a].sql.kind]
  <2>1. audit[a] = <<row>> /\ ask[a].at \in Saving \cup Settled
    BY <1>1 DEF Inv, AskInv, AuditSound
  <2> HIDE DEF row
  <2>2. Len(<<row>>) = 1 /\ <<row>>[1] = row
    OBVIOUS
  <2>3. QED
    BY <2>1, <2>2 DEF row
<1>2. Inv => AuditedOnce
    BY <1>1 DEF AuditedOnce, Saving
<1>3. QED
    BY <1>2, AskInvariance, PTL

\* However its attempts failed before, an ask that ends "ok" has rows, and those of a
\* plain question are of the query it reports (ask, the attempt loop).
THEOREM AnswersRestOnTheirQuery == Spec => []OkAnswersRestOnTheirQuery
<1>1. Inv => OkAnswersRestOnTheirQuery
    BY DEF Inv, AskInv, OkAnswersRestOnTheirQuery, Locals, Answers, OnQuery, Plain,
           IsAnalysis, Finishing, Saving
<1>2. QED
    BY <1>1, AskInvariance, PTL

\* No failed answer and no "ok" without rows is ever in the cache (_finalize).
THEOREM CacheHoldsSoundAnswers == Spec => []CachedAnswersSound
<1>1. Inv => CachedAnswersSound
    BY DEF Inv, AskInv, CacheSound
<1>2. QED
    BY <1>1, AskInvariance, PTL

\* No answer to a plain question that rests on a volatile query is in the cache,
\* however many queries the ask tried before it (cache.py, is_cacheable).
THEOREM CacheHoldsNothingVolatile == Spec => []NoVolatileCached
<1>1. Inv => NoVolatileCached
    BY DEF Inv, AskInv, CacheSound
<1>2. QED
    BY <1>1, AskInvariance, PTL

----------------------------------------------------------------------------
(* Giving up.  A plain ask that has failed has made all its attempts, one  *)
(* that found no data was refused twice or read a substantive answer, and  *)
(* one that has not ended has been refused at most once.                   *)

Trying(s) == s.status = "ok" /\ s.declines < 2

Ending == Finishing \cup Settled

Persistent(s) ==
    \/ Trying(s)
    \/ /\ s.at \in Ending
       /\ s.status # "ok"
       /\ Plain(s) /\ ~s.cached =>
             /\ s.status = "error" => s.attempts = MaxAttempts /\ s.declines < 2
             /\ s.status = "no_data" => s.long \/ s.declines = 2

AllPersistent == \A a \in Asks : Persistent(ask[a])

\* Announcing events does not matter.
LEMMA EmitPersists ==
    ASSUME NEW s \in AskState, NEW events \in Seq(Event)
    PROVE  /\ Persistent(s) => Persistent(Emit(s, events))
           /\ Trying(s) => Trying(Emit(s, events))
BY EmitOK DEF Alike, Persistent, Trying, Plain

\* Nor does moving on, towards the end if the ask has given up.
LEMMA MovedPersists ==
    ASSUME NEW s \in AskState, Persistent(s), NEW step \in Step,
           Trying(s) \/ step \in Ending
    PROVE  Persistent(Moved(s, step))
BY MovedOK DEF Alike, Persistent, Trying, Plain

\* The next attempt, or an error after the last one.
LEMMA NextAttemptPersists ==
    ASSUME NEW s \in AskState, Trying(s) PROVE Persistent(NextAttempt(s))
<1>1. CASE s.attempts < MaxAttempts
  <2>1. NextAttempt(s).status = s.status /\ NextAttempt(s).declines = s.declines
    BY <1>1 DEF NextAttempt, AskState
  <2>2. QED
    BY <2>1 DEF Persistent, Trying
<1>2. CASE ~(s.attempts < MaxAttempts)
  <2>1. s.attempts = MaxAttempts
    BY <1>2, AskAssumption DEF AskState
  <2>2. /\ NextAttempt(s).status = "error" /\ NextAttempt(s).at = "audit"
        /\ NextAttempt(s).attempts = s.attempts /\ NextAttempt(s).declines = s.declines
    BY <1>2 DEF NextAttempt, AskState
  <2>3. QED
    BY <2>1, <2>2 DEF Persistent, Trying, Ending, Finishing
<1>3. QED
    BY <1>1, <1>2

LEMMA RetryPersists ==
    ASSUME NEW s \in AskState, Trying(s) PROVE Persistent(Retry(s))
<1>1. <<"retry">> \in Seq(Event)
    BY DEF Event
<1>2. Emit(s, <<"retry">>) \in AskState /\ Trying(Emit(s, <<"retry">>))
    BY <1>1, EmitOK, EmitPersists DEF Alike
<1>3. QED
    BY <1>2, NextAttemptPersists DEF Retry

\* An answer in prose comes after a second refusal or is substantive.
LEMMA ProsePersists ==
    ASSUME NEW s \in AskState, s.long \/ s.declines = 2 PROVE Persistent(Prose(s))
<1>1. /\ Prose(s).status = "no_data" /\ Prose(s).at = "audit"
      /\ Prose(s).long = s.long /\ Prose(s).declines = s.declines
    BY DEF Prose, Emit, AskState
<1>2. QED
    BY <1>1 DEF Persistent, Ending, Finishing

\* The second refusal ends the ask, in prose.
LEMMA RefusedPersists ==
    ASSUME NEW s, InFlight(s), s.declines < s.attempts, Trying(s)
    PROVE  Persistent(Refused(s))
<1> DEFINE declined == [s EXCEPT !.declines = s.declines + 1]
<1>1. s \in AskState /\ s.declines + 1 \in 0..MaxAttempts
    BY AskAssumption DEF InFlight, AskState
<1>2. /\ declined \in AskState
      /\ declined.status = s.status /\ declined.declines = s.declines + 1
      /\ declined = [s EXCEPT !.declines = @ + 1]
    BY <1>1 DEF AskState
<1> DEFINE e == Emit(declined, <<"retry">>)
<1>3. Refused(s) = IF declined.declines >= 2 THEN Prose(e) ELSE Retry(declined)
    BY <1>2 DEF Refused
<1> HIDE DEF declined
<1>4. <<"retry">> \in Seq(Event)
    BY DEF Event
<1>5. e \in AskState /\ e.declines = declined.declines
    BY <1>2, <1>4, EmitOK DEF Alike
<1>6. IF declined.declines >= 2 THEN declined.declines = 2 ELSE Trying(declined)
    BY <1>1, <1>2 DEF Trying, AskState
<1> HIDE DEF e
<1>7. CASE declined.declines >= 2
  <2>1. Persistent(Prose(e))
    BY <1>5, <1>6, <1>7, ProsePersists
  <2>2. QED
    BY <1>3, <1>7, <2>1
<1>8. CASE ~(declined.declines >= 2)
  <2>1. Persistent(Retry(declined))
    BY <1>2, <1>6, <1>8, RetryPersists
  <2>2. QED
    BY <1>3, <1>8, <2>1
<1>9. QED
    BY <1>7, <1>8

\* The next query of an analysis, or its conclusion.
LEMMA NextQueryPersists ==
    ASSUME NEW s \in AskState, Trying(s) PROVE Persistent(NextQuery(s))
<1> DEFINE r == [s EXCEPT !.sql = NoSql, !.at = "final"]
<1>1. r.status = s.status /\ r.declines = s.declines
    BY DEF AskState
<1>2. Trying(r)
    BY <1>1 DEF Trying
<1>3. Persistent(r)
    BY <1>2 DEF Persistent
<1>4. Persistent(s) /\ Persistent(Moved(s, "exec"))
    BY MovedPersists DEF Persistent, Step, Waiting
<1>5. QED
    BY <1>3, <1>4, RetryPersists DEF NextQuery

\* Whatever the LLM plans.
LEMMA PlanPersists ==
    ASSUME NEW s, InFlight(s), s.declines < s.attempts, Trying(s), NEW r \in Reply
    PROVE  Persistent(PlainPlan(s, r)) /\ Persistent(AnalysisPlan(s, r))
<1>1. s \in AskState
    BY DEF InFlight
<1> DEFINE read == Reasoned(s, r)
<1>6. /\ read \in AskState /\ InFlight(read) /\ Trying(read)
      /\ read.declines < read.attempts /\ read.long = r.long
    BY <1>1, ReasonedOK, AlikeInFlight DEF Alike, Trying
<1> HIDE DEF read
<1>2. Persistent(Query(read, r.sql))
  <2>1. Query(read, r.sql).status = read.status /\ Query(read, r.sql).declines = read.declines
    BY <1>6 DEF Query, Emit, AskState
  <2>2. QED
    BY <1>6, <2>1 DEF Persistent, Trying
<1>3. Persistent(PlainPlan(s, r))
  <2>1. ParseFails(r) \/ (~ParseFails(r) /\ Declines(r)) \/ (~Declines(r) /\ r.object)
    BY DEF ParseFails, Declines
  <2>2. \/ PlainPlan(s, r) = Retry(s) \/ PlainPlan(s, r) = Retry(read)
        \/ r.long /\ PlainPlan(s, r) = Prose(read)
        \/ PlainPlan(s, r) = Refused(read) \/ PlainPlan(s, r) = Query(read, r.sql)
    BY <2>1 DEF PlainPlan, read
  <2>3. QED
    BY <1>1, <1>2, <1>6, <2>2, RetryPersists, ProsePersists, RefusedPersists
<1>4. Persistent(AnalysisPlan(s, r))
  <2> DEFINE p == [s EXCEPT !.queries = r.queries, !.data = {}]
  <2>1. r.queries \in Seq(QueryKind)
    BY DEF Reply
  <2>2. p \in AskState /\ p.status = s.status /\ p.declines = s.declines
    BY <1>1, <2>1 DEF AskState
  <2>3. ParseFails(r) \/ (~ParseFails(r) /\ r.queries = <<>>) \/ (r.object /\ r.queries # <<>>)
    BY DEF ParseFails
  <2>4. \/ AnalysisPlan(s, r) = Retry(s)
        \/ r.long /\ AnalysisPlan(s, r) = Prose(read)
        \/ AnalysisPlan(s, r) = NextQuery(p)
    BY <2>3 DEF AnalysisPlan, read
  <2> HIDE DEF p
  <2>5. Trying(p)
    BY <2>2 DEF Trying
  <2>6. QED
    BY <1>1, <1>6, <2>2, <2>4, <2>5, RetryPersists, ProsePersists, NextQueryPersists
<1>5. QED
    BY <1>3, <1>4

\* What remains to be shown of a step of one ask.
LEMMA OnePersists ==
    ASSUME Inv, AllPersistent, NEW a \in Asks, NEW s, Becomes(a, s), Persistent(s)
    PROVE  AllPersistent'
BY DEF Inv, AskInv, AllPersistent, Becomes, Persistent, Trying, Plain

\* From the call to the first prompt.
LEMMA BeginningPersists ==
    ASSUME Inv, AllPersistent, NEW a \in Asks,
           StartsWithSchema(a) \/ StartsWithout(a) \/ GotSchema(a)
    PROVE  AllPersistent'
<1>1. ask[a] \in AskState /\ ask[a].at \in {"idle", "schema"} /\ Persistent(ask[a])
    BY DEF Inv, AskInv, StartsWithSchema, StartsWithout, GotSchema, At, AllPersistent
<1>2. Trying(ask[a])
    BY <1>1 DEF Persistent, Ending, Finishing, Saving, Settled
<1>3. ASSUME NEW q
      PROVE  /\ Trying([ask[a] EXCEPT !.question = q])
             /\ Trying([ask[a] EXCEPT !.at = "schema", !.question = q])
             /\ Trying(Looking([ask[a] EXCEPT !.question = q], KitOf[a]))
             /\ Trying(Looking(ask[a], KitOf[a]))
    BY <1>1, <1>2 DEF Trying, Looking, AskState
<1>4. \E s : Becomes(a, s) /\ Trying(s)
  <2>1. CASE StartsWithSchema(a)
    BY <1>3, <2>1 DEF StartsWithSchema
  <2>2. CASE StartsWithout(a)
    BY <1>3, <2>2 DEF StartsWithout
  <2>3. CASE GotSchema(a)
    BY <1>3, <2>3 DEF GotSchema
  <2>4. QED
    BY <2>1, <2>2, <2>3
<1>5. QED
    BY <1>4, OnePersists DEF Persistent

\* A hit gives up nothing: it answers as the ask did that is in the cache.
LEMMA HitPersists == ASSUME Inv, AllPersistent, NEW a \in Asks, Hit(a) PROVE AllPersistent'
<1> DEFINE entry == cache[KeyOf(a)]
           r == [ask[a] EXCEPT !.at = "answered", !.cached = TRUE,
                               !.status = entry.status, !.data = entry.data]
           s == Emit(r, <<"cached">>)
<1>1. ask[a] \in AskState /\ ask[a].question \in Questions /\ ask[a].at = "lookup"
    BY DEF Inv, AskInv, Hit, At, Locals, InFlight, Working, Waiting
<1>2. KeyOf(a) \in Key /\ entry # None
    BY <1>1 DEF KeyOf, Key, AskState, Hit
<1>3. entry.status # "error"
    BY <1>2 DEF Inv, AskInv, CacheSound, CachedAnswersSound
<1>4. Trying(ask[a])
    BY <1>1 DEF AllPersistent, Persistent, Ending, Finishing, Saving, Settled
<1>5. /\ s.at = "answered" /\ s.status = entry.status /\ s.declines = ask[a].declines
      /\ s.cached
    BY <1>1 DEF Emit, AskState
<1>6. Becomes(a, s)
    BY DEF Hit
<1> HIDE DEF entry, s
<1>7. Persistent(s)
    BY <1>3, <1>4, <1>5 DEF Persistent, Trying, Ending, Settled
<1>8. QED
    BY <1>6, <1>7, OnePersists

\* An ask that works goes on trying, or gives up for a reason.
LEMMA WorkPersists ==
    ASSUME Inv, Inv', AllPersistent, NEW a \in Asks,
           \/ Miss(a) \/ Planned(a) \/ Rows(a) \/ Frame(a) \/ TableMissing(a)
           \/ QueryFails(a) \/ Refreshed(a) \/ Explained(a) \/ Concluded(a)
    PROVE  AllPersistent'
<1>1. /\ ask[a].at \in {"lookup", "llm", "exec", "refresh", "explain", "final"}
      /\ ask[a] \in AskState /\ Locals(ask[a]) /\ Persistent(ask[a])
    BY DEF Inv, AskInv, AllPersistent, At, Miss, Planned, Rows, Frame, TableMissing,
           QueryFails, Refreshed, Explained, Concluded
<1>2. Trying(ask[a]) /\ InFlight(ask[a])
    BY <1>1 DEF Persistent, Ending, Finishing, Saving, Settled, Locals, Working, Waiting
<1>3. SUFFICES \E s : Becomes(a, s) /\ Persistent(s)
    BY OnePersists
<1>4. ASSUME NEW s, NEW events, NEW step,
             s.status = ask[a].status, s.declines = ask[a].declines, s \in AskState
      PROVE  /\ Persistent(Moved(s, step)) /\ Persistent(Emit(Moved(s, step), events))
             /\ Trying(s)
    BY <1>2, <1>4 DEF Moved, Emit, AskState, Persistent, Trying
<1>5. CASE Miss(a)
    BY <1>1, <1>4, <1>5 DEF Miss
<1>6. CASE Planned(a)
  <2>1. PICK r \in Replies :
           Becomes(a, IF IsAnalysis(a) THEN AnalysisPlan(ask[a], r) ELSE PlainPlan(ask[a], r))
    BY <1>6 DEF Planned
  <2>2. ask[a].declines < ask[a].attempts /\ r \in Reply
    BY <1>1, <1>6, AskAssumption DEF Planned, At, Locals
  <2>3. QED
    BY <1>2, <2>1, <2>2, PlanPersists
<1>7. CASE Rows(a)
  <2> DEFINE r == [ask[a] EXCEPT !.data = {Running(a)}]
             s == Emit(r, <<"result">>)
  <2>1. s.status = ask[a].status /\ s.declines = ask[a].declines
    BY <1>1 DEF Emit, AskState
  <2>2. \/ Becomes(a, Moved(s, "explain"))
        \/ Becomes(a, Emit(Moved(s, "audit"), <<"insight">>))
    BY <1>7 DEF Rows
  <2>3. /\ Moved(s, "explain").status = s.status /\ Moved(s, "explain").declines = s.declines
        /\ Emit(Moved(s, "audit"), <<"insight">>).status = s.status
        /\ Emit(Moved(s, "audit"), <<"insight">>).declines = s.declines
    BY <1>1 DEF Emit, Moved, AskState
  <2> HIDE DEF s
  <2>4. /\ Persistent(Moved(s, "explain"))
        /\ Persistent(Emit(Moved(s, "audit"), <<"insight">>))
    BY <1>2, <2>1, <2>3 DEF Persistent, Trying
  <2>5. QED
    BY <2>2, <2>4
<1>8. CASE Frame(a)
  <2> DEFINE s == [ask[a] EXCEPT !.data = ask[a].data \cup {Running(a)},
                                 !.queries = Tail(ask[a].queries)]
  <2>1. Becomes(a, NextQuery(s))
    BY <1>1, <1>8 DEF Frame
  <2>2. /\ ask[a].queries # <<>> /\ Running(a) \in DataKind
    BY <1>1, <1>8 DEF Frame, At, Locals, Plain, IsAnalysis, Running
  <2>3. Tail(ask[a].queries) \in Seq(QueryKind)
    BY <1>1, <2>2 DEF AskState
  <2>4. s \in AskState /\ s.status = ask[a].status /\ s.declines = ask[a].declines
    BY <1>1, <2>2, <2>3 DEF AskState
  <2> HIDE DEF s
  <2>5. Persistent(NextQuery(s))
    BY <1>4, <2>4, NextQueryPersists
  <2>6. QED
    BY <2>1, <2>5
<1>9. CASE TableMissing(a)
    BY <1>1, <1>4, <1>9 DEF TableMissing
<1>10. CASE QueryFails(a)
    BY <1>1, <1>2, <1>10, RetryPersists DEF QueryFails
<1>11. CASE Refreshed(a)
  <2> DEFINE s == [ask[a] EXCEPT !.schema = kitSchema'[KitOf[a]]]
  <2>1. kitSchema'[KitOf[a]] \in Schema
    BY <1>11, Installed, AskAssumption DEF Refreshed
  <2>2. s \in AskState /\ s.status = ask[a].status /\ s.declines = ask[a].declines
    BY <1>1, <2>1 DEF AskState
  <2>3. Becomes(a, NextAttempt(s))
    BY <1>11 DEF Refreshed
  <2> HIDE DEF s
  <2>4. Persistent(NextAttempt(s))
    BY <1>4, <2>2, NextAttemptPersists
  <2>5. QED
    BY <2>3, <2>4
<1>12. CASE Explained(a)
    BY <1>1, <1>4, <1>12 DEF Explained
<1>13. CASE Concluded(a)
  <2> DEFINE r == [ask[a] EXCEPT !.status = "ok", !.at = "audit"]
             e == [ask[a] EXCEPT !.status = "error", !.at = "audit"]
  <2>1. Becomes(a, Emit(r, <<"insight">>)) \/ Becomes(a, e)
    BY <1>13 DEF Concluded
  <2>2. /\ Emit(r, <<"insight">>).status = "ok"
        /\ Emit(r, <<"insight">>).declines = ask[a].declines
        /\ e.status = "error" /\ e.at = "audit" /\ e.question = ask[a].question
    BY <1>1 DEF Emit, AskState
  <2>3. ~Plain(ask[a])
    BY <1>1, <1>13 DEF Concluded, At, Locals
  <2> HIDE DEF r, e
  <2>4. Persistent(Emit(r, <<"insight">>)) /\ Persistent(e)
    BY <1>2, <2>2, <2>3 DEF Persistent, Trying, Plain, Ending, Finishing
  <2>5. QED
    BY <2>1, <2>4
<1>14. QED
    BY <1>5, <1>6, <1>7, <1>8, <1>9, <1>10, <1>11, <1>12, <1>13

\* The tail keeps the answer, and so does an ask that is stopped.
LEMMA EndPersists ==
    ASSUME Inv, AllPersistent, NEW a \in Asks,
           \/ Recorded(a) \/ AuditFails(a) \/ Audited(a) \/ Stored(a) \/ Finished(a)
           \/ Raises(a) \/ SchemaCallRaises(a) \/ Cancelled(a)
    PROVE  AllPersistent'
<1>1. ask[a] \in AskState /\ Persistent(ask[a])
    BY DEF Inv, AskInv, AllPersistent
<1>2. <<"done">> \in Seq(Event)
    BY DEF Event
<1>3. ASSUME NEW step \in Ending
      PROVE  Persistent(Moved(ask[a], step)) /\ Moved(ask[a], step) \in AskState
    BY <1>1, MovedOK, MovedPersists
       DEF Step, Ending, Finishing, Saving, Waiting, Alike
<1>4. Persistent(Done(ask[a]))
    BY <1>2, <1>3, EmitPersists DEF Done, Ending, Settled
<1>5. \/ Becomes(a, Done(ask[a]))
      \/ \E step \in Ending : Becomes(a, Moved(ask[a], step))
    BY DEF Recorded, AuditFails, Audited, Stored, Finished, Raises, SchemaCallRaises,
           Cancelled, Ending, Finishing, Saving, Settled
<1>6. QED
    BY <1>3, <1>4, <1>5, OnePersists

\* A restart stops the asks of a kit, wherever they were.
LEMMA RestartPersists ==
    ASSUME Inv, AllPersistent, NEW k \in Kits, ProcessRestarts(k) PROVE AllPersistent'
<1>1. ASSUME NEW a \in Asks PROVE Persistent(ask'[a])
  <2>1. ask[a] \in AskState /\ Persistent(ask[a])
    BY DEF Inv, AskInv, AllPersistent
  <2>2. Persistent(Moved(ask[a], "lost"))
    BY <2>1, MovedPersists DEF Step, Ending, Settled
  <2>3. ask'[a] = ask[a] \/ ask'[a] = Moved(ask[a], "lost")
    BY DEF ProcessRestarts
  <2>4. QED
    BY <2>1, <2>2, <2>3
<1>2. QED
    BY <1>1 DEF AllPersistent, Persistent, Trying, Plain

\* Every step of the pipeline is one of these.
LEMMA PersistStep == Inv /\ AllPersistent /\ [Next]_vars => AllPersistent'
<1> SUFFICES ASSUME Inv, AllPersistent, [Next]_vars PROVE AllPersistent'
    OBVIOUS
<1>1. Inv'
    BY InvStep
<1>2. ASSUME NEW a \in Asks, AskStarts(a) PROVE AllPersistent'
    BY <1>2, BeginningPersists DEF AskStarts
<1>3. CASE UNCHANGED askVars
    BY <1>3 DEF askVars, AllPersistent, Persistent, Trying, Plain
<1>4. ASSUME NEW a \in Asks, AskAdvances(a) PROVE AllPersistent'
    BY <1>1, <1>3, <1>4, BeginningPersists, HitPersists, WorkPersists, EndPersists
       DEF AskAdvances
<1>5. ASSUME NEW a \in Asks, Cancel(a) PROVE AllPersistent'
    BY <1>1, <1>5, WorkPersists, EndPersists DEF Cancel
<1>6. ASSUME NEW t \in Tasks, SchemaTask(t) PROVE AllPersistent'
    BY <1>3, <1>6 DEF SchemaTask
<1>7. ASSUME NEW key \in Key, Expires(key) PROVE AllPersistent'
    BY <1>7 DEF Expires, AllPersistent, Persistent, Trying, Plain
<1>8. ASSUME NEW k \in Kits, ProcessRestarts(k) PROVE AllPersistent'
    BY <1>8, RestartPersists
<1>9. CASE UNCHANGED vars
    BY <1>3, <1>9 DEF vars
<1>10. QED
    BY <1>2, <1>4, <1>5, <1>6, <1>7, <1>8, <1>9 DEF Next

\* However a plain ask fails, it has made all its attempts; it finds no data only after two
\* refusals or a substantive answer, and a second refusal leads nowhere else (pipeline.py,
\* decline_count and the for-else).
THEOREM AsksAreStubborn == Spec => []GivesUpOnlyAtTheEnd
<1>1. Init => AllPersistent
    BY DEF Init, AskInit, AllPersistent, Persistent, Trying, Fresh
<1>2. ASSUME Inv, AllPersistent, NEW a \in Asks, ~IsAnalysis(a), ~ask[a].cached
      PROVE  /\ ask[a].status = "error" => ask[a].attempts = MaxAttempts
             /\ ask[a].status = "no_data" => ask[a].long \/ ask[a].declines = 2
             /\ ask[a].declines >= 2 => ask[a].status = "no_data"
  <2>1. ask[a].declines \in Nat /\ ask[a].status \in Status
    BY <1>2 DEF Inv, AskInv, AskState
  <2>2. Plain(ask[a]) /\ Persistent(ask[a])
    BY <1>2 DEF AllPersistent, Plain, IsAnalysis
  <2>3. QED
    BY <1>2, <2>1, <2>2 DEF Persistent, Trying, Status
<1>3. Inv /\ AllPersistent => GivesUpOnlyAtTheEnd
    BY <1>2 DEF GivesUpOnlyAtTheEnd
<1>4. QED
    BY <1>1, <1>3, PersistStep, AskInvariance, PTL DEF Spec

----------------------------------------------------------------------------
(* The stream.  Every ask has said nothing yet, or it has announced its    *)
(* steps in order, or it has ended.                                        *)

Ordered(events) ==
    /\ events \in Seq(Event) /\ events # <<>>
    /\ \A i \in 1..Len(events) :
          /\ events[i] \notin {"done", "cached"}
          /\ events[i] = "plan" <=> i = 1
          /\ events[i] \in {"result", "schema_refresh"} => i > 1 /\ events[i - 1] = "sql"
          /\ events[i] = "chart" => i > 1 /\ events[i - 1] = "insight"

Saying(s, event) == s.events[Len(s.events)] = event

Talking(s) == ~s.cached /\ Ordered(s.events)

TalksOn(s) ==
    /\ Talking(s)
    /\ s.at \in Working \ {"lookup"}
    /\ s.at = "exec" /\ Plain(s) => Saying(s, "sql")

Silent(s) ==
    /\ ~s.cached /\ s.events = <<>>
    /\ s.at \in {"idle", "schema", "lookup", "raised", "cancelled", "lost"}

Stopped(s) == Talking(s) /\ s.at \in {"raised", "cancelled", "lost"}

Ended(s) ==
    /\ s.at = "answered"
    /\ \/ s.cached /\ s.events = <<"cached">>
       \/ ~s.cached /\ \E events : Ordered(events) /\ s.events = events \o <<"done">>

Announced(s) == Silent(s) \/ TalksOn(s) \/ Stopped(s) \/ Ended(s)

AllAnnounced == \A a \in Asks : Announced(ask[a])

\* One more event that may stand where it does.
LEMMA SaysMore ==
    ASSUME NEW events, Ordered(events), NEW e \in Event \ {"plan", "done", "cached"},
           e \in {"result", "schema_refresh"} => events[Len(events)] = "sql",
           e = "chart" => events[Len(events)] = "insight"
    PROVE  /\ Ordered(events \o <<e>>)
           /\ (events \o <<e>>)[Len(events \o <<e>>)] = e
<1> DEFINE more == events \o <<e>>
<1>1. /\ events \in Seq(Event) /\ <<e>> \in Seq(Event)
      /\ Len(events) \in Nat /\ Len(events) > 0
    BY DEF Ordered
<1>2. /\ more \in Seq(Event) /\ Len(more) = Len(events) + 1
      /\ more[Len(events) + 1] = e
      /\ \A i \in 1..Len(events) : more[i] = events[i]
    BY <1>1
<1> HIDE DEF more
<1>3. ASSUME NEW i \in 1..Len(more)
      PROVE  /\ more[i] \notin {"done", "cached"}
             /\ more[i] = "plan" <=> i = 1
             /\ more[i] \in {"result", "schema_refresh"} => i > 1 /\ more[i - 1] = "sql"
             /\ more[i] = "chart" => i > 1 /\ more[i - 1] = "insight"
  <2>1. CASE i \in 1..Len(events)
    <3>1. i > 1 => i - 1 \in 1..Len(events)
        BY <1>1, <2>1
    <3>2. QED
        BY <1>2, <2>1, <3>1 DEF Ordered
  <2>2. CASE i = Len(events) + 1
    <3>1. i > 1 /\ i - 1 \in 1..Len(events) /\ i - 1 = Len(events)
        BY <1>1, <2>2
    <3>2. more[i] = e /\ more[i - 1] = events[Len(events)]
        BY <1>2, <2>2, <3>1
    <3>3. QED
        BY <3>1, <3>2
  <2>3. QED
    BY <1>1, <1>2, <2>1, <2>2
<1>4. more # <<>>
    BY <1>1, <1>2
<1>5. QED
    BY <1>2, <1>3, <1>4 DEF Ordered, more

\* The same of the events of an ask.
LEMMA EmitTalks ==
    ASSUME NEW s \in AskState, Talking(s), NEW e \in Event \ {"plan", "done", "cached"},
           e \in {"result", "schema_refresh"} => Saying(s, "sql"),
           e = "chart" => Saying(s, "insight")
    PROVE  /\ Talking(Emit(s, <<e>>)) /\ Saying(Emit(s, <<e>>), e)
           /\ Emit(s, <<e>>) \in AskState /\ Emit(s, <<e>>).at = s.at
<1>1. <<e>> \in Seq(Event)
    OBVIOUS
<1>2. Emit(s, <<e>>).events = s.events \o <<e>> /\ Emit(s, <<e>>).cached = s.cached
    BY DEF Emit, AskState
<1>3. Emit(s, <<e>>) \in AskState /\ Emit(s, <<e>>).at = s.at
    BY <1>1, EmitOK DEF Alike
<1>4. /\ Ordered(s.events)
      /\ e \in {"result", "schema_refresh"} => s.events[Len(s.events)] = "sql"
      /\ e = "chart" => s.events[Len(s.events)] = "insight"
    BY DEF Talking, Saying
<1>5. /\ Ordered(s.events \o <<e>>)
      /\ (s.events \o <<e>>)[Len(s.events \o <<e>>)] = e
    BY <1>4, SaysMore
<1>6. Talking(Emit(s, <<e>>)) /\ Saying(Emit(s, <<e>>), e)
    BY <1>2, <1>5 DEF Talking, Saying
<1>7. QED
    BY <1>3, <1>6

\* The next attempt is announced by its failure, before it begins.
LEMMA RetryTalks ==
    ASSUME NEW s \in AskState, Talking(s)
    PROVE  TalksOn(Retry(s))
<1> DEFINE r == Emit(s, <<"retry">>)
<1>1. r \in AskState /\ Talking(r)
    BY EmitTalks DEF Event
<1> HIDE DEF r
<1>2. /\ NextAttempt(r).cached = r.cached /\ NextAttempt(r).events = r.events
      /\ NextAttempt(r).at \in {"llm", "audit"}
    BY <1>1 DEF NextAttempt, AskState
<1>3. QED
    BY <1>1, <1>2 DEF Retry, r, TalksOn, Talking, Working, Waiting

\* An answer in prose is an insight.
LEMMA ProseTalks ==
    ASSUME NEW s \in AskState, Talking(s) PROVE TalksOn(Prose(s))
<1> DEFINE r == [s EXCEPT !.status = "no_data", !.at = "audit"]
<1>1. r \in AskState /\ Talking(r) /\ r.at = "audit"
    BY DEF AskState, Talking, Status, Waiting
<1>2. Prose(s) = Emit(r, <<"insight">>)
    BY DEF Prose
<1> HIDE DEF r
<1>3. QED
    BY <1>1, <1>2, EmitTalks DEF Event, TalksOn, Working, Waiting

\* A refusal is announced, with or without another attempt.
LEMMA RefusedTalks ==
    ASSUME NEW s, InFlight(s), s.declines < s.attempts, Talking(s)
    PROVE  TalksOn(Refused(s))
<1> DEFINE declined == [s EXCEPT !.declines = s.declines + 1]
<1>1. s \in AskState /\ s.declines + 1 \in 0..MaxAttempts
    BY AskAssumption DEF InFlight, AskState
<1>2. /\ declined \in AskState
      /\ declined.events = s.events /\ declined.cached = s.cached
      /\ declined = [s EXCEPT !.declines = @ + 1]
    BY <1>1 DEF AskState
<1>3. Refused(s) = IF declined.declines >= 2 THEN Prose(Emit(declined, <<"retry">>))
                   ELSE Retry(declined)
    BY <1>2 DEF Refused
<1> HIDE DEF declined
<1>4. Talking(declined)
    BY <1>2 DEF Talking
<1>5. Talking(Emit(declined, <<"retry">>)) /\ Emit(declined, <<"retry">>) \in AskState
    BY <1>2, <1>4, EmitTalks DEF Event
<1>6. QED
    BY <1>2, <1>3, <1>4, <1>5, ProseTalks, RetryTalks

\* A query of the plain flow is announced as it is about to run.
LEMMA QueryTalks ==
    ASSUME NEW s \in AskState, Talking(s), NEW kind \in DataKind
    PROVE  TalksOn(Query(s, kind))
<1> DEFINE r == [s EXCEPT !.sql = [kind |-> kind, attempt |-> s.attempts], !.at = "exec"]
<1>1. s.attempts \in 0..MaxAttempts /\ kind \in SqlKind
    BY AskAssumption DEF AskState, SqlKind
<1>2. r \in AskState /\ Talking(r) /\ r.at = "exec"
    BY <1>1 DEF AskState, Talking, Waiting
<1>3. Query(s, kind) = Emit(r, <<"sql">>)
    BY DEF Query
<1> HIDE DEF r
<1>4. QED
    BY <1>2, <1>3, EmitTalks DEF Event, TalksOn, Working, Waiting

\* The queries of an analysis run without an event.
LEMMA NextQueryTalks ==
    ASSUME NEW s \in AskState, Talking(s), ~Plain(s) PROVE TalksOn(NextQuery(s))
<1> DEFINE r == [s EXCEPT !.sql = NoSql, !.at = "final"]
<1>1. r.cached = s.cached /\ r.events = s.events /\ r.at = "final"
    BY DEF AskState
<1>2. TalksOn(r)
    BY <1>1 DEF TalksOn, Talking, Working, Waiting
<1>3. Alike(s, Moved(s, "exec")) /\ Moved(s, "exec").at = "exec"
    BY MovedOK DEF Step, Waiting
<1>4. Moved(s, "exec").events = s.events
    BY DEF Moved, AskState
<1>5. TalksOn(Moved(s, "exec"))
    BY <1>3, <1>4 DEF Alike, TalksOn, Talking, Plain, Working, Waiting
<1>6. QED
    BY <1>2, <1>5, RetryTalks DEF NextQuery

\* Whatever the LLM plans.
LEMMA PlanTalks ==
    ASSUME NEW s, InFlight(s), s.declines < s.attempts, Talking(s), NEW r \in Reply
    PROVE  TalksOn(PlainPlan(s, r)) /\ (~Plain(s) => TalksOn(AnalysisPlan(s, r)))
<1>1. s \in AskState
    BY DEF InFlight
<1> DEFINE read == Reasoned(s, r)
<1>5. /\ read \in AskState /\ InFlight(read) /\ Talking(read)
      /\ read.declines < read.attempts
    BY <1>1, ReasonedOK, AlikeInFlight DEF Alike, Talking
<1> HIDE DEF read
<1>2. TalksOn(PlainPlan(s, r))
  <2>1. ParseFails(r) \/ (~ParseFails(r) /\ Declines(r)) \/ (~Declines(r) /\ r.object)
    BY DEF ParseFails, Declines
  <2>2. \/ PlainPlan(s, r) = Retry(s) \/ PlainPlan(s, r) = Retry(read)
        \/ PlainPlan(s, r) = Prose(read) \/ PlainPlan(s, r) = Refused(read)
        \/ PlainPlan(s, r) = Query(read, r.sql) /\ r.sql \in DataKind
    BY <2>1 DEF PlainPlan, Declines, Reply, DataKind, read
  <2>3. QED
    BY <1>1, <1>5, <2>2, RetryTalks, ProseTalks, RefusedTalks, QueryTalks
<1>3. ASSUME ~Plain(s) PROVE TalksOn(AnalysisPlan(s, r))
  <2> DEFINE p == [s EXCEPT !.queries = r.queries, !.data = {}]
  <2>1. r.queries \in Seq(QueryKind)
    BY DEF Reply
  <2>2. /\ p \in AskState /\ p.events = s.events /\ p.cached = s.cached
        /\ p.question = s.question
    BY <1>1, <2>1 DEF AskState
  <2>3. ParseFails(r) \/ (~ParseFails(r) /\ r.queries = <<>>) \/ (r.object /\ r.queries # <<>>)
    BY DEF ParseFails
  <2>4. \/ AnalysisPlan(s, r) = Retry(s) \/ AnalysisPlan(s, r) = Prose(read)
        \/ AnalysisPlan(s, r) = NextQuery(p)
    BY <2>3 DEF AnalysisPlan, read
  <2> HIDE DEF p
  <2>5. Talking(p) /\ ~Plain(p)
    BY <1>3, <2>2 DEF Talking, Plain
  <2>6. QED
    BY <1>1, <1>5, <2>2, <2>4, <2>5, RetryTalks, ProseTalks, NextQueryTalks
<1>4. QED
    BY <1>2, <1>3

\* What remains to be shown of a step of one ask.
LEMMA OneAnnounced ==
    ASSUME Inv, AllAnnounced, NEW a \in Asks, NEW s, Becomes(a, s), Announced(s)
    PROVE  AllAnnounced'
<1>1. \A b \in Asks : ask'[b] = IF b = a THEN s ELSE ask[b]
    BY DEF Inv, AskInv, Becomes
<1>2. \A b \in Asks : Announced(ask'[b])
    BY <1>1 DEF AllAnnounced
<1>3. QED
    BY <1>2 DEF AllAnnounced, Announced, Silent, TalksOn, Stopped, Ended, Talking, Saying,
                Plain

\* From the call to the first prompt nothing is announced.
LEMMA BeginningAnnounced ==
    ASSUME Inv, AllAnnounced, NEW a \in Asks,
           StartsWithSchema(a) \/ StartsWithout(a) \/ GotSchema(a)
    PROVE  AllAnnounced'
<1>1. ask[a] \in AskState /\ ask[a].at \in {"idle", "schema"} /\ Announced(ask[a])
    BY DEF Inv, AskInv, StartsWithSchema, StartsWithout, GotSchema, At, AllAnnounced
<1>2. Silent(ask[a])
    BY <1>1 DEF Announced, TalksOn, Stopped, Ended, Working, Waiting
<1>3. ASSUME NEW q
      PROVE  /\ Silent([ask[a] EXCEPT !.at = "schema", !.question = q])
             /\ Silent(Looking([ask[a] EXCEPT !.question = q], KitOf[a]))
             /\ Silent(Looking(ask[a], KitOf[a]))
    BY <1>1, <1>2 DEF Silent, Looking, AskState
<1>4. \E s : Becomes(a, s) /\ Silent(s)
  <2>1. CASE StartsWithSchema(a)
    BY <1>3, <2>1 DEF StartsWithSchema
  <2>2. CASE StartsWithout(a)
    BY <1>3, <2>2 DEF StartsWithout
  <2>3. CASE GotSchema(a)
    BY <1>3, <2>3 DEF GotSchema
  <2>4. QED
    BY <2>1, <2>2, <2>3
<1>5. QED
    BY <1>4, OneAnnounced DEF Announced

\* A hit announces only itself, a miss the first attempt.
LEMMA LookupAnnounced ==
    ASSUME Inv, AllAnnounced, NEW a \in Asks, Hit(a) \/ Miss(a) PROVE AllAnnounced'
<1>1. ask[a] \in AskState /\ ask[a].at = "lookup" /\ Announced(ask[a])
    BY DEF Inv, AskInv, Hit, Miss, At, AllAnnounced
<1>2. Silent(ask[a])
    BY <1>1 DEF Announced, TalksOn, Stopped, Ended
<1>3. <<>> \o <<"cached">> = <<"cached">> /\ <<>> \o <<"plan">> = <<"plan">>
    OBVIOUS
<1>4. CASE Hit(a)
  <2> DEFINE r == [ask[a] EXCEPT !.at = "answered", !.cached = TRUE,
                                 !.status = cache[KeyOf(a)].status,
                                 !.data = cache[KeyOf(a)].data]
             s == Emit(r, <<"cached">>)
  <2>1. r.at = "answered" /\ r.cached = TRUE /\ r.events = <<>>
    BY <1>1, <1>2 DEF Silent, AskState
  <2>2. s.at = r.at /\ s.cached = r.cached /\ s.events = r.events \o <<"cached">>
    BY <1>1 DEF Emit, AskState
  <2>3. Becomes(a, s)
    BY <1>4 DEF Hit
  <2> HIDE DEF s, r
  <2>4. Ended(s)
    BY <1>3, <2>1, <2>2 DEF Ended
  <2>5. QED
    BY <2>3, <2>4, OneAnnounced DEF Announced
<1>5. CASE Miss(a)
  <2> DEFINE s == Emit(Moved(ask[a], "llm"), <<"plan">>)
  <2>1. s.at = "llm" /\ s.cached = FALSE /\ s.events = <<>> \o <<"plan">>
    BY <1>1, <1>2 DEF Silent, Emit, Moved, AskState
  <2>2. Becomes(a, s)
    BY <1>5 DEF Miss
  <2> HIDE DEF s
  <2>3. Ordered(<<"plan">>)
    BY DEF Ordered, Event
  <2>4. TalksOn(s)
    BY <1>3, <2>1, <2>3 DEF TalksOn, Talking, Working, Waiting
  <2>5. QED
    BY <2>2, <2>4, OneAnnounced DEF Announced
<1>6. QED
    BY <1>4, <1>5

\* Announcing two events at once is announcing them one by one.
LEMMA OneByOne ==
    ASSUME NEW events \in Seq(Event), NEW first \in Seq(Event), NEW second \in Seq(Event)
    PROVE  (events \o first) \o second = events \o (first \o second)
BY ConcatAssociative, SMTT(30)

\* Moving on, wherever the ask may go, but to a query.
LEMMA MovedTalks ==
    ASSUME NEW s \in AskState, Talking(s), NEW step \in Working \ {"lookup", "exec"}
    PROVE  /\ TalksOn(Moved(s, step)) /\ Talking(Moved(s, step))
           /\ Moved(s, step) \in AskState /\ Moved(s, step).at = step
           /\ \A event : Saying(s, event) => Saying(Moved(s, step), event)
<1>1. Alike(s, Moved(s, step)) /\ Moved(s, step).at = step
    BY MovedOK DEF Step, Working
<1>2. Moved(s, step).events = s.events
    BY DEF Moved, AskState
<1>3. QED
    BY <1>1, <1>2 DEF Alike, TalksOn, Talking, Saying, Working

\* An ask that works announces rows and a new schema after the query they are of, and a
\* chart after the insight.
LEMMA WorkAnnounced ==
    ASSUME Inv, AllAnnounced, NEW a \in Asks,
           \/ Planned(a) \/ Rows(a) \/ Frame(a) \/ TableMissing(a)
           \/ QueryFails(a) \/ Refreshed(a) \/ Explained(a) \/ Concluded(a)
    PROVE  AllAnnounced'
<1>1. /\ ask[a].at \in {"llm", "exec", "refresh", "explain", "final"}
      /\ ask[a] \in AskState /\ Locals(ask[a]) /\ Announced(ask[a])
    BY DEF Inv, AskInv, AllAnnounced, At, Planned, Rows, Frame, TableMissing,
           QueryFails, Refreshed, Explained, Concluded
<1>2. InFlight(ask[a]) /\ TalksOn(ask[a]) /\ Talking(ask[a])
    BY <1>1 DEF Announced, Silent, Stopped, Ended, TalksOn, Locals, Working, Waiting
<1>3. SUFFICES \E s : Becomes(a, s) /\ TalksOn(s)
    BY OneAnnounced DEF Announced
<1>4. CASE Planned(a)
  <2>1. PICK r \in Replies :
           Becomes(a, IF IsAnalysis(a) THEN AnalysisPlan(ask[a], r) ELSE PlainPlan(ask[a], r))
    BY <1>4 DEF Planned
  <2>2. ask[a].declines < ask[a].attempts /\ r \in Reply
    BY <1>1, <1>4, AskAssumption DEF Planned, At, Locals
  <2>3. QED
    BY <1>2, <2>1, <2>2, PlanTalks DEF Plain, IsAnalysis
<1>5. CASE Rows(a)
  <2> DEFINE r == [ask[a] EXCEPT !.data = {Running(a)}]
             s == Emit(r, <<"result">>)
  <2>1. Plain(ask[a]) /\ ask[a].at = "exec" /\ Running(a) \in DataKind
    BY <1>1, <1>5 DEF Rows, At, Plain, IsAnalysis, Running, Locals, OnQuery
  <2>2. r \in AskState /\ r.events = ask[a].events /\ r.cached = ask[a].cached
    BY <1>1, <2>1 DEF AskState
  <2>3. Talking(r) /\ Saying(r, "sql")
    BY <1>2, <2>1, <2>2 DEF TalksOn, Talking, Saying
  <2>4. \/ Becomes(a, Moved(s, "explain"))
        \/ Becomes(a, Emit(Moved(s, "audit"), <<"insight">>))
    BY <1>5 DEF Rows
  <2> HIDE DEF r
  <2>5. Talking(s) /\ s \in AskState
    BY <2>2, <2>3, EmitTalks DEF Event
  <2> HIDE DEF s
  <2>6. /\ TalksOn(Moved(s, "explain"))
        /\ Moved(s, "audit") \in AskState /\ Talking(Moved(s, "audit"))
        /\ Moved(s, "audit").at = "audit"
    BY <2>5, MovedTalks DEF Working, Waiting
  <2>7. TalksOn(Emit(Moved(s, "audit"), <<"insight">>))
    BY <2>6, EmitTalks DEF Event, TalksOn, Working, Waiting
  <2>8. QED
    BY <2>4, <2>6, <2>7
<1>6. CASE Frame(a)
  <2> DEFINE s == [ask[a] EXCEPT !.data = ask[a].data \cup {Running(a)},
                                 !.queries = Tail(ask[a].queries)]
  <2>1. Becomes(a, NextQuery(s))
    BY <1>1, <1>6 DEF Frame
  <2>2. ~Plain(ask[a]) /\ ask[a].queries # <<>> /\ Running(a) \in DataKind
    BY <1>1, <1>6 DEF Frame, At, Locals, Plain, IsAnalysis, Running
  <2>3. Tail(ask[a].queries) \in Seq(QueryKind)
    BY <1>1, <2>2 DEF AskState
  <2>4. /\ s \in AskState /\ s.events = ask[a].events /\ s.cached = ask[a].cached
        /\ s.question = ask[a].question
    BY <1>1, <2>2, <2>3 DEF AskState
  <2> HIDE DEF s
  <2>5. TalksOn(NextQuery(s))
    BY <1>2, <2>2, <2>4, NextQueryTalks DEF Talking, Plain
  <2>6. QED
    BY <2>1, <2>5
<1>7. CASE TableMissing(a)
  <2> DEFINE r == Moved(ask[a], "refresh")
  <2>1. Becomes(a, Emit(r, <<"schema_refresh">>)) /\ Saying(ask[a], "sql")
    BY <1>2, <1>7 DEF TableMissing, At, TalksOn, Plain, IsAnalysis
  <2>2. r \in AskState /\ Talking(r) /\ Saying(r, "sql") /\ r.at = "refresh"
    BY <1>1, <1>2, <2>1, MovedTalks DEF Working, Waiting
  <2> HIDE DEF r
  <2>3. TalksOn(Emit(r, <<"schema_refresh">>))
    BY <2>2, EmitTalks DEF Event, TalksOn, Working, Waiting
  <2>4. QED
    BY <2>1, <2>3
<1>8. CASE QueryFails(a)
    BY <1>1, <1>2, <1>8, RetryTalks DEF QueryFails
<1>9. CASE Refreshed(a)
  <2> DEFINE s == [ask[a] EXCEPT !.schema = kitSchema'[KitOf[a]]]
  <2>1. Becomes(a, NextAttempt(s))
    BY <1>9 DEF Refreshed
  <2>2. /\ NextAttempt(s).events = ask[a].events /\ NextAttempt(s).cached = ask[a].cached
        /\ NextAttempt(s).at \in {"llm", "audit"}
    BY <1>1 DEF NextAttempt, AskState
  <2> HIDE DEF s
  <2>3. TalksOn(NextAttempt(s))
    BY <1>2, <2>2 DEF TalksOn, Talking, Working, Waiting
  <2>4. QED
    BY <2>1, <2>3
<1>10. CASE Explained(a)
  <2> DEFINE r == Moved(ask[a], "audit")
             s == Emit(r, <<"insight">>)
  <2>1. r \in AskState /\ Talking(r) /\ r.at = "audit"
    BY <1>1, <1>2, MovedTalks DEF Working, Waiting
  <2> HIDE DEF r
  <2>2. s \in AskState /\ Talking(s) /\ Saying(s, "insight") /\ s.at = "audit"
    BY <2>1, EmitTalks DEF Event
  <2>3. /\ Emit(r, <<"insight">> \o <<>>) = s
        /\ Emit(r, <<"insight">> \o <<"chart">>) = Emit(s, <<"chart">>)
    <3>1. r.events \in Seq(Event) /\ s.events = r.events \o <<"insight">>
        BY <2>1 DEF Emit, AskState
    <3>2. <<"insight">> \in Seq(Event) /\ <<"chart">> \in Seq(Event)
        BY DEF Event
    <3>3. <<"insight">> \o <<>> = <<"insight">>
        OBVIOUS
    <3>4. s.events \o <<"chart">> = r.events \o (<<"insight">> \o <<"chart">>)
      <4>1. (r.events \o <<"insight">>) \o <<"chart">>
                = r.events \o (<<"insight">> \o <<"chart">>)
          BY <3>1, <3>2, OneByOne
      <4>2. QED
          BY <3>1, <4>1
    <3>5. Emit(s, <<"chart">>) = [r EXCEPT !.events = s.events \o <<"chart">>]
        BY <2>1 DEF Emit, AskState
    <3>6. QED
        BY <3>3, <3>4, <3>5 DEF Emit
  <2>4. Becomes(a, Emit(r, <<"insight">> \o <<>>))
        \/ Becomes(a, Emit(r, <<"insight">> \o <<"chart">>))
    BY <1>10 DEF Explained, r
  <2> HIDE DEF s
  <2>5. TalksOn(s) /\ TalksOn(Emit(s, <<"chart">>))
    BY <2>2, EmitTalks DEF Event, TalksOn, Working, Waiting
  <2>6. QED
    BY <2>3, <2>4, <2>5
<1>11. CASE Concluded(a)
  <2> DEFINE r == [ask[a] EXCEPT !.status = "ok", !.at = "audit"]
             e == [ask[a] EXCEPT !.status = "error", !.at = "audit"]
  <2>1. Becomes(a, Emit(r, <<"insight">>)) \/ Becomes(a, e)
    BY <1>11 DEF Concluded
  <2>2. /\ r \in AskState /\ r.at = "audit" /\ e.at = "audit"
        /\ r.events = ask[a].events /\ r.cached = ask[a].cached
        /\ e.events = ask[a].events /\ e.cached = ask[a].cached
    BY <1>1 DEF AskState, Status, Waiting
  <2> HIDE DEF r, e
  <2>3. Talking(r) /\ TalksOn(e)
    BY <1>2, <2>2 DEF TalksOn, Talking, Working, Waiting
  <2>4. TalksOn(Emit(r, <<"insight">>))
    BY <2>2, <2>3, EmitTalks DEF Event, TalksOn, Working, Waiting
  <2>5. QED
    BY <2>1, <2>3, <2>4
<1>12. QED
    BY <1>4, <1>5, <1>6, <1>7, <1>8, <1>9, <1>10, <1>11

\* The tail says nothing until it is done, and an ask that is stopped nothing any more.
LEMMA EndAnnounced ==
    ASSUME Inv, AllAnnounced, NEW a \in Asks,
           \/ Recorded(a) \/ AuditFails(a) \/ Audited(a) \/ Stored(a) \/ Finished(a)
           \/ Raises(a) \/ SchemaCallRaises(a) \/ Cancelled(a)
    PROVE  AllAnnounced'
<1>1. ask[a] \in AskState /\ Announced(ask[a])
    BY DEF Inv, AskInv, AllAnnounced
<1>2. ASSUME NEW step \in {"raised", "cancelled"}, ask[a].at \in Waiting
      PROVE  Announced(Moved(ask[a], step))
  <2>1. /\ Moved(ask[a], step).at = step /\ Moved(ask[a], step).cached = ask[a].cached
        /\ Moved(ask[a], step).events = ask[a].events
    BY <1>1 DEF Moved, AskState
  <2>2. Silent(ask[a]) \/ Talking(ask[a])
    BY <1>1, <1>2 DEF Announced, TalksOn, Stopped, Ended, Waiting
  <2>3. QED
    BY <2>1, <2>2 DEF Announced, Silent, Stopped, Talking
<1>3. ASSUME ask[a].at \in Finishing
      PROVE  Announced(Done(ask[a])) /\ \A step \in Saving : Announced(Moved(ask[a], step))
  <2>1. Talking(ask[a])
    BY <1>1, <1>3 DEF Announced, Silent, TalksOn, Stopped, Ended, Finishing, Saving
  <2>2. /\ Done(ask[a]).at = "answered" /\ Done(ask[a]).cached = ask[a].cached
        /\ Done(ask[a]).events = ask[a].events \o <<"done">>
    BY <1>1 DEF Done, Emit, Moved, AskState
  <2>3. Announced(Done(ask[a]))
    BY <2>1, <2>2 DEF Announced, Ended, Talking
  <2>4. QED
    BY <1>1, <2>1, <2>3, MovedTalks DEF Saving, Working, Waiting, Announced
<1>4. \/ /\ ask[a].at \in Finishing
         /\ \/ Becomes(a, Done(ask[a]))
            \/ \E step \in Saving : Becomes(a, Moved(ask[a], step))
      \/ /\ ask[a].at \in Waiting
         /\ \E step \in {"raised", "cancelled"} : Becomes(a, Moved(ask[a], step))
    BY DEF Recorded, AuditFails, Audited, Stored, Finished, Raises, SchemaCallRaises,
           Cancelled, At, Finishing, Saving, Waiting
<1>5. QED
    BY <1>2, <1>3, <1>4, OneAnnounced

\* A restart stops the asks of a kit, wherever they were.
LEMMA RestartAnnounced ==
    ASSUME Inv, AllAnnounced, NEW k \in Kits, ProcessRestarts(k) PROVE AllAnnounced'
<1>1. ASSUME NEW a \in Asks PROVE Announced(ask'[a])
  <2>1. ask[a] \in AskState /\ Announced(ask[a])
    BY DEF Inv, AskInv, AllAnnounced
  <2>2. CASE ask[a].at \in Waiting /\ ask'[a] = Moved(ask[a], "lost")
    <3>1. /\ ask'[a].at = "lost" /\ ask'[a].cached = ask[a].cached
          /\ ask'[a].events = ask[a].events
        BY <2>1, <2>2 DEF Moved, AskState
    <3>2. Silent(ask[a]) \/ Talking(ask[a])
        BY <2>1, <2>2 DEF Announced, TalksOn, Stopped, Ended, Waiting
    <3>3. QED
        BY <3>1, <3>2 DEF Announced, Silent, Stopped, Talking
  <2>3. CASE ask'[a] = ask[a]
    BY <2>1, <2>3
  <2>4. QED
    BY <2>2, <2>3 DEF ProcessRestarts
<1>2. QED
    BY <1>1 DEF AllAnnounced, Announced, Silent, TalksOn, Stopped, Ended, Talking, Saying,
                Plain

\* Every step of the pipeline is one of these.
LEMMA AnnounceStep == Inv /\ AllAnnounced /\ [Next]_vars => AllAnnounced'
<1> SUFFICES ASSUME Inv, AllAnnounced, [Next]_vars PROVE AllAnnounced'
    OBVIOUS
<1>1. ASSUME NEW a \in Asks, AskStarts(a) PROVE AllAnnounced'
    BY <1>1, BeginningAnnounced DEF AskStarts
<1>2. CASE UNCHANGED ask
    BY <1>2 DEF AllAnnounced, Announced, Silent, TalksOn, Stopped, Ended, Talking, Saying,
                Plain
<1>3. ASSUME NEW a \in Asks, AskAdvances(a) PROVE AllAnnounced'
    BY <1>2, <1>3, BeginningAnnounced, LookupAnnounced, WorkAnnounced, EndAnnounced
       DEF AskAdvances, askVars
<1>4. ASSUME NEW a \in Asks, Cancel(a) PROVE AllAnnounced'
    BY <1>4, WorkAnnounced, EndAnnounced DEF Cancel
<1>5. ASSUME NEW t \in Tasks, SchemaTask(t) PROVE AllAnnounced'
    BY <1>2, <1>5 DEF SchemaTask, askVars
<1>6. ASSUME NEW key \in Key, Expires(key) PROVE AllAnnounced'
    BY <1>2, <1>6 DEF Expires
<1>7. ASSUME NEW k \in Kits, ProcessRestarts(k) PROVE AllAnnounced'
    BY <1>7, RestartAnnounced
<1>8. CASE UNCHANGED vars
    BY <1>2, <1>8 DEF vars, askVars
<1>9. QED
    BY <1>1, <1>3, <1>4, <1>5, <1>6, <1>7, <1>8 DEF Next

\* Whatever an ask goes through, its stream begins with "plan" or is a hit, rows and a
\* new schema follow the query they are of, a chart follows the insight, and the answer
\* is the last thing said (pipeline.py, stream).
THEOREM StreamIsInOrder == Spec => []StreamShape
<1>1. Init => AllAnnounced
    BY DEF Init, AskInit, AllAnnounced, Announced, Silent, Fresh
<1>2. AllAnnounced => StreamShape
  <2> SUFFICES ASSUME AllAnnounced, NEW a \in Asks
               PROVE  LET events == ask[a].events  last == Len(events) IN
                      /\ \A i \in 1..last :
                            /\ events[i] = "plan" <=> i = 1 /\ ~ask[a].cached
                            /\ events[i] \in {"result", "schema_refresh"} =>
                                  events[i - 1] = "sql"
                            /\ events[i] = "chart" => events[i - 1] = "insight"
                            /\ events[i] \in {"done", "cached"} =>
                                  i = last /\ At(a, "answered")
                      /\ At(a, "answered") => last > 0 /\ events[last] \in {"done", "cached"}
    BY DEF StreamShape
  <2>1. Announced(ask[a])
    BY DEF AllAnnounced
  <2>2. CASE Silent(ask[a])
    BY <2>2 DEF Silent, At
  <2>3. CASE TalksOn(ask[a]) \/ Stopped(ask[a])
    BY <2>3 DEF TalksOn, Stopped, Talking, Ordered, At, Working, Waiting
  <2>4. CASE Ended(ask[a])
    <3>1. CASE ask[a].cached /\ ask[a].events = <<"cached">>
        BY <2>4, <3>1 DEF Ended, At
    <3>2. CASE ~ask[a].cached /\ \E events : Ordered(events)
                                  /\ ask[a].events = events \o <<"done">>
      <4>1. PICK events : Ordered(events) /\ ask[a].events = events \o <<"done">>
          BY <3>2
      <4>2. /\ events \in Seq(Event) /\ Len(events) \in Nat /\ Len(events) > 0
            /\ <<"done">> \in Seq(Event)
          BY <4>1 DEF Ordered, Event
      <4>3. /\ Len(ask[a].events) = Len(events) + 1
            /\ ask[a].events[Len(events) + 1] = "done"
            /\ \A i \in 1..Len(events) : ask[a].events[i] = events[i]
          BY <4>1, <4>2
      <4>4. ASSUME NEW i \in 1..Len(ask[a].events)
            PROVE  /\ ask[a].events[i] = "plan" <=> i = 1
                   /\ ask[a].events[i] \in {"result", "schema_refresh"} =>
                         ask[a].events[i - 1] = "sql"
                   /\ ask[a].events[i] = "chart" => ask[a].events[i - 1] = "insight"
                   /\ ask[a].events[i] \in {"done", "cached"} => i = Len(events) + 1
        <5>1. CASE i \in 1..Len(events)
          <6>1. i > 1 => i - 1 \in 1..Len(events)
              BY <4>2, <5>1
          <6>2. QED
              BY <4>1, <4>3, <5>1, <6>1 DEF Ordered
        <5>2. CASE i = Len(events) + 1
            BY <4>2, <4>3, <5>2
        <5>3. QED
            BY <4>2, <4>3, <5>1, <5>2
      <4>5. QED
          BY <2>4, <3>2, <4>2, <4>3, <4>4 DEF Ended, At
    <3>3. QED
        BY <2>4, <3>1, <3>2 DEF Ended
  <2>5. QED
    BY <2>1, <2>2, <2>3, <2>4 DEF Announced
<1>3. QED
    BY <1>1, <1>2, AnnounceStep, AskInvariance, PTL DEF Spec
=============================================================================

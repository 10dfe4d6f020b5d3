---------------------------- MODULE PartsProofs ----------------------------
(***************************************************************************)
(* Theorems about the parts the pipeline calls and that share no state:    *)
(* the connection pool, for any number of jobs and connections; complete,  *)
(* for every llm.max_retries and every sequence of replies; _query on      *)
(* Trino, for results and pages of any size; introspect, for any tables    *)
(* and any changes of them meanwhile; the row limits of the guard, for     *)
(* statements and pipelines of any length; the accuracy gate, for any      *)
(* golden set; the latency window, for any number of samples.              *)
(***************************************************************************)
EXTENDS QueryExecution, TrinoStatement, LlmRetry, Introspection, RowLimit,
        Evaluation, MetricsWindow, ListsProofs, FiniteSetTheorems, SequenceTheorems

----------------------------------------------------------------------------
(* QueryExecution: the connection pool *)

\* Off MySQL, a session has a limit only while a query uses it: none lies idle with
\* one, none has one before it is set, and SQLite has none at all.
LimitsEndWithJobs ==
    /\ engine # "mysql" => limited \cap idle = {}
    /\ engine = "sqlite" => limited = {}
    /\ \A j \in Jobs :
          /\ pc[j] = "limit" => HasLimit(j)
          /\ engine # "mysql" /\ pc[j] = "limit" => conn[j] \notin limited

PoolInv ==
    /\ PoolTypeOK
    /\ NoneIsShared
    /\ NoneIsDropped
    /\ LimitsEndWithJobs
    /\ LimitsStayWithQueries

LEMMA PoolInitially == PoolInit => PoolInv
<1> SUFFICES ASSUME PoolInit PROVE PoolInv
  OBVIOUS
<1>1. PoolTypeOK
  BY DEF PoolInit, PoolTypeOK, Places, Outcomes
<1>2. NoneIsShared
  BY PoolAssumption, FS_EmptySet DEF PoolInit, NoneIsShared, InUse
<1>3. LimitsEndWithJobs /\ LimitsStayWithQueries
  BY DEF PoolInit, LimitsEndWithJobs, LimitsStayWithQueries
<1>4. NoneIsDropped
  BY PoolAssumption DEF PoolInit, NoneIsDropped, Outcomes
<1> QED  BY <1>1, <1>2, <1>3, <1>4 DEF PoolInv

\* The pool holds finitely many connections, and its size is a number.
LEMMA IdleIsFinite ==
  ASSUME PoolTypeOK
  PROVE  IsFiniteSet(idle) /\ Cardinality(idle) \in Nat
BY PoolAssumption, FS_Subset, FS_CardinalityType DEF PoolTypeOK

\* What a job has checked out is in use.
LEMMA CheckedOut ==
  ASSUME PoolTypeOK, NEW j \in Jobs, conn[j] # None
  PROVE  conn[j] \in InUse /\ conn[j] \in Conns
BY DEF PoolTypeOK, InUse

LEMMA CheckoutKeeps ==
  ASSUME PoolInv, NEW j \in Jobs, Checkout(j)
  PROVE  PoolInv'
<1> USE DEF PoolInv
<1>1. PICK c \in Available :
         /\ conn' = [conn EXCEPT ![j] = c]
         /\ idle' = idle \ {c}
         /\ limited' = IF c \in idle THEN limited ELSE limited \ {c}
  BY DEF Checkout
<1>2. /\ pc[j] = "connect"
      /\ pc' = [pc EXCEPT ![j] = IF HasLimit(j) THEN "limit" ELSE "statement"]
      /\ UNCHANGED <<engine, outcome>>
  BY DEF Checkout
<1>3. c \in Conns /\ c # None
  BY PoolAssumption DEF Available, PoolTypeOK
<1>4. \A i \in Jobs : conn[i] # c
  <2>1. c \notin InUse
    BY DEF Available, NoneIsShared
  <2> QED  BY <2>1, <1>3 DEF InUse
<1>5. PoolTypeOK'
  BY <1>1, <1>2, <1>3 DEF PoolTypeOK, Places
<1>6. NoneIsShared'
  <2>1. \A i, k \in Jobs : i # k /\ conn'[i] # None => conn'[i] # conn'[k]
    BY <1>1, <1>4 DEF NoneIsShared, PoolTypeOK
  <2>2. InUse' \cap idle' = {}
    BY <1>1 DEF NoneIsShared, InUse, PoolTypeOK
  <2>3. Cardinality(idle') <= PoolSize
    <3>1. Cardinality(idle') \in Nat /\ Cardinality(idle') <= Cardinality(idle)
      BY <1>1, IdleIsFinite, FS_Subset, FS_CardinalityType
    <3> QED  BY <3>1, IdleIsFinite, PoolAssumption DEF NoneIsShared
  <2> QED  BY <2>1, <2>2, <2>3 DEF NoneIsShared
<1>7. engine # "mysql" => c \notin limited'
  BY <1>1 DEF LimitsEndWithJobs
<1>8. LimitsEndWithJobs'
  BY <1>1, <1>2, <1>7 DEF LimitsEndWithJobs, PoolTypeOK, HasLimit
<1>9. LimitsStayWithQueries'
  BY <1>1, <1>2, <1>4, <1>7 DEF LimitsStayWithQueries, PoolTypeOK, HasLimit
<1>10. NoneIsDropped'
  <2>1. c \in InUse'
    BY <1>1, <1>3 DEF InUse, PoolTypeOK
  <2> QED  BY <2>1 DEF NoneIsDropped
<1> QED  BY <1>5, <1>6, <1>8, <1>9, <1>10

LEMMA SetLimitKeeps ==
  ASSUME PoolInv, NEW j \in Jobs, SetLimit(j)
  PROVE  PoolInv'
<1> USE DEF PoolInv
<1>1. /\ pc[j] = "limit" /\ HasLimit(j)
      /\ limited' = limited \cup {conn[j]}
      /\ pc' = [pc EXCEPT ![j] = "statement"]
      /\ UNCHANGED <<engine, conn, outcome, idle>>
  BY DEF SetLimit, LimitsEndWithJobs
<1>2. conn[j] # None /\ conn[j] \in Conns /\ conn[j] \in InUse
  BY <1>1, CheckedOut DEF PoolTypeOK
<1>3. PoolTypeOK'
  BY <1>1, <1>2 DEF PoolTypeOK, Places
<1>4. NoneIsShared'
  BY <1>1 DEF NoneIsShared, InUse
<1>5. \A i \in Jobs : i # j => conn[i] # conn[j]
  BY <1>2 DEF NoneIsShared
<1>6. LimitsEndWithJobs'
  BY <1>1, <1>2, <1>5 DEF LimitsEndWithJobs, PoolTypeOK, HasLimit, NoneIsShared
<1>7. LimitsStayWithQueries'
  BY <1>1, <1>2, <1>5 DEF LimitsStayWithQueries, PoolTypeOK, HasLimit
<1>8. NoneIsDropped'
  BY <1>1, <1>3 DEF NoneIsDropped, InUse
<1> QED  BY <1>3, <1>4, <1>6, <1>7, <1>8

\* A job that has its outcome, early or late, still has its connection and touches no
\* other.
LEMMA EndsWithKeeps ==
  ASSUME PoolInv, NEW j \in Jobs, NEW o \in Outcomes, pc[j] # "ended", EndsWith(j, o),
         o = "rows" => pc[j] = "statement"
  PROVE  PoolInv'
<1> USE DEF PoolInv
<1>1. /\ outcome' = [outcome EXCEPT ![j] = o]
      /\ pc' = [pc EXCEPT ![j] = IF conn[j] = None THEN "ended" ELSE "close"]
      /\ UNCHANGED <<engine, conn, idle, limited>>
  BY DEF EndsWith
<1>2. PoolTypeOK'
  BY <1>1 DEF PoolTypeOK, Places
<1>3. NoneIsShared'
  BY <1>1 DEF NoneIsShared, InUse
<1>4. LimitsEndWithJobs' /\ LimitsStayWithQueries'
  BY <1>1 DEF LimitsEndWithJobs, LimitsStayWithQueries, PoolTypeOK, HasLimit
<1>5. NoneIsDropped'
  <2>1. CASE o = "rows"
    <3>1. conn[j] \in InUse'
      BY <1>1, <2>1, CheckedOut DEF PoolTypeOK, InUse
    <3> QED  BY <1>2, <3>1 DEF NoneIsDropped
  <2>2. CASE o # "rows"
    <3>1. \A i \in Jobs : outcome'[i] = "rows" => outcome[i] = "rows"
      BY <1>1, <2>2 DEF PoolTypeOK
    <3>2. InUse' \cup idle' = InUse \cup idle
      BY <1>1 DEF InUse
    <3> QED  BY <1>2, <3>1, <3>2 DEF NoneIsDropped
  <2> QED  BY <2>1, <2>2
<1> QED  BY <1>2, <1>3, <1>4, <1>5

LEMMA CloseKeeps ==
  ASSUME PoolInv, NEW j \in Jobs, Close(j)
  PROVE  PoolInv'
<1> USE DEF PoolInv
<1>1. /\ pc[j] = "close"
      /\ pc' = [pc EXCEPT ![j] = "ended"]
      /\ conn' = [conn EXCEPT ![j] = None]
      /\ idle' = IF Cardinality(idle) < PoolSize THEN idle \cup {conn[j]} ELSE idle
      /\ limited' = IF engine = "postgresql" THEN limited \ {conn[j]} ELSE limited
      /\ UNCHANGED <<engine, outcome>>
  BY DEF Close
<1>2. conn[j] # None /\ conn[j] \in Conns /\ conn[j] \in InUse
  BY <1>1, CheckedOut DEF PoolTypeOK
<1>3. PoolTypeOK'
  BY <1>1, <1>2 DEF PoolTypeOK, Places
<1>4. \A i \in Jobs : i # j => conn[i] # conn[j]
  BY <1>2 DEF NoneIsShared
<1>5. NoneIsShared'
  <2>1. \A i, k \in Jobs : i # k /\ conn'[i] # None => conn'[i] # conn'[k]
    BY <1>1, PoolAssumption DEF NoneIsShared, PoolTypeOK
  <2>2. InUse' \cap idle' = {}
    BY <1>1, <1>4 DEF NoneIsShared, InUse, PoolTypeOK
  <2>3. Cardinality(idle') <= PoolSize
    <3>1. CASE Cardinality(idle) < PoolSize
      <4>1. conn[j] \notin idle
        BY <1>2 DEF NoneIsShared
      <4>2. Cardinality(idle \cup {conn[j]}) = Cardinality(idle) + 1
        BY <4>1, IdleIsFinite, FS_AddElement
      <4> QED  BY <1>1, <3>1, <4>2, IdleIsFinite, PoolAssumption
    <3>2. CASE ~(Cardinality(idle) < PoolSize)
      BY <1>1, <3>2 DEF NoneIsShared
    <3> QED  BY <3>1, <3>2
  <2> QED  BY <2>1, <2>2, <2>3 DEF NoneIsShared
<1>6. LimitsEndWithJobs'
  BY <1>1, <1>2, <1>4, PoolAssumption DEF LimitsEndWithJobs, PoolTypeOK, HasLimit
<1>7. LimitsStayWithQueries'
  BY <1>1, <1>2, <1>4 DEF LimitsStayWithQueries, PoolTypeOK, HasLimit
<1>8. NoneIsDropped'
  <2>1. PoolSize > 0 => idle' # {}
    <3>1. CASE Cardinality(idle) < PoolSize
      BY <1>1, <3>1
    <3>2. CASE ~(Cardinality(idle) < PoolSize)
      <4>1. PoolSize > 0 => Cardinality(idle) # 0
        BY <3>2, IdleIsFinite, PoolAssumption
      <4> QED  BY <1>1, <3>2, <4>1, FS_EmptySet
    <3> QED  BY <3>1, <3>2
  <2> QED  BY <1>3, <2>1 DEF NoneIsDropped
<1> QED  BY <1>3, <1>5, <1>6, <1>7, <1>8

LEMMA RecycleKeeps ==
  ASSUME PoolInv, NEW c \in Conns, Recycle(c)
  PROVE  PoolInv'
<1> USE DEF PoolInv
<1>1. /\ c \in idle /\ c \in limited
      /\ limited' = limited \ {c}
      /\ UNCHANGED <<engine, pc, conn, outcome, idle>>
  BY DEF Recycle
<1>2. PoolTypeOK' /\ NoneIsShared'
  BY <1>1 DEF PoolTypeOK, NoneIsShared, InUse
<1>3. \A j \in Jobs : conn[j] # c
  BY <1>1, PoolAssumption DEF NoneIsShared, InUse, PoolTypeOK
<1>4. LimitsEndWithJobs' /\ LimitsStayWithQueries'
  BY <1>1, <1>3 DEF LimitsEndWithJobs, LimitsStayWithQueries, HasLimit
<1>5. NoneIsDropped'
  BY <1>1, <1>2 DEF NoneIsDropped, InUse
<1> QED  BY <1>2, <1>4, <1>5

LEMMA PoolStep == PoolInv /\ [PoolNext]_poolVars => PoolInv'
<1> SUFFICES ASSUME PoolInv, [PoolNext]_poolVars PROVE PoolInv'
  OBVIOUS
<1>1. ASSUME NEW j \in Jobs, NoConnection(j) \/ Reply(j) \/ TimesOut(j) PROVE PoolInv'
  <2>1. pc[j] # "ended" /\ \E o \in Outcomes : EndsWith(j, o) /\ (o = "rows" => pc[j] = "statement")
    BY <1>1 DEF NoConnection, Reply, TimesOut, Outcomes
  <2> QED  BY <2>1, EndsWithKeeps
<1>2. ASSUME NEW j \in Jobs, Checkout(j) PROVE PoolInv'
  BY <1>2, CheckoutKeeps
<1>3. ASSUME NEW j \in Jobs, SetLimit(j) PROVE PoolInv'
  BY <1>3, SetLimitKeeps
<1>4. ASSUME NEW j \in Jobs, Close(j) PROVE PoolInv'
  BY <1>4, CloseKeeps
<1>5. ASSUME NEW c \in Conns, Recycle(c) PROVE PoolInv'
  BY <1>5, RecycleKeeps
<1>6. CASE UNCHANGED poolVars
  BY <1>6 DEF PoolInv, PoolTypeOK, NoneIsShared, NoneIsDropped, LimitsEndWithJobs,
              LimitsStayWithQueries, InUse, HasLimit, poolVars
<1> QED  BY <1>1, <1>2, <1>3, <1>4, <1>5, <1>6 DEF PoolNext

\* The inductive invariant of the pool holds of every behaviour.
LEMMA PoolInvariance == PoolSpec => []PoolInv
BY PoolInitially, PoolStep, PTL DEF PoolSpec

\* A job holds a connection from its checkout to the end of its block, and the pool is
\* exhausted only by such jobs.
LEMMA HoldersAreRunning ==
  ASSUME PoolTypeOK
  PROVE  NoneIsHeldBack
<1>1. \A j \in Jobs : conn[j] # None <=> pc[j] \in {"limit", "statement", "close"}
  BY DEF PoolTypeOK, Places
<1>2. ASSUME Available = {}, NEW c \in Conns
      PROVE  \E j \in Jobs : conn[j] = c /\ pc[j] # "ended"
  <2>1. c \in InUse
    BY <1>2 DEF Available
  <2>2. PICK j \in Jobs : conn[j] = c /\ conn[j] # None
    BY <2>1 DEF InUse
  <2> QED  BY <1>1, <2>2
<1> QED  BY <1>1, <1>2 DEF NoneIsHeldBack

\* However time limits, cancellations and errors strike, no connection serves two jobs,
\* none stays with a job that is over, and the pool is exhausted only by jobs that are
\* not (execute_query, introspect).
THEOREM ConnectionsStayAccountedFor == PoolSpec => []ConnectionsAreAccountedFor
<1>1. PoolInv => ConnectionsAreAccountedFor
  BY HoldersAreRunning DEF PoolInv, ConnectionsAreAccountedFor
<1> QED  BY PoolInvariance, <1>1, PTL

\* On PostgreSQL and SQLite an introspection never runs under the limit of a query that
\* used its connection before, and on PostgreSQL every query runs under one.
THEOREM LimitsAreLocal == PoolSpec => []LimitsStayWithQueries
<1>1. PoolInv => LimitsStayWithQueries
  BY DEF PoolInv
<1> QED  BY PoolInvariance, <1>1, PTL

----------------------------------------------------------------------------
(* LlmRetry: the model client *)

\* the replies so far, all of them failures that are retried
AllTransient(s) == \A i \in 1..Len(s) : s[i] \in Transient

\* How many requests and pauses there have been at each place: a pause for every
\* failure but the last one the budget allows.
RequestsCounted ==
    /\ retryPc = "ready" =>
          /\ AllTransient(replies)
          /\ Len(replies) = attempt
          /\ attempt <= budget => Len(waits) = attempt
          /\ attempt > budget => \/ attempt = 0 /\ Len(waits) = 0
                                 \/ attempt = budget + 1 /\ Len(waits) = budget
    /\ retryPc = "waiting" =>
          /\ AllTransient(replies)
          /\ attempt <= budget
          /\ Len(replies) = attempt
          /\ Len(waits) = attempt
    /\ retryPc = "sleeping" =>
          /\ AllTransient(replies)
          /\ attempt < budget
          /\ Len(replies) = attempt + 1
          /\ Len(waits) = attempt + 1

RetryInv ==
    /\ budget \in Int
    /\ attempt \in Nat
    /\ retryPc \in {"ready", "waiting", "sleeping", "returned", "raised", "cancelled"}
    /\ replies \in Seq(Replies)
    /\ waits \in Seq({2^k : k \in Nat})
    /\ \A i \in 1..Len(waits) : waits[i] = 2^(i - 1)
    /\ Len(waits) = 0 \/ Len(waits) <= budget
    /\ RequestsCounted
    /\ OutcomeFitsReplies

LEMMA RetryInitially == RetryInit => RetryInv
  BY RetryAssumption, SMTT(20)
     DEF RetryInit, RetryInv, RequestsCounted, AllTransient, OutcomeFitsReplies, BackoffDoubles

\* A failure that is slept on adds the next power of two to the pauses.
LEMMA NextPause ==
  ASSUME NEW ws \in Seq({2^k : k \in Nat}), NEW n \in Nat, Len(ws) = n,
         \A i \in 1..Len(ws) : ws[i] = 2^(i - 1)
  PROVE  /\ Append(ws, 2^n) \in Seq({2^k : k \in Nat})
         /\ Len(Append(ws, 2^n)) = n + 1
         /\ \A i \in 1..(n + 1) : Append(ws, 2^n)[i] = 2^(i - 1)
<1> DEFINE x == 2^n
<1>1. x \in {2^k : k \in Nat}
  OBVIOUS
<1>2. n = (n + 1) - 1
  OBVIOUS
<1>3. x = 2^((n + 1) - 1)
  BY <1>2, Zenon
<1> DEFINE P == {2^k : k \in Nat}
<1>a. ws \in Seq(P) /\ x \in P /\ Len(ws) = n
  BY <1>1
<1> HIDE DEF x, P
<1>4. /\ Append(ws, x) \in Seq(P)
      /\ Len(Append(ws, x)) = n + 1
      /\ \A i \in 1..n : Append(ws, x)[i] = ws[i]
      /\ Append(ws, x)[n + 1] = x
  BY <1>a
<1>5. \A i \in 1..(n + 1) : Append(ws, x)[i] = 2^(i - 1)
  <2> TAKE i \in 1..(n + 1)
  <2>1. CASE i = n + 1
    BY <2>1, <1>3, <1>4
  <2>2. CASE i \in 1..n
    BY <2>2, <1>4
  <2> QED  BY <2>1, <2>2
<1> QED  BY <1>4, <1>5, Zenon DEF x, P

LEMMA RetryStep == RetryInv /\ [RetryNext]_retryVars => RetryInv'
<1> SUFFICES ASSUME RetryInv, [RetryNext]_retryVars PROVE RetryInv'
  OBVIOUS
<1> USE DEF RetryInv
<1>1. CASE Send
  BY <1>1 DEF Send, RequestsCounted, OutcomeFitsReplies, BackoffDoubles
<1>2. CASE GiveUp
  <2>1. replies # <<>> => replies[Len(replies)] \in Transient
    BY <1>2 DEF GiveUp, RequestsCounted, AllTransient
  <2> QED
    BY <1>2, <2>1 DEF GiveUp, RequestsCounted, OutcomeFitsReplies, BackoffDoubles
<1>3. ASSUME NEW r \in Replies, Answered(r) PROVE RetryInv'
  BY <1>3 DEF Answered, RequestsCounted, AllTransient, OutcomeFitsReplies, BackoffDoubles
<1>4. ASSUME NEW r \in Replies, FailedHard(r) PROVE RetryInv'
  BY <1>4 DEF FailedHard, RequestsCounted, AllTransient, OutcomeFitsReplies, BackoffDoubles
<1>5. ASSUME NEW r \in Replies, Failed(r) PROVE RetryInv'
  <2>1. /\ replies' \in Seq(Replies)
        /\ Len(replies') = attempt + 1
        /\ AllTransient(replies')
    BY <1>5 DEF Failed, RequestsCounted, AllTransient
  <2>2. CASE attempt < budget
    <3>1. waits' = Append(waits, 2^attempt) /\ retryPc' = "sleeping" /\ attempt' = attempt
          /\ budget' = budget
      BY <1>5, <2>2 DEF Failed
    <3>2. /\ waits' \in Seq({2^k : k \in Nat})
          /\ Len(waits') = attempt + 1
          /\ \A i \in 1..(attempt + 1) : waits'[i] = 2^(i - 1)
      BY <1>5, <3>1, NextPause DEF Failed, RequestsCounted
    <3>3. RequestsCounted'
      BY <2>1, <2>2, <3>1, <3>2 DEF RequestsCounted
    <3>a. attempt \in Nat /\ budget \in Int
      OBVIOUS
    <3> HIDE DEF RetryInv
    <3>4. BackoffDoubles'
      <4>1. \A i \in 1..Len(waits') : waits'[i] = 2^(i - 1)
        BY <3>2, Zenon
      <4>2. Len(waits') <= budget' /\ retryPc' # "waiting"
        BY <2>2, <3>1, <3>2, <3>a
      <4> QED  BY <4>1, <4>2, Zenon DEF BackoffDoubles
    <3>5. OutcomeFitsReplies'
      <4>1. /\ Len(replies') = attempt + 1 /\ attempt + 1 <= budget'
            /\ \A i \in 1..(Len(replies') - 1) : replies'[i] \in Transient
            /\ retryPc' # "returned" /\ retryPc' # "raised"
        BY <2>1, <2>2, <3>1, <3>a DEF AllTransient
      <4> QED  BY <3>1, <3>4, <3>a, <4>1 DEF OutcomeFitsReplies
    <3> QED
      BY <2>1, <2>2, <3>1, <3>2, <3>3, <3>5, SMTT(30) DEF RetryInv
  <2>3. CASE ~(attempt < budget)
    BY <1>5, <2>1, <2>3, SMTT(30) DEF Failed, RequestsCounted, AllTransient, OutcomeFitsReplies, BackoffDoubles
  <2> QED  BY <2>2, <2>3
<1>6. CASE Wake
  BY <1>6 DEF Wake, RequestsCounted, OutcomeFitsReplies, BackoffDoubles
<1>7. CASE Cancel
  BY <1>7 DEF Cancel, RequestsCounted, OutcomeFitsReplies, BackoffDoubles
<1>8. CASE UNCHANGED retryVars
  BY <1>8 DEF retryVars, RequestsCounted, AllTransient, OutcomeFitsReplies, BackoffDoubles
<1> QED
  BY <1>1, <1>2, <1>3, <1>4, <1>5, <1>6, <1>7, <1>8 DEF RetryNext, Proceeds, Replied

\* Whatever the provider answers and whatever the budget, the requests, the pauses and
\* the outcome of complete fit together.
THEOREM RetriesFitTheirReplies == RetrySpec => []OutcomeFitsReplies
<1>1. RetryInv => OutcomeFitsReplies
  BY DEF RetryInv
<1> QED
  BY RetryInitially, RetryStep, <1>1, PTL DEF RetrySpec

----------------------------------------------------------------------------
(* TrinoStatement: paging through a result *)

\* What is collected, and the page in hand once it is read, are the rows the server has
\* handed out, as long as the statement has not failed.
Gathered ==
    /\ trinoPc = "post" => rows = <<>> /\ sent = 0 /\ server = "queued"
    /\ trinoPc = "read" /\ server # "failed" => rows \o state.data = Between(0, sent)
    /\ trinoPc = "read" /\ state.nextUri => server # "finished" /\ server # "failed"
    /\ trinoPc = "read" /\ server = "finished" => state.columns
    /\ trinoPc = "poll" => server # "finished" /\ server # "failed" /\ rows = Between(0, sent)
    /\ trinoPc = "returned" /\ server = "finished" => rows = Between(0, sent) /\ cols
    /\ server = "finished" => sent = total

TrinoInv ==
    /\ total \in Nat
    /\ sent \in Nat /\ sent <= total
    /\ state \in [data : Seq(Nat), columns : BOOLEAN, nextUri : BOOLEAN]
    /\ trinoPc \in {"post", "read", "poll", "returned", "raised", "timedout"}
    /\ rows \in Seq(Nat)
    /\ Gathered

LEMMA BetweenIsSequence ==
  ASSUME NEW lo \in Nat, NEW hi \in Nat, lo <= hi
  PROVE  /\ Between(lo, hi) \in Seq(Nat)
         /\ Len(Between(lo, hi)) = hi - lo
         /\ \A i \in 1..(hi - lo) : Between(lo, hi)[i] = lo + i
BY DEF Between

\* Pages put one after the other are one longer page.
LEMMA PagesJoin ==
  ASSUME NEW m \in Nat, NEW n \in Nat, m <= n
  PROVE  Between(0, m) \o Between(m, n) = Between(0, n)
<1> DEFINE a == Between(0, m)  b == Between(m, n)  c == Between(0, n)
<1>1. m - 0 = m /\ n - 0 = n /\ \A i \in Nat : 0 + i = i
  OBVIOUS
<1>2. a \in Seq(Nat) /\ Len(a) = m /\ \A i \in 1..m : a[i] = i
  BY <1>1 DEF Between
<1>3. b \in Seq(Nat) /\ Len(b) = n - m /\ \A i \in 1..(n - m) : b[i] = m + i
  BY BetweenIsSequence
<1>4. c \in Seq(Nat) /\ Len(c) = n /\ \A i \in 1..n : c[i] = i
  BY <1>1 DEF Between
<1> HIDE DEF a, b, c
<1>5. a \o b \in Seq(Nat) /\ Len(a \o b) = n
  <2>1. a \o b \in Seq(Nat) /\ Len(a \o b) = Len(a) + Len(b)
    BY <1>2, <1>3, ConcatProperties, Zenon
  <2>2. m + (n - m) = n
    OBVIOUS
  <2> QED  BY <1>2, <1>3, <2>1, <2>2
<1>6. \A i \in 1..n : (a \o b)[i] = i
  BY <1>2, <1>3
<1>7. a \o b = c
  BY <1>4, <1>5, <1>6, SeqEqual
<1> QED  BY <1>7 DEF a, b, c

LEMMA NothingJoins == ASSUME NEW s \in Seq(Nat) PROVE s \o <<>> = s
OBVIOUS

LEMMA TrinoInitially == TrinoInit => TrinoInv
BY TrinoAssumption DEF TrinoInit, TrinoInv, Gathered, Nothing

LEMMA AnswerKeeps ==
  ASSUME TrinoInv, trinoPc \in {"post", "poll"}, ServerAnswers, trinoPc' = "read",
         UNCHANGED <<total, rows, cols>>
  PROVE  TrinoInv'
<1>1. server # "failed" /\ server # "finished" /\ rows = Between(0, sent)
  BY DEF TrinoInv, Gathered, Between
<1>2. CASE UNCHANGED <<server, sent>>
           /\ state' = [Nothing EXCEPT !.nextUri = TRUE, !.columns = (server = "running")]
  <2>1. rows \o state'.data = rows
    BY <1>2, NothingJoins DEF TrinoInv, Nothing
  <2>2. /\ state' \in [data : Seq(Nat), columns : BOOLEAN, nextUri : BOOLEAN]
        /\ rows \o state'.data = Between(0, sent)
    <3>1. state' = [data |-> <<>>, columns |-> (server = "running"), nextUri |-> TRUE]
      BY <1>2 DEF Nothing
    <3>2. <<>> \in Seq(Nat) /\ (server = "running") \in BOOLEAN
      OBVIOUS
    <3> QED  BY <1>1, <2>1, <3>1, <3>2
  <2> QED  BY <1>1, <1>2, <2>2 DEF TrinoInv, Gathered
<1>3. ASSUME NEW n \in sent..total, NEW last \in BOOLEAN,
             sent' = n, last => n = total,
             server' = IF last THEN "finished" ELSE "running",
             state' = [data |-> Between(sent, n), columns |-> TRUE, nextUri |-> ~last]
      PROVE  TrinoInv'
  <2>1. n \in Nat /\ sent \in Nat /\ sent <= n /\ n <= total /\ total \in Nat
    BY <1>3 DEF TrinoInv
  <2>2. rows \o state'.data = Between(0, n)
    BY <1>1, <1>3, <2>1, PagesJoin
  <2>3. state'.data \in Seq(Nat) /\ state' \in [data : Seq(Nat), columns : BOOLEAN, nextUri : BOOLEAN]
    BY <1>3, <2>1, BetweenIsSequence
  <2>4. /\ server' # "failed"
        /\ server' = "finished" => sent' = total
        /\ state'.nextUri => server' # "finished"
        /\ state'.columns
    BY <1>3
  <2> QED  BY <1>3, <2>1, <2>2, <2>3, <2>4 DEF TrinoInv, Gathered
<1>4. CASE server' = "failed" /\ state' = Nothing /\ UNCHANGED sent
  BY <1>4 DEF TrinoInv, Gathered, Nothing
<1> QED  BY <1>2, <1>3, <1>4 DEF ServerAnswers

LEMMA TrinoStep == TrinoInv /\ [TrinoNext]_trinoVars => TrinoInv'
<1> SUFFICES ASSUME TrinoInv, [TrinoNext]_trinoVars PROVE TrinoInv'
  OBVIOUS
<1>1. ASSUME NEW from \in {"post", "poll"}, Ask(from) PROVE TrinoInv'
  <2>1. CASE ServerAnswers /\ trinoPc' = "read"
    BY <1>1, <2>1, AnswerKeeps DEF Ask
  <2>2. CASE trinoPc' = "raised" /\ UNCHANGED <<server, sent, state>>
    BY <1>1, <2>2 DEF Ask, TrinoInv, Gathered
  <2> QED  BY <1>1, <2>1, <2>2 DEF Ask
<1>2. CASE Read
  <2>1. rows' \in Seq(Nat) /\ rows' = rows \o state.data
    BY <1>2 DEF Read, TrinoInv
  <2> QED  BY <1>2, <2>1 DEF Read, TrinoInv, Gathered
<1>3. CASE LimitStrikes
  BY <1>3 DEF LimitStrikes, TrinoInv, Gathered
<1>4. CASE UNCHANGED trinoVars
  BY <1>4 DEF trinoVars, TrinoInv, Gathered
<1> QED  BY <1>1, <1>2, <1>3, <1>4 DEF TrinoNext

\* However the server cuts a result into pages and whenever it makes the client wait,
\* _query returns every row of a finished statement once and in order.
THEOREM PagesAreTheResult == TrinoSpec => []ResultIsWhole
<1>1. TrinoInv => ResultIsWhole
  BY DEF TrinoInv, Gathered, ResultIsWhole
<1> QED  BY TrinoInitially, TrinoStep, <1>1, PTL DEF TrinoSpec

----------------------------------------------------------------------------
(* Introspection: a database that changes while it is read *)

\* Every constraint names the columns it refers to.
TargetsAreNamed == \A s \in Shapes : \A k \in s.fks : \A i \in DOMAIN k.to : k.to[i][2] # None

Assembling == readPc \in {"sampling", "done"}

\* the statement that asks for part of table t has been answered
Told(part, t) ==
    \/ Assembling /\ t \in names
    \/ readPc = "reading" /\ dialect \in Bulk /\ <<part, 0>> \notin todo
    \/ readPc = "reading" /\ dialect \notin Bulk /\ t \in names /\ <<part, t>> \notin todo

\* what the answers have to say of table t as it is now
ColumnsMatch(t) ==
    /\ IsRestriction(columns[t], Now(t).cols)
    /\ ~ShowsParts => columns[t] = Now(t).cols
    /\ dialect \in {"mysql", "sqlite"} => pks[t] = Now(t).pk

FksMatch(t) ==
    /\ ShowsReferences => DOMAIN fks[t] = Referring(Now(t))
    /\ dialect \in {"mysql", "sqlite"} =>
          \A c \in DOMAIN fks[t] : \E to \in Targets(Now(t), c) :
             fks[t][c][1] = to[1] /\ fks[t][c][2] = to[2]

\* What has been read of a table that nobody changed is what there is.
ExactSoFar(t) ==
    /\ t \in names => db[t] # None
    /\ Assembling \/ (readPc = "reading" /\ <<"names", 0>> \notin todo) =>
          (dialect # "trino" /\ db[t] # None => t \in names)
    /\ Told("columns", t) => ColumnsMatch(t)
    /\ dialect \in SQL /\ Told("fks", t) => FksMatch(t)
    /\ dialect \in {"mysql", "sqlite", "mongodb"} /\ Told("counts", t) /\ db[t] # None => t \in counts
    /\ dialect = "opensearch" /\ t \in names => t \in counts

\* A column with values to show has them or is still to be asked for them.
SampledSoFar(t) ==
    dialect = "sqlite" /\ Assembling /\ t \in names =>
       \A c \in Categorical(t) :
          columns[t][c] # "blank" =>
             <<t, c>> \in DOMAIN samples \cup refused \/ (readPc = "sampling" /\ <<c, t>> \in todo)

\* What is asked, and of which tables.
TodoFits ==
    /\ readPc = "reading" /\ <<"names", 0>> \in todo => names = {}
    /\ readPc = "reading" =>
          todo \subseteq {<<"names", 0>>} \cup (Asked \X (IF dialect \in Bulk THEN {0} ELSE names))
    /\ readPc = "sampling" => \A s \in todo : \E t \in names : \E c \in Categorical(t) : s = <<c, t>>

\* The columns of a table are those it had at one moment, or none.
OfOneMoment(t) ==
    \E s \in past[t] \cup {None} :
       IF s = None THEN columns[t] = Empty ELSE IsRestriction(columns[t], s.cols)

ReadInv ==
    /\ dialect \in Dialects
    /\ readPc \in {"reading", "sampling", "done", "failed"}
    /\ db \in [Tables -> Shapes \cup {None}]
    /\ names \subseteq Tables
    /\ DOMAIN past = Tables /\ DOMAIN columns = Tables /\ DOMAIN pks = Tables /\ DOMAIN fks = Tables
    /\ \A t \in Tables : db[t] \in past[t] /\ OfOneMoment(t)
    /\ TodoFits
    /\ Assembling => \A t \in Tables : DOMAIN fks[t] \subseteq DOMAIN columns[t]
    /\ TargetsAreNamed => \A t \in Tables : Untouched(t) => ExactSoFar(t) /\ SampledSoFar(t)

\* What a question about a table is answered from: its shape, or nothing.
LEMMA TablesAreShapes ==
  ASSUME ReadInv, NEW t \in Tables
  PROVE  /\ Now(t) \in Shapes \cup {Nowhere}
         /\ db[t] # None => Now(t) = db[t] /\ Now(t) \in Shapes
         /\ Now(t).cols = [c \in DOMAIN Now(t).cols |-> Now(t).cols[c]]
         /\ Referring(Now(t)) \subseteq DOMAIN Now(t).cols
<1>1. Now(t) \in Shapes \cup {Nowhere} /\ (db[t] # None => Now(t) = db[t] /\ Now(t) \in Shapes)
  BY DEF ReadInv, Now
<1>2. ASSUME NEW s \in Shapes PROVE s.cols = [c \in DOMAIN s.cols |-> s.cols[c]] /\ Referring(s) \subseteq DOMAIN s.cols
  <2>1. s.cols \in [DOMAIN s.cols -> Kinds] /\ \A k \in s.fks : Range(k.from) \subseteq DOMAIN s.cols
    BY IntrospectionAssumption
  <2> QED  BY <2>1 DEF Referring
<1>3. Nowhere.cols = [c \in DOMAIN Nowhere.cols |-> Nowhere.cols[c]] /\ Referring(Nowhere) \subseteq DOMAIN Nowhere.cols
  BY DEF Nowhere, Empty, Referring
<1> QED  BY <1>1, <1>2, <1>3

LEMMA NamesItsColumn ==
  ASSUME TargetsAreNamed, NEW s \in Shapes, NEW c, NEW to \in Targets(s, c)
  PROVE  to[2] # None
<1>1. PICK k \in s.fks : to \in {k.to[i] : i \in {j \in DOMAIN k.to : k.from[j] = c}}
  BY DEF Targets
<1>2. PICK i \in DOMAIN k.to : to = k.to[i]
  BY <1>1
<1> QED  BY <1>2 DEF TargetsAreNamed

\* Where all references can be told, a table shows those on its own columns.
LEMMA ReferencesShown ==
  ASSUME ReadInv, dialect \in SQL, ShowsReferences, NEW t \in Tables
  PROVE  {c \in UNION {Referring(Now(u)) : u \in Tables} : ShownTargets(t, c) # {}} = Referring(Now(t))
<1>1. ASSUME NEW u \in Tables, NEW k \in Now(u).fks
      PROVE  db[u] # None /\ db[u] = Now(u) /\ db[u] \in past[u] /\ Now(u) \in Shapes
  <2>1. Nowhere.fks = {}
    BY DEF Nowhere
  <2> QED  BY <1>1, <2>1, TablesAreShapes DEF Now, ReadInv
<1>2. ASSUME NEW k \in Now(t).fks
      PROVE  DOMAIN k.from = DOMAIN k.to /\ \A i \in DOMAIN k.to : k.to[i][1] \in Tables
  BY <1>1, <1>2, IntrospectionAssumption
<1>3. ASSUME NEW c \in Referring(Now(t)) PROVE ShownTargets(t, c) # {}
  <2>1. PICK k \in Now(t).fks : c \in Range(k.from)
    BY <1>3 DEF Referring
  <2>2. PICK i \in DOMAIN k.from : k.from[i] = c
    BY <2>1 DEF Range
  <2>3. i \in DOMAIN k.to /\ k.to[i][1] \in Tables
    BY <1>2, <2>2
  <2>4. k.to[i] \in Targets(Now(t), c)
    BY <2>2, <2>3 DEF Targets
  <2>5. CASE dialect = "mysql"
    BY <2>4, <2>5 DEF ShownTargets, _fks_mysql
  <2>6. CASE dialect = "sqlite"
    BY <2>4, <2>6 DEF ShownTargets, _fks_sqlite
  <2>7. CASE dialect = "postgresql"
    <3>1. k \in Namesakes(t)
      BY DEF Namesakes
    <3>2. site.owned = Tables
      BY <2>7 DEF ShowsReferences
    <3>3. k.to[i] \in Range(k.to)
      BY <2>3 DEF Range
    <3>4. k.to[i] \in _fks_pg(t, c)
      BY <2>1, <2>3, <3>1, <3>2, <3>3 DEF _fks_pg
    <3> QED  BY <2>7, <3>4 DEF ShownTargets
  <2> QED  BY <2>5, <2>6, <2>7 DEF SQL
<1>4. ASSUME NEW c, ShownTargets(t, c) # {} PROVE c \in Referring(Now(t))
  <2>1. ASSUME NEW to \in Targets(Now(t), c) PROVE c \in Referring(Now(t))
    <3>1. PICK k \in Now(t).fks : \E i \in DOMAIN k.to : k.from[i] = c
      BY <2>1 DEF Targets
    <3>2. c \in Range(k.from)
      BY <1>2, <3>1 DEF Range
    <3> QED  BY <3>2 DEF Referring
  <2>2. CASE dialect = "mysql"
    BY <1>4, <2>1, <2>2 DEF ShownTargets, _fks_mysql
  <2>3. CASE dialect = "sqlite"
    <3>1. \E to \in Targets(Now(t), c) : TRUE
      BY <1>4, <2>3 DEF ShownTargets, _fks_sqlite
    <3> QED  BY <2>1, <3>1
  <2>4. CASE dialect = "postgresql"
    <3>1. _fks_pg(t, c) # {} /\ ConstraintsAreNamedApart
      BY <1>4, <2>4 DEF ShownTargets, ShowsReferences
    <3>2. PICK m \in Namesakes(t) : c \in Range(m.from)
      BY <3>1 DEF _fks_pg
    <3>3. PICK u \in Tables : m \in Now(u).fks /\ \E mine \in Now(t).fks : mine.name = m.name
      BY <3>2 DEF Namesakes
    <3>4. t = u
      <4>1. PICK mine \in Now(t).fks : mine.name = m.name
        BY <3>3
      <4>2. db[u] \in past[u] \ {None} /\ m \in db[u].fks
        BY <1>1, <3>3
      <4>3. db[t] \in past[t] \ {None} /\ mine \in db[t].fks
        BY <1>1, <4>1
      <4> QED  BY <3>1, <4>1, <4>2, <4>3 DEF ConstraintsAreNamedApart
    <3> QED  BY <3>2, <3>3, <3>4 DEF Referring
  <2> QED  BY <2>2, <2>3, <2>4 DEF SQL
<1> QED  BY <1>3, <1>4

\* MongoDB and Trino show some of the columns, the others all.
LEMMA ColumnsShown ==
  ASSUME ReadInv, NEW t \in Tables, NEW part \in ShownColumns(t)
  PROVE  /\ IsRestriction(part, Now(t).cols)
         /\ ~ShowsParts => part = Now(t).cols
<1>1. PICK keys \in SUBSET DOMAIN Now(t).cols :
         part = Restrict(Now(t).cols, keys) /\ (~ShowsParts => keys = DOMAIN Now(t).cols)
  BY DEF ShownColumns
<1>2. Now(t).cols = [c \in DOMAIN Now(t).cols |-> Now(t).cols[c]]
  BY TablesAreShapes
<1> QED  BY <1>1, <1>2 DEF IsRestriction, Restrict

\* A statement asks for a part of all tables, or of one of those listed.
LEMMA ScopeIs ==
  ASSUME ReadInv, readPc = "reading", NEW s \in todo
  PROVE  /\ s = <<s[1], s[2]>>
         /\ s[1] = "names" \/ s[1] \in Asked
         /\ s[1] = "names" => s = <<"names", 0>>
         /\ s[1] # "names" /\ dialect \in Bulk => s[2] = 0 /\ Scope(s[2]) = Tables
         /\ s[1] # "names" /\ dialect \notin Bulk =>
               s[2] \in names /\ s[2] \in Tables /\ s[2] # 0 /\ Scope(s[2]) = {s[2]}
<1>1. s = <<"names", 0>> \/ s \in Asked \X (IF dialect \in Bulk THEN {0} ELSE names)
  BY DEF ReadInv, TodoFits
<1>2. "names" \notin Asked
  BY DEF Asked
<1>3. names \subseteq Tables /\ 0 \notin Tables
  BY IntrospectionAssumption DEF ReadInv
<1> QED  BY <1>1, <1>2, <1>3 DEF Scope

\* What is answered when one more statement has run.
LEMMA ToldThen ==
  ASSUME ReadInv, readPc = "reading", NEW s \in todo, s[1] # "names", todo' = todo \ {s},
         UNCHANGED <<dialect, readPc, names>>
  PROVE  \A part, t : t \in Tables /\ Told(part, t)' =>
            Told(part, t) \/ (part = s[1] /\ t \in Scope(s[2]))
BY ScopeIs DEF Told, Assembling

\* What is left to show of a statement that has run.
LEMMA ReadKeeps ==
  ASSUME ReadInv, readPc = "reading", UNCHANGED <<dialect, site, db, past, readPc>>,
         names' \subseteq Tables,
         DOMAIN columns' = Tables, DOMAIN pks' = Tables, DOMAIN fks' = Tables,
         TodoFits', \A t \in Tables : OfOneMoment(t)',
         TargetsAreNamed => \A t \in Tables : Untouched(t) => ExactSoFar(t)'
  PROVE  ReadInv'
<1>1. ~Assembling' /\ readPc' = "reading"
  BY DEF Assembling
<1>2. \A t \in Tables : SampledSoFar(t)'
  BY <1>1 DEF SampledSoFar
<1> QED  BY <1>1, <1>2 DEF ReadInv, Untouched

LEMMA TodoShrinks ==
  ASSUME ReadInv, readPc = "reading", NEW s, todo' = todo \ {s}, UNCHANGED <<dialect, readPc, names>>
  PROVE  TodoFits'
BY DEF ReadInv, TodoFits, Asked

LEMMA ReadNamesKeeps ==
  ASSUME ReadInv, readPc = "reading", <<"names", 0>> \in todo, ReadNames,
         UNCHANGED <<dialect, site, db, past, readPc>>
  PROVE  ReadInv'
<1>1. /\ names' \subseteq Real /\ Real \subseteq Tables /\ names = {}
      /\ dialect # "trino" => names' = Real
      /\ UNCHANGED <<columns, pks, fks>>
      /\ \A t \in Tables : t \in Real <=> db[t] # None
  BY DEF ReadNames, ShownNames, Real, ReadInv, TodoFits
<1>2. todo' = (todo \ {<<"names", 0>>}) \cup (IF dialect \in Bulk THEN {} ELSE Asked \X names')
  BY DEF ReadNames
<1>3. <<"names", 0>> \notin todo'
  BY <1>2 DEF Asked
<1>4. TodoFits'
  <2>1. todo \subseteq {<<"names", 0>>} \cup (Asked \X (IF dialect \in Bulk THEN {0} ELSE {}))
    BY <1>1 DEF ReadInv, TodoFits
  <2>2. Asked' = Asked
    BY DEF Asked
  <2> QED  BY <1>1, <1>2, <1>3, <2>1, <2>2 DEF TodoFits
<1>5. ASSUME NEW part \in Asked, NEW t \in Tables, Told(part, t)' PROVE Told(part, t)
  <2>1. part # "names" /\ readPc' = "reading" /\ ~Assembling'
    BY DEF Asked, Assembling
  <2>2. CASE dialect \in Bulk
    <3>1. <<part, 0>> \notin todo' /\ <<part, 0>> # <<"names", 0>>
      BY <1>5, <2>1, <2>2 DEF Told
    <3>2. <<part, 0>> \notin todo
      BY <1>2, <3>1
    <3> QED  BY <2>2, <3>2 DEF Told
  <2>3. CASE dialect \notin Bulk
    <3>1. t \in names' /\ <<part, t>> \notin todo'
      BY <1>1, <1>5, <2>1, <2>3 DEF Told
    <3> QED  BY <1>2, <2>3, <3>1
  <2> QED  BY <2>2, <2>3
<1>6. ASSUME NEW t \in Tables, ExactSoFar(t) PROVE ExactSoFar(t)'
  <2>1. (t \in names' => db'[t] # None) /\ (dialect' # "trino" /\ db'[t] # None => t \in names')
    BY <1>1
  <2>2. Told("columns", t)' => ColumnsMatch(t)'
    BY <1>1, <1>5, <1>6 DEF Asked, ExactSoFar, ColumnsMatch, ShowsParts, Now
  <2>3. dialect' \in SQL /\ Told("fks", t)' => FksMatch(t)'
    BY <1>1, <1>5, <1>6 DEF Asked, ExactSoFar, FksMatch, ShowsReferences, ConstraintsAreNamedApart, Now, SQL
  <2>4. dialect' \in {"mysql", "sqlite", "mongodb"} /\ Told("counts", t)' /\ db'[t] # None => t \in counts'
    BY <1>1, <1>5, <1>6 DEF Asked, ExactSoFar, SQL, ReadNames
  <2>5. dialect' = "opensearch" /\ t \in names' => t \in counts'
    BY <1>1 DEF ReadNames
  <2> QED  BY <2>1, <2>2, <2>3, <2>4, <2>5 DEF ExactSoFar
<1>7. \A t \in Tables : OfOneMoment(t)'
  BY <1>1 DEF ReadInv, OfOneMoment
<1> QED  BY <1>1, <1>4, <1>6, <1>7, ReadKeeps DEF ReadInv

LEMMA ReadColumnsKeeps ==
  ASSUME ReadInv, readPc = "reading", NEW s \in todo, s[1] = "columns", ReadColumns(s[2]),
         UNCHANGED <<dialect, site, db, past, readPc>>
  PROVE  ReadInv'
<1> DEFINE S == Scope(s[2])
<1>1. S \subseteq Tables
  BY ScopeIs
<1>2. PICK f \in AnswersTo(S, ShownColumns) : columns' = Updated(columns, f)
  BY DEF ReadColumns
<1>3. DOMAIN f = S /\ \A t \in S : f[t] \in ShownColumns(t)
  BY <1>2 DEF AnswersTo
<1>4. /\ DOMAIN columns' = Tables
      /\ \A t \in Tables : columns'[t] = IF t \in S THEN f[t] ELSE columns[t]
  BY <1>2, <1>3 DEF Updated, ReadInv
<1>5. /\ DOMAIN pks' = Tables
      /\ \A t \in Tables : pks'[t] = IF t \in S THEN ShownKey(t) ELSE pks[t]
  BY DEF ReadColumns, Updated, ReadInv
<1>6. todo' = todo \ {s} /\ UNCHANGED <<names, fks, counts>>
  BY ScopeIs DEF ReadColumns
<1> HIDE DEF S
<1>7. ASSUME NEW t \in Tables PROVE OfOneMoment(t)'
  <2>1. CASE t \notin S
    BY <1>4, <2>1 DEF ReadInv, OfOneMoment
  <2>2. CASE t \in S
    <3>1. IsRestriction(columns'[t], Now(t).cols)
      BY <1>3, <1>4, <2>2, ColumnsShown
    <3>2. CASE db[t] # None
      BY <3>1, <3>2 DEF ReadInv, OfOneMoment, Now
    <3>3. CASE db[t] = None
      <4>1. columns'[t] = Empty
        <5>1. f[t] \in ShownColumns(t) /\ Now(t).cols = Empty /\ DOMAIN Empty = {}
          BY <1>3, <2>2, <3>3 DEF Now, Nowhere, Empty
        <5>2. f[t] = Restrict(Empty, {})
          BY <5>1 DEF ShownColumns
        <5> QED  BY <1>4, <2>2, <5>2 DEF Restrict, Empty
      <4> QED  BY <4>1 DEF OfOneMoment
    <3> QED  BY <3>2, <3>3
  <2> QED  BY <2>1, <2>2
<1>8. ASSUME NEW t \in Tables, ExactSoFar(t) PROVE ExactSoFar(t)'
  <2>0. \A part : Told(part, t)' => Told(part, t) \/ (part = "columns" /\ t \in S)
    BY <1>6, ToldThen, ScopeIs DEF S
  <2>1. Told("columns", t)' => ColumnsMatch(t)'
    <3>1. CASE t \in S
      <4>1. IsRestriction(columns'[t], Now(t).cols) /\ (~ShowsParts => columns'[t] = Now(t).cols)
        BY <1>3, <1>4, <3>1, ColumnsShown
      <4>2. dialect \in {"mysql", "sqlite"} => pks'[t] = Now(t).pk
        BY <1>5, <3>1 DEF ShownKey
      <4> QED  BY <4>1, <4>2 DEF ColumnsMatch, ShowsParts, Now
    <3>2. CASE t \notin S
      BY <1>4, <1>5, <1>8, <2>0, <3>2 DEF ExactSoFar, ColumnsMatch, ShowsParts, Now
    <3> QED  BY <3>1, <3>2
  <2>2. ("columns" # "fks") /\ ("columns" # "counts") /\ (<<"names", 0>> \in todo <=> <<"names", 0>> \in todo')
    BY <1>6, ScopeIs
  <2> QED  BY <1>6, <1>8, <2>0, <2>1, <2>2 DEF ExactSoFar, FksMatch, ShowsReferences, ConstraintsAreNamedApart, Now, Assembling
<1> QED  BY <1>4, <1>5, <1>6, <1>7, <1>8, TodoShrinks, ReadKeeps DEF ReadInv

LEMMA ReadFksKeeps ==
  ASSUME ReadInv, readPc = "reading", NEW s \in todo, s[1] = "fks", ReadFks(s[2]),
         UNCHANGED <<dialect, site, db, past, readPc>>
  PROVE  ReadInv'
<1> DEFINE S == Scope(s[2])
<1>1. S \subseteq Tables /\ dialect \in SQL
  BY ScopeIs DEF Asked, SQL
<1>2. PICK f \in AnswersTo(S, ShownFks) : fks' = Updated(fks, f)
  BY DEF ReadFks
<1>3. DOMAIN f = S /\ \A t \in S : f[t] \in ShownFks(t)
  BY <1>2 DEF AnswersTo
<1>4. /\ DOMAIN fks' = Tables
      /\ \A t \in Tables : fks'[t] = IF t \in S THEN f[t] ELSE fks[t]
  BY <1>2, <1>3 DEF Updated, ReadInv
<1>5. todo' = todo \ {s} /\ UNCHANGED <<names, columns, pks, counts>>
  BY ScopeIs DEF ReadFks
<1> HIDE DEF S
<1>6. \A t \in Tables : OfOneMoment(t)'
  BY <1>5 DEF ReadInv, OfOneMoment
<1>7. ASSUME TargetsAreNamed, NEW t \in S
      PROVE  /\ ShowsReferences => DOMAIN f[t] = Referring(Now(t))
             /\ dialect \in {"mysql", "sqlite"} =>
                   \A c \in DOMAIN f[t] : \E to \in Targets(Now(t), c) :
                      f[t][c][1] = to[1] /\ f[t][c][2] = to[2]
  <2>1. f[t] \in ShownFks(t) /\ t \in Tables
    BY <1>1, <1>3
  <2>2. /\ DOMAIN f[t] = {c \in UNION {Referring(Now(u)) : u \in Tables} : ShownTargets(t, c) # {}}
        /\ \A c \in DOMAIN f[t] : f[t][c] \in ShownTargets(t, c)
    BY <2>1 DEF ShownFks, AnswersTo
  <2>3. ASSUME dialect \in {"mysql", "sqlite"}, NEW c \in DOMAIN f[t]
        PROVE  \E to \in Targets(Now(t), c) : f[t][c][1] = to[1] /\ f[t][c][2] = to[2]
    <3>1. CASE dialect = "mysql"
      BY <2>2, <3>1 DEF ShownTargets, _fks_mysql
    <3>2. CASE dialect = "sqlite"
      <4>1. PICK to \in Targets(Now(t), c) : f[t][c] = <<to[1], IF to[2] = None THEN "id" ELSE to[2]>>
        BY <2>2, <3>2 DEF ShownTargets, _fks_sqlite
      <4>2. to[2] # None
        <5>1. \E k \in Now(t).fks : TRUE
          BY <4>1 DEF Targets
        <5>2. Nowhere.fks = {}
          BY DEF Nowhere
        <5>3. Now(t) \in Shapes \cup {Nowhere}
          BY <2>1, TablesAreShapes
        <5>4. Now(t) \in Shapes
          BY <5>1, <5>2, <5>3
        <5> QED  BY <1>7, <5>4, NamesItsColumn
      <4> QED  BY <4>1, <4>2
    <3> QED  BY <2>3, <3>1, <3>2
  <2> QED  BY <1>1, <2>1, <2>2, <2>3, ReferencesShown
<1>8. ASSUME TargetsAreNamed, NEW t \in Tables, ExactSoFar(t) PROVE ExactSoFar(t)'
  <2>0. \A part : Told(part, t)' => Told(part, t) \/ (part = "fks" /\ t \in S)
    BY <1>5, ToldThen, ScopeIs DEF S
  <2>1. Told("fks", t)' => FksMatch(t)'
    <3>1. CASE t \in S
      BY <1>4, <1>7, <1>8, <3>1 DEF FksMatch, ShowsReferences, ConstraintsAreNamedApart, Now
    <3>2. CASE t \notin S
      BY <1>1, <1>4, <1>8, <2>0, <3>2 DEF ExactSoFar, FksMatch, ShowsReferences, ConstraintsAreNamedApart, Now
    <3> QED  BY <3>1, <3>2
  <2>2. ("fks" # "columns") /\ ("fks" # "counts") /\ (<<"names", 0>> \in todo <=> <<"names", 0>> \in todo')
    BY <1>5, ScopeIs
  <2> QED  BY <1>5, <1>8, <2>0, <2>1, <2>2 DEF ExactSoFar, ColumnsMatch, ShowsParts, Now, Assembling
<1> QED  BY <1>4, <1>5, <1>6, <1>8, TodoShrinks, ReadKeeps DEF ReadInv

LEMMA ReadCountsKeeps ==
  ASSUME ReadInv, readPc = "reading", NEW s \in todo, s[1] = "counts", ReadCounts(s[2]),
         UNCHANGED <<dialect, site, db, past, readPc>>
  PROVE  ReadInv'
<1> DEFINE S == Scope(s[2])
<1>1. todo' = todo \ {s} /\ UNCHANGED <<names, columns, pks, fks>>
  BY ScopeIs DEF ReadCounts
<1>2. dialect # "opensearch"
  BY ScopeIs DEF Asked, SQL
<1>3. ASSUME NEW t \in Tables, db[t] # None, dialect \in {"mysql", "sqlite", "mongodb"}, t \in counts \/ t \in S
      PROVE  t \in counts'
  <2>1. CASE dialect = "mysql"
    BY <1>3, <2>1 DEF ReadCounts, _row_counts_mysql, Real
  <2>2. CASE dialect \in {"sqlite", "mongodb"}
    <3>1. S = {s[2]}
      BY <2>2, ScopeIs DEF Bulk
    <3>2. counts' = counts \cup {s[2]}
      BY <2>2 DEF ReadCounts, _row_counts_sqlite
    <3> QED  BY <1>3, <3>1, <3>2
  <2> QED  BY <1>3, <2>1, <2>2
<1>4. \A t \in Tables : OfOneMoment(t)'
  BY <1>1 DEF ReadInv, OfOneMoment
<1> HIDE DEF S
<1>5. ASSUME NEW t \in Tables, ExactSoFar(t) PROVE ExactSoFar(t)'
  <2>0. \A part : Told(part, t)' => Told(part, t) \/ (part = "counts" /\ t \in S)
    BY <1>1, ToldThen, ScopeIs DEF S
  <2>1. dialect \in {"mysql", "sqlite", "mongodb"} /\ Told("counts", t)' /\ db[t] # None => t \in counts'
    BY <1>3, <1>5, <2>0 DEF ExactSoFar
  <2>2. ("counts" # "columns") /\ ("counts" # "fks") /\ (<<"names", 0>> \in todo <=> <<"names", 0>> \in todo')
    BY <1>1, ScopeIs
  <2> QED  BY <1>1, <1>2, <1>5, <2>0, <2>1, <2>2 DEF ExactSoFar, ColumnsMatch, ShowsParts, FksMatch, ShowsReferences, ConstraintsAreNamedApart, Now, Assembling
<1> QED  BY <1>1, <1>4, <1>5, TodoShrinks, ReadKeeps DEF ReadInv

LEMMA StatementKeeps == ASSUME ReadInv, Statement PROVE ReadInv'
<1>1. /\ readPc = "reading" /\ UNCHANGED <<dialect, site, db, past, ddl, samples, aborted>>
  BY DEF Statement
<1>2. PICK s \in todo :
         \/ /\ \/ s[1] = "names" /\ ReadNames
               \/ s[1] = "columns" /\ ReadColumns(s[2])
               \/ s[1] = "fks" /\ ReadFks(s[2])
               \/ s[1] = "counts" /\ ReadCounts(s[2])
            /\ UNCHANGED readPc
         \/ readPc' = "failed" /\ UNCHANGED <<todo, answers>>
  BY DEF Statement
<1>3. CASE readPc' = "failed" /\ UNCHANGED <<todo, answers>>
  <2>1. readPc' = "failed" /\ UNCHANGED <<todo, names, columns, pks, fks, counts>>
    BY <1>3 DEF answers
  <2>3. ~Assembling' /\ \A part, t : ~Told(part, t)'
    BY <2>1 DEF Told, Assembling
  <2>4. \A t \in Tables : ExactSoFar(t) => ExactSoFar(t)' /\ SampledSoFar(t)'
    BY <1>1, <2>1, <2>3 DEF ExactSoFar, SampledSoFar
  <2>5. TodoFits' /\ \A t \in Tables : OfOneMoment(t)'
    BY <1>1, <2>1 DEF TodoFits, OfOneMoment, ReadInv
  <2> QED  BY <1>1, <2>1, <2>3, <2>4, <2>5 DEF ReadInv, Untouched
<1>4. CASE UNCHANGED readPc
  <2>1. UNCHANGED <<dialect, site, db, past, readPc>>
    BY <1>1, <1>4
  <2>2. CASE s[1] = "names" /\ ReadNames
    BY <1>1, <2>1, <2>2, ScopeIs, ReadNamesKeeps
  <2>3. CASE s[1] = "columns" /\ ReadColumns(s[2])
    BY <1>1, <2>1, <2>3, ReadColumnsKeeps
  <2>4. CASE s[1] = "fks" /\ ReadFks(s[2])
    BY <1>1, <2>1, <2>4, ReadFksKeeps
  <2>5. CASE s[1] = "counts" /\ ReadCounts(s[2])
    BY <1>1, <2>1, <2>5, ReadCountsKeeps
  <2> QED  BY <1>1, <1>2, <1>4, <2>2, <2>3, <2>4, <2>5
<1> QED  BY <1>2, <1>3, <1>4

LEMMA AssembledKeeps == ASSUME ReadInv, Assembled PROVE ReadInv'
<1>1. /\ readPc = "reading" /\ todo = {}
      /\ readPc' = IF dialect \in SQL THEN "sampling" ELSE "done"
      /\ todo' = IF dialect \in SQL THEN UNION {Categorical(t) \X {t} : t \in names} ELSE {}
      /\ fks' = [t \in Tables |-> _apply_fks(t)]
      /\ UNCHANGED <<dialect, site, db, past, names, columns, pks, counts>>
  BY DEF Assembled
<1>2. \A t \in Tables : /\ DOMAIN fks'[t] = DOMAIN fks[t] \cap DOMAIN columns[t]
                        /\ \A c \in DOMAIN fks'[t] : fks'[t][c] = fks[t][c]
  BY <1>1 DEF _apply_fks, Restrict
<1>3. readPc' \in {"sampling", "done"} /\ (readPc' = "sampling" => dialect \in SQL)
  BY <1>1
<1>4. TodoFits'
  <2>1. \A t \in names : Categorical(t)' = Categorical(t)
    BY <1>1 DEF Categorical
  <2> QED  BY <1>1, <1>3, <2>1 DEF TodoFits
<1>5. \A part, t : t \in Tables /\ Told(part, t)' => Told(part, t)
  BY <1>1, <1>3 DEF Told, Assembling
<1>6. ASSUME NEW t \in Tables, ExactSoFar(t) PROVE ExactSoFar(t)'
  <2>1. (t \in names' => db'[t] # None) /\ (dialect' # "trino" /\ db'[t] # None => t \in names')
    BY <1>1, <1>6 DEF ExactSoFar
  <2>2. Told("columns", t)' => ColumnsMatch(t)'
    BY <1>1, <1>5, <1>6 DEF ExactSoFar, ColumnsMatch, ShowsParts, Now
  <2>3. dialect' \in SQL /\ Told("fks", t)' => FksMatch(t)'
    <3> SUFFICES ASSUME dialect \in SQL, Told("fks", t)' PROVE FksMatch(t)'
      BY <1>1
    <3>1. t \in names /\ Told("columns", t)
      BY <1>1, <1>3 DEF Told, Assembling
    <3>2. columns[t] = Now(t).cols /\ FksMatch(t)
      BY <1>5, <1>6, <3>1 DEF ExactSoFar, ColumnsMatch, ShowsParts, SQL
    <3>3. /\ ShowsReferences => DOMAIN fks'[t] = Referring(Now(t))
          /\ DOMAIN fks'[t] \subseteq DOMAIN fks[t]
      BY <1>2, <3>2, TablesAreShapes DEF FksMatch
    <3>4. Now(t)' = Now(t) /\ dialect' = dialect /\ ShowsReferences' = ShowsReferences
      BY <1>1 DEF Now, ShowsReferences, ConstraintsAreNamedApart
    <3> QED  BY <1>2, <3>2, <3>3, <3>4 DEF FksMatch
  <2> QED  BY <1>1, <1>5, <1>6, <2>1, <2>2, <2>3 DEF ExactSoFar
<1>7. ASSUME NEW t \in Tables PROVE SampledSoFar(t)'
  <2> SUFFICES ASSUME dialect = "sqlite", t \in names, NEW c \in Categorical(t)
               PROVE  readPc' = "sampling" /\ <<c, t>> \in todo'
    <3>1. Categorical(t)' = Categorical(t)
      BY <1>1 DEF Categorical
    <3> QED  BY <1>1, <3>1 DEF SampledSoFar
  <2> QED  BY <1>1 DEF SQL
<1>8. \A t \in Tables : OfOneMoment(t)' /\ Untouched(t)' = Untouched(t)
  BY <1>1 DEF ReadInv, OfOneMoment, Untouched
<1>9. \A t \in Tables : DOMAIN fks'[t] \subseteq DOMAIN columns'[t]
  BY <1>1, <1>2
<1>10. DOMAIN fks' = Tables
  BY <1>1
<1> QED  BY <1>1, <1>3, <1>4, <1>6, <1>7, <1>8, <1>9, <1>10 DEF ReadInv

LEMMA SampleKeeps == ASSUME ReadInv, Sample PROVE ReadInv'
<1>1. readPc = "sampling" /\ UNCHANGED <<dialect, site, db, past, readPc, names, columns, pks, fks, counts>>
  BY DEF Sample, answers
<1>2. PICK s \in todo : LET c == s[1]  t == s[2] IN
         /\ todo' = todo \ {s}
         /\ DOMAIN samples \subseteq DOMAIN samples' /\ refused \subseteq refused'
         /\ ~SampleFails(c, t) /\ ~(c \in DOMAIN Now(t).cols /\ Now(t).cols[c] = "blank") =>
               <<t, c>> \in DOMAIN samples' \cup refused'
  BY DEF Sample, SampleOf, FailedSample
<1>3. PICK u \in names : \E d \in Categorical(u) : s = <<d, u>>
  BY <1>1 DEF ReadInv, TodoFits
<1>4. TodoFits'
  BY <1>1, <1>2 DEF ReadInv, TodoFits, Categorical
<1>5. \A part, t : Told(part, t)' <=> Told(part, t)
  BY <1>1 DEF Told, Assembling
<1>6. \A t \in Tables : ExactSoFar(t) => ExactSoFar(t)'
  BY <1>1, <1>5 DEF ExactSoFar, ColumnsMatch, ShowsParts, FksMatch, ShowsReferences, ConstraintsAreNamedApart, Now, Assembling
<1>7. ASSUME NEW t \in Tables, Untouched(t), ExactSoFar(t), SampledSoFar(t) PROVE SampledSoFar(t)'
  <2> SUFFICES ASSUME dialect = "sqlite", t \in names, NEW c \in Categorical(t), columns[t][c] # "blank"
               PROVE  <<t, c>> \in DOMAIN samples' \cup refused' \/ <<c, t>> \in todo'
    BY <1>1 DEF SampledSoFar, Categorical
  <2>1. <<t, c>> \in DOMAIN samples \cup refused \/ <<c, t>> \in todo
    BY <1>1, <1>7 DEF SampledSoFar, Assembling
  <2>3. CASE <<t, c>> \in DOMAIN samples \cup refused
    BY <1>2, <2>3
  <2>4. CASE <<c, t>> \in todo /\ <<c, t>> # s
    BY <1>2, <2>4
  <2>5. CASE <<c, t>> = s
    <3>1. db[t] # None /\ columns[t] = Now(t).cols
      BY <1>1, <1>7 DEF ExactSoFar, ColumnsMatch, ShowsParts, Told, Assembling
    <3>2. s[1] = c /\ s[2] = t /\ ~SampleFails(c, t) /\ ~(c \in DOMAIN Now(t).cols /\ Now(t).cols[c] = "blank")
      BY <2>5, <3>1 DEF SampleFails
    <3>3. <<t, c>> \in DOMAIN samples' \cup refused'
      BY <1>2, <3>2
    <3> QED  BY <3>3
  <2> QED  BY <2>1, <2>3, <2>4, <2>5
<1>8. \A t \in Tables : OfOneMoment(t)' /\ Untouched(t)' = Untouched(t)
  BY <1>1 DEF ReadInv, OfOneMoment, Untouched
<1> QED  BY <1>1, <1>4, <1>6, <1>7, <1>8 DEF ReadInv, Assembling

LEMMA SampledKeeps == ASSUME ReadInv, Sampled PROVE ReadInv'
<1>1. /\ readPc = "sampling" /\ todo = {} /\ readPc' = "done"
      /\ UNCHANGED <<dialect, site, db, past, todo, names, columns, pks, fks, counts, samples, refused>>
  BY DEF Sampled, answers
<1>2. Assembling /\ Assembling' /\ \A part, t : Told(part, t)' <=> Told(part, t)
  BY <1>1 DEF Told, Assembling
<1>3. \A t \in Tables : ExactSoFar(t) => ExactSoFar(t)'
  BY <1>1, <1>2 DEF ExactSoFar, ColumnsMatch, ShowsParts, FksMatch, ShowsReferences, ConstraintsAreNamedApart, Now
<1>4. \A t \in Tables : SampledSoFar(t) => SampledSoFar(t)'
  BY <1>1, <1>2 DEF SampledSoFar, Categorical
<1>5. TodoFits' /\ \A t \in Tables : OfOneMoment(t)' /\ Untouched(t)' = Untouched(t)
  BY <1>1 DEF ReadInv, TodoFits, OfOneMoment, Untouched
<1> QED  BY <1>1, <1>2, <1>3, <1>4, <1>5 DEF ReadInv

LEMMA ChangeKeeps == ASSUME ReadInv, Change PROVE ReadInv'
<1>1. /\ readPc \in {"reading", "sampling"}
      /\ UNCHANGED <<dialect, site, readPc, todo, names, columns, pks, fks, counts, samples, refused>>
  BY DEF Change, answers
<1>2. PICK u \in Tables : \E s \in (Shapes \cup {None}) \ {db[u]} :
         db' = [db EXCEPT ![u] = s] /\ past' = [past EXCEPT ![u] = @ \cup {s}]
  BY DEF Change
<1>3. PICK s \in (Shapes \cup {None}) \ {db[u]} :
         db' = [db EXCEPT ![u] = s] /\ past' = [past EXCEPT ![u] = @ \cup {s}]
  BY <1>2
<1>4. /\ db' \in [Tables -> Shapes \cup {None}] /\ DOMAIN past' = Tables
      /\ \A t \in Tables : db'[t] \in past'[t] /\ past[t] \subseteq past'[t]
      /\ \A t \in Tables : t # u => db'[t] = db[t] /\ past'[t] = past[t]
      /\ db'[u] = s /\ past'[u] = past[u] \cup {s} /\ db[u] \in past[u] /\ s # db[u]
  BY <1>3 DEF ReadInv
<1>5. ~Untouched(u)'
  BY <1>4 DEF Untouched
<1>6. \A t \in Tables : Untouched(t)' => t # u /\ Untouched(t)
  BY <1>4, <1>5 DEF Untouched
<1>7. \A part, t : Told(part, t)' <=> Told(part, t)
  BY <1>1 DEF Told, Assembling
<1>8. ASSUME NEW t \in Tables, t # u, ExactSoFar(t), SampledSoFar(t) PROVE ExactSoFar(t)' /\ SampledSoFar(t)'
  <2>1. db'[t] = db[t] /\ Now(t)' = Now(t)
    BY <1>4, <1>8 DEF Now
  <2>2. ExactSoFar(t)'
    <3>1. ShowsReferences' => ShowsReferences
      <4>1. \A x \in Tables : past[x] \ {None} \subseteq past'[x] \ {None}
        BY <1>4
      <4>2. ConstraintsAreNamedApart' => ConstraintsAreNamedApart
        BY <4>1 DEF ConstraintsAreNamedApart
      <4> QED  BY <1>1, <4>2 DEF ShowsReferences
    <3>2. FksMatch(t) => FksMatch(t)'
      BY <1>1, <2>1, <3>1 DEF FksMatch
    <3> QED  BY <1>1, <1>7, <1>8, <2>1, <3>2 DEF ExactSoFar, ColumnsMatch, ShowsParts, Assembling
  <2>3. SampledSoFar(t)'
    BY <1>1, <1>8 DEF SampledSoFar, Categorical, Assembling
  <2> QED  BY <2>2, <2>3
<1>9. \A t \in Tables : OfOneMoment(t)'
  BY <1>1, <1>4 DEF ReadInv, OfOneMoment
<1>10. TodoFits'
  BY <1>1 DEF ReadInv, TodoFits, Asked, Categorical
<1> QED  BY <1>1, <1>4, <1>6, <1>8, <1>9, <1>10 DEF ReadInv, Assembling

LEMMA ReadInitially == IntrospectInit => ReadInv
<1> SUFFICES ASSUME IntrospectInit PROVE ReadInv
  OBVIOUS
<1>1. /\ readPc = "reading" /\ names = {} /\ <<"names", 0>> \in todo
      /\ todo = {<<"names", 0>>} \cup (IF dialect \in Bulk THEN Asked \X {0} ELSE {})
      /\ columns = [t \in Tables |-> Empty]
  BY DEF IntrospectInit
<1>2. TodoFits
  BY <1>1 DEF TodoFits
<1>3. \A t \in Tables : OfOneMoment(t)
  BY <1>1 DEF OfOneMoment
<1>4. \A t \in Tables : ExactSoFar(t) /\ SampledSoFar(t)
  <2>1. ~Assembling /\ \A part \in Asked, t \in Tables : ~Told(part, t)
    BY <1>1 DEF Told, Assembling
  <2> QED  BY <1>1, <2>1 DEF ExactSoFar, SampledSoFar, Asked, SQL
<1> QED  BY <1>1, <1>2, <1>3, <1>4 DEF ReadInv, IntrospectInit, Assembling

LEMMA ReadStep == ReadInv /\ [IntrospectNext]_introspectVars => ReadInv'
<1> SUFFICES ASSUME ReadInv, [IntrospectNext]_introspectVars PROVE ReadInv'
  OBVIOUS
<1>1. CASE UNCHANGED introspectVars
  BY <1>1 DEF introspectVars, answers, ReadInv, TodoFits, OfOneMoment, Untouched, ExactSoFar, SampledSoFar,
              Told, Assembling, ColumnsMatch, ShowsParts, FksMatch, ShowsReferences,
              ConstraintsAreNamedApart, Now, Asked, Categorical
<1> QED  BY <1>1, StatementKeeps, AssembledKeeps, SampleKeeps, SampledKeeps, ChangeKeeps
         DEF IntrospectNext, Introspects

LEMMA ReadInvariance == IntrospectSpec => []ReadInv
BY ReadInitially, ReadStep, PTL DEF IntrospectSpec

\* However often the schema changes while it is read, the columns reported for a table are
\* those it had at one moment, and references hang off reported columns only.
THEOREM DescriptionsAreReal == IntrospectSpec => []DescriptionsAreOfOneMoment
<1>1. ReadInv => DescriptionsAreOfOneMoment
  BY DEF ReadInv, DescriptionsAreOfOneMoment, OfOneMoment, Assembling
<1> QED  BY <1>1, ReadInvariance, PTL

LEMMA ExactInTheEnd == ASSUME TargetsAreNamed, ReadInv PROVE UntouchedAreExact
<1>1. ASSUME readPc = "done", NEW t \in Tables, Untouched(t)
      PROVE  /\ t \in names => db[t] # None
             /\ dialect # "trino" /\ db[t] # None => t \in names
             /\ t \in names => /\ ColumnsMatch(t)
                               /\ dialect \in SQL => FksMatch(t)
                               /\ db[t] # None /\ Now(t) = db[t]
                               /\ dialect \in {"mysql", "sqlite", "mongodb", "opensearch"} => t \in counts
             /\ SampledSoFar(t)
  <2>1. ExactSoFar(t) /\ SampledSoFar(t)
    BY <1>1 DEF ReadInv
  <2> QED  BY <1>1, <2>1 DEF ExactSoFar, Told, Assembling, Now
<1>2. dialect \in {"mysql", "sqlite"} => KeysAreMarked
  BY <1>1 DEF KeysAreMarked, ColumnsMatch, ReadInv
<1>3. dialect \in {"mysql", "sqlite"} => RefsAreReal
  <2> SUFFICES ASSUME dialect \in {"mysql", "sqlite"}, readPc = "done", NEW t \in names, Untouched(t),
                      NEW c \in DOMAIN fks[t]
               PROVE  \E to \in Targets(db[t], c) :
                         /\ fks[t][c][1] = to[1]
                         /\ fks[t][c][2] \in IF to[2] = None THEN Now(to[1]).pk ELSE {to[2]}
    BY DEF RefsAreReal
  <2>1. t \in Tables /\ FksMatch(t) /\ Now(t) = db[t] /\ db[t] # None
    BY <1>1 DEF ReadInv, SQL
  <2>2. PICK to \in Targets(db[t], c) : fks[t][c][1] = to[1] /\ fks[t][c][2] = to[2]
    BY <2>1 DEF FksMatch
  <2>3. to[2] # None
    <3>1. db[t] \in Shapes
      BY <2>1, TablesAreShapes
    <3> QED  BY <2>2, <3>1, NamesItsColumn
  <2> QED  BY <2>2, <2>3
<1>4. dialect = "sqlite" => SamplesAreComplete
  BY <1>1 DEF SamplesAreComplete, SampledSoFar, Assembling, ReadInv
<1> QED  BY <1>1, <1>2, <1>3, <1>4
         DEF UntouchedAreExact, ColumnsMatch, FksMatch, ShowsReferences, SQL

\* On databases of any size whose constraints name the columns they refer to: what is
\* reported of a table that nobody touched is true, and whole but for MongoDB, Trino and
\* the references of PostgreSQL, in whatever order the statements ran, whichever failed and
\* whatever happened to the other tables. (SQLite takes an unnamed column to be "id".)
THEOREM UntouchedTablesAreExact ==
  ASSUME TargetsAreNamed
  PROVE  IntrospectSpec => []UntouchedAreExact
BY ReadInvariance, ExactInTheEnd, PTL

----------------------------------------------------------------------------
(* RowLimit: what the guard lets through *)

\* The greatest of a set of numbers, and the least of two.
LEMMA MaxIs ==
  ASSUME NEW S, S \subseteq Nat, NEW x \in S, \A y \in S : y <= x
  PROVE  Max(S) = x
<1>1. \A y \in S : x >= y
  OBVIOUS
<1>2. \A z \in S : (\A y \in S : z >= y) => z = x
  OBVIOUS
<1>3. Max(S) \in S /\ \A y \in S : Max(S) >= y
  BY <1>1 DEF Max
<1> QED  BY <1>2, <1>3

LEMMA MinIs ==
  ASSUME NEW a \in Nat, NEW b \in Nat
  PROVE  Min({a, b}) = IF a <= b THEN a ELSE b
<1> DEFINE least == IF a <= b THEN a ELSE b
           S == {a, b}
<1>1. least \in S /\ \A y \in S : least =< y
  OBVIOUS
<1>2. \A z \in S : (\A y \in S : z =< y) => z = least
  OBVIOUS
<1>3. Min(S) \in S /\ \A y \in S : Min(S) =< y
  <2> HIDE DEF least, S
  <2> QED  BY <1>1 DEF Min
<1> QED  BY <1>2, <1>3

\* Where the only LIMIT of a valid statement may stand.
LEMMA LastMatch ==
  ASSUME NEW s \in Seq(Clauses), s # <<>>, s[1].kind = "select",
         NEW m \in 1..Len(s), \A i \in 2..m : s[i].kind = "sub"
  PROVE  /\ Len(s) = m /\ m = 1 => Matches(s) = {}
         /\ Len(s) = m /\ m > 1 => Matches(s) # {} /\ Max(Matches(s)) = m
         /\ m < Len(s) /\ s[m + 1].kind = "limit" /\ (\A i \in (m + 2)..Len(s) : s[i].kind \in {"offset", "comma"})
              => Matches(s) # {} /\ Max(Matches(s)) = m + 1
<1> DEFINE M == Matches(s)
<1>1. Len(s) \in Nat /\ m \in Nat /\ M = {i \in 1..Len(s) : s[i].kind \in {"limit", "sub"}} /\ M \subseteq Nat
  BY DEF Matches
<1>2. Len(s) = m /\ m = 1 => M = {}
  BY <1>1
<1> HIDE DEF M
<1>3. ASSUME Len(s) = m, m > 1 PROVE M # {} /\ Max(M) = m
  <2>1. m \in M /\ \A i \in M : i <= m
    BY <1>1, <1>3
  <2> QED  BY <1>1, <2>1, MaxIs
<1>4. ASSUME m < Len(s), s[m + 1].kind = "limit", \A i \in (m + 2)..Len(s) : s[i].kind \in {"offset", "comma"}
      PROVE  M # {} /\ Max(M) = m + 1
  <2>1. m + 1 \in M
    BY <1>1, <1>4
  <2>2. ASSUME NEW i \in M PROVE i <= m + 1
    <3>1. i \in 1..Len(s) /\ s[i].kind \in {"limit", "sub"}
      BY <1>1
    <3>2. ~ (i \in (m + 2)..Len(s))
      BY <1>4, <3>1
    <3> QED  BY <1>1, <3>1, <3>2
  <2> QED  BY <1>1, <2>1, <2>2, MaxIs
<1> QED  BY <1>2, <1>3, <1>4 DEF M

\* The subqueries of a statement keep their limits.
SubsStay(s, v) == \A i \in DOMAIN s : s[i].kind = "sub" => v[i] = s[i]

\* What the guard makes of a statement.
LEMMA LimitIsEnforced ==
  ASSUME NEW s \in Seq(Clauses), NEW n \in Nat, Docs \in Nat,
         Valid(s)
  PROVE  IF EndsPlainly(s)
         THEN /\ Valid(enforce_row_limit(s, n))
              /\ RowsOf(enforce_row_limit(s, n)) = Min({RowsOf(s), n})
              /\ SubsStay(s, enforce_row_limit(s, n))
         ELSE ~ Valid(enforce_row_limit(s, n))
<1> DEFINE v == enforce_row_limit(s, n)
           c == Clause("limit", n)
           more == Append(s, c)
<1>1. Len(s) \in Nat /\ s # <<>> /\ Len(s) > 0 /\ Len(more) = Len(s) + 1 /\ more[Len(s) + 1] = c /\ more # <<>>
      /\ \A i \in 1..Len(s) : more[i] = s[i] /\ s[i].n \in Nat
  <2>1. c \in Clauses
    BY DEF Clauses, Clause
  <2>2. \A i \in 1..Len(s) : s[i].n \in Nat
    <3>1. \A i \in 1..Len(s) : s[i] \in Clauses
      OBVIOUS
    <3> QED  BY <3>1 DEF Clauses
  <2> HIDE DEF c
  <2> QED  BY <2>1, <2>2 DEF Valid
<1>2. c.kind = "limit" /\ c.n = n
  BY DEF Clause
<1>3. RowsOf(more) = Min({Docs, n})
  <2> HIDE DEF more, c
  <2>1. Len(more) = Len(s) + 1 /\ more[Len(more)] = c /\ c.kind \in {"limit", "comma"}
    BY <1>1, <1>2
  <2>2. RowsOf(more) = Min({Docs, more[Len(more)].n})
    BY <2>1 DEF RowsOf
  <2> QED  BY <1>2, <2>1, <2>2
<1>4. CASE s[1].kind = "utility" /\ Len(s) = 1
  <2>1. Matches(s) = {}
    BY <1>4 DEF Matches
  <2>2. v = more
    BY <2>1 DEF enforce_row_limit
  <2> HIDE DEF v, more
  <2>3. more[1].kind = "utility" /\ Len(more) = 2
    BY <1>1, <1>4
  <2>4. ~ Valid(more)
    BY <2>3 DEF Valid
  <2>5. ~ EndsPlainly(s)
    BY <1>4 DEF EndsPlainly
  <2> QED  BY <2>2, <2>4, <2>5 DEF v
<1>5. CASE s[1].kind = "select"
  <2>0. PICK m \in 1..Len(s) :
           /\ \A i \in 2..m : s[i].kind = "sub"
           /\ \/ m = Len(s)
              \/ m + 1 = Len(s) /\ s[m + 1].kind = "limit"
              \/ m + 2 = Len(s) /\ s[m + 1].kind = "limit" /\ s[m + 2].kind \in {"offset", "comma"}
    BY <1>5 DEF Valid
  <2>1. ASSUME m = Len(s)
        PROVE  EndsPlainly(s) /\ Valid(v) /\ RowsOf(v) = Min({RowsOf(s), n}) /\ SubsStay(s, v)
    <3>1. v = more
      <4>1. CASE m = 1
        <5>1. Matches(s) = {}
          BY <1>1, <1>5, <2>0, <2>1, <4>1, LastMatch
        <5> QED  BY <5>1, Zenon DEF enforce_row_limit
      <4>2. CASE m > 1
        <5>1. Max(Matches(s)) = m /\ s[m].kind = "sub"
          BY <1>1, <1>5, <2>0, <2>1, <4>2, LastMatch
        <5>2. s[Max(Matches(s))].kind = "sub"
          BY <5>1
        <5> QED  BY <5>2, Zenon DEF enforce_row_limit
      <4> QED  BY <1>1, <4>1, <4>2
    <3>2. s[Len(s)].kind \in {"select", "sub"}
      BY <1>1, <1>5, <2>0, <2>1
    <3>3. RowsOf(s) = Docs
      BY <3>2 DEF RowsOf
    <3> HIDE DEF v, more
    <3>4. EndsPlainly(s)
      BY <1>5, <3>2 DEF EndsPlainly
    <3>5. more[1].kind = "select" /\ (\A i \in 2..m : more[i].kind = "sub")
          /\ m + 1 = Len(more) /\ more[m + 1].kind = "limit" /\ m \in 1..Len(more)
      <4>1. 1 \in 1..Len(s) /\ \A i \in 2..m : i \in 1..Len(s)
        BY <1>1, <2>1
      <4>2. \A i \in 2..m : more[i].kind = "sub"
        BY <1>1, <2>0, <4>1
      <4> QED  BY <1>1, <1>2, <1>5, <2>1, <4>1, <4>2
    <3>6. Valid(more)
      BY <1>1, <3>5 DEF Valid
    <3>7. SubsStay(s, more)
      BY <1>1 DEF SubsStay
    <3> QED  BY <1>3, <3>1, <3>3, <3>4, <3>6, <3>7
  <2>2. ASSUME m + 1 = Len(s), s[m + 1].kind = "limit"
        PROVE  EndsPlainly(s) /\ Valid(v) /\ RowsOf(v) = Min({RowsOf(s), n}) /\ SubsStay(s, v)
    <3>1. Matches(s) # {} /\ Max(Matches(s)) = Len(s)
      <4>1. m < Len(s) /\ \A i \in (m + 2)..Len(s) : s[i].kind \in {"offset", "comma"}
        BY <1>1, <2>2
      <4>2. Matches(s) # {} /\ Max(Matches(s)) = m + 1
        BY <1>1, <1>5, <2>0, <2>2, <4>1, LastMatch
      <4> QED  BY <2>2, <4>2
    <3>2. v = IF s[Len(s)].n > n THEN [s EXCEPT ![Len(s)].n = n] ELSE s
      <4>1. s[Max(Matches(s))].kind # "sub" /\ ~ (Max(Matches(s)) < Len(s))
        BY <1>1, <2>2, <3>1
      <4>2. v = IF s[Max(Matches(s))].n > n THEN [s EXCEPT ![Max(Matches(s))].n = n] ELSE s
        BY <3>1, <4>1, Zenon DEF enforce_row_limit
      <4> QED  BY <3>1, <4>2, Zenon
    <3>3. RowsOf(s) = Min({Docs, s[Len(s)].n}) /\ s[Len(s)].n \in Nat /\ s[Len(s)] \in Clauses
      BY <1>1, <2>2 DEF RowsOf
    <3> DEFINE cut == [s EXCEPT ![Len(s)].n = n]
    <3>4. Len(cut) = Len(s) /\ cut[Len(s)].kind = "limit" /\ cut[Len(s)].n = n
      BY <1>1, <2>2, <3>3 DEF Clauses
    <3>10. Valid(cut) /\ SubsStay(s, cut)
      <4>1. \A i \in 1..Len(s) : i # Len(s) => cut[i] = s[i]
        BY <1>1
      <4>2. \A i \in 2..m : i \in 1..Len(s) /\ i # Len(s) /\ s[i].kind = "sub"
        BY <1>1, <2>0, <2>2
      <4>3. 1 \in 1..Len(s) /\ 1 # Len(s) /\ m \in 1..Len(s)
        BY <1>1, <2>2
      <4>4. cut # <<>>
        BY <1>1, <3>4
      <4> HIDE DEF cut
      <4>5. cut[1].kind = "select" /\ (\A i \in 2..m : cut[i].kind = "sub")
            /\ m + 1 = Len(cut) /\ cut[m + 1].kind = "limit"
        BY <1>5, <2>2, <3>4, <4>1, <4>2, <4>3
      <4>6. Valid(cut)
        BY <3>4, <4>3, <4>4, <4>5 DEF Valid
      <4>7. SubsStay(s, cut)
        BY <2>2, <4>1 DEF SubsStay
      <4> QED  BY <4>6, <4>7
    <3>11. EndsPlainly(s)
      BY <1>5, <2>2 DEF EndsPlainly
    <3>12. SubsStay(s, s)
      BY DEF SubsStay
    <3>5. RowsOf(cut) = Min({Docs, n})
      <4> HIDE DEF cut
      <4> QED  BY <3>4 DEF RowsOf
    <3> HIDE DEF cut, v, more
    <3>6. Min({Docs, n}) = (IF Docs <= n THEN Docs ELSE n)
          /\ Min({Docs, s[Len(s)].n}) = (IF Docs <= s[Len(s)].n THEN Docs ELSE s[Len(s)].n)
      BY <3>3, MinIs
    <3>7. RowsOf(s) \in Nat
      BY <3>3, <3>6
    <3>8. Min({RowsOf(s), n}) = IF RowsOf(s) <= n THEN RowsOf(s) ELSE n
      BY <3>7, MinIs
    <3>9. RowsOf(v) = IF s[Len(s)].n > n THEN Min({Docs, n}) ELSE RowsOf(s)
      BY <3>2, <3>5 DEF cut
    <3>13. Valid(v) /\ SubsStay(s, v)
      BY <3>2, <3>10, <3>12 DEF cut
    <3> QED  BY <3>3, <3>6, <3>8, <3>9, <3>11, <3>13
  <2>3. ASSUME m + 2 = Len(s), s[m + 1].kind = "limit", s[m + 2].kind \in {"offset", "comma"}
        PROVE  ~ EndsPlainly(s) /\ ~ Valid(v)
    <3>6. ~ EndsPlainly(s)
      BY <2>3 DEF EndsPlainly
    <3>1. Matches(s) # {} /\ Max(Matches(s)) = m + 1 /\ m + 1 < Len(s)
      <4>1. m < Len(s) /\ m + 1 < Len(s)
        BY <1>1, <2>3
      <4>2. \A i \in (m + 2)..Len(s) : i = m + 2
        BY <1>1, <2>3
      <4>3. \A i \in (m + 2)..Len(s) : s[i].kind \in {"offset", "comma"}
        BY <2>3, <4>2
      <4>4. Matches(s) # {} /\ Max(Matches(s)) = m + 1
        BY <1>1, <1>5, <2>0, <2>3, <4>1, <4>3, LastMatch
      <4> QED  BY <4>1, <4>4
    <3>2. v = more
      BY <3>1, Zenon DEF enforce_row_limit
    <3>3. more[1].kind = "select" /\ Len(more) = m + 3 /\ more[m + 1].kind = "limit" /\ m \in Nat /\ m >= 1
      BY <1>1, <1>5, <2>0, <2>3
    <3> HIDE DEF v, more
    <3> SUFFICES ASSUME Valid(more) PROVE FALSE
      BY <3>2, <3>6
    <3>4. PICK k \in 1..Len(more) : /\ \A i \in 2..k : more[i].kind = "sub"
                                   /\ (k = Len(more) \/ k + 1 = Len(more) \/ k + 2 = Len(more))
      BY <3>3 DEF Valid
    <3>5. m + 1 \in 2..k
      BY <3>3, <3>4
    <3> QED  BY <3>3, <3>4, <3>5
  <2> HIDE DEF v, more, c
  <2>4. CASE m = Len(s)
    BY <2>1, <2>4 DEF v
  <2>5. CASE m + 1 = Len(s) /\ s[m + 1].kind = "limit"
    BY <2>2, <2>5 DEF v
  <2>6. CASE m + 2 = Len(s) /\ s[m + 1].kind = "limit" /\ s[m + 2].kind \in {"offset", "comma"}
    BY <2>3, <2>6 DEF v
  <2> QED  BY <2>0, <2>4, <2>5, <2>6
<1> QED  BY <1>4, <1>5 DEF v, Valid

LEMMA StageIsNat ==
  ASSUME NEW n \in Nat, NEW c \in Clauses, Fan \in Nat
  PROVE  Stage(n, c) \in Nat
<1>1. c.n \in Nat
  BY DEF Clauses
<1>2. Min({n, c.n}) \in Nat
  BY <1>1, MinIs
<1>3. n * Fan \in Nat
  OBVIOUS
<1> QED  BY <1>2, <1>3 DEF Stage

\* What a pipeline returns after i of its stages.
LEMMA DocsIs ==
  ASSUME NEW p \in Seq(Clauses), Docs \in Nat, Fan \in Nat
  PROVE  \E f \in [0..Len(p) -> Nat] :
            /\ DocsOf(p) = f[Len(p)]
            /\ f[0] = Docs
            /\ \A i \in Nat : i < Len(p) => f[i + 1] = Stage(f[i], p[i + 1])
<1> DEFINE n == Len(p)
           step == [x \in (1..n) \X Nat |-> Stage(x[2], p[x[1]])]
           Is(f) == f = [i \in 0..n |-> IF i = 0 THEN Docs ELSE Stage(f[i - 1], p[i])]
           docs == CHOOSE f : Is(f)
<1>1. n \in Nat /\ \A i \in 1..n : p[i] \in Clauses
  OBVIOUS
<1>2. DocsOf(p) = docs[n]
  BY DEF DocsOf
<1> HIDE DEF n
<1>3. step \in [(1..n) \X Nat -> Nat]
  <2>1. \A x \in (1..n) \X Nat : Stage(x[2], p[x[1]]) \in Nat
    BY <1>1, StageIsNat
  <2> QED  BY <2>1
<1>4. PICK f \in [0..n -> Nat] : Follows(f, n, Docs, step)
  <2> HIDE DEF step
  <2> QED  BY <1>1, <1>3, RecursionExists
<1>5. f[0] = Docs /\ \A i \in 1..n : f[i] = Stage(f[i - 1], p[i])
  <2>1. \A i \in 0..n : f[i] = IF i = 0 THEN Docs ELSE step[<<i, f[i - 1]>>]
    <3> HIDE DEF step
    <3> QED  BY <1>4 DEF Follows
  <2>2. ASSUME NEW i \in 1..n PROVE f[i] = Stage(f[i - 1], p[i])
    <3>1. i \in 0..n /\ i # 0 /\ i - 1 \in 0..n
      BY <1>1
    <3>2. f[i] = step[<<i, f[i - 1]>>] /\ <<i, f[i - 1]>> \in (1..n) \X Nat
      BY <2>1, <3>1
    <3> QED  BY <3>2
  <2> HIDE DEF step
  <2>3. f[0] = Docs
    <3>1. 0 \in 0..n
      BY <1>1
    <3> QED  BY <2>1, <3>1
  <2> QED  BY <2>2, <2>3
<1>6. Is(f)
  <2>1. \A i \in 0..n : i = 0 \/ i \in 1..n
    BY <1>1
  <2>2. \A i \in 0..n : f[i] = IF i = 0 THEN Docs ELSE Stage(f[i - 1], p[i])
    BY <1>5, <2>1
  <2> QED  BY <2>2
<1>7. docs = [i \in 0..n |-> IF i = 0 THEN Docs ELSE Stage(docs[i - 1], p[i])]
  <2>1. Is(docs)
    <3> HIDE DEF Is
    <3> QED  BY <1>6
  <2> HIDE DEF docs
  <2> QED  BY <2>1
<1> HIDE DEF docs, Is, step
<1>8. docs[0] = Docs /\ \A i \in 1..n : docs[i] = Stage(docs[i - 1], p[i])
  <2>1. \A i \in 1..n : i \in 0..n /\ i # 0
    BY <1>1
  <2> QED  BY <1>1, <1>7, <2>1
<1> DEFINE I == {i \in Nat : i <= n => docs[i] \in Nat}
<1>9. Nat \subseteq I
  <2>1. 0 \in I
    BY <1>8
  <2>2. ASSUME NEW i \in Nat, i \in I PROVE i + 1 \in I
    <3>1. CASE i + 1 <= n
      <4>1. i + 1 \in 1..n /\ (i + 1) - 1 = i /\ docs[i] \in Nat
        BY <1>1, <2>2, <3>1
      <4>2. docs[i + 1] = Stage(docs[i], p[i + 1])
        BY <1>8, <4>1
      <4>3. Stage(docs[i], p[i + 1]) \in Nat
        BY <1>1, <4>1, StageIsNat
      <4> QED  BY <4>2, <4>3
    <3> QED  BY <3>1
  <2> HIDE DEF I
  <2> QED  BY <2>1, <2>2, Induction
<1>10. docs \in [0..n -> Nat]
  <2>1. \A i \in 0..n : docs[i] \in Nat
    BY <1>1, <1>9
  <2> QED  BY <1>7, <2>1
<1>11. ASSUME NEW i \in Nat, i < n PROVE docs[i + 1] = Stage(docs[i], p[i + 1])
  <2>1. i + 1 \in 1..n /\ (i + 1) - 1 = i
    BY <1>1, <1>11
  <2> QED  BY <1>8, <2>1
<1> QED  BY <1>2, <1>8, <1>10, <1>11 DEF n

\* A stage at the end works on what the others let through.
LEMMA DocsOfAppend ==
  ASSUME NEW p \in Seq(Clauses), NEW c \in Clauses, Docs \in Nat, Fan \in Nat
  PROVE  /\ DocsOf(p) \in Nat
         /\ DocsOf(Append(p, c)) = Stage(DocsOf(p), c)
<1> DEFINE n == Len(p)
           more == Append(p, c)
<1>1. n \in Nat /\ more \in Seq(Clauses) /\ Len(more) = n + 1 /\ more[n + 1] = c
      /\ \A i \in 1..n : more[i] = p[i]
  OBVIOUS
<1>2. PICK f \in [0..n -> Nat] :
         DocsOf(p) = f[n] /\ f[0] = Docs /\ \A i \in Nat : i < n => f[i + 1] = Stage(f[i], p[i + 1])
  BY DocsIs
<1> HIDE DEF n, more
<1>3. PICK g \in [0..Len(more) -> Nat] :
         /\ DocsOf(more) = g[Len(more)]
         /\ g[0] = Docs
         /\ \A i \in Nat : i < Len(more) => g[i + 1] = Stage(g[i], more[i + 1])
  BY <1>1, DocsIs
<1> DEFINE I == {i \in Nat : i <= n => g[i] = f[i]}
<1>4. 0 \in I
  BY <1>2, <1>3
<1>5. ASSUME NEW i \in Nat, i \in I PROVE i + 1 \in I
  <2> SUFFICES ASSUME i + 1 <= n PROVE g[i + 1] = f[i + 1]
    OBVIOUS
  <2>1. i < n /\ i < Len(more) /\ i + 1 \in 1..n /\ g[i] = f[i]
    BY <1>1, <1>5
  <2>2. more[i + 1] = p[i + 1]
    BY <1>1, <2>1
  <2> QED  BY <1>2, <1>3, <2>1, <2>2
<1> HIDE DEF I
<1>6. n \in I
  BY <1>1, <1>4, <1>5, Induction
<1>7. g[n] = f[n] /\ n < Len(more)
  BY <1>1, <1>6 DEF I
<1>8. DocsOf(more) = Stage(f[n], c)
  BY <1>1, <1>3, <1>7
<1>9. DocsOf(p) \in Nat
  BY <1>1, <1>2
<1> QED  BY <1>2, <1>8, <1>9 DEF more

\* The verdict is that of the guard.
GuardInv ==
    /\ query \in {[sql |-> TRUE, body |-> s] : s \in Statements}
                 \cup {[sql |-> FALSE, body |-> p] : p \in Pipelines}
    /\ limit \in Limits
    /\ Passed => verdict.body = IF query.sql THEN enforce_row_limit(query.body, limit)
                                ELSE mongo_limited(query.body, limit)
    /\ Passed /\ query.sql => limit # 0

LEMMA GuardInvariance == GuardSpec => []GuardInv
<1>1. GuardInit => GuardInv
  BY DEF GuardInit, GuardInv, Passed
<1>2. GuardInv /\ [Guard]_guardVars => GuardInv'
  <2>1. ASSUME GuardInv, Guard PROVE GuardInv'
    <3>1. verdict'.kind = "passed" =>
            /\ verdict'.body = IF query.sql THEN enforce_row_limit(query.body, limit)
                                ELSE mongo_limited(query.body, limit)
            /\ query.sql => limit # 0
      BY <2>1 DEF Guard
    <3>2. UNCHANGED <<query, limit>>
      BY <2>1 DEF Guard
    <3> QED  BY <2>1, <3>1, <3>2 DEF GuardInv, Passed
  <2>2. ASSUME GuardInv, UNCHANGED guardVars PROVE GuardInv'
    BY <2>2 DEF GuardInv, Passed, guardVars
  <2> QED  BY <2>1, <2>2
<1> QED  BY <1>1, <1>2, PTL DEF GuardSpec

\* Whatever its length, a valid statement without OFFSET returns the rows it asked for up
\* to row_limit and its subqueries keep theirs, one with OFFSET is refused by the database,
\* and a pipeline is limited if it has no $limit itself (enforce_row_limit, validate_mongo).
THEOREM RowsAreLimited == GuardSpec => []RowsAreLimitedExactly
<1>1. GuardInv => RowsAreLimitedExactly
  <2> SUFFICES ASSUME GuardInv, Passed PROVE RowsAreLimitedExactly
    BY DEF RowsAreLimitedExactly, StatementsAreLimitedExactly, PipelinesAreLimitedUnlessTheyAre
  <2>1. limit \in Nat /\ Docs \in Nat /\ Fan \in Nat
    BY RowLimitAssumption DEF GuardInv
  <2>2. query.body \in Seq(Clauses)
    BY RowLimitAssumption DEF GuardInv
  <2>3. StatementsAreLimitedExactly
    <3> SUFFICES ASSUME query.sql, Valid(query.body) PROVE StatementsAreLimitedExactly
      BY DEF StatementsAreLimitedExactly
    <3>1. verdict.body = enforce_row_limit(query.body, limit)
      BY DEF GuardInv
    <3> QED  BY <2>1, <2>2, <3>1, LimitIsEnforced DEF StatementsAreLimitedExactly, SubsStay
  <2>4. PipelinesAreLimitedUnlessTheyAre
    <3> SUFFICES ASSUME ~query.sql PROVE PipelinesAreLimitedUnlessTheyAre
      BY DEF PipelinesAreLimitedUnlessTheyAre
    <3> DEFINE c == Clause("limit", limit)
    <3>1. verdict.body = mongo_limited(query.body, limit)
      BY DEF GuardInv
    <3>2. c \in Clauses /\ c.kind = "limit" /\ c.n = limit
      BY <2>1 DEF Clause, Clauses
    <3>3. CASE OwnLimit(query.body) \/ limit = 0
      <4>1. verdict.body = query.body
        BY <3>1, <3>3 DEF mongo_limited, OwnLimit
      <4> QED  BY <3>3, <4>1 DEF PipelinesAreLimitedUnlessTheyAre
    <3>4. CASE ~ (OwnLimit(query.body) \/ limit = 0)
      <4>1. verdict.body = Append(query.body, c)
        BY <2>1, <3>1, <3>4 DEF mongo_limited, OwnLimit
      <4> HIDE DEF c
      <4>2. DocsOf(verdict.body) = Stage(DocsOf(query.body), c)
        BY <2>1, <2>2, <3>2, <4>1, DocsOfAppend
      <4>3. DocsOf(verdict.body) = Min({DocsOf(query.body), limit})
        BY <3>2, <4>2 DEF Stage
      <4> QED  BY <3>4, <4>3 DEF PipelinesAreLimitedUnlessTheyAre
    <3> QED  BY <3>3, <3>4
  <2> QED  BY <2>3, <2>4 DEF RowsAreLimitedExactly
<1> QED  BY <1>1, GuardInvariance, PTL

----------------------------------------------------------------------------
(* Evaluation: the comparison of results and the gate *)

Numbers(f) == [i \in DOMAIN f |-> f[i][2]]

Where(f, v) == {i \in DOMAIN f : f[i] = v}

LEMMA NumbersAre ==
  ASSUME NEW f \in Seq(ResultRows)
  PROVE  /\ Numbers(f) \in Seq(Int)
         /\ DOMAIN Numbers(f) = DOMAIN f
         /\ Len(Numbers(f)) = Len(f)
         /\ \A i \in DOMAIN f : Numbers(f)[i] = f[i][2] /\ f[i][2] \in Nat /\ f[i] = <<f[i][1], f[i][2]>>
         /\ _rows(f) = [p \in DOMAIN f |-> f[Order(Numbers(f))[p]]]
<1>1. \A i \in DOMAIN f : f[i] \in ResultRows
  OBVIOUS
<1>2. \A i \in DOMAIN f : f[i][2] \in Nat /\ f[i] = <<f[i][1], f[i][2]>>
  BY <1>1 DEF ResultRows
<1>3. DOMAIN f = 1..Len(f) /\ Len(f) \in Nat
  OBVIOUS
<1>4. Numbers(f) \in Seq(Int) /\ DOMAIN Numbers(f) = DOMAIN f /\ Len(Numbers(f)) = Len(f)
  BY <1>2, <1>3 DEF Numbers
<1>5. \A i \in DOMAIN f : Numbers(f)[i] = f[i][2]
  BY DEF Numbers
<1>6. _rows(f) = [p \in DOMAIN f |-> f[Order(Numbers(f))[p]]]
  BY DEF _rows, Sorted, Numbers
<1> QED  BY <1>2, <1>4, <1>5, <1>6

LEMMA WhereIs ==
  ASSUME NEW f \in Seq(ResultRows), NEW v
  PROVE  IsFiniteSet(Where(f, v)) /\ Cardinality(Where(f, v)) \in Nat
<1>1. IsFiniteSet(DOMAIN f)
  BY NumbersAre, PositionsAre
<1>2. Where(f, v) \subseteq DOMAIN f
  BY DEF Where
<1> QED  BY <1>1, <1>2, FS_Subset, FS_CardinalityType

\* Sorting a result keeps each row as often as it was.
LEMMA SortingKeepsRows ==
  ASSUME NEW f \in Seq(ResultRows), NEW v
  PROVE  Cardinality(Where(_rows(f), v)) = Cardinality(Where(f, v))
<1> DEFINE D == DOMAIN f
           order == Order(Numbers(f))
           P == Where(_rows(f), v)
           Q == Where(f, v)
           h == [p \in P |-> order[p]]
<1>1. /\ order \in [D -> D]
      /\ \A p \in D : Place(Numbers(f), order[p]) = p
      /\ \A i \in D : Place(Numbers(f), i) \in D /\ order[Place(Numbers(f), i)] = i
  <2>1. Numbers(f) \in Seq(Int) /\ DOMAIN Numbers(f) = D
    BY NumbersAre
  <2> QED  BY <2>1, OrderIs, PlaceIs
<1>2. _rows(f) = [p \in D |-> f[order[p]]]
  BY NumbersAre
<1>3. P = {p \in D : f[order[p]] = v} /\ Q = {i \in D : f[i] = v}
  BY <1>2 DEF Where
<1>4. IsFiniteSet(P)
  <2>1. IsFiniteSet(D) /\ P \subseteq D
    BY <1>3, NumbersAre, PositionsAre
  <2> QED  BY <2>1, FS_Subset
<1> HIDE DEF D, order, P, Q
<1>5. h \in [P -> Q]
  BY <1>1, <1>3
<1>6. \A p, q \in P : h[p] = h[q] => p = q
  BY <1>1, <1>3
<1>7. \A i \in Q : \E p \in P : h[p] = i
  <2> SUFFICES ASSUME NEW i \in Q PROVE \E p \in P : h[p] = i
    OBVIOUS
  <2>1. i \in D /\ f[i] = v
    BY <1>3
  <2>2. Place(Numbers(f), i) \in P
    BY <1>1, <1>3, <2>1
  <2> QED  BY <1>1, <2>1, <2>2
<1> HIDE DEF h
<1>8. h \in Bijection(P, Q)
  BY <1>5, <1>6, <1>7 DEF Bijection, Injection, Surjection, IsInjective
<1>9. ExistsBijection(P, Q)
  BY <1>8 DEF ExistsBijection
<1> QED  BY <1>4, <1>9, FS_Bijection DEF P, Q

LEMMA SortedAlikeIsSame ==
  ASSUME NEW f \in Seq(ResultRows), NEW g \in Seq(ResultRows), _rows(f) = _rows(g)
  PROVE  SameRows(f, g)
<1>1. \A v : Cardinality(Where(f, v)) = Cardinality(Where(g, v))
  BY SortingKeepsRows
<1> QED  BY <1>1 DEF SameRows, Where

\* Equal rows on both sides, also those neither has.
LEMMA SameRowsEverywhere ==
  ASSUME NEW f \in Seq(ResultRows), NEW g \in Seq(ResultRows), SameRows(f, g), NEW v
  PROVE  Cardinality(Where(f, v)) = Cardinality(Where(g, v))
<1>1. CASE v \in {f[i] : i \in DOMAIN f} \cup {g[i] : i \in DOMAIN g}
  BY <1>1 DEF SameRows, Where
<1>2. CASE v \notin {f[i] : i \in DOMAIN f} \cup {g[i] : i \in DOMAIN g}
  <2>1. Where(f, v) = {} /\ Where(g, v) = {}
    BY <1>2 DEF Where
  <2> QED  BY <2>1
<1> QED  BY <1>1, <1>2

\* The rows of a result that can be sorted differ in their numbers only.
LEMMA OneClass ==
  ASSUME NEW f \in Seq(ResultRows), Sortable(f), NEW i \in DOMAIN f, NEW j \in DOMAIN f
  PROVE  f[i][1] = f[j][1]
<1> DEFINE h == [k \in DOMAIN f |-> f[k][1]]
<1>1. IsFiniteSet(DOMAIN f)
  BY NumbersAre, PositionsAre
<1>2. h \in Surjection(DOMAIN f, Classes(f))
  BY DEF Surjection, Classes
<1> HIDE DEF h
<1>3. IsFiniteSet(Classes(f))
  BY <1>1, <1>2, FS_Surjection
<1>4. f[i][1] \in Classes(f) /\ f[j][1] \in Classes(f)
  BY DEF Classes
<1>5. Cardinality(Classes(f)) # 0 /\ Cardinality(Classes(f)) \in Nat
  BY <1>3, <1>4, FS_EmptySet, FS_CardinalityType
<1>6. Cardinality(Classes(f)) = 1
  BY <1>5 DEF Sortable
<1>7. PICK c : Classes(f) = {c}
  BY <1>3, <1>6, FS_Singleton
<1> QED  BY <1>4, <1>7

\* One more number: those up to n are those up to n - 1 and those that are n.
LEMMA AtMostNext ==
  ASSUME NEW f \in Seq(ResultRows), NEW c, \A i \in DOMAIN f : f[i][1] = c, NEW n \in Nat
  PROVE  Cardinality(AtMost(Numbers(f), n))
           = Cardinality(AtMost(Numbers(f), n - 1)) + Cardinality(Where(f, <<c, n>>))
<1> DEFINE A == AtMost(Numbers(f), n - 1)
           B == Where(f, <<c, n>>)
<1>1. \A i \in DOMAIN f : /\ Numbers(f)[i] = f[i][2]
                          /\ f[i][2] \in Nat
                          /\ f[i] = <<c, f[i][2]>>
  BY NumbersAre
<1>2. DOMAIN Numbers(f) = DOMAIN f
  BY NumbersAre
<1>3. \A i \in DOMAIN f : i \in B <=> f[i][2] = n
  BY <1>1 DEF Where
<1>4. \A k : \A i \in DOMAIN f : i \in AtMost(Numbers(f), k) <=> f[i][2] <= k
  BY <1>1, <1>2 DEF AtMost
<1>5. B \subseteq DOMAIN f /\ \A k : AtMost(Numbers(f), k) \subseteq DOMAIN f
  BY <1>2 DEF Where, AtMost
<1>6. AtMost(Numbers(f), n) = A \cup B
  <2>1. \A x \in Nat : x <= n <=> x <= n - 1 \/ x = n
    OBVIOUS
  <2> QED  BY <1>1, <1>3, <1>4, <1>5, <2>1
<1>7. A \cap B = {}
  <2>1. \A x \in Nat : ~ (x <= n - 1 /\ x = n)
    OBVIOUS
  <2> QED  BY <1>1, <1>3, <1>4, <1>5, <2>1
<1>8. IsFiniteSet(A) /\ IsFiniteSet(B) /\ Cardinality(A) \in Nat /\ Cardinality(B) \in Nat
  <2>1. IsFiniteSet(A)
    BY NumbersAre, OrderCounts
  <2> QED  BY <2>1, WhereIs, FS_CardinalityType
<1> HIDE DEF A, B
<1>9. Cardinality(A \cup B) = Cardinality(A) + Cardinality(B) - Cardinality(A \cap B)
  BY <1>8, FS_Union
<1>10. Cardinality(A \cap B) = 0
  BY <1>7, FS_EmptySet
<1> QED  BY <1>6, <1>8, <1>9, <1>10 DEF A, B

LEMMA SameIsSortedAlike ==
  ASSUME NEW f \in Seq(ResultRows), NEW g \in Seq(ResultRows), Len(f) = Len(g),
         Sortable(f), Sortable(g), SameRows(f, g)
  PROVE  _rows(f) = _rows(g)
<1> DEFINE D == DOMAIN f
           u == Numbers(f)
           w == Numbers(g)
           o == Order(u)
           r == Order(w)
<1>1. /\ u \in Seq(Int) /\ w \in Seq(Int)
      /\ DOMAIN u = D /\ DOMAIN w = D /\ DOMAIN g = D
      /\ _rows(f) = [p \in D |-> f[o[p]]]
      /\ _rows(g) = [p \in D |-> g[r[p]]]
  <2>1. DOMAIN g = D
    OBVIOUS
  <2> QED  BY <2>1, NumbersAre
<1>2. \A i \in D : /\ u[i] = f[i][2] /\ u[i] \in Nat /\ f[i] = <<f[i][1], f[i][2]>>
                   /\ w[i] = g[i][2] /\ w[i] \in Nat /\ g[i] = <<g[i][1], g[i][2]>>
  BY <1>1, NumbersAre
<1>3. o \in [D -> D] /\ r \in [D -> D]
  BY <1>1, OrderIs
<1>4. ASSUME NEW e \in D
      PROVE  \E c : \A i \in D : f[i][1] = c /\ g[i][1] = c
  <2> DEFINE c == f[e][1]
             v == f[e]
  <2>1. \A i \in D : f[i][1] = c
    BY OneClass
  <2>2. Where(f, v) # {} /\ IsFiniteSet(Where(f, v)) /\ IsFiniteSet(Where(g, v))
    BY WhereIs DEF Where
  <2>3. Where(g, v) # {}
    BY <2>2, SameRowsEverywhere, FS_EmptySet
  <2>4. PICK k \in D : g[k] = v
    BY <1>1, <2>3 DEF Where
  <2>5. \A i \in D : g[i][1] = g[k][1]
    BY <1>1, OneClass
  <2> QED  BY <2>1, <2>4, <2>5
<1> HIDE DEF D, u, w
<1>5. ASSUME NEW e \in D
      PROVE  \A n \in Nat : Cardinality(AtMost(u, n)) = Cardinality(AtMost(w, n))
  <2>1. PICK c : \A i \in D : f[i][1] = c /\ g[i][1] = c
    BY <1>4
  <2> DEFINE T == {n \in Nat : Cardinality(AtMost(u, n - 1)) = Cardinality(AtMost(w, n - 1))}
  <2>2. 0 \in T
    <3>1. \A i \in D : u[i] \in Nat /\ w[i] \in Nat
      BY <1>2
    <3>2. \A i \in D : ~ (u[i] <= 0 - 1) /\ ~ (w[i] <= 0 - 1)
      BY <3>1
    <3>3. AtMost(u, 0 - 1) = {}
      BY <1>1, <3>2 DEF AtMost
    <3>4. AtMost(w, 0 - 1) = {}
      BY <1>1, <3>2 DEF AtMost
    <3> QED  BY <3>3, <3>4
  <2>3. ASSUME NEW n \in Nat, n \in T PROVE n + 1 \in T
    <3>1. Cardinality(AtMost(u, n)) = Cardinality(AtMost(u, n - 1)) + Cardinality(Where(f, <<c, n>>))
      BY <2>1, AtMostNext DEF u, D
    <3>2. Cardinality(AtMost(w, n)) = Cardinality(AtMost(w, n - 1)) + Cardinality(Where(g, <<c, n>>))
      <4>1. \A i \in DOMAIN g : g[i][1] = c
        BY <1>1, <2>1
      <4> QED  BY <4>1, AtMostNext DEF w
    <3>3. Cardinality(Where(f, <<c, n>>)) = Cardinality(Where(g, <<c, n>>))
      BY SameRowsEverywhere
    <3>4. Cardinality(AtMost(u, n)) = Cardinality(AtMost(w, n))
      BY <2>3, <3>1, <3>2, <3>3
    <3>5. (n + 1) - 1 = n
      OBVIOUS
    <3> QED  BY <3>4, <3>5
  <2> HIDE DEF T
  <2>4. Nat \subseteq T
    BY <2>2, <2>3, Induction
  <2>5. ASSUME NEW n \in Nat PROVE Cardinality(AtMost(u, n)) = Cardinality(AtMost(w, n))
    <3>1. n + 1 \in T /\ (n + 1) - 1 = n
      BY <2>4
    <3> QED  BY <3>1 DEF T
  <2> QED  BY <2>5
<1>6. ASSUME NEW p \in D PROVE f[o[p]] = g[r[p]]
  <2>1. PICK c : \A i \in D : f[i][1] = c /\ g[i][1] = c
    BY <1>4, <1>6
  <2>2. o[p] \in D /\ r[p] \in D /\ u[o[p]] \in Nat /\ w[r[p]] \in Nat
    BY <1>2, <1>3
  <2>3. \A n \in Nat : u[o[p]] <= n <=> w[r[p]] <= n
    <3> SUFFICES ASSUME NEW n \in Nat PROVE u[o[p]] <= n <=> w[r[p]] <= n
      OBVIOUS
    <3>1. n \in Int /\ Cardinality(AtMost(u, n)) = Cardinality(AtMost(w, n))
      BY <1>5, <1>6
    <3>2. u[o[p]] <= n <=> p <= Cardinality(AtMost(u, n))
      BY <1>1, <3>1, OrderCounts
    <3>3. w[r[p]] <= n <=> p <= Cardinality(AtMost(w, n))
      BY <1>1, <3>1, OrderCounts
    <3> QED  BY <3>1, <3>2, <3>3
  <2>4. \A x, y \in Nat : (\A n \in Nat : x <= n <=> y <= n) => x = y
    <3> SUFFICES ASSUME NEW x \in Nat, NEW y \in Nat, \A n \in Nat : x <= n <=> y <= n PROVE x = y
      OBVIOUS
    <3>1. x <= y /\ y <= x
      OBVIOUS
    <3> QED  BY <3>1
  <2> HIDE DEF o, r
  <2>5. u[o[p]] = w[r[p]]
    BY <2>2, <2>3, <2>4
  <2>6. f[o[p]] = <<c, u[o[p]]>>
    BY <1>2, <2>1, <2>2
  <2>7. g[r[p]] = <<c, w[r[p]]>>
    BY <1>2, <2>1, <2>2
  <2> QED  BY <2>5, <2>6, <2>7
<1> QED  BY <1>1, <1>6

\* Comparing the sorted rows is comparing the rows.
LEMMA VerdictIsRight ==
  ASSUME NEW f \in Frames, NEW g \in Frames, Len(f) = Len(g), Sortable(f), Sortable(g)
  PROVE  _rows(f) = _rows(g) <=> SameRows(f, g)
<1>1. f \in Seq(ResultRows) /\ g \in Seq(ResultRows)
  BY EvalAssumption
<1> QED  BY <1>1, SortedAlikeIsSame, SameIsSortedAlike

\* The counter is the number of right answers, the failures are the other cases in
\* order, and the command reports what they make of the threshold.
EvalInv ==
    /\ golden \in GoldenSets
    /\ golden \in Seq(Expectations)
    /\ case \in 1..(Len(golden) + 1)
    /\ evalPc \in {"start", "ask", "judge", "closed", "crashed", "unavailable"}
    /\ evalPc = "judge" => case <= Len(golden) /\ ask \in AskResult
    /\ right \subseteq 1..(case - 1)
    /\ correct = Cardinality(right)
    /\ failures \in Seq(1..Len(golden))
    /\ correct + Len(failures) = case - 1
    /\ \A i \in DOMAIN failures : failures[i] < case
    /\ \A i, j \in DOMAIN failures : i < j => failures[i] < failures[j]
    /\ evalPc \in {"start", "unavailable"} => case = 1 /\ failures = <<>>
    /\ evalPc \in {"start", "ask", "judge"} => exit = None
    /\ evalPc = "closed" => case = Len(golden) + 1 /\ exit \in {0, 1} /\ (exit = 0 <=> ~ Below)
    /\ evalPc = "unavailable" => exit = 1
    /\ evalPc = "crashed" =>
          exit = 1 /\ case <= Len(golden) /\ golden[case] = "sql" /\ ask.sql

LEMMA EvalInitially == EvalInit => EvalInv
<1> SUFFICES ASSUME EvalInit PROVE EvalInv
  OBVIOUS
<1>1. golden \in GoldenSets /\ golden \in Seq(Expectations) /\ Len(golden) \in Nat
  BY EvalAssumption DEF EvalInit
<1>2. right = {} /\ Cardinality(right) = 0 /\ right \subseteq 1..(case - 1)
  BY FS_EmptySet DEF EvalInit
<1>3. failures = <<>> /\ failures \in Seq(1..Len(golden)) /\ Len(failures) = 0 /\ DOMAIN failures = {}
  BY DEF EvalInit
<1>4. case \in 1..(Len(golden) + 1) /\ correct + Len(failures) = case - 1
  BY <1>1, <1>3 DEF EvalInit
<1> QED  BY <1>1, <1>2, <1>3, <1>4 DEF EvalInit, EvalInv

\* The case in hand joins the failures.
LEMMA FailureIsLast ==
  ASSUME NEW n \in Nat, NEW k \in 1..n, NEW s \in Seq(1..n),
         \A i \in DOMAIN s : s[i] < k,
         \A i, j \in DOMAIN s : i < j => s[i] < s[j]
  PROVE  /\ Append(s, k) \in Seq(1..n)
         /\ Len(Append(s, k)) = Len(s) + 1
         /\ \A i \in DOMAIN Append(s, k) : Append(s, k)[i] < k + 1
         /\ \A i, j \in DOMAIN Append(s, k) : i < j => Append(s, k)[i] < Append(s, k)[j]
<1> DEFINE t == Append(s, k)
           m == Len(s)
<1>1. m \in Nat /\ DOMAIN s = 1..m
  OBVIOUS
<1>2. /\ t \in Seq(1..n)
      /\ Len(t) = m + 1
      /\ DOMAIN t = 1..(m + 1)
      /\ t[m + 1] = k
      /\ \A i \in 1..m : t[i] = s[i]
  OBVIOUS
<1> HIDE DEF t, m
<1>3. \A i \in 1..(m + 1) : i = m + 1 \/ i \in 1..m
  BY <1>1
<1>4. \A i \in 1..m : t[i] \in 1..n /\ t[i] < k
  <2>1. \A i \in 1..m : s[i] \in 1..n
    BY <1>1
  <2>2. \A i \in 1..m : s[i] < k
    BY <1>1
  <2> QED  BY <1>2, <2>1, <2>2
<1>5. \A i \in DOMAIN t : t[i] < k + 1
  <2>1. \A x \in 1..n : x < k => x < k + 1
    OBVIOUS
  <2> QED  BY <1>2, <1>3, <1>4, <2>1
<1>6. ASSUME NEW i \in DOMAIN t, NEW j \in DOMAIN t, i < j PROVE t[i] < t[j]
  <2>1. i \in 1..m
    BY <1>1, <1>2, <1>6
  <2>2. CASE j = m + 1
    BY <1>2, <1>4, <2>1, <2>2
  <2>3. CASE j \in 1..m
    BY <1>1, <1>2, <1>6, <2>1, <2>3
  <2> QED  BY <1>2, <1>3, <2>2, <2>3
<1> QED  BY <1>2, <1>5, <1>6 DEF t, m

LEMMA FailsKeeps ==
  ASSUME EvalInv, evalPc \in {"ask", "judge"}, case <= Len(golden),
         golden' = golden, correct' = correct, right' = right,
         failures' = Append(failures, case), case' = case + 1, evalPc' = "ask", exit' = exit
  PROVE  EvalInv'
<1>1. Len(golden) \in Nat /\ case \in 1..Len(golden) /\ failures \in Seq(1..Len(golden))
  BY DEF EvalInv
<1>2. /\ failures' \in Seq(1..Len(golden))
      /\ Len(failures') = Len(failures) + 1
      /\ \A i \in DOMAIN failures' : failures'[i] < case'
      /\ \A i, j \in DOMAIN failures' : i < j => failures'[i] < failures'[j]
  BY <1>1, FailureIsLast DEF EvalInv
<1>3. case' \in 1..(Len(golden) + 1) /\ right' \subseteq 1..(case' - 1)
  <2>1. right \subseteq 1..(case - 1)
    BY DEF EvalInv
  <2> QED  BY <1>1, <2>1
<1>4. correct' = Cardinality(right)' /\ correct' + Len(failures') = case' - 1
  <2>1. right \subseteq 1..(case - 1) /\ correct = Cardinality(right) /\ correct + Len(failures) = case - 1
    BY DEF EvalInv
  <2>2. IsFiniteSet(1..(case - 1))
    BY <1>1, FS_Interval
  <2>3. correct \in Nat
    BY <2>1, <2>2, FS_Subset, FS_CardinalityType
  <2>4. Len(failures) \in Nat /\ case \in Nat
    BY <1>1
  <2>5. Cardinality(right)' = Cardinality(right)
    OBVIOUS
  <2> QED  BY <1>2, <2>1, <2>3, <2>4, <2>5
<1> QED  BY <1>2, <1>3, <1>4 DEF EvalInv

LEMMA CountsKeeps ==
  ASSUME EvalInv, evalPc = "judge", golden' = golden, failures' = failures,
         correct' = correct + 1, right' = right \cup {case}, case' = case + 1, evalPc' = "ask",
         exit' = exit
  PROVE  EvalInv'
<1>1. Len(golden) \in Nat /\ case \in 1..Len(golden) /\ failures \in Seq(1..Len(golden))
  BY DEF EvalInv
<1>2. right \subseteq 1..(case - 1) /\ correct = Cardinality(right) /\ correct + Len(failures) = case - 1
  BY DEF EvalInv
<1>3. IsFiniteSet(right) /\ correct \in Nat
  <2>1. IsFiniteSet(1..(case - 1))
    BY <1>1, FS_Interval
  <2> QED  BY <1>2, <2>1, FS_Subset, FS_CardinalityType
<1>4. case \notin right
  BY <1>1, <1>2
<1>5. Cardinality(right') = correct'
  BY <1>2, <1>3, <1>4, FS_AddElement
<1>6. correct' + Len(failures') = case' - 1
  <2>1. Len(failures) \in Nat /\ correct \in Int /\ case \in Int
    BY <1>1, <1>3
  <2>2. correct + Len(failures) = case - 1
    BY <1>2
  <2>3. \A f, c, k \in Int : c + f = k - 1 => (c + 1) + f = (k + 1) - 1
    OBVIOUS
  <2>4. (correct + 1) + Len(failures) = (case + 1) - 1
    BY <2>1, <2>2, <2>3
  <2> QED  BY <2>4
<1>7. case' \in 1..(Len(golden) + 1) /\ right' \subseteq 1..(case' - 1)
  BY <1>1, <1>2
<1>8. \A i \in DOMAIN failures : failures[i] < case'
  <2>1. \A i \in DOMAIN failures : failures[i] \in Nat
    BY <1>1
  <2>2. \A i \in DOMAIN failures : failures[i] < case
    BY DEF EvalInv
  <2> QED  BY <1>1, <2>1, <2>2
<1> QED  BY <1>5, <1>6, <1>7, <1>8 DEF EvalInv

LEMMA JudgeKeeps ==
  ASSUME EvalInv, Judge
  PROVE  EvalInv'
<1>1. evalPc = "judge" /\ golden' = golden /\ case <= Len(golden) /\ ask \in AskResult
  BY DEF EvalInv, Judge
<1>2. ASSUME NEW ok \in BOOLEAN, Counted(ok, ok) PROVE EvalInv'
  <2>1. CASE ok
    BY <1>1, <1>2, <2>1, CountsKeeps DEF Counted
  <2>2. CASE ~ ok
    BY <1>1, <1>2, <2>2, FailsKeeps DEF Counted
  <2> QED  BY <2>1, <2>2
<1>3. ASSUME Crashed, golden[case] = "sql", ask.sql PROVE EvalInv'
  <2>1. ask' = ask
    BY DEF Judge
  <2> QED  BY <1>1, <1>3, <2>1 DEF Crashed, EvalInv
<1>4. ask.keywords \in BOOLEAN /\ ask.ok \in BOOLEAN
  BY <1>1 DEF AskResult
<1>5. golden[case] \in Expectations
  <2>1. golden \in Seq(Expectations) /\ case \in 1..Len(golden)
    BY <1>1 DEF EvalInv
  <2> QED  BY <2>1
<1>6. CASE golden[case] = "sql"
  <2>1. _compare_sql
    BY <1>6 DEF Judge
  <2>5. ~ ask.sql => Counted(FALSE, FALSE)
    BY <2>1 DEF _compare_sql
  <2>2. CASE Counted(FALSE, FALSE)
    BY <1>2, <2>2
  <2>3. CASE \E same \in BOOLEAN : Counted(same, same)
    BY <1>2, <2>3
  <2>4. ASSUME NEW gen \in Frames, NEW exp \in Frames, Len(gen) = Len(exp), Sortable(gen), Sortable(exp),
               Counted(_rows(gen) = _rows(exp), SameRows(gen, exp))
        PROVE  EvalInv'
    <3> DEFINE ok == _rows(gen) = _rows(exp)
    <3>1. ok <=> SameRows(gen, exp)
      BY <2>4, VerdictIsRight
    <3>2. CASE ok
      <4>1. SameRows(gen, exp)
        BY <3>1, <3>2
      <4> QED  BY <1>1, <2>4, <3>2, <4>1, CountsKeeps DEF Counted
    <3>3. CASE ~ ok
      <4>1. ~ SameRows(gen, exp)
        BY <3>1, <3>3
      <4> QED  BY <1>1, <2>4, <3>3, <4>1, FailsKeeps DEF Counted
    <3> QED  BY <3>2, <3>3
  <2> QED  BY <1>3, <1>6, <2>1, <2>2, <2>3, <2>4, <2>5 DEF _compare_sql
<1>7. CASE golden[case] = "keywords"
  BY <1>2, <1>4, <1>7 DEF Judge
<1>8. CASE golden[case] = "status"
  BY <1>2, <1>4, <1>8 DEF Judge
<1> QED  BY <1>5, <1>6, <1>7, <1>8 DEF Expectations

LEMMA EvalStep ==
  ASSUME EvalInv, [EvalNext]_evalVars
  PROVE  EvalInv'
<1>1. CASE Start
  BY <1>1 DEF Start, EvalInv
<1>2. CASE AskCase
  <2>1. CASE failures' = Append(failures, case)
    <3>1. case' = case + 1 /\ evalPc' = "ask"
      BY <1>2, <2>1 DEF AskCase
    <3> QED  BY <1>2, <2>1, <3>1, FailsKeeps DEF AskCase
  <2>2. CASE ask' \in AskResult /\ evalPc' = "judge" /\ UNCHANGED <<case, failures>>
    BY <1>2, <2>2 DEF AskCase, EvalInv
  <2> QED  BY <1>2, <2>1, <2>2 DEF AskCase
<1>3. CASE Judge
  BY <1>3, JudgeKeeps
<1>4. CASE Finish
  <2>1. case = Len(golden) + 1
    <3>1. Len(golden) \in Nat /\ case \in 1..(Len(golden) + 1)
      BY DEF EvalInv
    <3> QED  BY <1>4, <3>1 DEF Finish
  <2>2. Below' <=> Below
    BY <1>4 DEF Finish, Below
  <2>3. exit' = 0 <=> ~ Below
    BY <1>4 DEF Finish
  <2> QED  BY <1>4, <2>1, <2>2, <2>3 DEF Finish, EvalInv
<1>5. CASE UNCHANGED evalVars
  BY <1>5 DEF evalVars, EvalInv, Below
<1> QED  BY <1>1, <1>2, <1>3, <1>4, <1>5 DEF EvalNext

LEMMA GateInTheEnd ==
  ASSUME EvalInv
  PROVE  GateIsExact
<1>1. EveryCaseIsCountedOnce
  BY DEF EvalInv, EveryCaseIsCountedOnce
<1>2. ASSUME evalPc = "closed"
      PROVE  exit \in {0, 1} /\ (exit = 0 <=> Reached)
  <2>1. /\ exit \in {0, 1} /\ (exit = 0 <=> ~ Below)
        /\ correct = Cardinality(right)
        /\ right \subseteq 1..(case - 1)
        /\ case = Len(golden) + 1
        /\ Len(golden) \in Nat
        /\ Tenths \in Nat
    BY <1>2, EvalAssumption DEF EvalInv
  <2>2. correct \in Nat /\ (golden = <<>> => correct = 0)
    <3>1. IsFiniteSet(1..Len(golden)) /\ right \subseteq 1..Len(golden)
      BY <2>1, FS_Interval
    <3>2. correct \in Nat
      BY <2>1, <3>1, FS_Subset, FS_CardinalityType
    <3>3. golden = <<>> => right = {}
      <4>1. golden = <<>> => 1..Len(golden) = {}
        OBVIOUS
      <4> QED  BY <3>1, <4>1
    <3> QED  BY <2>1, <3>2, <3>3, FS_EmptySet
  <2>3. CASE golden = <<>>
    BY <2>1, <2>2, <2>3 DEF Below, Reached
  <2>4. CASE golden # <<>>
    <3>1. Below <=> 10 * correct < Tenths * Len(golden)
      BY <2>4 DEF Below
    <3> DEFINE x == Tenths * Len(golden)
    <3>2. x \in Nat
      <4>1. \A a, b \in Nat : a * b \in Nat
        OBVIOUS
      <4> QED  BY <2>1, <4>1
    <3>3. ~ (10 * correct < x) <=> 10 * correct >= x
      <4> HIDE DEF x
      <4> QED  BY <2>2, <3>2
    <3> QED  BY <2>1, <2>4, <3>1, <3>3 DEF Reached
  <2> QED  BY <2>3, <2>4
<1>3. ASSUME evalPc = "unavailable" PROVE CutShort
  <2>1. case = 1 /\ failures = <<>> /\ right \subseteq 1..(case - 1)
    BY <1>3 DEF EvalInv
  <2> QED  BY <1>3, <2>1 DEF CutShort
<1>4. ASSUME evalPc = "crashed" PROVE CutShort
  <2>1. case \in 1..(Len(golden) + 1) /\ Len(golden) \in Nat /\ right \subseteq 1..(case - 1)
    BY DEF EvalInv
  <2>2. case \notin right
    BY <2>1
  <2> QED  BY <1>4, <2>2 DEF CutShort, EvalInv
<1>5. evalPc \notin {"closed", "unavailable", "crashed"} => exit = None
  BY DEF EvalInv
<1>6. evalPc \in {"unavailable", "crashed"} => exit = 1
  BY DEF EvalInv
<1> QED  BY <1>1, <1>2, <1>3, <1>4, <1>5, <1>6, EvalAssumption DEF GateIsExact

\* The gate opens only when the share of right answers reaches the threshold, and stays
\* closed only when it does not or the evaluation was cut short, for any golden set,
\* threshold and results (run_eval, _compare_sql and the eval command).
THEOREM GateStaysExact == EvalSpec => []GateIsExact
<1>1. EvalInit => EvalInv
  BY EvalInitially
<1>2. EvalInv /\ [EvalNext]_evalVars => EvalInv'
  BY EvalStep
<1>3. EvalInv => GateIsExact
  BY GateInTheEnd
<1> QED  BY <1>1, <1>2, <1>3, PTL DEF EvalSpec

----------------------------------------------------------------------------
(* MetricsWindow: the samples of a snapshot and their percentiles *)

Dropped(s) == IF Len(s) > maxlen THEN Len(s) - maxlen ELSE 0

LEMMA LastOfIs ==
  ASSUME NEW s \in Seq(Nat), maxlen \in Nat
  PROVE  /\ Dropped(s) \in 0..Len(s)
         /\ LastOf(s) \in Seq(Nat)
         /\ Len(LastOf(s)) = Len(s) - Dropped(s)
         /\ \A i \in 1..(Len(s) - Dropped(s)) : LastOf(s)[i] = s[Dropped(s) + i]
<1> DEFINE n == Len(s)
           d == Dropped(s)
<1>1. n \in Nat /\ d \in 0..n
  BY DEF Dropped
<1>2. LastOf(s) = SubSeq(s, d + 1, n)
  BY DEF LastOf, Dropped
<1> HIDE DEF n, d
<1>3. \A i \in (d + 1)..n : s[i] \in Nat
  BY <1>1 DEF n
<1>4. LastOf(s) \in Seq(Nat) /\ Len(LastOf(s)) = n - d
  BY <1>1, <1>2, <1>3
<1>5. \A i \in 1..(n - d) : LastOf(s)[i] = s[d + i]
  BY <1>1, <1>2
<1> QED  BY <1>1, <1>4, <1>5 DEF n, d

\* Recording to the deque is recording to the whole list.
LEMMA LastOfAppend ==
  ASSUME NEW s \in Seq(Nat), NEW x \in Nat, maxlen \in Nat \ {0}
  PROVE  LastOf(Append(LastOf(s), x)) = LastOf(Append(s, x))
<1> DEFINE n == Len(s)
           d == Dropped(s)
           w == LastOf(s)
           t == Append(s, x)
           v == Append(w, x)
<1>1. /\ n \in Nat
      /\ d = IF n > maxlen THEN n - maxlen ELSE 0
      /\ d \in 0..n
      /\ w \in Seq(Nat)
      /\ Len(w) = n - d
      /\ \A i \in 1..(n - d) : w[i] = s[d + i]
  <2>1. maxlen \in Nat /\ n \in Nat
    OBVIOUS
  <2>2. d = IF n > maxlen THEN n - maxlen ELSE 0
    BY DEF Dropped
  <2> HIDE DEF d, w
  <2>3. /\ d \in 0..n
        /\ w \in Seq(Nat)
        /\ Len(w) = n - d
        /\ \A i \in 1..(n - d) : w[i] = s[d + i]
    BY <2>1, LastOfIs DEF d, w
  <2> QED  BY <2>1, <2>2, <2>3
<1>2. t \in Seq(Nat) /\ Len(t) = n + 1 /\ t[n + 1] = x /\ \A i \in 1..n : t[i] = s[i]
  OBVIOUS
<1> HIDE DEF n, d, w
<1>3. /\ v \in Seq(Nat)
      /\ Len(v) = n - d + 1
      /\ v[n - d + 1] = x
      /\ \A i \in 1..(n - d) : v[i] = w[i]
  <2>1. w \in Seq(Nat) /\ Len(w) = n - d
    BY <1>1
  <2>2. v \in Seq(Nat) /\ Len(v) = Len(w) + 1 /\ v[Len(w) + 1] = x /\ \A i \in 1..Len(w) : v[i] = w[i]
    BY <2>1
  <2> HIDE DEF v
  <2> QED  BY <2>1, <2>2
<1>4. \A i \in 1..(n - d + 1) : v[i] = t[d + i]
  <2> SUFFICES ASSUME NEW i \in 1..(n - d + 1) PROVE v[i] = t[d + i]
    OBVIOUS
  <2> HIDE DEF v, t
  <2>1. n \in Nat /\ d \in 0..n
    BY <1>1
  <2>2. CASE i = n - d + 1
    <3>1. d + i = n + 1
      BY <2>1, <2>2
    <3>2. v[i] = x /\ t[n + 1] = x
      BY <1>2, <1>3, <2>2
    <3> QED  BY <3>1, <3>2
  <2>3. CASE i # n - d + 1
    <3>1. i \in 1..(n - d) /\ d + i \in 1..n
      BY <2>1, <2>3
    <3>2. v[i] = w[i] /\ w[i] = s[d + i]
      BY <1>1, <1>3, <3>1
    <3>3. t[d + i] = s[d + i]
      BY <1>2, <3>1
    <3> QED  BY <3>2, <3>3
  <2> QED  BY <2>2, <2>3
<1> HIDE DEF v, t
<1> DEFINE dv == Dropped(v)
           dt == Dropped(t)
<1>5. dt = d + dv /\ dv \in Nat /\ dv <= n - d + 1
  <2>1. dt = IF n + 1 > maxlen THEN n + 1 - maxlen ELSE 0
    <3>1. Len(t) = n + 1 /\ n \in Int
      BY <1>1, <1>2
    <3> QED  BY <3>1 DEF Dropped
  <2>2. dv = IF n - d + 1 > maxlen THEN n - d + 1 - maxlen ELSE 0
    <3>1. Len(v) = n - d + 1 /\ n \in Int /\ d \in Int
      BY <1>1, <1>3
    <3> QED  BY <3>1 DEF Dropped
  <2> HIDE DEF dt, dv
  <2>3. n \in Nat /\ d \in 0..n /\ d = IF n > maxlen THEN n - maxlen ELSE 0
    BY <1>1
  <2> QED  BY <2>1, <2>2, <2>3
<1>6. /\ LastOf(v) \in Seq(Nat)
      /\ Len(LastOf(v)) = n - d + 1 - dv
      /\ \A i \in 1..(n - d + 1 - dv) : LastOf(v)[i] = v[dv + i]
  <2>1. maxlen \in Nat /\ v \in Seq(Nat) /\ Len(v) = n - d + 1 /\ n \in Int /\ d \in Int /\ dv \in Int
    BY <1>1, <1>3, <1>5
  <2>2. /\ LastOf(v) \in Seq(Nat)
        /\ Len(LastOf(v)) = Len(v) - dv
        /\ \A i \in 1..(Len(v) - dv) : LastOf(v)[i] = v[dv + i]
    BY <2>1, LastOfIs
  <2> HIDE DEF dv
  <2>3. Len(v) - dv = n - d + 1 - dv
    BY <2>1
  <2> QED  BY <2>2, <2>3
<1>7. /\ LastOf(t) \in Seq(Nat)
      /\ Len(LastOf(t)) = n + 1 - dt
      /\ \A i \in 1..(n + 1 - dt) : LastOf(t)[i] = t[dt + i]
  <2>1. maxlen \in Nat /\ t \in Seq(Nat) /\ Len(t) = n + 1 /\ n \in Int /\ d \in Int /\ dt \in Int
    BY <1>1, <1>2, <1>5
  <2>2. /\ LastOf(t) \in Seq(Nat)
        /\ Len(LastOf(t)) = Len(t) - dt
        /\ \A i \in 1..(Len(t) - dt) : LastOf(t)[i] = t[dt + i]
    BY <2>1, LastOfIs
  <2> HIDE DEF dt
  <2>3. Len(t) - dt = n + 1 - dt
    BY <2>1
  <2> QED  BY <2>2, <2>3
<1> HIDE DEF dv, dt
<1>8. n + 1 - dt = n - d + 1 - dv
  BY <1>1, <1>5
<1>9. \A i \in 1..(n - d + 1 - dv) : LastOf(v)[i] = LastOf(t)[i]
  <2> SUFFICES ASSUME NEW i \in 1..(n - d + 1 - dv) PROVE v[dv + i] = t[dt + i]
    BY <1>6, <1>7, <1>8
  <2>1. dv + i \in 1..(n - d + 1) /\ d + (dv + i) = dt + i
    BY <1>1, <1>5
  <2> QED  BY <1>4, <2>1
<1>10. LastOf(v) = LastOf(t)
  BY <1>6, <1>7, <1>8, <1>9, SeqEqual
<1> QED  BY <1>10 DEF v, t, w

\* The sample at that index is a percentile.
LEMMA PercentileIs ==
  ASSUME latencies \in Seq(Nat), latencies # <<>>, NEW percent \in 0..100
  PROVE  IsPercentile(percentile(percent), percent, latencies)
<1> DEFINE s == latencies
           size == Len(s)
           order == Order(s)
           x == percent * size
           index == x \div 100
           p == (IF index < size THEN index ELSE size - 1) + 1
           v == s[order[p]]
<1>1. s \in Seq(Int) /\ DOMAIN s = 1..size /\ size \in Nat \ {0} /\ \A i \in DOMAIN s : s[i] \in Nat
  OBVIOUS
<1>2. percentile(percent) = v
  <2>1. Sorted(s, s) = [i \in DOMAIN s |-> s[order[i]]]
    BY DEF Sorted
  <2>2. Len(Sorted(s, s)) = size
    BY <1>1, <2>1
  <2>3. p \in DOMAIN s
    <3>1. x \in Nat
      <4>1. \A a, b \in Nat : a * b \in Nat
        OBVIOUS
      <4> QED  BY <1>1, <4>1
    <3>2. index \in Nat
      <4> HIDE DEF x
      <4> QED  BY <3>1
    <3> HIDE DEF index, size, s
    <3> QED  BY <1>1, <3>2
  <2> QED  BY <1>1, <2>1, <2>2, <2>3 DEF percentile
<1>3. x \in Nat /\ x <= 100 * size
  <2>1. \A a \in 0..100, b \in Nat : a * b \in Nat /\ a * b <= 100 * b
    OBVIOUS
  <2> QED  BY <1>1, <2>1
<1>4. (100 - percent) * size = 100 * size - x
  <2>1. \A a \in 0..100, b \in Nat : (100 - a) * b = 100 * b - a * b
    OBVIOUS
  <2> QED  BY <1>1, <2>1
<1> HIDE DEF x
<1>5. index \in Nat /\ 100 * index <= x /\ x < 100 * (index + 1)
  BY <1>3
<1> HIDE DEF index, size, s
<1>6. p \in 1..size /\ 100 * (p - 1) <= x /\ x <= 100 * p
  BY <1>1, <1>3, <1>5
<1> HIDE DEF p
<1>7. order \in [DOMAIN s -> DOMAIN s]
  BY <1>1, OrderIs
<1>8. v \in Nat
  BY <1>1, <1>6, <1>7
<1> HIDE DEF order
<1>9. s[Order(s)[p]] = v
  BY DEF v, order
<1> HIDE DEF order, v
<1>10. size = Len(s) /\ size \in Nat /\ p \in DOMAIN s /\ p \in Nat /\ v \in Int
  BY <1>1, <1>6, <1>8 DEF size
<1>11. p <= Cardinality(AtMost(s, v)) /\ Cardinality(AtMost(s, v)) \in Nat
  <2>1. /\ Cardinality(AtMost(s, v)) \in 0..Len(s)
        /\ s[Order(s)[p]] <= v <=> p <= Cardinality(AtMost(s, v))
    BY <1>1, <1>10, OrderCounts
  <2>2. v <= v
    BY <1>10
  <2> QED  BY <1>9, <1>10, <2>1, <2>2
<1>12. Cardinality(AtLeast(s, v)) >= size - (p - 1) /\ Cardinality(AtLeast(s, v)) \in Nat
  <2> DEFINE below == AtMost(s, v - 1)
             D == DOMAIN s
  <2>1. v - 1 \in Int /\ ~ (v <= v - 1)
    BY <1>10
  <2>2. /\ IsFiniteSet(below)
        /\ Cardinality(below) \in 0..Len(s)
        /\ s[Order(s)[p]] <= v - 1 <=> p <= Cardinality(below)
    BY <1>1, <1>10, <2>1, OrderCounts
  <2>3. IsFiniteSet(D) /\ Cardinality(D) = size
    BY <1>1, PositionsAre DEF size
  <2>4. AtLeast(s, v) = D \ below
    <3>1. \A y \in Nat : y >= v <=> ~ (y <= v - 1)
      BY <1>8
    <3> QED  BY <1>1, <3>1 DEF AtLeast, AtMost
  <2>5. D \cap below = below
    BY DEF AtMost
  <2> HIDE DEF below, D
  <2>6. ~ (p <= Cardinality(below))
    BY <1>9, <2>1, <2>2
  <2>7. Cardinality(D \ below) = size - Cardinality(below)
    <3>1. Cardinality(D \ below) = Cardinality(D) - Cardinality(D \cap below)
      BY <2>3, FS_Difference
    <3> QED  BY <2>3, <2>5, <3>1
  <2>8. Cardinality(below) \in 0..size /\ size \in Nat
    BY <1>1, <2>2 DEF size
  <2>9. \A a \in 0..size : ~ (p <= a) => size - a >= size - (p - 1) /\ size - a \in Nat
    BY <1>10
  <2> QED  BY <2>4, <2>6, <2>7, <2>8, <2>9
<1>13. 100 * Cardinality(AtMost(s, v)) >= x
  BY <1>1, <1>3, <1>6, <1>11
<1>14. 100 * Cardinality(AtLeast(s, v)) >= 100 * size - x
  BY <1>1, <1>3, <1>6, <1>12
<1>15. IsPercentile(v, percent, s)
  <2>1. /\ 100 * Cardinality({i \in DOMAIN s : s[i] <= v}) >= percent * Len(s)
        /\ 100 * Cardinality({i \in DOMAIN s : s[i] >= v}) >= (100 - percent) * Len(s)
    BY <1>4, <1>13, <1>14 DEF AtMost, AtLeast, x, size
  <2> QED  BY <2>1 DEF IsPercentile
<1> QED  BY <1>2, <1>15 DEF s

\* The deque holds the last samples recorded.
WindowInv ==
    /\ maxlen \in Nat \ {0}
    /\ recorded \in Seq(Nat)
    /\ latencies = LastOf(recorded)

LEMMA WindowInitially == MetricsInit => WindowInv
<1> SUFFICES ASSUME MetricsInit PROVE WindowInv
  OBVIOUS
<1>1. maxlen \in Sizes /\ recorded \in Starts(maxlen) /\ latencies = LastOf(recorded)
  BY DEF MetricsInit
<1>2. maxlen \in Nat \ {0} /\ recorded \in Seq(Nat)
  BY <1>1, MetricsAssumption
<1> QED  BY <1>1, <1>2 DEF WindowInv

LEMMA WindowStep ==
  ASSUME WindowInv, [MetricsNext]_metricsVars
  PROVE  WindowInv'
<1>1. ASSUME NEW x \in Latencies, record(x) PROVE WindowInv'
  <2>1. x \in Nat /\ maxlen' = maxlen /\ maxlen \in Nat \ {0} /\ recorded \in Seq(Nat)
    BY <1>1, MetricsAssumption DEF record, WindowInv
  <2>2. recorded' = Append(recorded, x) /\ latencies' = LastOf(Append(LastOf(recorded), x))
    BY <1>1 DEF record, WindowInv
  <2>3. latencies' = LastOf(Append(recorded, x)) /\ recorded' \in Seq(Nat)
    BY <2>1, <2>2, LastOfAppend
  <2>4. LastOf(recorded)' = LastOf(recorded')
    BY <2>1 DEF LastOf
  <2> QED  BY <2>1, <2>2, <2>3, <2>4 DEF WindowInv
<1>2. CASE UNCHANGED <<maxlen, latencies, recorded>>
  BY <1>2 DEF WindowInv, LastOf
<1> QED  BY <1>1, <1>2 DEF MetricsNext, snapshot, metricsVars

\* What Metrics.snapshot shows are percentiles of the last max_samples latencies, for any
\* number of them.
THEOREM PercentilesAreShown == MetricsSpec => ShownArePercentiles
<1>1. WindowInv /\ [MetricsNext]_metricsVars
        => [shown' # shown /\ recorded # <<>> =>
               /\ IsPercentile(shown'.p50, 50, LastOf(recorded))
               /\ IsPercentile(shown'.p95, 95, LastOf(recorded))]_metricsVars
  <2> SUFFICES ASSUME WindowInv, MetricsNext, shown' # shown, recorded # <<>>
               PROVE  /\ IsPercentile(shown'.p50, 50, LastOf(recorded))
                      /\ IsPercentile(shown'.p95, 95, LastOf(recorded))
    OBVIOUS
  <2>1. shown' = [p50 |-> percentile(50), p95 |-> percentile(95)]
    BY DEF MetricsNext, snapshot, record
  <2>2. latencies \in Seq(Nat) /\ latencies # <<>> /\ latencies = LastOf(recorded)
    <3>1. maxlen \in Nat \ {0} /\ recorded \in Seq(Nat) /\ latencies = LastOf(recorded)
      BY DEF WindowInv
    <3>2. Len(recorded) \in Nat \ {0}
      BY <3>1
    <3>3. /\ Dropped(recorded) = IF Len(recorded) > maxlen THEN Len(recorded) - maxlen ELSE 0
          /\ LastOf(recorded) \in Seq(Nat)
          /\ Len(LastOf(recorded)) = Len(recorded) - Dropped(recorded)
      BY <3>1, LastOfIs DEF Dropped
    <3>4. Len(LastOf(recorded)) # 0
      BY <3>1, <3>2, <3>3
    <3> QED  BY <3>1, <3>3, <3>4
  <2>3. IsPercentile(percentile(50), 50, latencies) /\ IsPercentile(percentile(95), 95, latencies)
    BY <2>2, PercentileIs
  <2> QED  BY <2>1, <2>2, <2>3
<1> QED
  BY <1>1, WindowInitially, WindowStep, PTL DEF MetricsSpec, ShownArePercentiles
=============================================================================

------------------------------ MODULE LlmRetry ------------------------------
(***************************************************************************)
(* One call of the model: complete (llm/client.py), a request sent again   *)
(* with exponential backoff while its failures look transient.             *)
(*                                                                         *)
(* Replies, by how the client classifies them: "content"; "status5xx",     *)
(* "timeout" and "connection" are retried; "status4xx" (429 included: a    *)
(* RateLimitError is an APIStatusError below 500) and "malformed" (any     *)
(* other exception, such as a reply without choices) are not.              *)
(***************************************************************************)
EXTENDS Integers, Sequences

CONSTANT Budgets   \* llm.max_retries; nothing forbids a negative one

ASSUME RetryAssumption == Budgets \subseteq Int

Transient == {"status5xx", "timeout", "connection"}
Hard == {"status4xx", "malformed"}
Replies == {"content"} \cup Transient \cup Hard

VARIABLES
    budget,    \* cfg.llm.max_retries
    retryPc,        \* "ready", "waiting", "sleeping", "returned", "raised" or "cancelled"
    attempt,
    replies,   \* history: what each request was answered with
    waits      \* history: the pauses between requests, in half seconds

retryVars == <<budget, retryPc, attempt, replies, waits>>

RetryTypeOK ==
    /\ budget \in Budgets
    /\ retryPc \in {"ready", "waiting", "sleeping", "returned", "raised", "cancelled"}
    /\ attempt \in 0..(IF budget < 0 THEN 0 ELSE budget + 1)
    /\ replies \in Seq(Replies)
    /\ waits \in Seq(Int)

RetryInit ==
    /\ budget \in Budgets
    /\ retryPc = "ready"
    /\ attempt = 0
    /\ replies = <<>>
    /\ waits = <<>>

Send ==
    /\ retryPc = "ready"
    /\ attempt <= budget
    /\ retryPc' = "waiting"
    /\ UNCHANGED <<budget, attempt, replies, waits>>

\* the loop has run out of attempts
GiveUp ==
    /\ retryPc = "ready"
    /\ attempt > budget
    /\ retryPc' = "raised"
    /\ UNCHANGED <<budget, attempt, replies, waits>>

Answered(r) ==
    /\ retryPc = "waiting"
    /\ r = "content"
    /\ replies' = Append(replies, r)
    /\ retryPc' = "returned"
    /\ UNCHANGED <<budget, attempt, waits>>

FailedHard(r) ==
    /\ retryPc = "waiting"
    /\ r \in Hard
    /\ replies' = Append(replies, r)
    /\ retryPc' = "raised"
    /\ UNCHANGED <<budget, attempt, waits>>

\* Mutant: the last failure is slept on too.
FailedThenSleeps(r) ==
    /\ retryPc = "waiting"
    /\ r \in Transient
    /\ replies' = Append(replies, r)
    /\ retryPc' = "sleeping"
    /\ waits' = Append(waits, 2^attempt)
    /\ UNCHANGED <<budget, attempt>>

\* no pause after the last attempt
Failed(r) ==
    /\ retryPc = "waiting"
    /\ r \in Transient
    /\ replies' = Append(replies, r)
    /\ IF attempt < budget
       THEN /\ retryPc' = "sleeping"
            /\ waits' = Append(waits, 2^attempt)
            /\ UNCHANGED attempt
       ELSE /\ retryPc' = "ready"
            /\ attempt' = attempt + 1
            /\ UNCHANGED waits
    /\ UNCHANGED budget

Wake ==
    /\ retryPc = "sleeping"
    /\ retryPc' = "ready"
    /\ attempt' = attempt + 1
    /\ UNCHANGED <<budget, replies, waits>>

\* the ask is cancelled at an await: CancelledError is no Exception and passes through
Cancel ==
    /\ retryPc \in {"waiting", "sleeping"}
    /\ retryPc' = "cancelled"
    /\ UNCHANGED <<budget, attempt, replies, waits>>

Replied == \E r \in Replies : Answered(r) \/ FailedHard(r) \/ Failed(r)

Proceeds == Send \/ GiveUp \/ Replied \/ Wake

RetryNext == Proceeds \/ Cancel

\* httpx ends every request, with a reply or a timeout
RetrySpec == RetryInit /\ [][RetryNext]_retryVars /\ WF_retryVars(Proceeds)

----------------------------------------------------------------------------
(* Properties *)

\* The pauses double, there is one between any two requests, and none is spent when no
\* request follows (2**attempt * 0.5, attempt < max_retries).
BackoffDoubles ==
    /\ \A i \in 1..Len(waits) : waits[i] = 2^(i - 1)
    /\ retryPc = "waiting" => Len(waits) = Len(replies)
    /\ waits # <<>> => Len(waits) <= budget

\* The outcome is the one its replies call for: a request follows only on transient
\* failures, at most max_retries times; the call returns on content and raises only on
\* a hard failure or when the attempts are used up; and the pauses double (complete).
OutcomeFitsReplies ==
    LET n == Len(replies) IN
       /\ BackoffDoubles
       /\ \A i \in 1..(n - 1) : replies[i] \in Transient
       /\ n > 0 => n <= budget + 1
       /\ retryPc = "returned" => n > 0 /\ replies[n] = "content"
       /\ retryPc = "raised" => \/ n > 0 /\ replies[n] \in Hard
                                \/ n >= budget + 1 /\ (n > 0 => replies[n] \in Transient)

\* The call ends, whatever the provider answers.
CallEnds == <>(retryPc \in {"returned", "raised", "cancelled"})
=============================================================================

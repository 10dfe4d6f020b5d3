---------------------------- MODULE AskContract ----------------------------
(***************************************************************************)
(* What InsightKit.ask promises its callers, apart from how it works: the  *)
(* answer an ask decides on never changes; it is logged at most once, and  *)
(* before it is given; an answer given without being decided is one that   *)
(* was published for the same question; an error is never published.       *)
(***************************************************************************)
EXTENDS Naturals

CONSTANTS Asks, Questions, Kinds, None

Answers == [question : Questions, status : {"ok", "no_data", "error"}, data : SUBSET Kinds]

VARIABLES
    phase,     \* of each ask: idle, open, decided, answered or failed
    asked,     \* the question of each ask, once it is open
    answer,    \* what each ask decided on or reused
    log,       \* the statuses recorded for each ask, at most one
    published  \* the answers that may be given again

contract == <<phase, asked, answer, log, published>>

Init ==
    /\ phase = [a \in Asks |-> "idle"]
    /\ asked = [a \in Asks |-> None]
    /\ answer = [a \in Asks |-> None]
    /\ log = [a \in Asks |-> {}]
    /\ published = {}

Open(a) ==
    /\ phase[a] = "idle"
    /\ phase' = [phase EXCEPT ![a] = "open"]
    /\ \E q \in Questions : asked' = [asked EXCEPT ![a] = q]
    /\ UNCHANGED <<answer, log, published>>

\* an "ok" answer rests on data
Decide(a) ==
    /\ phase[a] = "open"
    /\ phase' = [phase EXCEPT ![a] = "decided"]
    /\ \E x \in Answers :
          /\ x.question = asked[a]
          /\ x.status = "ok" => x.data # {}
          /\ answer' = [answer EXCEPT ![a] = x]
    /\ UNCHANGED <<asked, log, published>>

Reuse(a) ==
    /\ phase[a] = "open"
    /\ phase' = [phase EXCEPT ![a] = "answered"]
    /\ \E x \in published :
          /\ x.question = asked[a]
          /\ answer' = [answer EXCEPT ![a] = x]
    /\ UNCHANGED <<asked, log, published>>

Log(a) ==
    /\ phase[a] = "decided"
    /\ log[a] = {}
    /\ log' = [log EXCEPT ![a] = {answer[a].status}]
    /\ UNCHANGED <<phase, asked, answer, published>>

\* an answer that is no error replaces what was published before it, if anything
Publish(a) ==
    /\ phase[a] = "decided"
    /\ answer[a].status # "error"
    /\ \E old \in SUBSET published : published' = (published \ old) \cup {answer[a]}
    /\ UNCHANGED <<phase, asked, answer, log>>

Give(a) ==
    /\ phase[a] = "decided"
    /\ phase' = [phase EXCEPT ![a] = "answered"]
    /\ UNCHANGED <<asked, answer, log, published>>

\* a failed ask gives no answer; the asks of a process fail together when it dies
Fail(some) ==
    /\ \A a \in some : phase[a] \in {"open", "decided"}
    /\ phase' = [a \in Asks |-> IF a \in some THEN "failed" ELSE phase[a]]
    /\ answer' = [a \in Asks |-> IF a \in some THEN None ELSE answer[a]]
    /\ UNCHANGED <<asked, log, published>>

Forget ==
    /\ \E old \in SUBSET published : published' = published \ old
    /\ UNCHANGED <<phase, asked, answer, log>>

Next ==
    \/ \E a \in Asks :
          \/ Open(a) \/ Decide(a) \/ Reuse(a) \/ Log(a) \/ Publish(a) \/ Give(a)
    \/ \E some \in SUBSET Asks : Fail(some)
    \/ Forget

Spec == Init /\ [][Next]_contract
=============================================================================

----------------------------- MODULE Evaluation -----------------------------
(***************************************************************************)
(* The accuracy gate: run_eval (eval.py) and the eval command (cli.py).    *)
(*                                                                         *)
(* A golden case asks for an SQL result, for keywords in the insight, or   *)
(* just for an answer.  A frame is the sequence of its rows, in the order  *)
(* the database returned them; a row is one value, <<class, n>>, where     *)
(* values of different classes (a number, a string, NULL) do not compare.  *)
(***************************************************************************)
EXTENDS NoValue, Lists

CONSTANTS
    GoldenSets,   \* the golden files: sequences of cases
    Frames,       \* the results queries can have
    Tenths        \* --threshold, in tenths

Expectations == {"sql", "keywords", "status"}

ResultRows == STRING \X Nat

ASSUME EvalAssumption ==
    /\ GoldenSets \subseteq Seq(Expectations)
    /\ Frames \subseteq Seq(ResultRows)
    /\ Tenths \in 0..10
    /\ None \notin Nat

VARIABLES
    golden,
    evalPc,     \* "start", "ask", "judge", "closed", "crashed" or "unavailable"
    case,       \* the case in hand
    ask,        \* what kit.ask returned for it
    correct,
    failures,   \* the failed cases, in order
    right,      \* history: the cases whose answer was the right one
    exit        \* the exit code of the command

evalVars == <<golden, evalPc, case, ask, correct, failures, right, exit>>

AskResult == [ok : BOOLEAN, sql : BOOLEAN, keywords : BOOLEAN]

EvalTypeOK ==
    /\ golden \in GoldenSets
    /\ case \in 1..(Len(golden) + 1)
    /\ ask \in AskResult \cup {None}
    /\ correct \in 0..Len(golden)
    /\ failures \in Seq(1..Len(golden))
    /\ exit \in {None, 0, 1}

EvalInit ==
    /\ golden \in GoldenSets
    /\ evalPc = "start"
    /\ case = 1
    /\ ask = None
    /\ correct = 0
    /\ failures = <<>>
    /\ right = {}
    /\ exit = None

\* the schema cannot be read: before the loop, nothing catches that
Start ==
    /\ evalPc = "start"
    /\ \/ evalPc' = "ask" /\ UNCHANGED exit
       \/ evalPc' = "unavailable" /\ exit' = 1
    /\ UNCHANGED <<golden, case, ask, correct, failures, right>>

\* an ask that raises, or one that answers
AskCase ==
    /\ evalPc = "ask"
    /\ case <= Len(golden)
    /\ \/ /\ failures' = Append(failures, case)
          /\ case' = case + 1
          /\ UNCHANGED <<evalPc, ask>>
       \/ /\ ask' \in AskResult
          /\ evalPc' = "judge"
          /\ UNCHANGED <<case, failures>>
    /\ UNCHANGED <<golden, correct, right, exit>>

----------------------------------------------------------------------------
(* The verdict *)

Classes(f) == {f[i][1] : i \in DOMAIN f}

\* sorted() of values that do not compare raises a TypeError
Sortable(f) == Cardinality(Classes(f)) <= 1

\* Mutant: results are compared as sets.
_rowsOnce(f) == {f[i] : i \in DOMAIN f}

_rows(f) == Sorted(f, [i \in DOMAIN f |-> f[i][2]])

\* the two results have the same rows, each equally often
SameRows(f, g) ==
    \A v \in {f[i] : i \in DOMAIN f} \cup {g[i] : i \in DOMAIN g} :
       Cardinality({i \in DOMAIN f : f[i] = v}) = Cardinality({i \in DOMAIN g : g[i] = v})

Counted(ok, wasRight) ==
    /\ correct' = IF ok THEN correct + 1 ELSE correct
    /\ failures' = IF ok THEN failures ELSE Append(failures, case)
    /\ right' = IF wasRight THEN right \cup {case} ELSE right
    /\ case' = case + 1
    /\ evalPc' = "ask"
    /\ UNCHANGED exit

\* _rows is called outside the try: what it raises leaves run_eval
Crashed ==
    /\ evalPc' = "crashed"
    /\ exit' = 1
    /\ UNCHANGED <<case, correct, failures, right>>

\* either query may fail to execute; then the texts decide
_compare_sql ==
    IF ~ask.sql THEN Counted(FALSE, FALSE)
    ELSE \/ \E same \in BOOLEAN : Counted(same, same)
         \/ \E gen, exp \in Frames :
               IF Len(gen) # Len(exp) THEN Counted(FALSE, FALSE)
               ELSE IF ~Sortable(gen) \/ ~Sortable(exp) THEN Crashed
               ELSE Counted(_rows(gen) = _rows(exp), SameRows(gen, exp))

Judge ==
    /\ evalPc = "judge"
    /\ CASE golden[case] = "sql" -> _compare_sql
         [] golden[case] = "keywords" -> Counted(ask.keywords, ask.keywords)
         [] golden[case] = "status" -> Counted(ask.ok, ask.ok)
    /\ UNCHANGED <<golden, ask>>

\* score < threshold; the score of an empty set is 0
Below == IF golden = <<>> THEN 0 < Tenths ELSE 10 * correct < Tenths * Len(golden)

Finish ==
    /\ evalPc = "ask"
    /\ case > Len(golden)
    /\ evalPc' = "closed"
    /\ exit' = IF Below THEN 1 ELSE 0
    /\ UNCHANGED <<golden, case, ask, correct, failures, right>>

EvalNext == Start \/ AskCase \/ Judge \/ Finish

EvalSpec == EvalInit /\ [][EvalNext]_evalVars /\ WF_evalVars(EvalNext)

----------------------------------------------------------------------------
(* Properties *)

\* Every case so far is either counted as correct or listed as a failure, once, and in
\* the order of the file, also when its ask raised and when a comparison then crashed.
EveryCaseIsCountedOnce ==
    /\ evalPc \in {"ask", "judge", "closed", "crashed"} => correct + Len(failures) = case - 1
    /\ \A i, j \in DOMAIN failures : i < j => failures[i] < failures[j]

\* the share of cases with the right answer is at least the threshold
Reached ==
    10 * Cardinality(right) >= Tenths * (IF golden = <<>> THEN 1 ELSE Len(golden))

\* what ends an evaluation before its last case: an unreadable schema, before any case,
\* or two results of as many rows whose values do not sort, in the case being compared
CutShort ==
    \/ evalPc = "unavailable" /\ case = 1 /\ right = {} /\ failures = <<>>
    \/ /\ evalPc = "crashed"
       /\ case <= Len(golden) /\ golden[case] = "sql" /\ ask.sql
       /\ case \notin right

\* The gate opens only when the share of cases with the right answer reaches the
\* threshold, and it stays closed only when it does not or when the evaluation was cut
\* short: comparing sorted rows neither forgives nor invents a difference, and no case
\* is lost or weighs more or less than another.  Cut short it stays closed whatever the
\* share (run_eval, _compare_sql outside the try, EvalResult.score, cli.eval).
GateIsExact ==
    /\ EveryCaseIsCountedOnce
    /\ exit = 0 => evalPc = "closed" /\ Reached
    /\ exit = 1 => (evalPc = "closed" /\ ~Reached) \/ CutShort

\* The evaluation ends.
EvalEnds == <>(exit # None)
=============================================================================

---------------------------- MODULE MCEvaluation ----------------------------
(* Golden sets of up to three cases and results of up to three rows for TLC. *)
EXTENDS Evaluation

MCGoldenSets == UNION {[1..n -> {"sql", "keywords", "status"}] : n \in 0..3}

MCRow(n) == <<"number", n>>
MCNull == <<"null", 0>>

\* every order of a row that comes twice, single rows, nothing, NULLs alone and with a number
MCFrames ==
    {<<>>, <<MCNull, MCNull>>, <<MCRow(1), MCNull>>} \cup {<<MCRow(n)>> : n \in 1..2}
       \cup {<<MCRow(a), MCRow(b), MCRow(c)>> : a, b, c \in 1..2}
=============================================================================

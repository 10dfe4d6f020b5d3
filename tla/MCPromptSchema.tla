--------------------------- MODULE MCPromptSchema ---------------------------
(* Catalogues of up to three tables for TLC. *)
EXTENDS PromptSchema

MCKey == [key |-> TRUE, ref |-> None]
MCPlain == [key |-> FALSE, ref |-> None]
MCRefers(n, exact) == [key |-> FALSE, ref |-> [table |-> n, exact |-> exact]]

\* references to each of three tables, once misspelled, and to a table of another schema
MCReferences ==
    {MCRefers(n, TRUE) : n \in 1..3} \cup {MCRefers(2, FALSE), MCRefers(9, TRUE)}

MCShapes ==
    {<<>>, <<MCKey>>} \cup {<<MCKey, MCPlain, c>> : c \in MCReferences}

MCTables == [score : {0, 1}, cols : MCShapes, sample : {0}]

MCCatalogues ==
    {<<>>} \cup [1..1 -> {[t EXCEPT !.sample = 2] : t \in MCTables}] \cup [1..3 -> MCTables]
=============================================================================

--------------------------- MODULE MCAskPipeline ---------------------------
(* Small instances of AskPipeline for TLC. *)
EXTENDS AskPipeline, TLC

CONSTANTS k1, a1, a2, r1, d1, q1, q2

MCOneKit == [t \in Tasks |-> k1]
MCOneDb == [k \in Kits |-> d1]

Plan(sql, queries) ==
    [object |-> TRUE, needs |-> TRUE, sql |-> sql, long |-> FALSE, queries |-> queries]
Answer(long) ==
    [object |-> TRUE, needs |-> FALSE, sql |-> "none", long |-> long, queries |-> <<>>]
Garbage ==
    [object |-> FALSE, needs |-> TRUE, sql |-> "none", long |-> FALSE, queries |-> <<>>]

\* every shape of plan, with up to two queries
MCAllReplies ==
    [object : BOOLEAN, needs : BOOLEAN, sql : QueryKind \cup {"none"}, long : BOOLEAN,
     queries : {<<>>} \cup {<<x>> : x \in QueryKind} \cup {<<x, y>> : x, y \in QueryKind}]

\* enough to fail, to answer and to differ in what may be cached
MCFewReplies == {Garbage, Plan("stable", <<"stable">>), Plan("volatile", <<"volatile">>),
                 Answer(TRUE)}

\* for the interleavings of several asks: a reply that fails and one that works
MCTwoReplies == {Garbage, Plan("stable", <<"stable">>)}

MCSymmetry == Permutations(Asks)
=============================================================================

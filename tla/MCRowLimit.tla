----------------------------- MODULE MCRowLimit -----------------------------
(* Statements and pipelines of up to three clauses after the head, for TLC. *)
EXTENDS RowLimit

MCClauses == {Clause(k, n) : k \in {"sub", "limit"}, n \in {1, 3}}
             \cup {Clause("offset", 0), Clause("comma", 1), Clause("comma", 3)}
MCStatements ==
    {<<Clause(h, 0)>> \o t : h \in {"select", "utility"}, t \in UNION {[1..n -> MCClauses] : n \in 0..3}}

MCStages == {Clause("match", 0), Clause("unwind", 0), Clause("limit", 1), Clause("limit", 3)}
MCPipelines == UNION {[1..n -> MCStages] : n \in 0..3}
=============================================================================

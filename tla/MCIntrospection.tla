-------------------------- MODULE MCIntrospection --------------------------
(* Shapes of tables for TLC; table 1 plays the one referred to. *)
EXTENDS Introspection

\* no references; a key of two columns, referred to in the order the constraint gives;
\* a reference from a single column under the same name; and no columns at all
MCPlain == [cols |-> [id |-> "number", doc |-> "json"], pk |-> {"id"}, fks |-> {}]
MCComposite == [cols |-> [a |-> "text", b |-> "number"], pk |-> {"a", "b"},
                fks |-> {[name |-> "fk", from |-> <<"a", "b">>, to |-> <<<<1, "a">>, <<1, "b">>>>]}]
MCSingle == [cols |-> [a |-> "number", b |-> "number"], pk |-> {"a"},
             fks |-> {[name |-> "fk", from |-> <<"b">>, to |-> <<<<1, "b">>>>]}]
MCShapes == {MCPlain, MCComposite, MCSingle, Nowhere}
=============================================================================

---------------------------- MODULE PromptSchema ----------------------------
(***************************************************************************)
(* Which part of the catalogue reaches the LLM: relevant_tables picks      *)
(* tables for a question and closes them under foreign keys, build_prompt  *)
(* and _trim_schema cut what they render to the token budget.              *)
(*                                                                         *)
(* A table is its position in the catalogue and a text is the number of    *)
(* its tokens. How well a table matches the question is given (score).     *)
(* A reference names a table as the catalogue spells it (exact) or only up *)
(* to case: schema.table() finds both, the set `names` tells them apart,   *)
(* so a table can be picked twice; its copies share their columns, as      *)
(* deepcopy keeps them one object.                                         *)
(***************************************************************************)
EXTENDS Lists, SequencesExt

CONSTANTS
    None,
    MaxTables,      \* prompt.relevant_tables
    RenderTables,   \* defaults of render
    RenderCols,
    SlimCols,       \* columns per table once samples are dropped
    MaxTokens,
    Reserve,        \* tokens the budget sets aside
    Glue,           \* tokens of the headings between the parts of a prompt
    Base,           \* tokens of the system prompt and the language hint
    Catalogues, ExtraSizes, QuestionSizes

Refs == [table : Nat, exact : BOOLEAN]

ColumnMeta == [key : BOOLEAN, ref : {None} \cup Refs]

TableMeta == [score : Nat, cols : Seq(ColumnMeta), sample : Nat]

ASSUME PromptAssumption ==
    /\ None \notin Refs
    /\ Catalogues \subseteq Seq(TableMeta)
    /\ ExtraSizes \cup QuestionSizes \subseteq Nat
    /\ {MaxTables, RenderTables, RenderCols, SlimCols} \subseteq Nat \ {0}
    /\ {MaxTokens, Reserve, Glue, Base} \subseteq Nat
    /\ 2 * Glue <= Reserve

VARIABLES
    catalogue,      \* the tables, [score, cols, sample]
    extras,         \* tokens of metric definitions and example queries
    question,       \* tokens of the question
    pc,
    picked,         \* tables of the prompt, in order
    names,          \* spellings of the picked tables
    width,          \* columns each table still has
    cursor,         \* position of the column loop in picked
    text,           \* tokens of the schema as last rendered
    kept            \* which optional parts the prompt has in the end

vars == <<catalogue, extras, question, pc, picked, names, width, cursor, text, kept>>
inputs == <<catalogue, extras, question>>

Tables == DOMAIN catalogue

Smaller(a, b) == IF a <= b THEN a ELSE b

----------------------------------------------------------------------------
(* The text of a schema. *)

ColumnSize(col) == IF col.key \/ col.ref # None THEN 2 ELSE 1

TableSize(t, w, samples) ==
    1 + Total([i \in 1..w |-> ColumnSize(catalogue[t].cols[i])])
      + (IF samples THEN catalogue[t].sample ELSE 0)

\* tables of `order` with the columns `has`, at most `rows` tables and `cap` columns of each
render(order, has, rows, cap, samples) ==
    Total([i \in 1..Smaller(Len(order), rows) |->
              TableSize(order[i], Smaller(has[order[i]], cap), samples)])

Columns == [t \in Tables |-> Len(catalogue[t].cols)]

Budget == MaxTokens - (Base + extras) - question - Reserve

Room == IF Budget < 0 THEN 0 ELSE Budget

----------------------------------------------------------------------------
(* relevant_tables *)

Exact(t) == [table |-> t, exact |-> TRUE]

\* sorted is stable, reversed or not
Scored == Order([t \in Tables |-> - catalogue[t].score])

FirstTables(order) == SubSeq(order, 1, Smaller(Len(order), MaxTables))

Picked ==
    LET scoring == Kept(Scored, {t \in Tables : catalogue[t].score > 0})
    IN  FirstTables(IF scoring = <<>> THEN Scored ELSE scoring)

\* The schema is small: it is used as it is.
PassThrough ==
    /\ pc = "pick"
    /\ Len(catalogue) <= MaxTables
    /\ picked' = [t \in Tables |-> t]
    /\ pc' = "render"
    /\ UNCHANGED <<inputs, names, width, cursor, text, kept>>

\* Mutant: the tables are sorted the wrong way round.
PickWorst ==
    /\ pc = "pick"
    /\ Len(catalogue) > MaxTables
    /\ picked' = FirstTables(Reverse(Scored))
    /\ names' = {Exact(t) : t \in ToSet(picked')}
    /\ pc' = "close"
    /\ UNCHANGED <<inputs, width, cursor, text, kept>>

Pick ==
    /\ pc = "pick"
    /\ Len(catalogue) > MaxTables
    /\ picked' = Picked
    /\ names' = {Exact(t) : t \in ToSet(picked')}
    /\ pc' = "close"
    /\ UNCHANGED <<inputs, width, cursor, text, kept>>

\* one reference of a picked table
Follow(found, col) ==
    IF col.ref = None \/ col.ref \in found.names \/ col.ref.table \notin Tables
    THEN found
    ELSE [tables |-> Append(found.tables, col.ref.table), names |-> found.names \cup {col.ref}]

\* those of all its columns
FollowAll(found, cols) ==
    LET after[i \in 0..Len(cols)] == IF i = 0 THEN found ELSE Follow(after[i - 1], cols[i])
    IN  after[Len(cols)]

\* one pass over the tables picked so far
Swept ==
    LET after[i \in 0..Len(picked)] ==
            IF i = 0 THEN [tables |-> picked, names |-> names]
            ELSE FollowAll(after[i - 1], catalogue[picked[i]].cols)
    IN  after[Len(picked)]

\* Mutant: the tables that were added are not looked at.
SweepOnce ==
    /\ pc = "close"
    /\ picked' = Swept.tables
    /\ names' = Swept.names
    /\ pc' = "render"
    /\ UNCHANGED <<inputs, width, cursor, text, kept>>

Sweep ==
    /\ pc = "close"
    /\ picked' = Swept.tables
    /\ names' = Swept.names
    /\ pc' = IF names' = names THEN "render" ELSE "close"
    /\ UNCHANGED <<inputs, width, cursor, text, kept>>

----------------------------------------------------------------------------
(* build_prompt and _trim_schema *)

Whole(order, has) == render(order, has, RenderTables, RenderCols, FALSE)

SomethingToTrim(has) == \E t \in ToSet(picked) : has[t] > 1

\* A text that fits is left alone, without room there is none, else samples and wide
\* tables go first.
Render ==
    LET full == render(picked, Columns, RenderTables, RenderCols, TRUE)
        slim == render(picked, Columns, Len(picked), SlimCols, FALSE)
    IN  /\ pc = "render"
        /\ width' = Columns
        /\ text' = IF full <= Budget THEN full ELSE IF Room = 0 THEN 0 ELSE slim
        /\ pc' = IF text' <= Room THEN "assemble" ELSE IF SomethingToTrim(width') THEN "columns" ELSE "tables"
        /\ cursor' = 1
        /\ UNCHANGED <<inputs, picked, names, kept>>

Trims(t) == width[t] > 1 /\ text > Room

\* A table loses its last column. The text to compare is rendered with all tables cut
\* to that table's width.
PopColumn ==
    /\ pc = "columns"
    /\ cursor <= Len(picked)
    /\ Trims(picked[cursor])
    /\ LET t == picked[cursor]
       IN  /\ width' = [width EXCEPT ![t] = @ - 1]
           /\ text' = render(picked, width', Len(picked), width'[t], FALSE)
    /\ UNCHANGED <<inputs, pc, picked, names, cursor, kept>>

NextTable ==
    /\ pc = "columns"
    /\ cursor <= Len(picked)
    /\ ~Trims(picked[cursor])
    /\ cursor' = cursor + 1
    /\ UNCHANGED <<inputs, pc, picked, names, width, text, kept>>

\* Mutant: the loop goes on while the text is too long, with or without columns to drop.
SweepEndsWhenItFits ==
    /\ pc = "columns"
    /\ cursor > Len(picked)
    /\ text' = Whole(picked, width)
    /\ pc' = IF text' > Room THEN "columns" ELSE "tables"
    /\ cursor' = 1
    /\ UNCHANGED <<inputs, picked, names, width, kept>>

\* After the last table the schema is rendered as it will be shown.
SweepEnds ==
    /\ pc = "columns"
    /\ cursor > Len(picked)
    /\ text' = Whole(picked, width)
    /\ pc' = IF text' > Room /\ SomethingToTrim(width) THEN "columns" ELSE "tables"
    /\ cursor' = 1
    /\ UNCHANGED <<inputs, picked, names, width, kept>>

\* Mutant: one table is dropped, then the rest is measured.
PopTableOnce ==
    /\ pc = "tables"
    /\ text > Room
    /\ Len(picked) > 1
    /\ picked' = Front(picked)
    /\ text' = Whole(picked', width)
    /\ pc' = "assemble"
    /\ UNCHANGED <<inputs, names, width, cursor, kept>>

PopTable ==
    /\ pc = "tables"
    /\ text > Room
    /\ Len(picked) > 1
    /\ picked' = Front(picked)
    /\ text' = Whole(picked', width)
    /\ UNCHANGED <<inputs, pc, names, width, cursor, kept>>

Trimmed ==
    /\ pc = "tables"
    /\ text <= Room \/ Len(picked) = 1
    /\ pc' = "assemble"
    /\ UNCHANGED <<inputs, picked, names, width, cursor, text, kept>>

----------------------------------------------------------------------------
PromptSize(parts) ==
    Base + (IF parts.extras THEN extras ELSE 0)
         + (IF parts.schema THEN Glue + text ELSE 0) + Glue + question

\* Mutant: only the budget of the schema is looked at.
AssembleUnchecked ==
    /\ pc = "assemble"
    /\ kept' = [extras |-> TRUE, schema |-> text > 0 /\ text <= Room]
    /\ pc' = "done"
    /\ UNCHANGED <<inputs, picked, names, width, cursor, text>>

\* A schema that is still too long is left out, and if the prompt is too long without
\* it, so is everything else.
Assemble ==
    LET all == [extras |-> TRUE, schema |-> text > 0 /\ text <= Room]
    IN  /\ pc = "assemble"
        /\ kept' = IF PromptSize(all) > MaxTokens THEN [extras |-> FALSE, schema |-> FALSE] ELSE all
        /\ pc' = "done"
        /\ UNCHANGED <<inputs, picked, names, width, cursor, text>>

----------------------------------------------------------------------------
PromptInit ==
    /\ catalogue \in Catalogues
    /\ extras \in ExtraSizes
    /\ question \in QuestionSizes
    /\ pc = "pick"
    /\ picked = <<>>
    /\ names = {}
    /\ width = Columns
    /\ cursor = 1
    /\ text = 0
    /\ kept = [extras |-> FALSE, schema |-> FALSE]

PromptNext ==
    \/ PassThrough \/ Pick \/ Sweep
    \/ Render \/ PopColumn \/ NextTable \/ SweepEnds \/ PopTable \/ Trimmed
    \/ Assemble

\* The computation runs to its end.
PromptSpec == PromptInit /\ [][PromptNext]_vars /\ WF_vars(PromptNext)

----------------------------------------------------------------------------
\* No table loses its last column, a copy of a table loses those of the other, and
\* what is rendered was picked.
PromptTypeOK ==
    /\ pc \in {"pick", "close", "render", "columns", "tables", "assemble", "done"}
    /\ ToSet(picked) \subseteq Tables
    /\ {n.table : n \in names} \subseteq Tables
    /\ \A t \in Tables : width[t] <= Columns[t] /\ (width[t] = 0 => Columns[t] = 0)
    /\ cursor \in 1..(Len(picked) + 1)
    /\ text \in Nat
    /\ kept \in [extras : BOOLEAN, schema : BOOLEAN]

References(t) == {col.ref.table : col \in {c \in ToSet(catalogue[t].cols) : c.ref # None}} \cap Tables

Closed(S) == \A t \in S : References(t) \subseteq S

\* Every table a prompt may join to is in it: the tables relevant_tables returns are
\* closed under foreign keys, through any number of tables, however they are spelled.
SelectionIsClosed == pc = "render" => Closed(ToSet(picked))

Better(t, u) ==
    \/ catalogue[t].score > catalogue[u].score
    \/ catalogue[t].score = catalogue[u].score /\ t < u

\* The best tables for the question, or the first ones if none matches.
Seeds ==
    {t \in Tables :
        /\ Cardinality({u \in Tables : Better(u, t)}) < MaxTables
        /\ catalogue[t].score > 0 \/ \A u \in Tables : catalogue[u].score = 0}

\* relevant_tables returns the seeds and nothing that they do not lead to.
OnlyRelevantTables ==
    pc = "render" /\ Len(catalogue) > MaxTables =>
        /\ Seeds \subseteq ToSet(picked)
        /\ \A S \in SUBSET Tables : Seeds \subseteq S /\ Closed(S) => ToSet(picked) \subseteq S

\* A prompt is within max_tokens, or has nothing left that build_prompt may drop.
PromptFits ==
    pc = "done" => PromptSize(kept) <= MaxTokens \/ kept = [extras |-> FALSE, schema |-> FALSE]

\* build_prompt leaves the schema out only if not even one column of the first table
\* fits; its last check never discards a schema that was cut to fit.
DroppedOnlyWhenNothingFits ==
    pc = "done" /\ picked # <<>> /\ ~kept.schema =>
        TableSize(picked[1], Smaller(1, Columns[picked[1]]), FALSE) > Room

\* Neither the closure over cyclic foreign keys nor the trimming loops run forever.
PromptIsBuilt == <>(pc = "done")
=============================================================================

------------------------ MODULE PromptSchemaProofs ------------------------
(***************************************************************************)
(* Theorems about the prompt: for catalogues of any size with any foreign  *)
(* keys, and for any sizes and limits, which tables relevant_tables        *)
(* returns, and what build_prompt leaves out.                              *)
(***************************************************************************)
EXTENDS PromptSchema, ListsProofs

Catalogue == catalogue \in Seq(TableMeta)

PromptTyped ==
    /\ Catalogue
    /\ extras \in Nat
    /\ question \in Nat
    /\ PromptTypeOK
    /\ picked \in Seq(Tables)
    /\ names \subseteq Refs
    /\ width \in [Tables -> Nat]
    /\ pc # "columns" => cursor = 1

\* What relevant_tables has picked so far, the seeds lead to.
LedFromSeeds ==
    /\ Seeds \subseteq ToSet(picked)
    /\ \A S \in SUBSET Tables : Seeds \subseteq S /\ Closed(S) => ToSet(picked) \subseteq S

\* The names are of tables picked, and in the end all references have been followed.
Closing ==
    /\ pc = "close" => Len(catalogue) > MaxTables /\ \A n \in names : n.table \in ToSet(picked)
    /\ pc \in {"close", "render"} /\ Len(catalogue) > MaxTables => LedFromSeeds
    /\ SelectionIsClosed

\* The least that can be shown of the schema.
FirstColumn == TableSize(picked[1], Smaller(1, Columns[picked[1]]), FALSE)

\* Tables go only when no column is left to drop, and what is too long in the end is one
\* table with one column.
Trimming ==
    picked # <<>> =>
        /\ pc \in {"columns", "tables"} => text > 0
        /\ pc = "tables" /\ text > Room =>
              /\ ~ SomethingToTrim(width)
              /\ Len(picked) = 1 => text = FirstColumn
        /\ pc = "assemble" => FirstColumn > Room \/ (text <= Room /\ (text > 0 \/ Room = 0))
        /\ pc = "done" /\ ~ kept.schema => FirstColumn > Room

PromptInv == PromptTyped /\ Closing /\ Trimming /\ PromptFits

----------------------------------------------------------------------------
(* The size of a schema *)

LEMMA SmallerIs ==
  ASSUME NEW a \in Nat, NEW b \in Nat
  PROVE  /\ Smaller(a, b) \in Nat
         /\ Smaller(a, b) <= a
         /\ Smaller(a, b) <= b
         /\ a >= 1 /\ b >= 1 => Smaller(a, b) >= 1
         /\ a <= b => Smaller(a, b) = a
BY DEF Smaller

LEMMA TableIs ==
  ASSUME Catalogue, NEW t \in Tables
  PROVE  /\ catalogue[t] \in TableMeta
         /\ catalogue[t].score \in Nat
         /\ catalogue[t].sample \in Nat
         /\ catalogue[t].cols \in Seq(ColumnMeta)
         /\ Columns[t] = Len(catalogue[t].cols)
         /\ Columns[t] \in Nat
<1>1. catalogue[t] \in TableMeta
  BY DEF Catalogue, Tables
<1>2. /\ catalogue[t].score \in Nat
      /\ catalogue[t].sample \in Nat
      /\ catalogue[t].cols \in Seq(ColumnMeta)
  BY <1>1 DEF TableMeta
<1>3. Columns[t] = Len(catalogue[t].cols)
  BY DEF Columns
<1> QED  BY <1>1, <1>2, <1>3

\* A table takes at least one token.
LEMMA TableSizeIs ==
  ASSUME Catalogue, NEW t \in Tables, NEW w \in Nat, NEW samples \in BOOLEAN
  PROVE  TableSize(t, w, samples) \in Nat /\ TableSize(t, w, samples) >= 1
<1> DEFINE sizes == [i \in 1..w |-> ColumnSize(catalogue[t].cols[i])]
           shown == IF samples THEN catalogue[t].sample ELSE 0
<1>1. sizes \in Seq(Nat)
  <2>1. \A i \in 1..w : ColumnSize(catalogue[t].cols[i]) \in Nat
    BY DEF ColumnSize
  <2> QED  BY <2>1
<1>2. shown \in Nat
  BY TableIs
<1>3. TableSize(t, w, samples) = 1 + Total(sizes) + shown
  BY DEF TableSize
<1> HIDE DEF sizes, shown
<1>4. Total(sizes) \in Nat
  BY <1>1, TotalIsNat
<1> QED  BY <1>2, <1>3, <1>4

\* So does a schema with a table; with one table, it is the size of that.
LEMMA RenderIs ==
  ASSUME Catalogue, NEW order \in Seq(Tables), NEW has \in [Tables -> Nat], NEW rows \in Nat,
         NEW cap \in Nat, NEW samples \in BOOLEAN
  PROVE  /\ render(order, has, rows, cap, samples) \in Nat
         /\ order # <<>> /\ rows >= 1 => render(order, has, rows, cap, samples) >= 1
         /\ Len(order) = 1 /\ rows >= 1 =>
               render(order, has, rows, cap, samples)
                 = TableSize(order[1], Smaller(has[order[1]], cap), samples)
<1> DEFINE n == Smaller(Len(order), rows)
           Size(i) == TableSize(order[i], Smaller(has[order[i]], cap), samples)
           sizes == [i \in 1..n |-> Size(i)]
<1>1. Len(order) \in Nat /\ \A i \in 1..Len(order) : order[i] \in Tables
  OBVIOUS
<1>2. n \in Nat /\ n <= Len(order) /\ n <= rows /\ (Len(order) >= 1 /\ rows >= 1 => n >= 1)
  BY <1>1, SmallerIs
<1>3. render(order, has, rows, cap, samples) = Total(sizes)
  BY DEF render
<1> HIDE DEF n
<1>4. \A i \in 1..n : Size(i) \in Nat /\ Size(i) >= 1
  <2> SUFFICES ASSUME NEW i \in 1..n PROVE Size(i) \in Nat /\ Size(i) >= 1
    OBVIOUS
  <2>1. order[i] \in Tables
    BY <1>1, <1>2
  <2>2. Smaller(has[order[i]], cap) \in Nat
    BY <2>1, SmallerIs
  <2> QED  BY <2>1, <2>2, TableSizeIs
<1> HIDE DEF Size
<1>5. sizes \in Seq(Nat) /\ Len(sizes) = n /\ \A i \in 1..n : sizes[i] = Size(i)
  BY <1>2, <1>4
<1> HIDE DEF sizes
<1>6. Total(sizes) \in Nat /\ (n >= 1 => Total(sizes) >= sizes[1]) /\ (n = 1 => Total(sizes) = sizes[1])
  BY <1>5, TotalIsNat
<1>7. n >= 1 => sizes[1] = Size(1) /\ Size(1) \in Nat /\ Size(1) >= 1
  BY <1>2, <1>4, <1>5
<1>8. ASSUME order # <<>>, rows >= 1 PROVE Total(sizes) >= 1
  <2>1. Len(order) >= 1
    BY <1>1, <1>8
  <2> QED  BY <1>2, <1>6, <1>7, <1>8, <2>1
<1>9. ASSUME Len(order) = 1, rows >= 1 PROVE Total(sizes) = Size(1)
  BY <1>2, <1>6, <1>7, <1>9
<1> QED  BY <1>3, <1>6, <1>8, <1>9 DEF Size

LEMMA OneTableIs ==
  ASSUME Catalogue, NEW order \in Seq(Tables), Len(order) = 1, NEW has \in [Tables -> Nat],
         NEW rows \in Nat, rows >= 1, NEW cap \in Nat
  PROVE  render(order, has, rows, cap, FALSE)
           = TableSize(order[1], Smaller(has[order[1]], cap), FALSE)
<1>1. FALSE \in BOOLEAN
  OBVIOUS
<1> QED  BY <1>1, RenderIs

----------------------------------------------------------------------------
(* The closure under foreign keys *)

\* What relevant_tables holds while it follows references.
Findings == [tables : Seq(Tables), names : SUBSET Refs]

\* Each name is that of a table found.
Sound(found) == \A n \in found.names : n.table \in ToSet(found.tables)

\* g holds what f holds, and if it has no other names, it is f.
Enlarges(f, g) ==
    /\ ToSet(f.tables) \subseteq ToSet(g.tables)
    /\ f.names \subseteq g.names
    /\ g.names = f.names => g = f

\* There is nothing to follow, or it has been followed.
Seen(found, col) == col.ref = None \/ col.ref \in found.names \/ col.ref.table \notin Tables

\* Set S has the tables the columns of cols refer to.
Covers(S, cols) ==
    \A i \in DOMAIN cols : cols[i].ref # None /\ cols[i].ref.table \in Tables => cols[i].ref.table \in S

LEMMA Enlarging ==
  ASSUME NEW f \in Findings, NEW g \in Findings, NEW h \in Findings,
         Enlarges(f, g), Enlarges(g, h)
  PROVE  Enlarges(f, h)
<1>1. ASSUME h.names = f.names PROVE h = f
  <2>1. g.names = f.names /\ h.names = g.names
    BY <1>1 DEF Enlarges
  <2> QED  BY <2>1 DEF Enlarges
<1> QED  BY <1>1 DEF Enlarges

LEMMA SeenStays ==
  ASSUME NEW f \in Findings, NEW g \in Findings, NEW col, Enlarges(f, g), Seen(f, col)
  PROVE  Seen(g, col)
BY DEF Enlarges, Seen

LEMMA ToSetAppend ==
  ASSUME NEW S, NEW s \in Seq(S), NEW x \in S
  PROVE  ToSet(Append(s, x)) = ToSet(s) \cup {x}
<1> DEFINE more == Append(s, x)
<1>1. Len(s) \in Nat /\ DOMAIN more = 1..(Len(s) + 1) /\ DOMAIN s = 1..Len(s)
      /\ more[Len(s) + 1] = x /\ \A i \in 1..Len(s) : more[i] = s[i]
  OBVIOUS
<1> HIDE DEF more
<1>2. \A y \in ToSet(more) : y \in ToSet(s) \cup {x}
  BY <1>1 DEF ToSet
<1>3. \A y \in ToSet(s) \cup {x} : y \in ToSet(more)
  BY <1>1 DEF ToSet
<1> QED  BY <1>2, <1>3 DEF more

\* One column.
LEMMA FollowIs ==
  ASSUME NEW f \in Findings, NEW col \in ColumnMeta, Sound(f)
  PROVE  LET g == Follow(f, col) IN
         /\ g \in Findings
         /\ Sound(g)
         /\ Enlarges(f, g)
         /\ Seen(g, col)
         /\ \A S : ToSet(f.tables) \subseteq S /\ (~ Seen(f, col) => col.ref.table \in S) =>
               ToSet(g.tables) \subseteq S
<1> DEFINE g == Follow(f, col)
<1>1. CASE Seen(f, col)
  <2>1. g = f
    BY <1>1 DEF Seen, Follow
  <2> QED  BY <1>1, <2>1 DEF Enlarges
<1>2. CASE ~ Seen(f, col)
  <2>1. g = [tables |-> Append(f.tables, col.ref.table), names |-> f.names \cup {col.ref}]
    BY <1>2 DEF Seen, Follow
  <2> HIDE DEF g
  <2>2. col.ref \in Refs /\ col.ref.table \in Tables /\ col.ref \notin f.names /\ f.tables \in Seq(Tables)
    BY <1>2 DEF Seen, Findings, ColumnMeta
  <2>3. g.tables = Append(f.tables, col.ref.table) /\ g.names = f.names \cup {col.ref}
    BY <2>1
  <2>4. ToSet(g.tables) = ToSet(f.tables) \cup {col.ref.table}
    BY <2>2, <2>3, ToSetAppend
  <2>5. g \in Findings
    <3>1. f.names \subseteq Refs
      BY DEF Findings
    <3>2. Append(f.tables, col.ref.table) \in Seq(Tables) /\ f.names \cup {col.ref} \in SUBSET Refs
      BY <2>2, <3>1
    <3> QED  BY <2>1, <3>2 DEF Findings
  <2>6. Sound(g)
    BY <2>3, <2>4 DEF Sound
  <2>7. Enlarges(f, g)
    BY <2>2, <2>3, <2>4 DEF Enlarges
  <2>8. Seen(g, col)
    BY <2>3 DEF Seen
  <2> QED  BY <1>2, <2>4, <2>5, <2>6, <2>7, <2>8 DEF g
<1> QED  BY <1>1, <1>2

\* What has been found after i columns.
LEMMA FollowAllIs ==
  ASSUME NEW found \in Findings, Sound(found), NEW cols \in Seq(ColumnMeta)
  PROVE  \E f :
            /\ FollowAll(found, cols) = f[Len(cols)]
            /\ f[0] = found
            /\ \A i \in Nat : i < Len(cols) => f[i + 1] = Follow(f[i], cols[i + 1])
<1> DEFINE S == {g \in Findings : Sound(g)}
           n == Len(cols)
           step == [x \in (1..n) \X S |-> Follow(x[2], cols[x[1]])]
           Is(f) == f = [i \in 0..n |-> IF i = 0 THEN found ELSE Follow(f[i - 1], cols[i])]
           after == CHOOSE f : Is(f)
<1>1. n \in Nat /\ found \in S /\ \A i \in 1..n : cols[i] \in ColumnMeta
  OBVIOUS
<1>2. FollowAll(found, cols) = after[n]
  BY DEF FollowAll
<1> HIDE DEF n
<1>3. step \in [(1..n) \X S -> S]
  <2>1. ASSUME NEW x \in (1..n) \X S PROVE Follow(x[2], cols[x[1]]) \in S
    <3>1. x[1] \in 1..n /\ x[2] \in Findings /\ Sound(x[2])
      OBVIOUS
    <3>2. cols[x[1]] \in ColumnMeta
      BY <1>1, <3>1
    <3> QED  BY <3>1, <3>2, FollowIs
  <2> HIDE DEF S
  <2> QED  BY <2>1
<1>4. \A i \in 1..n, g \in S : step[<<i, g>>] = Follow(g, cols[i])
  <2> HIDE DEF S
  <2> QED  OBVIOUS
<1> HIDE DEF step, S
<1>5. PICK f \in [0..n -> S] : Follows(f, n, found, step)
  BY <1>1, <1>3, RecursionExists
<1>6. f[0] = found /\ \A i \in 1..n : f[i] = Follow(f[i - 1], cols[i])
  <2>1. \A i \in 0..n : f[i] = IF i = 0 THEN found ELSE step[<<i, f[i - 1]>>]
    BY <1>5 DEF Follows
  <2>2. ASSUME NEW i \in 1..n PROVE f[i] = Follow(f[i - 1], cols[i])
    <3>1. i \in 0..n /\ i # 0 /\ i - 1 \in 0..n
      BY <1>1
    <3>2. f[i] = step[<<i, f[i - 1]>>] /\ f[i - 1] \in S
      BY <2>1, <3>1
    <3> QED  BY <1>4, <3>2
  <2>3. 0 \in 0..n
    BY <1>1
  <2> QED  BY <2>1, <2>2, <2>3
<1>7. Is(f)
  <2>1. \A i \in 0..n : i = 0 \/ i \in 1..n
    BY <1>1
  <2>2. \A i \in 0..n : f[i] = IF i = 0 THEN found ELSE Follow(f[i - 1], cols[i])
    BY <1>6, <2>1
  <2> QED  BY <2>2
<1>8. after = [i \in 0..n |-> IF i = 0 THEN found ELSE Follow(after[i - 1], cols[i])]
  <2>1. Is(after)
    <3> HIDE DEF Is
    <3> QED  BY <1>7
  <2> HIDE DEF after
  <2> QED  BY <2>1
<1> HIDE DEF after, Is
<1>9. after[0] = found
  <2>1. 0 \in 0..n
    BY <1>1
  <2> QED  BY <1>8, <2>1
<1>10. ASSUME NEW i \in Nat, i < n PROVE after[i + 1] = Follow(after[i], cols[i + 1])
  <2>1. i + 1 \in 0..n /\ i + 1 # 0 /\ (i + 1) - 1 = i
    BY <1>1, <1>10
  <2> QED  BY <1>8, <2>1
<1> QED  BY <1>2, <1>9, <1>10 DEF n

\* All columns of a table.
LEMMA FollowAllFinds ==
  ASSUME NEW found \in Findings, Sound(found), NEW cols \in Seq(ColumnMeta)
  PROVE  LET g == FollowAll(found, cols) IN
         /\ g \in Findings
         /\ Sound(g)
         /\ Enlarges(found, g)
         /\ \A i \in DOMAIN cols : Seen(g, cols[i])
         /\ \A S : ToSet(found.tables) \subseteq S /\ Covers(S, cols) => ToSet(g.tables) \subseteq S
<1> DEFINE n == Len(cols)
<1>1. n \in Nat /\ DOMAIN cols = 1..n
      /\ \A i \in 1..n : cols[i] \in ColumnMeta
  OBVIOUS
<1>2. PICK f : /\ FollowAll(found, cols) = f[n]
               /\ f[0] = found
               /\ \A i \in Nat : i < n => f[i + 1] = Follow(f[i], cols[i + 1])
  BY FollowAllIs
<1> HIDE DEF n
<1> DEFINE Found(i) ==
             /\ f[i] \in Findings
             /\ Sound(f[i])
             /\ Enlarges(found, f[i])
             /\ \A j \in 1..i : Seen(f[i], cols[j])
             /\ \A S : ToSet(found.tables) \subseteq S /\ Covers(S, cols) => ToSet(f[i].tables) \subseteq S
           I == {i \in Nat : i <= n => Found(i)}
<1>3. 0 \in I
  <2>1. Found(0)
    BY <1>2 DEF Enlarges
  <2> HIDE DEF Found
  <2> QED  BY <2>1
<1>4. ASSUME NEW i \in Nat, i \in I PROVE i + 1 \in I
  <2> SUFFICES ASSUME i + 1 <= n PROVE Found(i + 1)
    BY DEF I
  <2>1. i < n /\ i + 1 \in 1..n
    BY <1>1
  <2>2. Found(i)
    <3> HIDE DEF Found
    <3> QED  BY <1>1, <1>4, <2>1 DEF I
  <2> DEFINE col == cols[i + 1]
             g == f[i + 1]
  <2>3. col \in ColumnMeta
    BY <1>1, <2>1
  <2>4. g = Follow(f[i], col)
    BY <1>2, <2>1
  <2>5. i + 1 \in DOMAIN cols
    BY <1>1, <2>1
  <2>11. \A S : Covers(S, cols) /\ ~ Seen(f[i], col) => col.ref.table \in S
    BY <2>5 DEF Covers, Seen
  <2> HIDE DEF col, g
  <2>6. /\ g \in Findings
        /\ Sound(g)
        /\ Enlarges(f[i], g)
        /\ Seen(g, col)
        /\ \A S : ToSet(f[i].tables) \subseteq S /\ (~ Seen(f[i], col) => col.ref.table \in S) =>
              ToSet(g.tables) \subseteq S
    BY <2>2, <2>3, <2>4, FollowIs
  <2>7. Enlarges(found, g)
    BY <2>2, <2>6, Enlarging
  <2>8. ASSUME NEW j \in 1..(i + 1) PROVE Seen(g, cols[j])
    <3>1. CASE j = i + 1
      BY <2>6, <3>1 DEF col
    <3>2. CASE j \in 1..i
      BY <2>2, <2>6, <3>2, SeenStays
    <3> QED  BY <3>1, <3>2
  <2>9. ASSUME NEW S, ToSet(found.tables) \subseteq S, Covers(S, cols) PROVE ToSet(g.tables) \subseteq S
    <3>1. ToSet(f[i].tables) \subseteq S
      BY <2>2, <2>9
    <3> QED  BY <2>6, <2>9, <2>11, <3>1
  <2> QED  BY <2>6, <2>7, <2>8, <2>9 DEF g
<1> HIDE DEF I
<1>5. n \in I
  BY <1>1, <1>3, <1>4, Induction
<1>6. Found(n)
  <2> HIDE DEF Found
  <2> QED  BY <1>1, <1>5 DEF I
<1> QED  BY <1>1, <1>2, <1>6

\* What a pass starts with.
Start == [tables |-> picked, names |-> names]

ColsOf(i) == catalogue[picked[i]].cols

LEMMA StartIs ==
  ASSUME Catalogue, picked \in Seq(Tables), names \subseteq Refs,
         \A n \in names : n.table \in ToSet(picked)
  PROVE  /\ Start \in Findings
         /\ Sound(Start)
         /\ \A i \in 1..Len(picked) : picked[i] \in Tables /\ ColsOf(i) \in Seq(ColumnMeta)
<1>1. Start \in Findings /\ Sound(Start)
  BY DEF Start, Findings, Sound
<1>2. ASSUME NEW i \in 1..Len(picked) PROVE picked[i] \in Tables /\ ColsOf(i) \in Seq(ColumnMeta)
  <2>1. picked[i] \in Tables
    OBVIOUS
  <2> QED  BY <2>1, TableIs DEF ColsOf
<1> QED  BY <1>1, <1>2

\* What has been found after i tables.
LEMMA SweptIs ==
  ASSUME Catalogue, picked \in Seq(Tables), names \subseteq Refs,
         \A n \in names : n.table \in ToSet(picked)
  PROVE  \E f :
            /\ Swept = f[Len(picked)]
            /\ f[0] = Start
            /\ \A i \in Nat : i < Len(picked) => f[i + 1] = FollowAll(f[i], ColsOf(i + 1))
<1> DEFINE S == {g \in Findings : Sound(g)}
           n == Len(picked)
           step == [x \in (1..n) \X S |-> FollowAll(x[2], ColsOf(x[1]))]
           Is(f) == f = [i \in 0..n |-> IF i = 0 THEN Start ELSE FollowAll(f[i - 1], ColsOf(i))]
           after == CHOOSE f : Is(f)
<1>1. n \in Nat /\ Start \in S /\ \A i \in 1..n : ColsOf(i) \in Seq(ColumnMeta)
  BY StartIs
<1>2. Swept = after[n]
  BY DEF Swept, Start, ColsOf
<1> HIDE DEF n
<1>3. step \in [(1..n) \X S -> S]
  <2>1. ASSUME NEW x \in (1..n) \X S PROVE FollowAll(x[2], ColsOf(x[1])) \in S
    <3>1. x[1] \in 1..n /\ x[2] \in Findings /\ Sound(x[2])
      OBVIOUS
    <3>2. ColsOf(x[1]) \in Seq(ColumnMeta)
      BY <1>1, <3>1
    <3> QED  BY <3>1, <3>2, FollowAllFinds
  <2> HIDE DEF S
  <2> QED  BY <2>1
<1>4. \A i \in 1..n, g \in S : step[<<i, g>>] = FollowAll(g, ColsOf(i))
  <2> HIDE DEF S
  <2> QED  OBVIOUS
<1> HIDE DEF step, S
<1>5. PICK f \in [0..n -> S] : Follows(f, n, Start, step)
  BY <1>1, <1>3, RecursionExists
<1>6. f[0] = Start /\ \A i \in 1..n : f[i] = FollowAll(f[i - 1], ColsOf(i))
  <2>1. \A i \in 0..n : f[i] = IF i = 0 THEN Start ELSE step[<<i, f[i - 1]>>]
    BY <1>5 DEF Follows
  <2>2. ASSUME NEW i \in 1..n PROVE f[i] = FollowAll(f[i - 1], ColsOf(i))
    <3>1. i \in 0..n /\ i # 0 /\ i - 1 \in 0..n
      BY <1>1
    <3>2. f[i] = step[<<i, f[i - 1]>>] /\ f[i - 1] \in S
      BY <2>1, <3>1
    <3> QED  BY <1>4, <3>2
  <2>3. 0 \in 0..n
    BY <1>1
  <2> QED  BY <2>1, <2>2, <2>3
<1>7. Is(f)
  <2>1. \A i \in 0..n : i = 0 \/ i \in 1..n
    BY <1>1
  <2>2. \A i \in 0..n : f[i] = IF i = 0 THEN Start ELSE FollowAll(f[i - 1], ColsOf(i))
    BY <1>6, <2>1
  <2> QED  BY <2>2
<1>8. after = [i \in 0..n |-> IF i = 0 THEN Start ELSE FollowAll(after[i - 1], ColsOf(i))]
  <2>1. Is(after)
    <3> HIDE DEF Is
    <3> QED  BY <1>7
  <2> HIDE DEF after
  <2> QED  BY <2>1
<1> HIDE DEF after, Is
<1>9. after[0] = Start
  <2>1. 0 \in 0..n
    BY <1>1
  <2> QED  BY <1>8, <2>1
<1>10. ASSUME NEW i \in Nat, i < n PROVE after[i + 1] = FollowAll(after[i], ColsOf(i + 1))
  <2>1. i + 1 \in 0..n /\ i + 1 # 0 /\ (i + 1) - 1 = i
    BY <1>1, <1>10
  <2> QED  BY <1>8, <2>1
<1> QED  BY <1>2, <1>9, <1>10 DEF n

\* A closed set has what the columns of its tables refer to.
LEMMA ClosedCovers ==
  ASSUME NEW S, Closed(S), NEW t \in S
  PROVE  Covers(S, catalogue[t].cols)
<1> DEFINE cols == catalogue[t].cols
<1>1. References(t) \subseteq S
  BY DEF Closed
<1>2. ASSUME NEW i \in DOMAIN cols, cols[i].ref # None, cols[i].ref.table \in Tables
      PROVE  cols[i].ref.table \in References(t)
  <2>1. cols[i] \in ToSet(cols)
    BY DEF ToSet
  <2> QED  BY <1>2, <2>1 DEF References
<1> QED  BY <1>1, <1>2 DEF Covers

\* A pass follows the references of all tables picked, and leads nowhere else.
LEMMA SweptFinds ==
  ASSUME Catalogue, picked \in Seq(Tables), names \subseteq Refs,
         \A n \in names : n.table \in ToSet(picked)
  PROVE  /\ Swept \in Findings
         /\ Sound(Swept)
         /\ Enlarges(Start, Swept)
         /\ \A i \in 1..Len(picked) : \A j \in DOMAIN ColsOf(i) : Seen(Swept, ColsOf(i)[j])
         /\ \A S : ToSet(picked) \subseteq S /\ Closed(S) => ToSet(Swept.tables) \subseteq S
<1> DEFINE n == Len(picked)
           Cover(S) == \A i \in 1..n : Covers(S, ColsOf(i))
<1>1. /\ n \in Nat
      /\ Start \in Findings
      /\ Sound(Start)
      /\ Start.tables = picked
      /\ \A i \in 1..n : ColsOf(i) \in Seq(ColumnMeta)
  BY StartIs DEF Start
<1>2. PICK f : /\ Swept = f[n]
               /\ f[0] = Start
               /\ \A i \in Nat : i < n => f[i + 1] = FollowAll(f[i], ColsOf(i + 1))
  BY SweptIs
<1>3. ASSUME NEW S, ToSet(picked) \subseteq S, Closed(S) PROVE Cover(S)
  <2>1. \A i \in 1..n : picked[i] \in S
    BY <1>3 DEF ToSet
  <2> QED  BY <1>3, <2>1, ClosedCovers DEF ColsOf
<1> HIDE DEF n
<1> DEFINE Found(i) ==
             /\ f[i] \in Findings
             /\ Sound(f[i])
             /\ Enlarges(Start, f[i])
             /\ \A k \in 1..i : \A j \in DOMAIN ColsOf(k) : Seen(f[i], ColsOf(k)[j])
             /\ \A S : ToSet(picked) \subseteq S /\ Cover(S) => ToSet(f[i].tables) \subseteq S
           I == {i \in Nat : i <= n => Found(i)}
<1>4. 0 \in I
  <2>1. Found(0)
    BY <1>1, <1>2 DEF Enlarges
  <2> HIDE DEF Found
  <2> QED  BY <2>1
<1>5. ASSUME NEW i \in Nat, i \in I PROVE i + 1 \in I
  <2> SUFFICES ASSUME i + 1 <= n PROVE Found(i + 1)
    BY DEF I
  <2>1. i < n /\ i + 1 \in 1..n /\ i <= n
    BY <1>1
  <2>2. Found(i)
    <3> HIDE DEF Found
    <3> QED  BY <1>5, <2>1 DEF I
  <2> DEFINE cols == ColsOf(i + 1)
             g == f[i + 1]
  <2>3. cols \in Seq(ColumnMeta)
    BY <1>1, <2>1
  <2>4. g = FollowAll(f[i], cols)
    BY <1>2, <2>1
  <2>5. \A S : Cover(S) => Covers(S, cols)
    BY <2>1
  <2> HIDE DEF cols, g, Cover
  <2>6. /\ g \in Findings
        /\ Sound(g)
        /\ Enlarges(f[i], g)
        /\ \A j \in DOMAIN cols : Seen(g, cols[j])
        /\ \A S : ToSet(f[i].tables) \subseteq S /\ Covers(S, cols) => ToSet(g.tables) \subseteq S
    BY <2>2, <2>3, <2>4, FollowAllFinds
  <2>7. Enlarges(Start, g)
    BY <1>1, <2>2, <2>6, Enlarging
  <2>8. ASSUME NEW k \in 1..(i + 1), NEW j \in DOMAIN ColsOf(k) PROVE Seen(g, ColsOf(k)[j])
    <3>1. CASE k = i + 1
      BY <2>6, <3>1 DEF cols
    <3>2. CASE k \in 1..i
      BY <2>2, <2>6, <3>2, SeenStays
    <3> QED  BY <3>1, <3>2
  <2>9. ASSUME NEW S, ToSet(picked) \subseteq S, Cover(S) PROVE ToSet(g.tables) \subseteq S
    <3>1. ToSet(f[i].tables) \subseteq S
      BY <2>2, <2>9
    <3> QED  BY <2>5, <2>6, <2>9, <3>1
  <2> QED  BY <2>6, <2>7, <2>8, <2>9 DEF g
<1> HIDE DEF I
<1>6. n \in I
  BY <1>1, <1>4, <1>5, Induction
<1>7. Found(n)
  <2> HIDE DEF Found
  <2> QED  BY <1>1, <1>6 DEF I
<1> HIDE DEF Cover
<1> QED  BY <1>2, <1>3, <1>7 DEF n

----------------------------------------------------------------------------
(* The tables for a question *)

Score(t) == catalogue[t].score

Keys == [t \in Tables |-> - catalogue[t].score]

Rank(t) == Place(Keys, t)

LEMMA KeysIs ==
  ASSUME Catalogue
  PROVE  /\ Tables = 1..Len(catalogue)
         /\ Len(catalogue) \in Nat
         /\ Keys \in Seq(Int)
         /\ DOMAIN Keys = Tables
         /\ \A t \in Tables : Score(t) \in Nat /\ Keys[t] = - Score(t)
         /\ \A t, u \in Tables : Better(t, u) <=> Precedes(Keys, t, u)
<1>1. Tables = 1..Len(catalogue) /\ Len(catalogue) \in Nat
  BY DEF Catalogue, Tables
<1>2. \A t \in Tables : Score(t) \in Nat
  BY TableIs DEF Score
<1>3. Keys = [t \in Tables |-> - Score(t)]
  BY DEF Keys, Score
<1>4. \A t \in Tables : Keys[t] = - Score(t) /\ Keys[t] \in Int
  BY <1>2, <1>3
<1>5. Keys \in Seq(Int) /\ DOMAIN Keys = Tables
  BY <1>1, <1>2, <1>3
<1>6. \A t, u \in Tables : Better(t, u) <=> Score(t) > Score(u) \/ (Score(t) = Score(u) /\ t < u)
  BY DEF Better, Score
<1>7. \A t, u \in Tables : Precedes(Keys, t, u) <=> Score(t) > Score(u) \/ (Score(t) = Score(u) /\ t < u)
  BY <1>2, <1>4 DEF Precedes
<1> QED  BY <1>1, <1>2, <1>4, <1>5, <1>6, <1>7

\* The sorted list has each table at its rank.
LEMMA ScoredIs ==
  ASSUME Catalogue
  PROVE  /\ Scored \in Seq(Tables)
         /\ Len(Scored) = Len(catalogue)
         /\ \A i \in Tables : Scored[i] \in Tables /\ Rank(Scored[i]) = i
         /\ \A t \in Tables : Rank(t) \in Tables /\ Scored[Rank(t)] = t
         /\ \A t \in Tables : Rank(t) - 1 = Cardinality({u \in Tables : Better(u, t)})
<1>1. Scored = Order(Keys)
  BY DEF Scored, Keys
<1>2. Keys \in Seq(Int) /\ DOMAIN Keys = Tables /\ Tables = 1..Len(catalogue) /\ Len(catalogue) \in Nat
  BY KeysIs
<1>3. /\ Scored \in [Tables -> Tables]
      /\ \A i \in Tables : Rank(Scored[i]) = i
      /\ \A t \in Tables : Scored[Rank(t)] = t
      /\ \A t \in Tables : Rank(t) \in Tables
  BY <1>1, <1>2, OrderIs, PlaceIs DEF Rank
<1>4. Scored \in Seq(Tables) /\ Len(Scored) = Len(catalogue)
  BY <1>2, <1>3
<1>5. ASSUME NEW t \in Tables PROVE Rank(t) - 1 = Cardinality({u \in Tables : Better(u, t)})
  <2>1. {u \in DOMAIN Keys : Precedes(Keys, u, t)} = {u \in Tables : Better(u, t)}
    BY <1>2, KeysIs
  <2>2. Rank(t) = Cardinality({u \in Tables : Better(u, t)}) + 1
    BY <2>1 DEF Rank, Place
  <2>3. IsFiniteSet(Tables)
    BY <1>2, PositionsAre
  <2>4. Cardinality({u \in Tables : Better(u, t)}) \in Nat
    BY <2>3, FS_Subset, FS_CardinalityType
  <2> QED  BY <2>2, <2>4
<1> QED  BY <1>3, <1>4, <1>5

\* The tables that match come first.
LEMMA MatchesComeFirst ==
  ASSUME Catalogue
  PROVE  \E k \in 0..Len(catalogue) : \A i \in Tables : Score(Scored[i]) > 0 <=> i <= k
<1> DEFINE n == Len(catalogue)
           Zero == {i \in Tables : ~ (Score(Scored[i]) > 0)}
<1>1. Tables = 1..n /\ n \in Nat
  BY KeysIs
<1> HIDE DEF n
<1>2. \A i, j \in Tables : i < j => Score(Scored[i]) >= Score(Scored[j])
  <2> SUFFICES ASSUME NEW i \in Tables, NEW j \in Tables, i < j
               PROVE  Score(Scored[i]) >= Score(Scored[j])
    OBVIOUS
  <2> DEFINE t == Scored[i]
             u == Scored[j]
  <2>1. t \in Tables /\ u \in Tables
    BY ScoredIs
  <2>2. Keys[t] <= Keys[u]
    <3>1. i <= j
      BY <1>1
    <3> QED  BY <3>1, KeysIs, OrderAscends DEF Scored, Keys
  <2> HIDE DEF t, u
  <2>3. Score(t) \in Nat /\ Score(u) \in Nat /\ Keys[t] = - Score(t) /\ Keys[u] = - Score(u)
    BY <2>1, KeysIs
  <2> QED  BY <2>2, <2>3 DEF t, u
<1>3. \A i \in Tables : Score(Scored[i]) \in Nat
  BY ScoredIs, KeysIs
<1>4. CASE Zero = {}
  <2>1. \A i \in Tables : Score(Scored[i]) > 0 <=> i <= n
    BY <1>1, <1>4
  <2> QED  BY <1>1, <2>1 DEF n
<1>5. CASE Zero # {}
  <2>1. Zero \subseteq Nat
    BY <1>1
  <2>2. PICK m \in Zero : \A j \in Zero : m <= j
    BY <1>5, <2>1, Least
  <2>3. m \in Tables /\ m - 1 \in 0..n /\ Score(Scored[m]) = 0
    BY <1>1, <1>3
  <2>4. ASSUME NEW i \in Tables, i <= m - 1 PROVE Score(Scored[i]) > 0
    <3>1. i \notin Zero
      BY <1>1, <2>2, <2>3, <2>4
    <3> QED  BY <3>1
  <2>5. ASSUME NEW i \in Tables, ~ (i <= m - 1) PROVE ~ (Score(Scored[i]) > 0)
    <3>1. i = m \/ m < i
      BY <1>1, <2>3, <2>5
    <3> QED  BY <1>2, <1>3, <2>3, <3>1
  <2> QED  BY <2>3, <2>4, <2>5 DEF n
<1> QED  BY <1>4, <1>5

LEMMA FirstTablesIs ==
  ASSUME NEW order \in Seq(Tables), MaxTables \in Nat
  PROVE  /\ FirstTables(order) \in Seq(Tables)
         /\ ToSet(FirstTables(order)) = {order[i] : i \in 1..Smaller(Len(order), MaxTables)}
<1> DEFINE m == Smaller(Len(order), MaxTables)
           first == FirstTables(order)
<1>1. m \in Nat /\ m <= Len(order)
  <2>1. Len(order) \in Nat
    OBVIOUS
  <2> QED  BY <2>1, SmallerIs
<1>2. first = SubSeq(order, 1, m)
  BY DEF FirstTables
<1> HIDE DEF m, first
<1>3. first \in Seq(Tables) /\ Len(first) = m /\ \A i \in 1..m : first[i] = order[i]
  BY <1>1, <1>2
<1>4. DOMAIN first = 1..m
  BY <1>1, <1>3
<1> HIDE DEF first
<1>5. ToSet(first) = {order[i] : i \in 1..m}
  BY <1>3, <1>4 DEF ToSet
<1> QED  BY <1>3, <1>5 DEF m, first

\* A question is given its best tables.
LEMMA PickedIs ==
  ASSUME Catalogue, MaxTables \in Nat \ {0}, Len(catalogue) > MaxTables
  PROVE  Picked \in Seq(Tables) /\ ToSet(Picked) = Seeds
<1> DEFINE n == Len(catalogue)
           Matching == {t \in Tables : catalogue[t].score > 0}
           scoring == Kept(Scored, Matching)
<1>1. /\ Tables = 1..n
      /\ n \in Nat
      /\ Scored \in Seq(Tables)
      /\ Len(Scored) = n
      /\ \A i \in Tables : Scored[i] \in Tables /\ Rank(Scored[i]) = i
      /\ \A t \in Tables : Rank(t) \in Tables /\ Scored[Rank(t)] = t
  BY KeysIs, ScoredIs
<1>2. PICK k \in 0..n : \A i \in Tables : Score(Scored[i]) > 0 <=> i <= k
  BY MatchesComeFirst
<1>3. Picked = FirstTables(IF scoring = <<>> THEN Scored ELSE scoring)
  BY DEF Picked
<1> HIDE DEF n
<1>4. \A i \in 1..n : Scored[i] \in Matching <=> i <= k
  BY <1>1, <1>2 DEF Score
<1> HIDE DEF Matching
<1>5. /\ scoring \in Seq(Tables)
      /\ Len(scoring) = k
      /\ \A j \in 1..k : scoring[j] = Scored[j]
  <2>1. k \in 0..Len(Scored) /\ \A i \in 1..Len(Scored) : Scored[i] \in Matching <=> i <= k
    BY <1>1, <1>4
  <2>2. Scored \in Seq(Tables)
    BY <1>1
  <2> QED  BY <2>1, <2>2, KeptIsPrefix
<1>6. \A t \in Tables : t \in Seeds <=> Rank(t) <= MaxTables /\ (Rank(t) <= k \/ k = 0)
  <2>1. \A t \in Tables : Score(t) > 0 <=> Rank(t) <= k
    BY <1>1, <1>2
  <2>2. (\A u \in Tables : Score(u) = 0) <=> k = 0
    <3>1. \A u \in Tables : Score(u) = 0 <=> ~ (Rank(u) <= k)
      BY <2>1, KeysIs
    <3>2. CASE k = 0
      BY <1>1, <3>1, <3>2
    <3>3. CASE k # 0
      <4>1. k \in Tables /\ Scored[k] \in Tables /\ Rank(Scored[k]) = k
        <5>1. k \in Tables
          BY <1>1, <3>3
        <5> QED  BY <1>1, <5>1
      <4>2. Score(Scored[k]) # 0 /\ k \in Nat
        BY <1>1, <3>1, <4>1
      <4> QED  BY <3>3, <4>1, <4>2
    <3> QED  BY <3>2, <3>3
  <2>3. \A t \in Tables : Rank(t) - 1 = Cardinality({u \in Tables : Better(u, t)})
    BY ScoredIs
  <2>4. \A t \in Tables : Rank(t) - 1 < MaxTables <=> Rank(t) <= MaxTables
    <3>1. \A r \in Nat : r - 1 < MaxTables <=> r <= MaxTables
      OBVIOUS
    <3>2. \A t \in Tables : Rank(t) \in Nat
      BY <1>1
    <3> QED  BY <3>1, <3>2
  <2> QED  BY <2>1, <2>2, <2>3, <2>4 DEF Seeds, Score
<1> HIDE DEF scoring
<1> DEFINE order == IF scoring = <<>> THEN Scored ELSE scoring
           m == Smaller(Len(order), MaxTables)
<1>7. /\ order \in Seq(Tables)
      /\ Len(order) \in 1..n
      /\ \A i \in 1..Len(order) : order[i] = Scored[i]
      /\ Len(order) = (IF k = 0 THEN n ELSE k)
  <2>1. CASE k = 0
    <3>1. scoring = <<>>
      BY <1>5, <2>1
    <3> QED  BY <1>1, <2>1, <3>1 DEF n
  <2>2. CASE k # 0
    <3>1. scoring # <<>>
      BY <1>5, <2>2
    <3>2. order = scoring /\ k \in 1..n
      BY <1>1, <2>2, <3>1
    <3> HIDE DEF order
    <3> QED  BY <1>5, <2>2, <3>2
  <2> QED  BY <2>1, <2>2
<1> HIDE DEF order
<1>8. m \in Nat /\ m <= Len(order) /\ \A r \in Tables : r <= m <=> r <= MaxTables /\ (r <= k \/ k = 0)
  <2> DEFINE l == Len(order)
  <2>1. l \in Nat /\ l = (IF k = 0 THEN n ELSE k) /\ k \in Nat
    BY <1>1, <1>7
  <2>2. m = IF l <= MaxTables THEN l ELSE MaxTables
    BY DEF Smaller
  <2> HIDE DEF l, m
  <2>3. \A r \in 1..n : r <= m <=> r <= MaxTables /\ r <= l
    BY <2>1, <2>2
  <2>4. \A r \in 1..n : r <= l <=> r <= k \/ k = 0
    BY <1>1, <2>1
  <2>5. m \in Nat /\ m <= l
    BY <2>1, <2>2
  <2> QED  BY <1>1, <2>3, <2>4, <2>5 DEF l
<1>9. Picked \in Seq(Tables) /\ ToSet(Picked) = {order[i] : i \in 1..m}
  BY <1>3, <1>7, FirstTablesIs DEF order
<1>10. \A i \in 1..m : i \in Tables /\ order[i] = Scored[i]
  <2> HIDE DEF m
  <2>1. Len(order) \in Nat /\ Len(order) <= n
    BY <1>1, <1>7
  <2>2. \A i \in 1..m : i \in 1..Len(order) /\ i \in 1..n
    BY <1>1, <1>8, <2>1
  <2> QED  BY <1>1, <1>7, <2>2
<1> HIDE DEF m
<1>11. ASSUME NEW t \in ToSet(Picked) PROVE t \in Seeds
  <2>1. PICK i \in 1..m : t = Scored[i]
    BY <1>9, <1>10
  <2>2. t \in Tables /\ Rank(t) = i /\ i <= m
    BY <1>1, <1>8, <1>10, <2>1
  <2> QED  BY <1>6, <1>8, <1>10, <2>2
<1>12. ASSUME NEW t \in Seeds PROVE t \in ToSet(Picked)
  <2>1. t \in Tables /\ Rank(t) <= m
    BY <1>1, <1>6, <1>8 DEF Seeds
  <2>2. Rank(t) \in 1..m
    <3>1. Rank(t) \in 1..n
      BY <1>1, <2>1
    <3> QED  BY <1>1, <1>8, <2>1, <3>1
  <2>3. order[Rank(t)] = t
    BY <1>1, <1>10, <2>1, <2>2
  <2> QED  BY <1>9, <2>2, <2>3
<1> QED  BY <1>9, <1>11, <1>12

----------------------------------------------------------------------------
(* The invariant *)

\* What depends on the catalogue and the sizes alone stays as it is.
LEMMA InputsStay ==
  ASSUME UNCHANGED inputs
  PROVE  /\ Tables' = Tables
         /\ Columns' = Columns
         /\ Catalogue' <=> Catalogue
         /\ Budget' = Budget
         /\ Room' = Room
         /\ extras' = extras
         /\ question' = question
         /\ Len(catalogue)' = Len(catalogue)
<1>1. catalogue' = catalogue /\ extras' = extras /\ question' = question
  BY DEF inputs
<1>2. Tables' = Tables /\ Columns' = Columns
  BY <1>1 DEF Tables, Columns
<1>3. Budget' = Budget
  BY <1>1 DEF Budget
<1>4. Room' = Room
  BY <1>3 DEF Room
<1> QED  BY <1>1, <1>2, <1>3, <1>4 DEF Catalogue

LEMMA SeedsStay ==
  ASSUME UNCHANGED inputs
  PROVE  /\ Seeds' = Seeds
         /\ \A S : Closed(S)' <=> Closed(S)
<1>1. catalogue' = catalogue /\ Tables' = Tables
  BY InputsStay DEF inputs
<1>2. \A t : {u \in Tables : Better(u, t)}' = {u \in Tables : Better(u, t)}
  BY <1>1 DEF Better
<1>3. Seeds' = Seeds
  BY <1>1, <1>2 DEF Seeds
<1>4. \A t : References(t)' = References(t)
  BY <1>1 DEF References
<1>5. \A S : Closed(S)' <=> Closed(S)
  BY <1>4 DEF Closed
<1> QED  BY <1>3, <1>5

LEMMA FirstColumnIs ==
  ASSUME UNCHANGED inputs
  PROVE  FirstColumn' = TableSize(picked'[1], Smaller(1, Columns[picked'[1]]), FALSE)
<1>1. catalogue' = catalogue /\ Columns' = Columns
  BY InputsStay DEF inputs
<1> QED  BY <1>1 DEF FirstColumn, TableSize

LEMMA RoomIs ==
  ASSUME PromptTyped
  PROVE  /\ Budget \in Int
         /\ Room \in Nat
         /\ Budget <= Room
         /\ Room > 0 => Room = Budget
         /\ Budget = MaxTokens - (Base + extras) - question - Reserve
<1>1. extras \in Nat /\ question \in Nat
  BY DEF PromptTyped
<1>2. MaxTokens \in Nat /\ Reserve \in Nat /\ Base \in Nat
  <2>1. {MaxTokens, Reserve, Glue, Base} \subseteq Nat
    BY PromptAssumption
  <2> QED  BY <2>1
<1>3. Budget = MaxTokens - (Base + extras) - question - Reserve
  BY DEF Budget
<1>4. Budget \in Int
  BY <1>1, <1>2, <1>3
<1> QED  BY <1>3, <1>4 DEF Room

LEMMA LimitsAre ==
  /\ MaxTables \in Nat /\ RenderTables \in Nat /\ RenderCols \in Nat /\ SlimCols \in Nat
  /\ MaxTables >= 1 /\ RenderTables >= 1 /\ RenderCols >= 1 /\ SlimCols >= 1
  /\ TRUE \in BOOLEAN /\ FALSE \in BOOLEAN
<1>1. {MaxTables, RenderTables, RenderCols, SlimCols} \subseteq Nat \ {0}
  BY PromptAssumption
<1> QED  BY <1>1

LEMMA SelectionInitially == PromptInit => PromptInv
<1> SUFFICES ASSUME PromptInit PROVE PromptInv
  OBVIOUS
<1>1. Catalogue /\ extras \in Nat /\ question \in Nat
  BY PromptAssumption DEF PromptInit, Catalogue
<1>2. width \in [Tables -> Nat] /\ width = Columns /\ \A t \in Tables : Columns[t] \in Nat
  BY <1>1, TableIs DEF PromptInit, Columns
<1>3. picked \in Seq(Tables) /\ picked = <<>> /\ ToSet(picked) = {}
  BY DEF PromptInit, ToSet
<1>4. PromptTypeOK
  BY <1>2, <1>3 DEF PromptInit, PromptTypeOK
<1>5. PromptTyped
  BY <1>1, <1>2, <1>3, <1>4 DEF PromptInit, PromptTyped
<1>6. Closing /\ Trimming /\ PromptFits
  BY <1>3 DEF PromptInit, Closing, Trimming, PromptFits, SelectionIsClosed
<1> QED  BY <1>5, <1>6 DEF PromptInv

\* The types after a step, from those of what it changes.
LEMMA TypesAfter ==
  ASSUME PromptTyped, UNCHANGED inputs,
         pc' \in {"pick", "close", "render", "columns", "tables", "assemble", "done"},
         picked' \in Seq(Tables),
         names' \subseteq Refs, {n.table : n \in names'} \subseteq Tables,
         width' \in [Tables -> Nat],
         \A t \in Tables : width'[t] <= Columns[t] /\ (width'[t] = 0 => Columns[t] = 0),
         cursor' \in 1..(Len(picked') + 1), pc' # "columns" => cursor' = 1,
         text' \in Nat,
         kept' \in [extras : BOOLEAN, schema : BOOLEAN]
  PROVE  PromptTyped'
<1>1. Tables' = Tables /\ Columns' = Columns /\ Catalogue' /\ extras' \in Nat /\ question' \in Nat
  BY InputsStay DEF PromptTyped
<1>2. ToSet(picked)' \subseteq Tables
  BY DEF ToSet
<1>3. PromptTypeOK'
  BY <1>1, <1>2 DEF PromptTypeOK
<1> QED  BY <1>1, <1>3 DEF PromptTyped

\* What a step leaves of the types.
LEMMA TypesBefore ==
  ASSUME PromptTyped
  PROVE  /\ Catalogue
         /\ picked \in Seq(Tables)
         /\ ToSet(picked) \subseteq Tables
         /\ names \subseteq Refs
         /\ {n.table : n \in names} \subseteq Tables
         /\ width \in [Tables -> Nat]
         /\ \A t \in Tables : width[t] <= Columns[t] /\ (width[t] = 0 => Columns[t] = 0)
         /\ cursor \in 1..(Len(picked) + 1)
         /\ pc # "columns" => cursor = 1
         /\ text \in Nat
         /\ kept \in [extras : BOOLEAN, schema : BOOLEAN]
         /\ Columns \in [Tables -> Nat]
<1>1. Columns \in [Tables -> Nat]
  BY TableIs DEF PromptTyped, Columns
<1> QED  BY <1>1 DEF PromptTyped, PromptTypeOK

LEMMA PassThroughKeeps ==
  ASSUME PromptInv, PassThrough
  PROVE  PromptInv'
<1>1. /\ UNCHANGED inputs
      /\ pc' = "render"
      /\ Len(catalogue) <= MaxTables
      /\ picked' = [t \in Tables |-> t]
      /\ UNCHANGED <<names, width, cursor, text, kept>>
      /\ pc = "pick"
  BY DEF PassThrough
<1>2. PromptTyped /\ Tables = 1..Len(catalogue) /\ Len(catalogue) \in Nat
  BY KeysIs DEF PromptInv, PromptTyped
<1>3. picked' \in Seq(Tables) /\ ToSet(picked') = Tables
  BY <1>1, <1>2 DEF ToSet
<1>4. PromptTyped'
  <2>1. cursor' = 1 /\ Len(picked') \in Nat
    BY <1>1, <1>2, <1>3, TypesBefore
  <2> QED  BY <1>1, <1>2, <1>3, <2>1, TypesBefore, TypesAfter
<1>5. Closing'
  <2>1. Closed(Tables)
    BY DEF Closed, References
  <2>2. Closed(ToSet(picked))'
    <3>1. ToSet(picked)' = Tables
      BY <1>3 DEF ToSet
    <3>2. Tables' = Tables /\ catalogue' = catalogue
      BY <1>1, InputsStay DEF inputs
    <3> QED  BY <2>1, <3>1, <3>2 DEF Closed, References
  <2>3. ~ (Len(catalogue)' > MaxTables)
    BY <1>1, <1>2, InputsStay, PromptAssumption
  <2> QED  BY <1>1, <2>2, <2>3 DEF Closing, SelectionIsClosed
<1>6. Trimming' /\ PromptFits'
  BY <1>1 DEF Trimming, PromptFits
<1> QED  BY <1>4, <1>5, <1>6 DEF PromptInv

LEMMA PickKeeps ==
  ASSUME PromptInv, Pick
  PROVE  PromptInv'
<1>1. /\ UNCHANGED inputs
      /\ pc' = "close"
      /\ Len(catalogue) > MaxTables
      /\ picked' = Picked
      /\ names' = {Exact(t) : t \in ToSet(picked')}
      /\ UNCHANGED <<width, cursor, text, kept>>
      /\ pc = "pick"
  BY DEF Pick
<1>2. PromptTyped /\ Catalogue /\ MaxTables \in Nat \ {0} /\ Tables \subseteq Nat
  BY KeysIs, PromptAssumption DEF PromptInv, PromptTyped
<1>3. Picked \in Seq(Tables) /\ ToSet(Picked) = Seeds /\ Seeds \subseteq Tables
  BY <1>1, <1>2, PickedIs DEF Seeds
<1>4. PromptTyped'
  <2>1. \A t \in Seeds : Exact(t) \in Refs /\ Exact(t).table = t
    BY <1>2, <1>3 DEF Exact, Refs
  <2>11. \A n \in names' : n \in Refs /\ n.table \in Seeds
    <3>1. \A n \in names' : \E t \in Seeds : n = Exact(t)
      BY <1>1, <1>3
    <3> QED  BY <2>1, <3>1
  <2>2. names' \subseteq Refs /\ {n.table : n \in names'} \subseteq Tables
    BY <1>3, <2>11
  <2>3. cursor' = 1 /\ Len(picked') \in Nat
    BY <1>1, <1>2, <1>3, TypesBefore
  <2> QED  BY <1>1, <1>2, <1>3, <2>2, <2>3, TypesBefore, TypesAfter
<1>5. Closing'
  <2>1. ToSet(picked)' = Seeds
    BY <1>1, <1>3 DEF ToSet
  <2>2. \A n \in names' : n.table \in Seeds
    BY <1>1, <1>3 DEF Exact
  <2>3. Seeds' = Seeds /\ Len(catalogue)' = Len(catalogue)
    BY <1>1, InputsStay, SeedsStay
  <2>4. LedFromSeeds'
    BY <2>1, <2>3 DEF LedFromSeeds
  <2> QED  BY <1>1, <2>1, <2>2, <2>3, <2>4 DEF Closing, SelectionIsClosed
<1>6. Trimming' /\ PromptFits'
  BY <1>1 DEF Trimming, PromptFits
<1> QED  BY <1>4, <1>5, <1>6 DEF PromptInv

LEMMA SweepKeeps ==
  ASSUME PromptInv, Sweep
  PROVE  PromptInv'
<1>1. /\ UNCHANGED inputs
      /\ pc = "close"
      /\ pc' = IF names' = names THEN "render" ELSE "close"
      /\ picked' = Swept.tables
      /\ names' = Swept.names
      /\ UNCHANGED <<width, cursor, text, kept>>
  BY DEF Sweep
<1>2. /\ PromptTyped
      /\ Catalogue
      /\ picked \in Seq(Tables)
      /\ names \subseteq Refs
      /\ \A n \in names : n.table \in ToSet(picked)
      /\ Len(catalogue) > MaxTables
      /\ LedFromSeeds
  BY <1>1 DEF PromptInv, PromptTyped, Closing
<1>3. /\ Swept \in Findings
      /\ Sound(Swept)
      /\ Enlarges(Start, Swept)
      /\ \A i \in 1..Len(picked) : \A j \in DOMAIN ColsOf(i) : Seen(Swept, ColsOf(i)[j])
      /\ \A S : ToSet(picked) \subseteq S /\ Closed(S) => ToSet(Swept.tables) \subseteq S
  BY <1>2, SweptFinds
<1>4. picked' \in Seq(Tables) /\ names' \subseteq Refs /\ \A n \in names' : n.table \in ToSet(picked')
  BY <1>1, <1>3 DEF Findings, Sound
<1>5. ToSet(picked) \subseteq ToSet(picked') /\ ToSet(picked') \subseteq Tables
  <2>1. ToSet(picked) \subseteq ToSet(picked')
    BY <1>1, <1>3 DEF Enlarges, Start
  <2>2. ToSet(picked') \subseteq Tables
    BY <1>4 DEF ToSet
  <2> QED  BY <2>1, <2>2
<1>6. PromptTyped'
  <2>1. {n.table : n \in names'} \subseteq Tables
    BY <1>4, <1>5
  <2>2. cursor' = 1 /\ Len(picked') \in Nat
    BY <1>1, <1>2, <1>4, TypesBefore
  <2> QED  BY <1>1, <1>2, <1>4, <2>1, <2>2, TypesBefore, TypesAfter
<1>7. LedFromSeeds'
  <2>1. Seeds \subseteq ToSet(picked')
    BY <1>2, <1>5 DEF LedFromSeeds
  <2>2. ASSUME NEW S \in SUBSET Tables, Seeds \subseteq S, Closed(S) PROVE ToSet(picked') \subseteq S
    <3>1. ToSet(picked) \subseteq S
      BY <1>2, <2>2 DEF LedFromSeeds
    <3> QED  BY <1>1, <1>3, <2>2, <3>1
  <2>3. Seeds' = Seeds /\ Tables' = Tables /\ \A S : Closed(S)' <=> Closed(S)
    BY <1>1, InputsStay, SeedsStay
  <2>4. ToSet(picked)' = ToSet(picked')
    BY DEF ToSet
  <2> QED  BY <2>1, <2>2, <2>3, <2>4 DEF LedFromSeeds
<1>8. ASSUME names' = names PROVE Closed(ToSet(picked))'
  <2>1. Swept = Start /\ picked' = picked
    BY <1>1, <1>3, <1>8 DEF Enlarges, Start
  <2>2. ASSUME NEW t \in ToSet(picked) PROVE References(t) \subseteq ToSet(picked)
    <3>1. PICK i \in 1..Len(picked) : t = picked[i]
      BY <1>2 DEF ToSet
    <3>2. ASSUME NEW col \in ToSet(catalogue[t].cols), col.ref # None, col.ref.table \in Tables
          PROVE  col.ref.table \in ToSet(picked)
      <4>1. PICK j \in DOMAIN ColsOf(i) : col = ColsOf(i)[j]
        BY <3>1 DEF ToSet, ColsOf
      <4>2. Seen(Swept, col)
        BY <1>3, <4>1
      <4>3. col.ref \in names
        BY <1>1, <1>8, <3>2, <4>2 DEF Seen
      <4> QED  BY <1>2, <4>3
    <3> QED  BY <3>2 DEF References
  <2>3. Closed(ToSet(picked))
    BY <2>2 DEF Closed
  <2>4. ToSet(picked)' = ToSet(picked)
    BY <2>1 DEF ToSet
  <2>5. Tables' = Tables /\ catalogue' = catalogue
    BY <1>1, InputsStay DEF inputs
  <2> QED  BY <2>3, <2>4, <2>5 DEF Closed, References
<1>9. Closing'
  <2>1. ToSet(picked)' = ToSet(picked')
    BY DEF ToSet
  <2>2. Len(catalogue)' = Len(catalogue)
    BY <1>1, InputsStay
  <2> QED  BY <1>1, <1>2, <1>4, <1>7, <1>8, <2>1, <2>2 DEF Closing, SelectionIsClosed
<1>10. Trimming' /\ PromptFits'
  BY <1>1 DEF Trimming, PromptFits
<1> QED  BY <1>6, <1>9, <1>10 DEF PromptInv

\* What the trimming changes, and what the lemmas above then say of the invariant.
LEMMA BudgetKeeps ==
  ASSUME PromptInv, UNCHANGED inputs, PromptTyped', Trimming',
         pc \notin {"pick", "close"}, pc' \in {"columns", "tables", "assemble"}
  PROVE  PromptInv'
<1>1. Closing' /\ PromptFits'
  BY DEF Closing, SelectionIsClosed, PromptFits
<1> QED  BY <1>1 DEF PromptInv

LEMMA RenderKeeps ==
  ASSUME PromptInv, Render
  PROVE  PromptInv'
<1> DEFINE full == render(picked, Columns, RenderTables, RenderCols, TRUE)
           slim == render(picked, Columns, Len(picked), SlimCols, FALSE)
<1>1. /\ UNCHANGED inputs
      /\ pc = "render"
      /\ width' = Columns
      /\ text' = IF full <= Budget THEN full ELSE IF Room = 0 THEN 0 ELSE slim
      /\ pc' = IF text' <= Room THEN "assemble" ELSE IF SomethingToTrim(width') THEN "columns" ELSE "tables"
      /\ cursor' = 1
      /\ UNCHANGED <<picked, names, kept>>
  BY DEF Render
<1>2. /\ Catalogue
      /\ picked \in Seq(Tables)
      /\ names \subseteq Refs
      /\ {n.table : n \in names} \subseteq Tables
      /\ kept \in [extras : BOOLEAN, schema : BOOLEAN]
      /\ Columns \in [Tables -> Nat]
      /\ PromptTyped
  BY TypesBefore DEF PromptInv
<1>3. Len(picked) \in Nat /\ (picked # <<>> => Len(picked) >= 1)
  BY <1>2
<1>4. full \in Nat /\ (picked # <<>> => full >= 1)
  BY <1>2, RenderIs, LimitsAre
<1>5. slim \in Nat /\ (picked # <<>> => slim >= 1)
  BY <1>2, <1>3, RenderIs, LimitsAre
<1>6. Budget \in Int /\ Room \in Nat /\ Budget <= Room /\ (Room > 0 => Room = Budget)
  BY <1>2, RoomIs
<1>7. Len(picked) = 1 => slim = TableSize(picked[1], Smaller(Columns[picked[1]], SlimCols), FALSE)
  <2> SUFFICES ASSUME Len(picked) = 1
               PROVE  slim = TableSize(picked[1], Smaller(Columns[picked[1]], SlimCols), FALSE)
    OBVIOUS
  <2> DEFINE has == Columns
             rows == Len(picked)
  <2>1. rows \in Nat /\ rows >= 1 /\ has \in [Tables -> Nat]
    BY <1>2
  <2> HIDE DEF has, rows
  <2>2. render(picked, has, rows, SlimCols, FALSE)
          = TableSize(picked[1], Smaller(has[picked[1]], SlimCols), FALSE)
    BY <1>2, <2>1, OneTableIs, LimitsAre
  <2> QED  BY <2>2 DEF has, rows
<1> HIDE DEF full, slim
<1>8. text' \in Nat
  BY <1>1, <1>4, <1>5
<1>9. PromptTyped'
  <2>1. pc' \in {"assemble", "columns", "tables"}
    BY <1>1
  <2>2. cursor' \in 1..(Len(picked') + 1)
    BY <1>1, <1>3
  <2>3. \A t \in Tables : width'[t] <= Columns[t] /\ (width'[t] = 0 => Columns[t] = 0)
    BY <1>1, <1>2
  <2> QED  BY <1>1, <1>2, <1>8, <2>1, <2>2, <2>3, TypesAfter
<1>10. Room' = Room /\ FirstColumn' = FirstColumn
  <2>1. catalogue' = catalogue /\ Columns' = Columns /\ Room' = Room
    BY <1>1, InputsStay DEF inputs
  <2> QED  BY <1>1, <2>1 DEF FirstColumn, TableSize
<1>11. ASSUME picked # <<>>, pc' \in {"columns", "tables"} PROVE text' > 0
  <2>1. ~ (text' <= Room)
    BY <1>1, <1>11
  <2> QED  BY <1>6, <1>8, <2>1
<1>12. ASSUME picked # <<>>, pc' = "tables", Len(picked) = 1 PROVE text' = FirstColumn
  <2>1. ~ SomethingToTrim(width') /\ ~ (text' <= Room)
    BY <1>1, <1>12
  <2>2. text' = slim
    BY <1>1, <1>4, <1>6, <2>1
  <2>3. picked[1] \in Tables /\ picked[1] \in ToSet(picked)
    BY <1>2, <1>12 DEF ToSet
  <2>4. Columns[picked[1]] \in Nat /\ ~ (Columns[picked[1]] > 1)
    BY <1>1, <1>2, <2>1, <2>3 DEF SomethingToTrim
  <2>5. Smaller(Columns[picked[1]], SlimCols) = Smaller(1, Columns[picked[1]])
    BY <2>4, LimitsAre DEF Smaller
  <2> QED  BY <1>7, <1>12, <2>2, <2>5 DEF FirstColumn
<1>13. ASSUME picked # <<>>, pc' = "assemble" PROVE text' <= Room /\ (text' > 0 \/ Room = 0)
  <2>1. text' <= Room
    BY <1>1, <1>13
  <2>2. text' > 0 \/ Room = 0
    BY <1>1, <1>4, <1>5, <1>13
  <2> QED  BY <2>1, <2>2
<1>14. pc' = "tables" => ~ SomethingToTrim(width')
  BY <1>1
<1>15. SomethingToTrim(width)' <=> SomethingToTrim(width')
  BY <1>1 DEF SomethingToTrim, ToSet
<1>16. Trimming'
  BY <1>1, <1>10, <1>11, <1>12, <1>13, <1>14, <1>15 DEF Trimming
<1> QED  BY <1>1, <1>9, <1>16, BudgetKeeps

LEMMA PopColumnKeeps ==
  ASSUME PromptInv, PopColumn
  PROVE  PromptInv'
<1> DEFINE t == picked[cursor]
<1>1. /\ UNCHANGED inputs
      /\ pc = "columns"
      /\ cursor <= Len(picked)
      /\ width[t] > 1
      /\ width' = [width EXCEPT ![t] = @ - 1]
      /\ text' = render(picked, width', Len(picked), width'[t], FALSE)
      /\ UNCHANGED <<pc, picked, names, cursor, kept>>
  BY DEF PopColumn, Trims
<1>2. /\ Catalogue
      /\ picked \in Seq(Tables)
      /\ names \subseteq Refs
      /\ {n.table : n \in names} \subseteq Tables
      /\ width \in [Tables -> Nat]
      /\ \A u \in Tables : width[u] <= Columns[u] /\ (width[u] = 0 => Columns[u] = 0)
      /\ cursor \in 1..(Len(picked) + 1)
      /\ kept \in [extras : BOOLEAN, schema : BOOLEAN]
      /\ Columns \in [Tables -> Nat]
      /\ PromptTyped
  BY TypesBefore DEF PromptInv
<1>3. Len(picked) \in Nat /\ (picked # <<>> => Len(picked) >= 1)
  BY <1>2
<1>4. t \in Tables
  BY <1>1, <1>2, <1>3
<1> HIDE DEF t
<1>5. width' \in [Tables -> Nat] /\ width'[t] \in Nat
  BY <1>1, <1>2, <1>4
<1>6. \A u \in Tables : width'[u] <= Columns[u] /\ (width'[u] = 0 => Columns[u] = 0)
  <2> SUFFICES ASSUME NEW u \in Tables
               PROVE  width'[u] <= Columns[u] /\ (width'[u] = 0 => Columns[u] = 0)
    OBVIOUS
  <2>1. width[u] \in Nat /\ Columns[u] \in Nat /\ width[u] <= Columns[u]
    BY <1>2
  <2>2. CASE u = t
    <3>1. width'[u] = width[u] - 1 /\ width[u] > 1
      BY <1>1, <1>2, <1>4, <2>2
    <3> QED  BY <2>1, <3>1
  <2>3. CASE u # t
    BY <1>1, <1>2, <2>3
  <2> QED  BY <2>2, <2>3
<1>7. text' \in Nat /\ (picked # <<>> => text' > 0)
  <2> DEFINE w == width'
             cap == width'[t]
             size == render(picked, w, Len(picked), cap, FALSE)
  <2>1. w \in [Tables -> Nat] /\ cap \in Nat /\ text' = size
    BY <1>1, <1>5
  <2> HIDE DEF w, cap
  <2>2. size \in Nat /\ (picked # <<>> => size >= 1)
    BY <1>2, <1>3, <2>1, RenderIs, LimitsAre
  <2> HIDE DEF size
  <2> QED  BY <2>1, <2>2
<1>8. PromptTyped'
  <2>1. cursor' \in 1..(Len(picked') + 1) /\ pc' = "columns"
    BY <1>1, <1>2
  <2> QED  BY <1>1, <1>2, <1>5, <1>6, <1>7, <2>1, TypesAfter
<1>9. Trimming'
  BY <1>1, <1>7 DEF Trimming
<1> QED  BY <1>1, <1>8, <1>9, BudgetKeeps

LEMMA NextTableKeeps ==
  ASSUME PromptInv, NextTable
  PROVE  PromptInv'
<1>1. /\ UNCHANGED inputs
      /\ pc = "columns"
      /\ cursor <= Len(picked)
      /\ cursor' = cursor + 1
      /\ UNCHANGED <<pc, picked, names, width, text, kept>>
  BY DEF NextTable
<1>2. PromptTyped /\ cursor \in 1..(Len(picked) + 1) /\ picked \in Seq(Tables)
  BY TypesBefore DEF PromptInv
<1>3. cursor' \in 1..(Len(picked') + 1) /\ pc' = "columns"
  <2>1. Len(picked) \in Nat
    BY <1>2
  <2> QED  BY <1>1, <1>2, <2>1
<1>4. PromptTyped'
  BY <1>1, <1>2, <1>3, TypesBefore, TypesAfter
<1>5. Trimming'
  BY <1>1 DEF Trimming, PromptInv
<1> QED  BY <1>1, <1>4, <1>5, BudgetKeeps

\* The whole schema with each table down to its last column, once only one is left.
LEMMA OneColumnIs ==
  ASSUME PromptTyped, Len(picked) = 1, ~ SomethingToTrim(width)
  PROVE  Whole(picked, width) = FirstColumn
<1>1. /\ Catalogue
      /\ picked \in Seq(Tables)
      /\ width \in [Tables -> Nat]
      /\ \A t \in Tables : width[t] <= Columns[t] /\ (width[t] = 0 => Columns[t] = 0)
      /\ Columns \in [Tables -> Nat]
  BY TypesBefore
<1>2. picked[1] \in Tables /\ picked[1] \in ToSet(picked)
  <2>1. picked \in Seq(Tables) /\ 1 \in DOMAIN picked
    BY <1>1
  <2> QED  BY <2>1 DEF ToSet
<1>3. Whole(picked, width) = TableSize(picked[1], Smaller(width[picked[1]], RenderCols), FALSE)
  BY <1>1, OneTableIs, LimitsAre DEF Whole
<1>4. width[picked[1]] \in Nat /\ ~ (width[picked[1]] > 1)
  BY <1>1, <1>2 DEF SomethingToTrim
<1> DEFINE w == width[picked[1]]
           c == Columns[picked[1]]
<1>5. w \in Nat /\ c \in Nat /\ w <= 1 /\ w <= c /\ (w = 0 => c = 0)
  BY <1>1, <1>2, <1>4
<1> HIDE DEF w, c
<1>6. Smaller(w, RenderCols) = Smaller(1, c)
  BY <1>5, LimitsAre DEF Smaller
<1> QED  BY <1>3, <1>6 DEF FirstColumn, w, c

LEMMA SweepEndsKeeps ==
  ASSUME PromptInv, SweepEnds
  PROVE  PromptInv'
<1>1. /\ UNCHANGED inputs
      /\ pc = "columns"
      /\ text' = Whole(picked, width)
      /\ pc' = IF text' > Room /\ SomethingToTrim(width) THEN "columns" ELSE "tables"
      /\ cursor' = 1
      /\ UNCHANGED <<picked, names, width, kept>>
  BY DEF SweepEnds
<1>2. PromptTyped /\ Catalogue /\ picked \in Seq(Tables) /\ width \in [Tables -> Nat]
  BY TypesBefore DEF PromptInv
<1>3. text' \in Nat /\ (picked # <<>> => text' > 0)
  <2>1. Whole(picked, width) \in Nat /\ (picked # <<>> => Whole(picked, width) >= 1)
    BY <1>2, RenderIs, LimitsAre DEF Whole
  <2> QED  BY <1>1, <2>1
<1>4. PromptTyped'
  <2>1. cursor' \in 1..(Len(picked') + 1) /\ pc' \in {"columns", "tables"}
    BY <1>1, <1>2
  <2> QED  BY <1>1, <1>2, <1>3, <2>1, TypesBefore, TypesAfter
<1>5. Room' = Room /\ FirstColumn' = FirstColumn
  <2>1. catalogue' = catalogue /\ Columns' = Columns /\ Room' = Room
    BY <1>1, InputsStay DEF inputs
  <2> QED  BY <1>1, <2>1 DEF FirstColumn, TableSize
<1>6. SomethingToTrim(width)' <=> SomethingToTrim(width)
  BY <1>1 DEF SomethingToTrim, ToSet
<1>7. Trimming'
  <2>1. ASSUME pc' = "tables", text' > Room PROVE ~ SomethingToTrim(width)
    BY <1>1, <2>1
  <2>2. ASSUME pc' = "tables", text' > Room, Len(picked) = 1 PROVE text' = FirstColumn
    BY <1>1, <1>2, <2>1, <2>2, OneColumnIs
  <2> QED  BY <1>1, <1>3, <1>5, <1>6, <2>1, <2>2 DEF Trimming
<1> QED  BY <1>1, <1>4, <1>7, BudgetKeeps

LEMMA PopTableKeeps ==
  ASSUME PromptInv, PopTable
  PROVE  PromptInv'
<1>1. /\ UNCHANGED inputs
      /\ pc = "tables"
      /\ text > Room
      /\ Len(picked) > 1
      /\ picked' = Front(picked)
      /\ text' = Whole(picked', width)
      /\ UNCHANGED <<pc, names, width, cursor, kept>>
  BY DEF PopTable
<1>2. PromptTyped /\ Catalogue /\ picked \in Seq(Tables) /\ width \in [Tables -> Nat] /\ cursor = 1
  BY <1>1, TypesBefore DEF PromptInv
<1>3. /\ picked' \in Seq(Tables)
      /\ Len(picked') = Len(picked) - 1
      /\ picked' # <<>>
      /\ picked'[1] = picked[1]
      /\ ToSet(picked') \subseteq ToSet(picked)
  <2>1. Len(picked) \in Nat /\ picked' = SubSeq(picked, 1, Len(picked) - 1)
    BY <1>1, <1>2 DEF Front
  <2>2. /\ picked' \in Seq(Tables)
        /\ Len(picked') = Len(picked) - 1
        /\ \A i \in 1..(Len(picked) - 1) : picked'[i] = picked[i]
    BY <1>1, <1>2, <2>1
  <2>3. Len(picked') >= 1 /\ picked' # <<>> /\ picked'[1] = picked[1]
    <3>1. Len(picked') >= 1 /\ 1 \in 1..(Len(picked) - 1)
      BY <1>1, <2>1, <2>2
    <3> QED  BY <2>2, <3>1
  <2>4. DOMAIN picked' = 1..(Len(picked) - 1) /\ DOMAIN picked = 1..Len(picked)
    BY <1>2, <2>2
  <2>5. ToSet(picked') \subseteq ToSet(picked)
    BY <2>1, <2>2, <2>4 DEF ToSet
  <2> QED  BY <2>2, <2>3, <2>5
<1>4. text' \in Nat /\ text' > 0
  <2> DEFINE p == picked'
  <2>1. p \in Seq(Tables) /\ p # <<>> /\ text' = Whole(p, width)
    BY <1>1, <1>3
  <2> HIDE DEF p
  <2>2. Whole(p, width) \in Nat /\ Whole(p, width) >= 1
    BY <1>2, <2>1, RenderIs, LimitsAre DEF Whole
  <2> QED  BY <2>1, <2>2
<1>5. PromptTyped'
  <2>1. cursor' \in 1..(Len(picked') + 1) /\ pc' = "tables"
    BY <1>1, <1>2, <1>3
  <2> QED  BY <1>1, <1>2, <1>3, <1>4, <2>1, TypesBefore, TypesAfter
<1>6. ~ SomethingToTrim(width)'
  <2>1. ~ SomethingToTrim(width)
    <3>1. picked # <<>>
      BY <1>1, <1>2
    <3> QED  BY <1>1, <3>1 DEF PromptInv, Trimming
  <2>2. ToSet(picked)' \subseteq ToSet(picked)
    BY <1>3 DEF ToSet
  <2> QED  BY <1>1, <2>1, <2>2 DEF SomethingToTrim
<1>7. ASSUME Len(picked') = 1 PROVE text' = FirstColumn'
  <2>1. width' = width /\ Whole(picked, width)' = text'
    BY <1>1, InputsStay DEF Whole, render, TableSize, inputs
  <2>2. PromptTyped' /\ Len(picked)' = 1 /\ ~ SomethingToTrim(width)'
    BY <1>5, <1>6, <1>7
  <2>3. (PromptTyped /\ Len(picked) = 1 /\ ~ SomethingToTrim(width) => Whole(picked, width) = FirstColumn)'
    BY OneColumnIs, PTL
  <2> QED  BY <2>1, <2>2, <2>3
<1>8. Trimming'
  BY <1>1, <1>3, <1>4, <1>6, <1>7 DEF Trimming
<1> QED  BY <1>1, <1>5, <1>8, BudgetKeeps

LEMMA TrimmedKeeps ==
  ASSUME PromptInv, Trimmed
  PROVE  PromptInv'
<1>1. /\ UNCHANGED inputs
      /\ pc = "tables"
      /\ text <= Room \/ Len(picked) = 1
      /\ pc' = "assemble"
      /\ UNCHANGED <<picked, names, width, cursor, text, kept>>
  BY DEF Trimmed
<1>2. PromptTyped /\ picked \in Seq(Tables) /\ cursor = 1 /\ text \in Nat /\ Room \in Nat
  BY <1>1, TypesBefore, RoomIs DEF PromptInv
<1>3. PromptTyped'
  <2>1. cursor' \in 1..(Len(picked') + 1)
    BY <1>1, <1>2
  <2> QED  BY <1>1, <1>2, <2>1, TypesBefore, TypesAfter
<1>4. Room' = Room /\ FirstColumn' = FirstColumn
  <2>1. catalogue' = catalogue /\ Columns' = Columns /\ Room' = Room
    BY <1>1, InputsStay DEF inputs
  <2> QED  BY <1>1, <2>1 DEF FirstColumn, TableSize
<1>5. ASSUME picked # <<>> PROVE FirstColumn > Room \/ (text <= Room /\ text > 0)
  <2>1. text > 0 /\ (text > Room /\ Len(picked) = 1 => text = FirstColumn)
    BY <1>1, <1>5 DEF PromptInv, Trimming
  <2> QED  BY <1>1, <1>2, <2>1
<1>6. Trimming'
  BY <1>1, <1>4, <1>5 DEF Trimming
<1> QED  BY <1>1, <1>3, <1>6, BudgetKeeps

\* A schema within its budget leaves the rest room enough: the last check of build_prompt
\* discards nothing then.
LEMMA WhatFitsIsKept ==
  ASSUME PromptTyped, text <= Room, text > 0
  PROVE  PromptSize([extras |-> TRUE, schema |-> TRUE]) <= MaxTokens
<1>1. Budget \in Int /\ Room \in Nat /\ (Room > 0 => Room = Budget)
      /\ Budget = MaxTokens - (Base + extras) - question - Reserve
  BY RoomIs
<1>2. MaxTokens \in Nat /\ Reserve \in Nat /\ Glue \in Nat /\ Base \in Nat /\ 2 * Glue <= Reserve
  <2>1. {MaxTokens, Reserve, Glue, Base} \subseteq Nat /\ 2 * Glue <= Reserve
    BY PromptAssumption
  <2> QED  BY <2>1
<1>3. text \in Nat /\ extras \in Nat /\ question \in Nat
  BY DEF PromptTyped, PromptTypeOK
<1>4. PromptSize([extras |-> TRUE, schema |-> TRUE]) = Base + extras + (Glue + text) + Glue + question
  BY DEF PromptSize
<1> QED  BY <1>1, <1>2, <1>3, <1>4

LEMMA AssembleKeeps ==
  ASSUME PromptInv, Assemble
  PROVE  PromptInv'
<1> DEFINE shown == text > 0 /\ text <= Room
           all == [extras |-> TRUE, schema |-> shown]
           none == [extras |-> FALSE, schema |-> FALSE]
<1>1. /\ UNCHANGED inputs
      /\ pc = "assemble"
      /\ kept' = IF PromptSize(all) > MaxTokens THEN none ELSE all
      /\ pc' = "done"
      /\ UNCHANGED <<picked, names, width, cursor, text>>
  BY DEF Assemble
<1>2. PromptTyped /\ picked \in Seq(Tables) /\ cursor = 1 /\ text \in Nat /\ Room \in Nat
  BY <1>1, TypesBefore, RoomIs DEF PromptInv
<1>3. shown \in BOOLEAN /\ all.schema = shown /\ all \in [extras : BOOLEAN, schema : BOOLEAN]
  OBVIOUS
<1>4. none \in [extras : BOOLEAN, schema : BOOLEAN] /\ none.schema = FALSE
  OBVIOUS
<1>5. shown => all = [extras |-> TRUE, schema |-> TRUE]
  OBVIOUS
<1>6. ~ shown => all = [extras |-> TRUE, schema |-> FALSE]
  OBVIOUS
<1> HIDE DEF all, none
<1>7. PromptTyped'
  <2>1. kept' \in [extras : BOOLEAN, schema : BOOLEAN]
    BY <1>1, <1>3, <1>4
  <2>2. cursor' \in 1..(Len(picked') + 1)
    BY <1>1, <1>2
  <2> QED  BY <1>1, <1>2, <2>1, <2>2, TypesBefore, TypesAfter
<1>8. Room' = Room /\ FirstColumn' = FirstColumn
  <2>1. catalogue' = catalogue /\ Columns' = Columns /\ Room' = Room
    BY <1>1, InputsStay DEF inputs
  <2> QED  BY <1>1, <2>1 DEF FirstColumn, TableSize
<1>9. shown => PromptSize(all) <= MaxTokens
  BY <1>2, <1>5, WhatFitsIsKept
<1>10. PromptSize(all) \in Int /\ MaxTokens \in Nat
  <2>1. Glue \in Nat /\ Base \in Nat /\ MaxTokens \in Nat
    <3>1. {MaxTokens, Reserve, Glue, Base} \subseteq Nat
      BY PromptAssumption
    <3> QED  BY <3>1
  <2>2. extras \in Nat /\ question \in Nat
    BY <1>2 DEF PromptTyped
  <2> QED  BY <1>2, <2>1, <2>2 DEF PromptSize
<1>11. Trimming'
  <2>1. ASSUME picked # <<>>, ~ kept'.schema PROVE FirstColumn > Room
    <3>1. FirstColumn > Room \/ (text <= Room /\ (text > 0 \/ Room = 0))
      BY <1>1, <2>1 DEF PromptInv, Trimming
    <3>2. ASSUME text <= Room, text > 0 PROVE FALSE
      <4>1. shown /\ ~ (PromptSize(all) > MaxTokens)
        BY <1>9, <1>10, <3>2
      <4>2. kept' = all /\ all.schema
        BY <1>1, <1>3, <4>1
      <4> QED  BY <2>1, <4>2
    <3>3. ASSUME text <= Room, Room = 0 PROVE FirstColumn > Room
      <4>1. picked[1] \in Tables /\ Catalogue /\ Columns \in [Tables -> Nat]
        BY <1>2, <2>1, TypesBefore
      <4>2. Smaller(1, Columns[picked[1]]) \in Nat
        BY <4>1, SmallerIs
      <4>3. FirstColumn \in Nat /\ FirstColumn >= 1
        BY <4>1, <4>2, TableSizeIs DEF FirstColumn
      <4> QED  BY <3>3, <4>3
    <3> QED  BY <3>1, <3>2, <3>3
  <2> QED  BY <1>1, <1>8, <2>1 DEF Trimming
<1>12. PromptFits'
  <2>1. CASE PromptSize(all) > MaxTokens
    <3>1. kept' = [extras |-> FALSE, schema |-> FALSE]
      BY <1>1, <2>1 DEF none
    <3> QED  BY <3>1 DEF PromptFits
  <2>2. CASE ~ (PromptSize(all) > MaxTokens)
    <3>1. kept' = all /\ PromptSize(all) <= MaxTokens
      BY <1>1, <1>10, <2>2
    <3>2. PromptSize(kept)' = PromptSize(kept')
      BY <1>1 DEF PromptSize, inputs
    <3> QED  BY <3>1, <3>2 DEF PromptFits
  <2> QED  BY <2>1, <2>2
<1>13. Closing'
  BY <1>1 DEF Closing, SelectionIsClosed
<1> QED  BY <1>7, <1>11, <1>12, <1>13 DEF PromptInv

LEMMA StutteringKeeps ==
  ASSUME PromptInv, UNCHANGED vars
  PROVE  PromptInv'
<1>1. UNCHANGED inputs /\ UNCHANGED <<pc, picked, names, width, cursor, text, kept>>
  BY DEF vars, inputs
<1>2. PromptTyped'
  <2>1. PromptTyped /\ pc \in {"pick", "close", "render", "columns", "tables", "assemble", "done"}
    BY DEF PromptInv, PromptTyped, PromptTypeOK
  <2> QED  BY <1>1, <2>1, TypesBefore, TypesAfter
<1>3. /\ Room' = Room
      /\ Seeds' = Seeds
      /\ Tables' = Tables
      /\ Len(catalogue)' = Len(catalogue)
      /\ ToSet(picked)' = ToSet(picked)
      /\ Columns' = Columns
      /\ catalogue' = catalogue
      /\ \A S : Closed(S)' <=> Closed(S)
  BY <1>1, InputsStay, SeedsStay DEF ToSet, inputs
<1>4. LedFromSeeds' <=> LedFromSeeds
  BY <1>3 DEF LedFromSeeds
<1>5. SelectionIsClosed' <=> SelectionIsClosed
  BY <1>1, <1>3 DEF SelectionIsClosed, Closed, References
<1>6. Closing'
  BY <1>1, <1>3, <1>4, <1>5 DEF Closing, PromptInv
<1>7. FirstColumn' = FirstColumn /\ (SomethingToTrim(width)' <=> SomethingToTrim(width))
  BY <1>1, <1>3 DEF FirstColumn, TableSize, SomethingToTrim
<1>8. Trimming'
  BY <1>1, <1>3, <1>7 DEF Trimming, PromptInv
<1>9. PromptFits'
  BY <1>1 DEF PromptFits, PromptSize, PromptInv, inputs
<1> QED  BY <1>2, <1>6, <1>8, <1>9 DEF PromptInv

----------------------------------------------------------------------------
(* The theorems *)

LEMMA PromptStep ==
  ASSUME PromptInv, [PromptNext]_vars
  PROVE  PromptInv'
<1>1. CASE PassThrough
  BY <1>1, PassThroughKeeps
<1>2. CASE Pick
  BY <1>2, PickKeeps
<1>3. CASE Sweep
  BY <1>3, SweepKeeps
<1>4. CASE Render
  BY <1>4, RenderKeeps
<1>5. CASE PopColumn
  BY <1>5, PopColumnKeeps
<1>6. CASE NextTable
  BY <1>6, NextTableKeeps
<1>7. CASE SweepEnds
  BY <1>7, SweepEndsKeeps
<1>8. CASE PopTable
  BY <1>8, PopTableKeeps
<1>9. CASE Trimmed
  BY <1>9, TrimmedKeeps
<1>10. CASE Assemble
  BY <1>10, AssembleKeeps
<1>11. CASE UNCHANGED vars
  BY <1>11, StutteringKeeps
<1> QED
  BY <1>1, <1>2, <1>3, <1>4, <1>5, <1>6, <1>7, <1>8, <1>9, <1>10, <1>11 DEF PromptNext

LEMMA PromptInvariance == PromptSpec => []PromptInv
<1>1. PromptInit => PromptInv
  BY SelectionInitially
<1>2. PromptInv /\ [PromptNext]_vars => PromptInv'
  BY PromptStep
<1> QED  BY <1>1, <1>2, PTL DEF PromptSpec

\* The state keeps its types: no table loses its last column, and only tables of the
\* catalogue are picked (relevant_tables, _trim_schema).
THEOREM PromptTypeCorrect == PromptSpec => []PromptTypeOK
<1>1. PromptInv => PromptTypeOK
  BY DEF PromptInv, PromptTyped
<1> QED  BY <1>1, PromptInvariance, PTL

\* However deep, wide or cyclic the foreign keys are, and however they spell the tables,
\* relevant_tables returns tables that are closed under them.
THEOREM SelectionCloses == PromptSpec => []SelectionIsClosed
<1>1. PromptInv => SelectionIsClosed
  BY DEF PromptInv, Closing
<1> QED  BY <1>1, PromptInvariance, PTL

\* relevant_tables returns the best max_tables tables for the question, with what their
\* foreign keys lead to, and nothing else.
THEOREM SelectionIsRelevant == PromptSpec => []OnlyRelevantTables
<1>1. PromptInv => OnlyRelevantTables
  BY DEF PromptInv, Closing, LedFromSeeds, OnlyRelevantTables
<1> QED  BY <1>1, PromptInvariance, PTL

\* Whatever the schema, the examples and the question take, build_prompt returns a prompt
\* within max_tokens or one that has nothing left to drop.
THEOREM PromptStaysInBudget == PromptSpec => []PromptFits
<1>1. PromptInv => PromptFits
  BY DEF PromptInv
<1> QED  BY <1>1, PromptInvariance, PTL

\* build_prompt leaves the schema out only if not even one column of its first table
\* fits: _trim_schema stops no earlier, and the last check discards no schema that fits.
THEOREM SchemaIsNotWasted == PromptSpec => []DroppedOnlyWhenNothingFits
<1>1. PromptInv => DroppedOnlyWhenNothingFits
  BY DEF PromptInv, Trimming, FirstColumn, DroppedOnlyWhenNothingFits
<1> QED  BY <1>1, PromptInvariance, PTL
=============================================================================

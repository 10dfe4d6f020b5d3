---------------------------- MODULE ListsProofs ---------------------------
(***************************************************************************)
(* What the operators of Lists return, for lists of any length: induction  *)
(* on numbers, with sets instead of predicates, and the existence of what  *)
(* a recursive function on a prefix of the numbers defines.                *)
(***************************************************************************)
EXTENDS Lists, WellFoundedInduction, FiniteSetTheorems, TLAPS

\* A set of numbers has a least one.
LEMMA Least ==
  ASSUME NEW T, T \subseteq Nat, T # {}
  PROVE  \E n \in T : \A m \in T : n <= m
<1> DEFINE R == OpToRel(<, Nat)
<1>1. IsWellFoundedOn(R, Nat)
  BY NatLessThanWellFounded
<1>2. PICK n \in T : \A m \in T : ~ (<<m, n>> \in R)
  <2> HIDE DEF R
  <2> QED  BY <1>1, WFMin
<1>3. ASSUME NEW m \in T, m < n PROVE FALSE
  <2>1. m \in Nat /\ n \in Nat /\ <<m, n>> \in Nat \X Nat
    OBVIOUS
  <2>2. <<m, n>> \in R
    BY <1>3, <2>1 DEF OpToRel
  <2> QED  BY <1>2, <2>2
<1> QED  BY <1>3

\* A set with 0 that has n + 1 if it has n has every number.
LEMMA Induction ==
  ASSUME NEW T, 0 \in T, \A n \in Nat : n \in T => n + 1 \in T
  PROVE  Nat \subseteq T
<1> SUFFICES ASSUME Nat \ T # {} PROVE FALSE
  OBVIOUS
<1>1. PICK n \in Nat \ T : \A m \in Nat \ T : n <= m
  BY Least
<1>2. n # 0 /\ n - 1 \in Nat /\ n - 1 \in T
  BY <1>1
<1> QED  BY <1>1, <1>2

\* f[0] is a, and f[i] what step makes of f[i - 1].
Follows(f, n, a, step) ==
    f = [i \in 0..n |-> IF i = 0 THEN a ELSE step[<<i, f[i - 1]>>]]

\* Such an f exists and has its values where step has them.
LEMMA RecursionExists ==
  ASSUME NEW S, NEW a \in S, NEW n \in Nat, NEW step \in [(1..n) \X S -> S]
  PROVE  \E f \in [0..n -> S] : Follows(f, n, a, step)
<1> DEFINE T == {k \in Nat : k <= n => \E f \in [0..k -> S] : Follows(f, k, a, step)}
<1>1. 0 \in T
  <2> DEFINE g == [i \in 0..0 |-> a]
  <2>1. g \in [0..0 -> S] /\ Follows(g, 0, a, step)
    BY DEF Follows
  <2> QED  BY <2>1
<1>2. ASSUME NEW k \in Nat, k \in T PROVE k + 1 \in T
  <2> SUFFICES ASSUME k + 1 <= n PROVE \E f \in [0..(k + 1) -> S] : Follows(f, k + 1, a, step)
    OBVIOUS
  <2>1. PICK g \in [0..k -> S] : Follows(g, k, a, step)
    BY <1>2
  <2> DEFINE h == [i \in 0..(k + 1) |-> IF i = k + 1 THEN step[<<k + 1, g[k]>>] ELSE g[i]]
  <2>2. step[<<k + 1, g[k]>>] \in S
    OBVIOUS
  <2>3. h \in [0..(k + 1) -> S]
    BY <2>2
  <2>4. ASSUME NEW i \in 0..(k + 1) PROVE h[i] = IF i = 0 THEN a ELSE step[<<i, h[i - 1]>>]
    <3>1. CASE i = k + 1
      <4>1. h[i] = step[<<i, g[k]>>] /\ i # 0 /\ i - 1 = k /\ k # k + 1 /\ k \in 0..(k + 1)
        BY <3>1
      <4>2. h[i - 1] = g[k]
        BY <4>1
      <4> HIDE DEF h
      <4> QED  BY <4>1, <4>2
    <3>2. CASE i \in 0..k
      <4>1. h[i] = g[i] /\ (i # 0 => h[i - 1] = g[i - 1])
        BY <3>2
      <4>2. g[i] = IF i = 0 THEN a ELSE step[<<i, g[i - 1]>>]
        BY <2>1, <3>2 DEF Follows
      <4> QED  BY <4>1, <4>2
    <3> QED  BY <3>1, <3>2
  <2> HIDE DEF h
  <2>5. Follows(h, k + 1, a, step)
    BY <2>3, <2>4 DEF Follows
  <2> QED  BY <2>3, <2>5
<1> HIDE DEF T
<1>3. n \in T
  BY <1>1, <1>2, Induction
<1> QED  BY <1>3 DEF T

\* What Kept is after i elements.
LEMMA KeptIs ==
  ASSUME NEW S, NEW s \in Seq(S), NEW T
  PROVE  \E f :
            /\ Kept(s, T) = f[Len(s)]
            /\ f[0] = <<>>
            /\ \A i \in Nat : i < Len(s) =>
                  f[i + 1] = IF s[i + 1] \in T THEN Append(f[i], s[i + 1]) ELSE f[i]
<1> DEFINE n == Len(s)
           step == [x \in (1..n) \X Seq(S) |-> IF s[x[1]] \in T THEN Append(x[2], s[x[1]]) ELSE x[2]]
           Is(f) == f = [i \in 0..n |->
                         IF i = 0 THEN <<>> ELSE IF s[i] \in T THEN Append(f[i - 1], s[i]) ELSE f[i - 1]]
           kept == CHOOSE f : Is(f)
<1>1. n \in Nat /\ <<>> \in Seq(S) /\ \A i \in 1..n : s[i] \in S
  OBVIOUS
<1>2. step \in [(1..n) \X Seq(S) -> Seq(S)]
  BY <1>1
<1>3. PICK f \in [0..n -> Seq(S)] : Follows(f, n, <<>>, step)
  <2> HIDE DEF step, n
  <2> QED  BY <1>1, <1>2, RecursionExists
<1>4. \A i \in 1..n : step[<<i, f[i - 1]>>] = IF s[i] \in T THEN Append(f[i - 1], s[i]) ELSE f[i - 1]
  <2> HIDE DEF n
  <2> SUFFICES ASSUME NEW i \in 1..n
               PROVE  step[<<i, f[i - 1]>>] = IF s[i] \in T THEN Append(f[i - 1], s[i]) ELSE f[i - 1]
    OBVIOUS
  <2>1. f[i - 1] \in Seq(S)
    BY <1>1
  <2>2. <<i, f[i - 1]>> \in (1..n) \X Seq(S)
    BY <2>1
  <2> QED  BY <2>2
<1>5. \E f0 : Is(f0)
  <2> HIDE DEF step, n
  <2>1. \A i \in 0..n : f[i] = IF i = 0 THEN <<>>
                                ELSE IF s[i] \in T THEN Append(f[i - 1], s[i]) ELSE f[i - 1]
    <3>1. f = [i \in 0..n |-> IF i = 0 THEN <<>> ELSE step[<<i, f[i - 1]>>]]
      BY <1>3 DEF Follows
    <3>2. f[0] = <<>>
      BY <1>1, <3>1
    <3>3. \A i \in 1..n : i \in 0..n /\ i # 0 /\ f[i] = step[<<i, f[i - 1]>>]
      BY <1>1, <3>1
    <3>4. \A i \in 0..n : i = 0 \/ i \in 1..n
      BY <1>1
    <3> QED  BY <3>2, <3>3, <3>4, <1>4
  <2>2. Is(f)
    BY <2>1
  <2> QED  BY <2>2
<1>6. Is(kept)
  <2> HIDE DEF Is
  <2> QED  BY <1>5
<1>7. Kept(s, T) = kept[n]
  BY DEF Kept
<1>8. /\ kept[0] = <<>>
      /\ \A i \in 1..n : kept[i] = IF s[i] \in T THEN Append(kept[i - 1], s[i]) ELSE kept[i - 1]
  <2> HIDE DEF kept, n
  <2>1. kept = [i \in 0..n |->
                   IF i = 0 THEN <<>> ELSE IF s[i] \in T THEN Append(kept[i - 1], s[i]) ELSE kept[i - 1]]
    BY <1>6
  <2> HIDE DEF Is
  <2>2. kept[0] = <<>>
    BY <2>1, <1>1
  <2>3. ASSUME NEW i \in 1..n
        PROVE  kept[i] = IF s[i] \in T THEN Append(kept[i - 1], s[i]) ELSE kept[i - 1]
    <3>1. i \in 0..n /\ i # 0
      BY <1>1
    <3> QED  BY <2>1, <3>1
  <2> QED  BY <2>2, <2>3
<1>9. ASSUME NEW i \in Nat, i < n
      PROVE  kept[i + 1] = IF s[i + 1] \in T THEN Append(kept[i], s[i + 1]) ELSE kept[i]
  <2> HIDE DEF kept, n
  <2>1. i + 1 \in 1..n /\ i + 1 - 1 = i
    BY <1>1, <1>9
  <2> QED  BY <1>8, <2>1
<1> QED  BY <1>7, <1>8, <1>9
\* Where the elements to keep follow the others, they are the end of the list.
LEMMA KeptIsSuffix ==
  ASSUME NEW S, NEW s \in Seq(S), NEW T, NEW k \in 0..Len(s),
         \A i \in 1..Len(s) : s[i] \in T <=> i > k
  PROVE  /\ Kept(s, T) \in Seq(S)
         /\ Len(Kept(s, T)) = Len(s) - k
         /\ \A j \in 1..(Len(s) - k) : Kept(s, T)[j] = s[k + j]
<1> DEFINE n == Len(s)
           Longer(i) == IF i > k THEN i - k ELSE 0
<1>1. n \in Nat /\ k \in Nat /\ k <= n
  OBVIOUS
<1>2. PICK f : /\ Kept(s, T) = f[n]
               /\ f[0] = <<>>
               /\ \A i \in Nat : i < n =>
                     f[i + 1] = IF s[i + 1] \in T THEN Append(f[i], s[i + 1]) ELSE f[i]
  BY KeptIs
<1> DEFINE Ends(i) == /\ f[i] \in Seq(S)
                      /\ Len(f[i]) = Longer(i)
                      /\ \A j \in 1..Longer(i) : f[i][j] = s[k + j]
           I == {i \in Nat : i <= n => Ends(i)}
<1>3. 0 \in I
  <2>1. Longer(0) = 0 /\ f[0] = <<>>
    BY <1>1, <1>2
  <2>2. Ends(0)
    BY <2>1
  <2> QED  BY <2>2
<1>4. ASSUME NEW i \in Nat, i \in I PROVE i + 1 \in I
  <2> SUFFICES ASSUME i + 1 <= n PROVE Ends(i + 1)
    OBVIOUS
  <2>1. Ends(i) /\ i + 1 \in 1..n /\ i < n
    BY <1>1, <1>4
  <2>2. s[i + 1] \in S
    BY <2>1
  <2>3. CASE i + 1 > k
    <3>1. s[i + 1] \in T
      BY <2>1, <2>3
    <3>2. f[i + 1] = Append(f[i], s[i + 1])
      BY <1>2, <2>1, <3>1
    <3>3. Longer(i) \in Nat /\ Longer(i + 1) = Longer(i) + 1 /\ k + Longer(i + 1) = i + 1
      BY <1>1, <2>3
    <3> HIDE DEF Longer
    <3>4. f[i + 1] \in Seq(S) /\ Len(f[i + 1]) = Longer(i + 1)
      BY <2>1, <2>2, <3>2, <3>3
    <3>5. ASSUME NEW j \in 1..Longer(i + 1) PROVE f[i + 1][j] = s[k + j]
      BY <1>1, <2>1, <2>2, <3>2, <3>3
    <3> QED  BY <3>4, <3>5
  <2>4. CASE ~(i + 1 > k)
    <3>1. f[i + 1] = f[i] /\ Longer(i + 1) = Longer(i)
      BY <1>1, <1>2, <2>1, <2>4
    <3> QED  BY <2>1, <3>1
  <2> QED  BY <2>3, <2>4
<1> HIDE DEF I
<1>5. Nat \subseteq I
  BY <1>3, <1>4, Induction
<1>6. Ends(n)
  BY <1>1, <1>5 DEF I
<1>7. Longer(n) = n - k
  BY <1>1
<1> QED  BY <1>2, <1>6, <1>7

\* Where the elements to keep come before the others, they are the start of the list.
LEMMA KeptIsPrefix ==
  ASSUME NEW S, NEW s \in Seq(S), NEW T, NEW k \in 0..Len(s),
         \A i \in 1..Len(s) : s[i] \in T <=> i <= k
  PROVE  /\ Kept(s, T) \in Seq(S)
         /\ Len(Kept(s, T)) = k
         /\ \A j \in 1..k : Kept(s, T)[j] = s[j]
<1> DEFINE n == Len(s)
           Shorter(i) == IF i > k THEN k ELSE i
<1>1. n \in Nat /\ k \in Nat /\ k <= n
  OBVIOUS
<1>2. PICK f : /\ Kept(s, T) = f[n]
               /\ f[0] = <<>>
               /\ \A i \in Nat : i < n =>
                     f[i + 1] = IF s[i + 1] \in T THEN Append(f[i], s[i + 1]) ELSE f[i]
  BY KeptIs
<1> DEFINE Starts(i) == /\ f[i] \in Seq(S)
                        /\ Len(f[i]) = Shorter(i)
                        /\ \A j \in 1..Shorter(i) : f[i][j] = s[j]
           I == {i \in Nat : i <= n => Starts(i)}
<1>3. 0 \in I
  <2>1. Shorter(0) = 0 /\ f[0] = <<>>
    BY <1>1, <1>2
  <2>2. Starts(0)
    BY <2>1
  <2> QED  BY <2>2
<1>4. ASSUME NEW i \in Nat, i \in I PROVE i + 1 \in I
  <2> SUFFICES ASSUME i + 1 <= n PROVE Starts(i + 1)
    OBVIOUS
  <2>1. Starts(i) /\ i + 1 \in 1..n /\ i < n
    BY <1>1, <1>4
  <2>2. s[i + 1] \in S
    BY <2>1
  <2>3. CASE i + 1 <= k
    <3>1. s[i + 1] \in T
      BY <2>1, <2>3
    <3>2. f[i + 1] = Append(f[i], s[i + 1])
      BY <1>2, <2>1, <3>1
    <3>3. Shorter(i) = i /\ Shorter(i + 1) = i + 1
      BY <1>1, <2>3
    <3> HIDE DEF Shorter
    <3>4. f[i + 1] \in Seq(S) /\ Len(f[i + 1]) = Shorter(i + 1)
      BY <2>1, <2>2, <3>2, <3>3
    <3>5. ASSUME NEW j \in 1..Shorter(i + 1) PROVE f[i + 1][j] = s[j]
      BY <1>1, <2>1, <2>2, <3>2, <3>3
    <3> QED  BY <3>4, <3>5
  <2>4. CASE ~ (i + 1 <= k)
    <3>1. s[i + 1] \notin T
      BY <2>1, <2>4
    <3>2. f[i + 1] = f[i]
      BY <1>2, <2>1, <3>1
    <3>3. Shorter(i + 1) = Shorter(i)
      BY <1>1, <2>4
    <3> QED  BY <2>1, <3>2, <3>3
  <2> QED  BY <2>3, <2>4
<1> HIDE DEF I
<1>5. Nat \subseteq I
  BY <1>3, <1>4, Induction
<1>6. Starts(n)
  BY <1>1, <1>5 DEF I
<1>7. Shorter(n) = k
  BY <1>1
<1> QED  BY <1>2, <1>6, <1>7

\* What Total is after i elements.
LEMMA TotalIs ==
  ASSUME NEW s \in Seq(Nat)
  PROVE  \E f :
            /\ Total(s) = f[Len(s)]
            /\ f[0] = 0
            /\ \A i \in Nat : i < Len(s) => f[i + 1] = f[i] + s[i + 1]
<1> DEFINE n == Len(s)
           step == [x \in (1..n) \X Nat |-> x[2] + s[x[1]]]
           Is(f) == f = [i \in 0..n |-> IF i = 0 THEN 0 ELSE f[i - 1] + s[i]]
           total == CHOOSE f : Is(f)
<1>1. n \in Nat /\ \A i \in 1..n : s[i] \in Nat
  OBVIOUS
<1>2. Total(s) = total[n]
  BY DEF Total
<1> HIDE DEF n
<1>3. step \in [(1..n) \X Nat -> Nat]
  BY <1>1
<1>4. \A i \in 1..n, m \in Nat : step[<<i, m>>] = m + s[i]
  BY <1>1
<1> HIDE DEF step
<1>5. PICK f \in [0..n -> Nat] : Follows(f, n, 0, step)
  BY <1>1, <1>3, RecursionExists
<1>6. f[0] = 0 /\ \A i \in 1..n : f[i] = f[i - 1] + s[i]
  <2>1. \A i \in 0..n : f[i] = IF i = 0 THEN 0 ELSE step[<<i, f[i - 1]>>]
    BY <1>5 DEF Follows
  <2>2. ASSUME NEW i \in 1..n PROVE f[i] = f[i - 1] + s[i]
    <3>1. i \in 0..n /\ i # 0 /\ i - 1 \in 0..n
      BY <1>1
    <3>2. f[i] = step[<<i, f[i - 1]>>] /\ f[i - 1] \in Nat
      BY <2>1, <3>1
    <3> QED  BY <1>4, <3>2
  <2>3. 0 \in 0..n
    BY <1>1
  <2> QED  BY <2>1, <2>2, <2>3
<1>7. Is(f)
  <2>1. \A i \in 0..n : i = 0 \/ i \in 1..n
    BY <1>1
  <2>2. \A i \in 0..n : f[i] = IF i = 0 THEN 0 ELSE f[i - 1] + s[i]
    BY <1>6, <2>1
  <2> QED  BY <2>2
<1>8. total = [i \in 0..n |-> IF i = 0 THEN 0 ELSE total[i - 1] + s[i]]
  <2>1. Is(total)
    <3> HIDE DEF Is
    <3> QED  BY <1>7
  <2> HIDE DEF total
  <2> QED  BY <2>1
<1> HIDE DEF total, Is
<1>9. total[0] = 0
  <2>1. 0 \in 0..n
    BY <1>1
  <2> QED  BY <1>8, <2>1
<1>10. ASSUME NEW i \in Nat, i < n PROVE total[i + 1] = total[i] + s[i + 1]
  <2>1. i + 1 \in 0..n /\ i + 1 # 0 /\ (i + 1) - 1 = i
    BY <1>1, <1>10
  <2> QED  BY <1>8, <2>1
<1> QED  BY <1>2, <1>9, <1>10 DEF n

\* A sum of numbers is a number, no less than the first of them.
LEMMA TotalIsNat ==
  ASSUME NEW s \in Seq(Nat)
  PROVE  /\ Total(s) \in Nat
         /\ Len(s) >= 1 => Total(s) >= s[1]
         /\ Len(s) = 1 => Total(s) = s[1]
<1> DEFINE n == Len(s)
<1>1. n \in Nat /\ \A i \in 1..n : s[i] \in Nat
  OBVIOUS
<1>2. PICK f : /\ Total(s) = f[n]
               /\ f[0] = 0
               /\ \A i \in Nat : i < n => f[i + 1] = f[i] + s[i + 1]
  BY TotalIs
<1> HIDE DEF n
<1>3. n >= 1 => s[1] \in Nat /\ f[1] = s[1]
  <2> SUFFICES ASSUME n >= 1 PROVE s[1] \in Nat /\ f[1] = s[1]
    OBVIOUS
  <2>1. 1 \in 1..n /\ 0 < n
    BY <1>1
  <2>2. f[0 + 1] = f[0] + s[0 + 1]
    BY <1>2, <2>1
  <2> QED  BY <1>1, <1>2, <2>1, <2>2
<1> DEFINE I == {i \in Nat : i <= n => f[i] \in Nat /\ (i >= 1 => f[i] >= s[1])}
<1>4. 0 \in I
  BY <1>2
<1>5. ASSUME NEW i \in Nat, i \in I PROVE i + 1 \in I
  <2> SUFFICES ASSUME i + 1 <= n PROVE f[i + 1] \in Nat /\ f[i + 1] >= s[1]
    OBVIOUS
  <2>1. i < n /\ i + 1 \in 1..n /\ f[i] \in Nat /\ (i >= 1 => f[i] >= s[1]) /\ n >= 1
    BY <1>1, <1>5
  <2>2. f[i + 1] = f[i] + s[i + 1] /\ s[i + 1] \in Nat
    BY <1>1, <1>2, <2>1
  <2>3. CASE i = 0
    BY <1>3, <2>1, <2>3
  <2>4. CASE i # 0
    BY <1>3, <2>1, <2>2, <2>4
  <2> QED  BY <2>3, <2>4
<1> HIDE DEF I
<1>6. n \in I
  BY <1>1, <1>4, <1>5, Induction
<1>7. f[n] \in Nat /\ (n >= 1 => f[n] >= s[1])
  BY <1>1, <1>6 DEF I
<1> QED  BY <1>2, <1>3, <1>7 DEF n

----------------------------------------------------------------------------
(* Sorting *)

Preceding(keys, j) == {i \in DOMAIN keys : Precedes(keys, i, j)}

\* The keys no greater than v, and those no less.
AtMost(keys, v) == {i \in DOMAIN keys : keys[i] <= v}
AtLeast(keys, v) == {i \in DOMAIN keys : keys[i] >= v}

LEMMA PositionsAre ==
  ASSUME NEW keys \in Seq(Int)
  PROVE  /\ DOMAIN keys = 1..Len(keys)
         /\ Len(keys) \in Nat
         /\ IsFiniteSet(DOMAIN keys)
         /\ Cardinality(DOMAIN keys) = Len(keys)
<1> DEFINE n == Len(keys)
<1>1. n \in Nat /\ DOMAIN keys = 1..n
  OBVIOUS
<1> HIDE DEF n
<1>2. IsFiniteSet(1..n) /\ Cardinality(1..n) = IF 1 > n THEN 0 ELSE n - 1 + 1
  BY <1>1, FS_Interval
<1>3. Cardinality(1..n) = n
  BY <1>1, <1>2
<1> QED  BY <1>1, <1>2, <1>3 DEF n

\* Each position has a place of its own.
LEMMA PlaceIs ==
  ASSUME NEW keys \in Seq(Int)
  PROVE  /\ \A i \in DOMAIN keys : Place(keys, i) \in DOMAIN keys
         /\ \A i, j \in DOMAIN keys : Precedes(keys, i, j) => Place(keys, i) < Place(keys, j)
         /\ \A i, j \in DOMAIN keys : i # j => Precedes(keys, i, j) \/ Precedes(keys, j, i)
<1> DEFINE D == DOMAIN keys
<1>1. D = 1..Len(keys) /\ Len(keys) \in Nat /\ IsFiniteSet(D) /\ Cardinality(D) = Len(keys)
  BY PositionsAre
<1>2. \A i \in D : keys[i] \in Int /\ i \in Nat
  OBVIOUS
<1> HIDE DEF D
<1>3. /\ \A i \in D : ~ Precedes(keys, i, i)
      /\ \A i, j \in D : i # j => Precedes(keys, i, j) \/ Precedes(keys, j, i)
      /\ \A i, j, k \in D : Precedes(keys, i, j) /\ Precedes(keys, j, k) => Precedes(keys, i, k)
  BY <1>2 DEF Precedes
<1>4. \A j \in D : Place(keys, j) = Cardinality(Preceding(keys, j)) + 1
  BY DEF Place, Preceding
<1>5. \A j : Preceding(keys, j) \subseteq D
  BY DEF Preceding, D
<1>6. \A j \in D : IsFiniteSet(Preceding(keys, j)) /\ Cardinality(Preceding(keys, j)) \in Nat
  BY <1>1, <1>5, FS_Subset, FS_CardinalityType
<1>7. ASSUME NEW j \in D PROVE Place(keys, j) \in D
  <2>1. Preceding(keys, j) # D
    BY <1>3 DEF Preceding
  <2>2. Cardinality(Preceding(keys, j)) <= Len(keys) /\ Cardinality(Preceding(keys, j)) # Len(keys)
    BY <1>1, <1>5, <2>1, FS_Subset
  <2> QED  BY <1>1, <1>4, <1>6, <2>2
<1>8. ASSUME NEW i \in D, NEW j \in D, Precedes(keys, i, j) PROVE Place(keys, i) < Place(keys, j)
  <2>1. Preceding(keys, i) \subseteq Preceding(keys, j) /\ Preceding(keys, i) # Preceding(keys, j)
    BY <1>3, <1>8 DEF Preceding, D
  <2>2. /\ Cardinality(Preceding(keys, i)) <= Cardinality(Preceding(keys, j))
        /\ Cardinality(Preceding(keys, i)) # Cardinality(Preceding(keys, j))
    BY <1>6, <2>1, FS_Subset
  <2> QED  BY <1>4, <1>6, <2>2
<1> QED  BY <1>3, <1>7, <1>8 DEF D

\* Order and Place are inverses of each other.
LEMMA OrderIs ==
  ASSUME NEW keys \in Seq(Int)
  PROVE  /\ Order(keys) \in [DOMAIN keys -> DOMAIN keys]
         /\ \A p \in DOMAIN keys : Place(keys, Order(keys)[p]) = p
         /\ \A i \in DOMAIN keys : Order(keys)[Place(keys, i)] = i
<1> DEFINE D == DOMAIN keys
           place == [i \in D |-> Place(keys, i)]
<1>1. D \subseteq Nat /\ IsFiniteSet(D)
  BY PositionsAre
<1>2. /\ \A i \in D : Place(keys, i) \in D
      /\ \A i, j \in D : Precedes(keys, i, j) => Place(keys, i) < Place(keys, j)
      /\ \A i, j \in D : i # j => Precedes(keys, i, j) \/ Precedes(keys, j, i)
  BY PlaceIs
<1>3. Order(keys) = [p \in D |-> CHOOSE i \in D : Place(keys, i) = p]
  BY DEF Order
<1> HIDE DEF D
<1>4. place \in [D -> D]
  BY <1>2
<1>5. ASSUME NEW i \in D, NEW j \in D, Place(keys, i) = Place(keys, j) PROVE i = j
  <2> SUFFICES ASSUME i # j PROVE FALSE
    OBVIOUS
  <2>1. Place(keys, i) \in Nat /\ (Place(keys, i) < Place(keys, j) \/ Place(keys, j) < Place(keys, i))
    BY <1>1, <1>2
  <2> QED  BY <1>5, <2>1
<1>6. place \in Injection(D, D)
  BY <1>4, <1>5 DEF Injection, IsInjective
<1>7. place \in Surjection(D, D)
  <2> HIDE DEF place
  <2> QED  BY <1>1, <1>6, FS_Injection
<1>8. \A p \in D : \E i \in D : Place(keys, i) = p
  BY <1>7 DEF Surjection
<1>9. \A p \in D : Order(keys)[p] \in D /\ Place(keys, Order(keys)[p]) = p
  BY <1>3, <1>8
<1>10. \A i \in D : Order(keys)[Place(keys, i)] = i
  BY <1>2, <1>5, <1>9
<1>11. Order(keys) \in [D -> D]
  BY <1>3, <1>9
<1> QED  BY <1>9, <1>10, <1>11 DEF D

\* In that order the keys do not decrease.
LEMMA OrderAscends ==
  ASSUME NEW keys \in Seq(Int), NEW p \in DOMAIN keys, NEW q \in DOMAIN keys, p <= q
  PROVE  keys[Order(keys)[p]] <= keys[Order(keys)[q]]
<1> DEFINE i == Order(keys)[p]
           j == Order(keys)[q]
<1>1. i \in DOMAIN keys /\ j \in DOMAIN keys /\ Place(keys, i) = p /\ Place(keys, j) = q
  BY OrderIs
<1>2. keys[i] \in Int /\ keys[j] \in Int /\ p \in Nat /\ q \in Nat
  BY <1>1
<1> HIDE DEF i, j
<1>3. ~ Precedes(keys, j, i)
  BY <1>1, <1>2, PlaceIs
<1>4. i # j => Precedes(keys, i, j)
  BY <1>1, <1>3, PlaceIs
<1> QED  BY <1>2, <1>4 DEF Precedes, i, j

\* A set of positions with every one before any it has is as long as it is large.
LEMMA InitialPart ==
  ASSUME NEW n \in Nat, NEW P, P \subseteq 1..n, \A p \in P : \A q \in 1..n : q <= p => q \in P
  PROVE  /\ IsFiniteSet(P)
         /\ Cardinality(P) \in 0..n
         /\ P = 1..Cardinality(P)
<1> DEFINE Out == {p \in 1..(n + 1) : p \notin P}
<1>1. n + 1 \in Out /\ Out \subseteq Nat
  OBVIOUS
<1>2. PICK m \in Out : \A p \in Out : m <= p
  BY <1>1, Least
<1>3. P = 1..(m - 1)
  <2>1. ASSUME NEW p \in P PROVE p \in 1..(m - 1)
    <3>1. p \in 1..n /\ m \in 1..(n + 1)
      OBVIOUS
    <3>2. ~ (m <= p)
      BY <3>1, <1>2, <2>1
    <3> QED  BY <3>1, <3>2
  <2>2. ASSUME NEW p \in 1..(m - 1) PROVE p \in P
    <3>1. p \in 1..(n + 1) /\ p < m
      BY <2>2
    <3> QED  BY <1>2, <3>1
  <2> QED  BY <2>1, <2>2
<1>4. m - 1 \in 0..n
  OBVIOUS
<1> DEFINE k == m - 1
<1>5. k \in 0..n /\ P = 1..k
  BY <1>3, <1>4
<1> HIDE DEF k, Out
<1>6. IsFiniteSet(1..k) /\ Cardinality(1..k) = IF 1 > k THEN 0 ELSE k - 1 + 1
  BY <1>5, FS_Interval
<1>7. Cardinality(1..k) = k
  BY <1>5, <1>6
<1> QED  BY <1>5, <1>6, <1>7

\* As many keys come first as there are keys no greater than v.
LEMMA OrderCounts ==
  ASSUME NEW keys \in Seq(Int), NEW v \in Int
  PROVE  /\ IsFiniteSet(AtMost(keys, v))
         /\ Cardinality(AtMost(keys, v)) \in 0..Len(keys)
         /\ \A p \in DOMAIN keys : keys[Order(keys)[p]] <= v <=> p <= Cardinality(AtMost(keys, v))
<1> DEFINE D == DOMAIN keys
           order == Order(keys)
           P == {p \in D : keys[order[p]] <= v}
           A == AtMost(keys, v)
           c == Cardinality(P)
<1>1. /\ order \in [D -> D]
      /\ \A p \in D : Place(keys, order[p]) = p
      /\ \A i \in D : Place(keys, i) \in D /\ order[Place(keys, i)] = i
  BY OrderIs, PlaceIs
<1>2. \A i \in D : keys[i] \in Int
  OBVIOUS
<1>3. D = 1..Len(keys) /\ Len(keys) \in Nat
  BY PositionsAre
<1>4. \A p, q \in D : p <= q => keys[order[p]] <= keys[order[q]]
  BY OrderAscends
<1>5. A = {i \in D : keys[i] <= v}
  BY DEF AtMost
<1> HIDE DEF D, order, A
<1>6. \A p \in P : \A q \in D : q <= p => q \in P
  BY <1>1, <1>2, <1>4
<1>7. /\ IsFiniteSet(P)
      /\ c \in 0..Len(keys)
      /\ P = 1..c
  BY <1>3, <1>6, InitialPart
<1> DEFINE f == [p \in P |-> order[p]]
<1>8. f \in Bijection(P, A)
  <2>1. f \in [P -> A]
    BY <1>1, <1>5
  <2>2. \A p, q \in P : f[p] = f[q] => p = q
    BY <1>1
  <2>3. \A i \in A : \E p \in P : f[p] = i
    BY <1>1, <1>5
  <2> HIDE DEF f, P
  <2> QED  BY <2>1, <2>2, <2>3 DEF Bijection, Injection, Surjection, IsInjective
<1>9. IsFiniteSet(A) /\ Cardinality(A) = c
  <2> HIDE DEF f, P, c
  <2>1. ExistsBijection(P, A)
    BY <1>8 DEF ExistsBijection
  <2> QED  BY <1>7, <2>1, FS_Bijection DEF c
<1>10. \A p \in D : keys[order[p]] <= v <=> p <= c
  <2>1. \A p \in D : p \in P <=> p <= c
    <3> HIDE DEF P, c
    <3> QED  BY <1>3, <1>7
  <2> QED  BY <2>1
<1> HIDE DEF c
<1> QED  BY <1>7, <1>9, <1>10 DEF D, order, A
=============================================================================

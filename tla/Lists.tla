------------------------------- MODULE Lists -------------------------------
(* What the list comprehensions, sums and sorts of the code compute. *)
EXTENDS Integers, Sequences, FiniteSets

\* [x for x in s if x in T]
Kept(s, T) ==
    LET kept[i \in 0..Len(s)] ==
            IF i = 0 THEN <<>> ELSE IF s[i] \in T THEN Append(kept[i - 1], s[i]) ELSE kept[i - 1]
    IN  kept[Len(s)]

\* sum(s)
Total(s) ==
    LET total[i \in 0..Len(s)] == IF i = 0 THEN 0 ELSE total[i - 1] + s[i]
    IN  total[Len(s)]

\* sorted() is stable: of equal keys the first one stays first
Precedes(keys, i, j) == keys[i] < keys[j] \/ (keys[i] = keys[j] /\ i < j)

Place(keys, j) == Cardinality({i \in DOMAIN keys : Precedes(keys, i, j)}) + 1

\* the positions of the keys, in the order sorted() puts them in
Order(keys) == [p \in DOMAIN keys |-> CHOOSE i \in DOMAIN keys : Place(keys, i) = p]

\* sorted(s, key = ...)
Sorted(s, keys) ==
    LET order == Order(keys)
    IN  [p \in DOMAIN s |-> s[order[p]]]
=============================================================================

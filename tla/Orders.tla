------------------------------- MODULE Orders -------------------------------
(***************************************************************************)
(* sorted() of Python, and the order in which a loop meets places.         *)
(***************************************************************************)
EXTENDS Integers, FiniteSets

\* For elements with different keys: an element is as far back as there are keys up
\* to its own.
by_key(S, key) ==
    [i \in 1..Cardinality(S) |->
        CHOOSE x \in S : Cardinality({y \in S : key[y] <= key[x]}) = i]

in_order(S) == by_key(S, [x \in S |-> x])
=============================================================================

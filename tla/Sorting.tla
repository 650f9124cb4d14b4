------------------------------- MODULE Sorting -------------------------------
(***************************************************************************)
(* The sorts and the cuts that the advisory endpoints make of a list.      *)
(***************************************************************************)
EXTENDS Integers, Sequences, FiniteSets, FiniteSetsExt

\* The order of Python's tuples of numbers.
LexLess(a, b) ==
    \E i \in DOMAIN a : /\ a[i] < b[i]
                        /\ \A j \in 1..(i - 1) : a[j] = b[j]

\* list.sort(key=...), for a key that tells all members apart: a member's place
\* is the number of members with a smaller key.
Sorted(key) ==
    [i \in 1..Cardinality(DOMAIN key) |->
        CHOOSE s \in DOMAIN key :
            Cardinality({t \in DOMAIN key : LexLess(key[t], key[s])}) = i - 1]

\* seq[:n]
FirstN(seq, n) == SubSeq(seq, 1, Min({n, Len(seq)}))
=============================================================================

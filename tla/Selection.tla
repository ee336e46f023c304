------------------------------ MODULE Selection ------------------------------
(***************************************************************************)
(* Part of a sequence, in its order: the loops of this program that drop   *)
(* elements of a slice.                                                    *)
(***************************************************************************)
EXTENDS Naturals, Sequences, FiniteSets

\* The j-th smallest of the positions K.
Position(K, j) == CHOOSE k \in K : Cardinality({i \in K : i <= k}) = j

\* The elements of s at the positions K, in the order of s.  This is SelectSeq, by
\* rank instead of by recursion.
Filter(s, K) == [j \in 1..Cardinality(K) |-> s[Position(K, j)]]
=============================================================================

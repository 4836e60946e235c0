----------------------------- MODULE Selection ------------------------------
(***************************************************************************)
(* The elements of a sequence at some of its positions, in their order:    *)
(* what a loop over a list that skips entries yields.  Unlike SelectSeq it *)
(* takes the positions themselves, a set, so that it can be reasoned about.*)
(***************************************************************************)
EXTENDS Integers, Sequences, FiniteSets

Increasing(s) == \A i, j \in DOMAIN s : i < j => s[i] < s[j]

(* The members of a finite set of integers, the smallest first.            *)
Enumeration(I) == CHOOSE p \in [1..Cardinality(I) -> I] : Increasing(p)

Select(s, I) == [k \in 1..Cardinality(I) |-> s[Enumeration(I)[k]]]
=============================================================================

------------------------------ MODULE Ordering ------------------------------
(***************************************************************************)
(* Sequences in order, without recursion: what list comprehensions and     *)
(* stable sorts of the code return.  SelectSeq and SortSeq compute the     *)
(* same, but nothing can be proved about their recursive definitions.      *)
(***************************************************************************)
EXTENDS Naturals, Sequences, FiniteSets

(* x comes before y in s.                                                  *)
Precedes(s, x, y) == \E i, j \in 1..Len(s) : i < j /\ s[i] = x /\ s[j] = y

(* The elements of S, in the strict total order R on them.                 *)
Arranged(S, R) ==
  [n \in 1..Cardinality(S) |->
     CHOOSE x \in S : Cardinality({y \in S : <<y, x>> \in R}) = n - 1]

(* What s holds at the positions K, in the order of s.                     *)
AtPositions(s, K) ==
  [n \in 1..Cardinality(K) |-> s[CHOOSE i \in K : Cardinality({j \in K : j < i}) = n - 1]]
=============================================================================

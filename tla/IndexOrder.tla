----------------------------- MODULE IndexOrder -----------------------------
(***************************************************************************)
(* The elements of a finite set of numbers in ascending order: how the     *)
(* code's comprehensions and filters list the commands of a theory.  It is *)
(* SetToSortSeq(S, <) of the community modules without the sorting, which  *)
(* the proof system cannot expand.                                         *)
(***************************************************************************)
EXTENDS Naturals, FiniteSets

\* The place of i in S.
Rank(S, i) == Cardinality({j \in S : j <= i})

Ascending(S) == [k \in 1 .. Cardinality(S) |-> CHOOSE i \in S : Rank(S, i) = k]
=============================================================================

----------------------------- MODULE Subsequence -----------------------------
(***************************************************************************)
(* Array.prototype.filter of JavaScript, as the code under src/ uses it:   *)
(* the elements that pass a test, in their order.  SelectSeq says the same *)
(* by recursion; here every element is named by its place, so that the     *)
(* provers can reason about what a filter keeps (Subsequence_proofs).      *)
(***************************************************************************)
EXTENDS Naturals, Sequences, FiniteSets

(* How many of the indices I are not after i. *)
RankIn(I, i) == Cardinality({j \in I : j <= i})

(* The elements of s at the indices I. *)
Subsequence(s, I) ==
    [n \in 1..Cardinality(I) |-> s[CHOOSE i \in I : RankIn(I, i) = n]]

(* s.filter(Test) *)
Select(s, Test(_)) == Subsequence(s, {i \in DOMAIN s : Test(s[i])})
=============================================================================

------------------------------ MODULE MCStores ------------------------------
(***************************************************************************)
(* Three sessions meet room for one banner entry and two ledgers, so that  *)
(* every Map overflows; a fourth request lets a session come back.         *)
(***************************************************************************)
EXTENDS Stores, TLC

MCSize == [v \in Values |-> IF v = CHOOSE x \in Values : TRUE THEN 1 ELSE 2]
MCSharing == {<<1, 1, 1, 1>>, <<1, 1, 1, 2>>, <<1, 1, 2, 2>>, <<1, 1, 2, 3>>}
MCSizes == 1..3

Symmetry == Permutations(Callers) \cup Permutations(Keys) \cup Permutations(Calls)
=============================================================================

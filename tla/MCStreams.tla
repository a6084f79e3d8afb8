----------------------------- MODULE MCStreams -----------------------------
(***************************************************************************)
(* Rounds of two managed calls and three timeline fragments, so that the   *)
(* block opens with a snapshot of held-back fragments and then grows; and  *)
(* two completions, calls, blocks and ids for the translators.             *)
(***************************************************************************)
EXTENDS Streams, TLC

(* A function call of two fragments, a fragment that is a whole call and a *)
(* custom call; the last one comes with text.                              *)
Fragment(type, named, args) ==
    [text |-> FALSE, piece |-> [call |-> 0, type |-> type, named |-> named, args |-> args]]

MCDeltas == {[text |-> FALSE, piece |-> [call |-> "none"]],
             Fragment("function", FALSE, "part"),
             Fragment("none", TRUE, "last"),
             [Fragment("custom", FALSE, "part") EXCEPT !.text = TRUE]}
=============================================================================

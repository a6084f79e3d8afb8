---------------------------- MODULE MCModelCall ----------------------------
(* A thought, a text, a blank text, and two calls of one tool with the same *)
(* input, one of which has no id.                                          *)
EXTENDS ModelCall
CONSTANTS t, a, c, i1

MCBlocks == {[kind |-> "thinking", val |-> t, id |-> NoId],
             [kind |-> "text", val |-> a, id |-> NoId],
             [kind |-> "tool", val |-> c, id |-> i1]}
=============================================================================

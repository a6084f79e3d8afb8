--------------------------- MODULE AnthropicStream ---------------------------
(***************************************************************************)
(* What a client of the Anthropic streaming protocol may be sent: one      *)
(* message, its content blocks numbered from 0 and never interleaved, and  *)
(* one end.  ClientStream is shown to implement it.                        *)
(***************************************************************************)
EXTENDS Naturals, Sequences, FiniteSets

VARIABLE wire   \* the events written to the response, pings left out

Kinds == {"message_start", "start", "delta", "stop", "message_delta",
          "message_stop", "usage", "error"}

(* i is the index of a block event; from..to the fragments of the progress *)
(* timeline that a delta of the progress block carries.                    *)
Event(k, i) == [k |-> k, i |-> i, from |-> 0, to |-> 0]

(* A "usage" is a message_delta without a stop_reason: it may come at any  *)
(* time before the message's own message_delta, also inside a block.       *)
Latest(w) ==
    w[CHOOSE j \in 1..Len(w) : w[j].k # "usage" /\ \A l \in j + 1..Len(w) : w[l].k = "usage"]
LastKind(w) == IF w = <<>> THEN "none" ELSE Latest(w).k
BlockOpen(w) == LastKind(w) \in {"start", "delta"}
Between(w) == LastKind(w) \in {"message_start", "stop"}
Started(w) == Cardinality({j \in 1..Len(w) : w[j].k = "start"})

(* The events that may follow w. *)
Legal(w, e) ==
    \/ e.k = "message_start" /\ w = <<>>
    \/ e.k = "start" /\ Between(w) /\ e.i = Started(w)
    \/ e.k \in {"delta", "stop"} /\ BlockOpen(w) /\ e.i = Latest(w).i
    \/ e.k = "usage" /\ (Between(w) \/ BlockOpen(w))
    \/ e.k = "message_delta" /\ Between(w)
    \/ e.k = "message_stop" /\ LastKind(w) = "message_delta"
    \/ e.k = "error" /\ (Between(w) \/ LastKind(w) = "message_delta" \/ w = <<>>)

Init == wire = <<>>

(* One more event, and a legal one. *)
Send ==
    /\ Len(wire') = Len(wire) + 1
    /\ LET e == wire'[Len(wire')] IN wire' = Append(wire, e) /\ Legal(wire, e)

Spec == Init /\ [][Send]_wire
=============================================================================

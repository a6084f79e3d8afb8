---------------------------- MODULE OpenAIClient ----------------------------
(***************************************************************************)
(* The answer of an Anthropic backend turned into a Chat Completions       *)
(* stream (fromAnthropicStream): text and reasoning are live, tool calls   *)
(* wait for message_stop.  The backend may send any event in any order:    *)
(* what the translator accepts is what this module is about.               *)
(***************************************************************************)
EXTENDS Naturals, Sequences, FiniteSets, Functions, Subsequence

CONSTANTS
    MaxIndex,    \* the blocks of a message have an index up to this
    MaxEvents    \* bound on the events of the backend

VARIABLES
    received,    \* the events of the backend, in order
    block,       \* index -> what is known of the block: none, or its record
    calls,       \* the tool calls that are whole, in the order they closed
    reason,      \* the stop_reason: none, stop or tool_calls
    out,         \* what was written to the client
    stream       \* open, done or failed

vars == <<received, block, calls, reason, out, stream>>

Indexes == 0..MaxIndex
Types == {"text", "thinking", "tool_use"}
Absent == [type |-> "none", json |-> "none", closed |-> TRUE]

(* An event: a tool block has an id, its deltas carry JSON that is a part  *)
(* or the last of it; a delta may be of the wrong kind.                    *)
Events ==
    [k : {"message_start", "message_stop"}]
    \cup [k : {"start"}, i : Indexes, type : Types, id : {"a", "b"}]
    \cup [k : {"delta"}, i : Indexes, type : Types, json : {"part", "last"}]
    \cup [k : {"stop"}, i : Indexes]
    \cup [k : {"message_delta"}, reason : {"none", "stop", "tool_calls"}]
Plain == {e \in Events : /\ e.k = "start" /\ e.type # "tool_use" => e.id = "a"
                         /\ e.k = "delta" /\ e.type # "tool_use" => e.json = "part"}

Started == \E j \in DOMAIN received : received[j].k = "message_start"
Opened == {i \in Indexes : block[i] # Absent}
AllClosed == \A i \in Opened : block[i].closed

TypeOK ==
    /\ Len(received) <= MaxEvents
    /\ DOMAIN block = Indexes
    /\ reason \in {"none", "stop", "tool_calls"}
    /\ stream \in {"open", "done", "failed"}

Init ==
    /\ received = <<>> /\ out = <<>> /\ calls = <<>>
    /\ block = [i \in Indexes |-> Absent]
    /\ reason = "none" /\ stream = "open"
-----------------------------------------------------------------------------
\* Mutant: a block may start while another is open.
AcceptableMutNested(e) ==
    CASE e.k = "message_start" -> ~Started
      [] e.k = "start" -> /\ Started /\ reason = "none" /\ block[e.i] = Absent
                          /\ e.type = "tool_use" => \A j \in DOMAIN calls : calls[j] # e.id
      [] e.k = "delta" -> reason = "none" /\ ~block[e.i].closed /\ block[e.i].type = e.type
      [] e.k = "stop" -> /\ reason = "none" /\ ~block[e.i].closed
                         /\ block[e.i].type = "tool_use" => block[e.i].json \in {"none", "whole"}
      [] e.k = "message_delta" -> Started /\ AllClosed
      [] OTHER -> /\ Started /\ reason # "none" /\ AllClosed
                  /\ (calls # <<>>) <=> (reason = "tool_calls")

(* What does not throw: one message_start; one block at a time, under a    *)
(* new index and, for a call, a new id; deltas of the kind of their block; *)
(* tool JSON that is whole when its block closes; calls exactly when the   *)
(* reason says so.                                                         *)
Acceptable(e) ==
    CASE e.k = "message_start" -> ~Started
      [] e.k = "start" -> /\ Started /\ reason = "none" /\ block[e.i] = Absent /\ AllClosed
                          /\ e.type = "tool_use" => \A j \in DOMAIN calls : calls[j] # e.id
      [] e.k = "delta" -> reason = "none" /\ ~block[e.i].closed /\ block[e.i].type = e.type
      [] e.k = "stop" -> /\ reason = "none" /\ ~block[e.i].closed
                         /\ block[e.i].type = "tool_use" => block[e.i].json \in {"none", "whole"}
      [] e.k = "message_delta" -> Started /\ AllClosed
      [] OTHER -> /\ Started /\ reason # "none" /\ AllClosed
                  /\ (calls # <<>>) <=> (reason = "tool_calls")

More(json, piece) ==
    IF json \in {"whole", "bad"} THEN "bad" ELSE IF piece = "last" THEN "whole" ELSE "part"

StartBlock(e) ==
    /\ block' = [block EXCEPT ![e.i] =
                   [type |-> e.type, json |-> "none", closed |-> FALSE, id |-> e.id]]
    /\ UNCHANGED <<calls, reason, out, stream>>

\* A fragment of a call is kept, any other is written.
Delta(e) ==
    /\ IF e.type = "tool_use"
         THEN block' = [block EXCEPT ![e.i].json = More(@, e.json)] /\ UNCHANGED out
         ELSE out' = Append(out, e.type) /\ UNCHANGED block
    /\ UNCHANGED <<calls, reason, stream>>

\* Mutant: a call is written when its block closes.
StopMutLive(e) ==
    /\ block' = [block EXCEPT ![e.i].closed = TRUE]
    /\ calls' = IF block[e.i].type = "tool_use" THEN Append(calls, block[e.i].id) ELSE calls
    /\ out' = IF block[e.i].type = "tool_use" THEN Append(out, "tool_use") ELSE out
    /\ UNCHANGED <<reason, stream>>

Stop(e) ==
    /\ block' = [block EXCEPT ![e.i].closed = TRUE]
    /\ calls' = IF block[e.i].type = "tool_use" THEN Append(calls, block[e.i].id) ELSE calls
    /\ UNCHANGED <<reason, out, stream>>

(* Usage comes without a reason; a second reason replaces the first. *)
MessageDelta(e) ==
    /\ reason' = IF e.reason = "none" THEN reason ELSE e.reason
    /\ UNCHANGED <<block, calls, out, stream>>

(* The calls, the finish_reason and [DONE], once everything is checked. *)
MessageStop ==
    /\ out' = out \o (IF calls = <<>> THEN <<>> ELSE <<"tool_use">>) \o <<"finish", "done">>
    /\ stream' = "done"
    /\ UNCHANGED <<block, calls, reason>>

(* An event that is not accepted throws: an error event and no [DONE]. *)
Reject ==
    /\ stream' = "failed"
    /\ out' \in {out, Append(out, "error")}
    /\ UNCHANGED <<block, calls, reason>>

Receive(e) ==
    /\ stream = "open" /\ Len(received) < MaxEvents
    /\ received' = Append(received, e)
    /\ IF ~Acceptable(e) THEN Reject
       ELSE CASE e.k = "message_start" ->
                   out' = Append(out, "role") /\ UNCHANGED <<block, calls, reason, stream>>
              [] e.k = "start" -> StartBlock(e)
              [] e.k = "delta" -> Delta(e)
              [] e.k = "stop" -> Stop(e)
              [] e.k = "message_delta" -> MessageDelta(e)
              [] OTHER -> MessageStop

(* An error event, broken framing, the end of the body, or a client that   *)
(* is gone.                                                                *)
Break ==
    /\ stream = "open" /\ Reject
    /\ UNCHANGED received

Next == (\E e \in Plain : Receive(e)) \/ Break

Spec == Init /\ [][Next]_vars
-----------------------------------------------------------------------------
(* The received events in the terms of AnthropicStream: blocks numbered in *)
(* the order they start, and the message_delta events before the last, of  *)
(* usage or of a reason that was replaced, left out.                       *)
Kept == Select([j \in 1..Len(received) |-> j],
               LAMBDA j : received[j].k = "message_delta" =>
                              ~\E m \in DOMAIN received : m > j /\ received[m].k = "message_delta")
Order(i) == Cardinality({j \in DOMAIN received : received[j].k = "start" /\
                           \E m \in DOMAIN received :
                               m > j /\ received[m].k = "start" /\ received[m].i = i})
Message == [j \in 1..Len(Kept) |->
              LET e == received[Kept[j]] IN
              [k |-> e.k, i |-> IF e.k \in {"start", "delta", "stop"} THEN Order(e.i) ELSE 0]]
AS == INSTANCE AnthropicStream WITH wire <- Message

(* What is answered with [DONE] was a whole message of the Anthropic       *)
(* protocol, and what is not is never finished (fromAnthropicStream).      *)
AcceptedIsLegal ==
    stream = "done" => /\ \A n \in 1..Len(Message) :
                             AS!Legal(SubSeq(Message, 1, n - 1), Message[n])
                       /\ Message[Len(Message)].k = "message_stop"

(* Tool calls are all written, at once, with distinct ids and right before *)
(* the finish, or none is: an aborted stream commits no call (tools stay   *)
(* transactional until message_stop).                                      *)
ToolsTransactional ==
    /\ \A j \in DOMAIN out : out[j] = "tool_use" =>
           stream = "done" /\ SubSeq(out, j, Len(out)) = <<"tool_use", "finish", "done">>
    /\ stream = "done" => /\ IsInjective(calls)
                          /\ Len(calls) = Cardinality({i \in Opened : block[i].type = "tool_use"})
=============================================================================

----------------------------- MODULE ChatRelay -----------------------------
(***************************************************************************)
(* A Chat Completions stream relayed to an OpenAI client as it arrives     *)
(* (relayOpenAIStream): text and tool fragments are live, the markers of   *)
(* completion are held back until the upstream has confirmed with [DONE].  *)
(* What is written is named after the frame it comes from.                 *)
(***************************************************************************)
EXTENDS Naturals, Sequences, Subsequence

CONSTANTS
    N,          \* the completions the request asks for
    Calls,      \* the indexes of the tool calls of a choice
    Deltas,     \* the deltas of the upstream, some of PossibleDeltas
    MaxFrames   \* bound on the frames of the upstream

VARIABLES
    sent,       \* the frames of the upstream, those it failed on included
    out,        \* what was written to the client
    finishes,   \* the choices that have a finish_reason
    tool,       \* "choice:index" -> what is known of that tool call
    deferred,   \* payloads that wait for [DONE]
    stream      \* open, done or failed

vars == <<sent, out, finishes, tool, deferred, stream>>

Indexes == 0..N-1
Types == {"none", "function", "custom"}
\* The arguments of a call: none yet, a part of a JSON object, a whole one, or
\* what is no JSON object any more.
Arguments == {"none", "part", "whole", "bad"}

(* A fragment of a tool call; a delta carries text, a fragment, both or    *)
(* nothing.  No call of the upstream has the index of NoPiece.             *)
Pieces == [call : Calls, type : Types, named : BOOLEAN, args : {"none", "part", "last"}]
NoPiece == [call |-> "none"]
PossibleDeltas == [text : BOOLEAN, piece : Pieces \cup {NoPiece}]

(* A data frame: one or more choices, each with its delta and perhaps its  *)
(* finish_reason.  A usage trailer has none.                               *)
Parts == [delta : Deltas, finish : BOOLEAN]
Chunks == UNION {[D -> Parts] : D \in SUBSET Indexes}
HasDelta(f) == \E c \in DOMAIN f : f[c].delta.text \/ f[c].delta.piece # NoPiece
Finished(f) == {c \in DOMAIN f : f[c].finish}
Piece(f, key) ==
    IF key[1] \in DOMAIN f /\ f[key[1]].delta.piece # NoPiece
       /\ f[key[1]].delta.piece.call = key[2]
      THEN f[key[1]].delta.piece ELSE NoPiece

NoTool == [type |-> "none", named |-> FALSE, args |-> "none", called |-> FALSE]
ToolStates == [type : Types, named : BOOLEAN, args : Arguments, called : BOOLEAN]

Written(kind, n) == [kind |-> kind, n |-> n]

TypeOK ==
    /\ Len(sent) <= MaxFrames
    /\ finishes \subseteq Indexes
    /\ tool \in [Indexes \X Calls -> ToolStates]
    /\ stream \in {"open", "done", "failed"}

Init ==
    /\ sent = <<>> /\ out = <<>> /\ deferred = <<>> /\ finishes = {}
    /\ tool = [key \in Indexes \X Calls |-> NoTool]
    /\ stream = "open"
-----------------------------------------------------------------------------
(* sendOpenAIError: an event without a finish_reason, unless the client is *)
(* gone or does not drain, when the response is destroyed.                 *)
Fail ==
    /\ stream' = "failed"
    /\ out' \in {out, Append(out, Written("error", 0))}
    /\ UNCHANGED <<finishes, tool, deferred>>

(* The pieces of a call are concatenated; its type is the last one given. *)
Joined(t, p) ==
    IF p = NoPiece THEN t
    ELSE [type |-> IF p.type = "none" THEN t.type ELSE p.type,
          named |-> t.named \/ p.named, called |-> TRUE,
          args |-> CASE p.args = "none" -> t.args
                     [] t.args \in {"whole", "bad"} -> "bad"
                     [] OTHER -> IF p.args = "last" THEN "whole" ELSE "part"]

\* Mutant: the delta of a finishing chunk is held back with its marker, and lost.
RelayMutFinishOnly(f, n) ==
    IF Finished(f) # {}
      THEN out' = out /\ deferred' = Append(deferred, Written("finish", n))
    ELSE IF DOMAIN f = {} /\ finishes # {}
      THEN UNCHANGED out /\ deferred' = Append(deferred, Written("usage", n))
    ELSE out' = Append(out, Written("delta", n)) /\ UNCHANGED deferred

(* A finishing chunk is split: its deltas are live, its markers wait; a    *)
(* usage trailer waits behind the markers.                                 *)
Relay(f, n) ==
    IF Finished(f) # {}
      THEN /\ out' = IF HasDelta(f) THEN Append(out, Written("delta", n)) ELSE out
           /\ deferred' = Append(deferred, Written("finish", n))
    ELSE IF DOMAIN f = {} /\ finishes # {}
      THEN UNCHANGED out /\ deferred' = Append(deferred, Written("usage", n))
    ELSE out' = Append(out, Written("delta", n)) /\ UNCHANGED deferred

Frame(f) ==
    /\ stream = "open" /\ Len(sent) < MaxFrames
    /\ sent' = Append(sent, f)
    /\ IF DOMAIN f \cap finishes # {} THEN Fail
       ELSE /\ Relay(f, Len(sent) + 1)
            /\ finishes' = finishes \cup Finished(f)
            /\ tool' = [key \in Indexes \X Calls |-> Joined(tool[key], Piece(f, key))]
            /\ UNCHANGED stream

(* An error payload, JSON or UTF-8 that is broken, a frame or arguments    *)
(* beyond the limit, an end inside a frame or without [DONE]; or the       *)
(* client does not take what is written.                                   *)
Break ==
    /\ stream = "open" /\ Fail
    /\ UNCHANGED sent

(* Every choice has its finish_reason, and every call that is a function   *)
(* call (which it is until it says otherwise) an id, a name and its whole  *)
(* arguments; a call of another type is passed on as it came.              *)
Confirmed ==
    /\ finishes = Indexes
    /\ \A key \in Indexes \X Calls :
         tool[key].called /\ tool[key].type # "custom" =>
           tool[key].named /\ tool[key].args = "whole"

Done ==
    /\ stream = "open"
    /\ IF Confirmed
         THEN /\ out' = out \o deferred \o <<Written("done", 0)>>
              /\ stream' = "done"
              /\ UNCHANGED <<finishes, tool, deferred>>
         ELSE Fail
    /\ UNCHANGED sent

Next == (\E f \in Chunks : Frame(f)) \/ Break \/ Done

Spec == Init /\ [][Next]_vars
-----------------------------------------------------------------------------
Numbers(kind) == {i \in 1..Len(out) : out[i].kind = kind}

(* Nothing that says completion is written before [DONE] has come with a   *)
(* finish_reason of every choice and every function call named and whole;  *)
(* only a call whose type is another one is committed unseen (deferred).   *)
CommittedOnlyConfirmed ==
    Numbers("finish") \cup Numbers("done") # {} =>
        /\ stream = "done" /\ finishes = Indexes
        /\ \A key \in Indexes \X Calls : tool[key].called =>
             \/ tool[key].named /\ tool[key].args = "whole"
             \/ tool[key].type = "custom"

(* Every delta reaches the client once and in the order of the upstream,   *)
(* those of finishing chunks included, and the markers follow them all     *)
(* (liveChoices).                                                          *)
RelayComplete ==
    LET arrived == Select([i \in 1..Len(sent) |-> i], LAMBDA i : HasDelta(sent[i]))
        live == Select(out, LAMBDA w : w.kind = "delta" /\ HasDelta(sent[w.n]))
        shown == [i \in 1..Len(live) |-> live[i].n] IN
    /\ Len(shown) <= Len(arrived) /\ shown = SubSeq(arrived, 1, Len(shown))
    /\ stream # "failed" => shown = arrived
    /\ stream = "done" =>
         /\ \A i \in Numbers("delta"), j \in Numbers("finish") : i < j
         /\ \A c \in Indexes : \E j \in Numbers("finish") : c \in Finished(sent[out[j].n])
=============================================================================

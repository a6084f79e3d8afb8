--------------------------- MODULE OpenAIUpstream ---------------------------
(***************************************************************************)
(* The answer of an OpenAI backend turned into an Anthropic stream         *)
(* (adaptOpenAIResponse): incrementally when the backend streams           *)
(* (translateOpenAIStream), at once when it does not                       *)
(* (createMessageStream).  An event of a block is named after its index    *)
(* and the frame it comes from.                                            *)
(***************************************************************************)
EXTENDS Integers, Sequences, FiniteSets

CONSTANTS
    Keys,       \* the indexes of the tool calls of a completion
    MaxFrames   \* bound on the frames of the backend

VARIABLES
    sent,       \* the frames of the backend
    wire,       \* the events of the translated stream
    textOpen, thinkingOpen,   \* the index of the open block, or NoIndex
    nextIndex,
    finishReason, completed,  \* a finish_reason, and [DONE], have come
    tools,      \* the tool calls in the order of their arrival
    stream      \* open, done or failed

vars == <<sent, wire, textOpen, thinkingOpen, nextIndex, finishReason,
          completed, tools, stream>>

NoIndex == -1
NoTool == -1

(* A data frame: reasoning, text, a piece of the call with key t, and a    *)
(* finish_reason, in any combination; a frame with a piece may name it.    *)
Frames ==
    {[reason |-> r, text |-> x, t |-> t, named |-> m, args |-> a, finish |-> f] :
        r \in BOOLEAN, x \in BOOLEAN, t \in Keys \cup {NoTool}, m \in BOOLEAN,
        a \in {"none", "part", "last"}, f \in BOOLEAN}
Plain == {f \in Frames : f.t = NoTool => ~f.named /\ f.args = "none"}

Event(k, i, n) == [k |-> k, i |-> i, n |-> n]
BlockKinds == {"text", "thinking", "tool_use"}

TypeOK ==
    /\ Len(sent) <= MaxFrames
    /\ {textOpen, thinkingOpen} \subseteq Nat \cup {NoIndex} /\ nextIndex \in Nat
    /\ {finishReason, completed} \subseteq BOOLEAN
    /\ \A j \in DOMAIN tools : tools[j].key \in Keys /\ tools[j].index < nextIndex
    /\ stream \in {"open", "done", "failed"}

Init ==
    /\ sent = <<>> /\ wire = <<>>
    /\ textOpen = NoIndex /\ thinkingOpen = NoIndex /\ nextIndex = 0
    /\ finishReason = FALSE /\ completed = FALSE
    /\ tools = <<>> /\ stream = "open"
-----------------------------------------------------------------------------
(* One frame is a sequence of steps over what the stream has open; s is    *)
(* the state of the translator, s.fail that a step has thrown.             *)

State == [wire |-> wire, text |-> textOpen, thinking |-> thinkingOpen,
          next |-> nextIndex, tools |-> tools, fail |-> FALSE]

Emit(s, e) == [s EXCEPT !.wire = Append(@, e)]

Close(s, b) ==
    IF s[b] = NoIndex THEN s
    ELSE [Emit(s, Event("stop", s[b], 0)) EXCEPT ![b] = NoIndex]

(* A block of the other kind is closed before one is opened. *)
Open(s, b, other) ==
    LET c == Close(s, other) IN
    IF c[b] # NoIndex THEN c
    ELSE [Emit(c, Event(IF b = "text" THEN "text" ELSE "thinking", c.next, 0))
            EXCEPT ![b] = c.next, !.next = @ + 1]

Prose(s, b, other, n) ==
    LET o == Open(s, b, other) IN Emit(o, Event("delta", o[b], n))

Position(s, t) ==
    LET found == {j \in DOMAIN s.tools : s.tools[j].key = t} IN
    IF found = {} THEN 0 ELSE CHOOSE j \in found : TRUE

(* The first piece of a call takes the next index, not yet a block. *)
NewTool(s, t) ==
    LET c == Close(Close(s, "text"), "thinking") IN
    IF Position(s, t) # 0 THEN s
    ELSE [c EXCEPT !.next = @ + 1,
            !.tools = Append(@, [key |-> t, index |-> c.next, opened |-> FALSE,
                                 args |-> "none"])]

Joined(a, p) ==
    CASE p = "none" -> a
      [] a \in {"whole", "bad"} -> "bad"
      [] OTHER -> IF p = "last" THEN "whole" ELSE "part"

Piece(call, f) ==
    [call EXCEPT !.opened = @ \/ f.named, !.args = Joined(@, f.args)]

(* The block opens with the identity of the call; arguments before that    *)
(* are an error.                                                           *)
ToolPiece(s, f, n) ==
    LET o == NewTool(s, f.t)
        j == Position(o, f.t)
        c == o.tools[j]
        b == IF f.named /\ ~c.opened
               THEN Emit(o, Event("tool_use", c.index, 0)) ELSE o
        a == [b EXCEPT !.tools = [@ EXCEPT ![j] = Piece(c, f)]] IN
    IF f.args = "none" THEN a
    ELSE IF ~Piece(c, f).opened THEN [a EXCEPT !.fail = TRUE]
    ELSE Emit(a, Event("delta", c.index, n))

\* Mutant: text is accepted beside an unfinished tool call.
HandleMutInterleaved(s, f, n) ==
    LET r == IF f.reason THEN Prose(s, "thinking", "text", n) ELSE s
        x == IF f.text THEN Prose(r, "text", "thinking", n) ELSE r IN
    IF f.t = NoTool THEN x ELSE ToolPiece(x, f, n)

Handle(s, f, n) ==
    LET r == IF f.reason THEN Prose(s, "thinking", "text", n) ELSE s
        x == IF f.text THEN Prose(r, "text", "thinking", n) ELSE r IN
    IF Len(s.tools) > 0 /\ (f.reason \/ f.text) THEN [s EXCEPT !.fail = TRUE]
    ELSE IF f.t = NoTool THEN x ELSE ToolPiece(x, f, n)

Become(s) ==
    /\ wire' = s.wire /\ textOpen' = s.text /\ thinkingOpen' = s.thinking
    /\ nextIndex' = s.next /\ tools' = s.tools

Frame(f) ==
    /\ stream = "open" /\ Len(sent) < MaxFrames
    /\ sent' = Append(sent, f)
    /\ LET start == IF wire = <<>> THEN Emit(State, Event("message_start", 0, 0)) ELSE State
           s == Handle(start, f, Len(sent) + 1) IN
       /\ Become(s)
       /\ stream' = IF s.fail THEN "failed" ELSE "open"
    /\ finishReason' = (finishReason \/ f.finish)
    /\ UNCHANGED completed

Done ==
    /\ stream = "open" /\ ~completed
    /\ completed' = TRUE
    /\ UNCHANGED <<sent, wire, textOpen, thinkingOpen, nextIndex, finishReason, tools, stream>>

\* JSON that is broken, a network error, or a reader that stops reading.
Break ==
    /\ stream = "open" /\ stream' = "failed"
    /\ UNCHANGED <<sent, wire, textOpen, thinkingOpen, nextIndex, finishReason, completed, tools>>

(* The calls are validated and closed in order: a bad one throws after the *)
(* blocks of those before it were closed.                                  *)
Bad(t) == ~t.opened \/ t.args \notin {"none", "whole"}
Valid(q) == Cardinality({j \in DOMAIN q : \A k \in 1..j : ~Bad(q[k])})
Stops(q) == [j \in 1..Valid(q) |-> Event("stop", q[j].index, 0)]
Closed(s) ==
    LET c == Close(Close(s, "text"), "thinking") IN
    [c EXCEPT !.wire = @ \o Stops(c.tools), !.fail = Valid(c.tools) < Len(c.tools)]

\* Mutant: a finish_reason is taken for the end.
ConfirmedMutFinish == finishReason /\ wire # <<>>

Confirmed == completed /\ finishReason /\ wire # <<>>

End ==
    /\ stream = "open"
    /\ IF ~Confirmed
         THEN /\ stream' = "failed"
              /\ UNCHANGED <<wire, textOpen, thinkingOpen, nextIndex, tools>>
         ELSE LET s == Closed(State) IN
              /\ Become(IF s.fail THEN s
                        ELSE Emit(Emit(s, Event("message_delta", 0, 0)),
                                  Event("message_stop", 0, 0)))
              /\ stream' = IF s.fail THEN "failed" ELSE "done"
    /\ UNCHANGED <<sent, finishReason, completed>>

(* A backend that does not stream: its k blocks, thinking, text and tool   *)
(* calls, at once; a call with bad arguments throws before anything is     *)
(* written.                                                                *)
WholeBlock(s) == Close(Prose(s, "text", "thinking", 0), "text")
WholeBody ==
    /\ stream = "open" /\ sent = <<>> /\ ~completed
    /\ \/ \E k \in 0..3 :
            LET none == Emit(State, Event("message_start", 0, 0))
                one == WholeBlock(none)
                two == WholeBlock(one)
                s == CASE k = 0 -> none [] k = 1 -> one
                       [] k = 2 -> two [] OTHER -> WholeBlock(two) IN
            /\ Become(Emit(Emit(s, Event("message_delta", 0, 0)), Event("message_stop", 0, 0)))
            /\ stream' = "done" /\ completed' = TRUE /\ finishReason' = TRUE
       \/ /\ stream' = "failed"
          /\ UNCHANGED <<wire, textOpen, thinkingOpen, nextIndex, tools, completed, finishReason>>
    /\ UNCHANGED sent

Next == (\E f \in Plain : Frame(f)) \/ Done \/ Break \/ End \/ WholeBody

Spec == Init /\ [][Next]_vars
-----------------------------------------------------------------------------
StartsOf(i) == {j \in DOMAIN wire : wire[j].k \in BlockKinds /\ wire[j].i = i}
StopsOf(i) == {j \in DOMAIN wire : wire[j].k = "stop" /\ wire[j].i = i}
OpenAt(j, i) == (\E a \in StartsOf(i) : a < j) /\ ~(\E b \in StopsOf(i) : b < j)

(* Every block is started once, gets its deltas while it is open and is    *)
(* closed once; text and thinking are never inside another block, and when *)
(* the message ends every block is closed (the open flags and tools.size). *)
BlocksLegal ==
    /\ \A i \in 0..nextIndex : Cardinality(StartsOf(i)) <= 1 /\ Cardinality(StopsOf(i)) <= 1
    /\ \A j \in DOMAIN wire :
         LET e == wire[j] IN
         /\ e.k \in {"delta", "stop"} => OpenAt(j, e.i)
         /\ e.k \in {"text", "thinking"} => \A i \in 0..nextIndex : ~OpenAt(j, i)
         /\ e.k = "message_stop" => j = Len(wire) /\ \A i \in 0..nextIndex : ~OpenAt(j, i)

(* No tool block is closed before the backend has confirmed the end, and a *)
(* message that ends has all its tool calls, each whole, and every delta   *)
(* that was sent in its order (the check before the closing blocks).       *)
ToolsCommitted ==
    LET toolIndexes == {wire[j].i : j \in {k \in DOMAIN wire : wire[k].k = "tool_use"}} IN
    /\ (\E i \in toolIndexes : StopsOf(i) # {}) => completed /\ finishReason
    /\ stream = "done" => \A j \in DOMAIN tools : ~Bad(tools[j])
    /\ \A j \in DOMAIN wire, k \in DOMAIN wire :
         j < k /\ wire[j].n # 0 /\ wire[k].n # 0 => wire[j].n <= wire[k].n

=============================================================================

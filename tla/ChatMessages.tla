---------------------------- MODULE ChatMessages ----------------------------
(***************************************************************************)
(* The histories of the two protocols, turned into one another: a Chat     *)
(* Completions history for an Anthropic backend (toAnthropicRequest) and   *)
(* an Anthropic history for an OpenAI backend (toOpenAIRequest).  A text   *)
(* or an image is an item with a number of its own; tool calls have ids.   *)
(***************************************************************************)
EXTENDS Naturals, Sequences, FiniteSets, SequencesExt

CONSTANTS
    Ids,          \* tool call ids
    MaxMessages   \* bound on a history

VARIABLES
    history,      \* a history of an OpenAI client, any order of roles
    claude        \* a history of an Anthropic client

vars == <<history, claude>>

NoId == "none"
Text(n) == [type |-> "text", n |-> n]
Image(n) == [type |-> "image", n |-> n]

(* A message of Chat Completions: what it says, its calls, and the call a  *)
(* tool message answers.                                                   *)
Chat(role, parts, calls, id) == [role |-> role, parts |-> parts, calls |-> calls, id |-> id]

(* A message of Anthropic: blocks of text, images, uses and results.       *)
Turn(role, content) == [role |-> role, content |-> content]
Use(id) == [type |-> "tool_use", id |-> id]
Result(id, parts) == [type |-> "tool_result", id |-> id, parts |-> parts]

Of(blocks, type) == SelectSeq(blocks, LAMBDA b : b.type = type)
-----------------------------------------------------------------------------
(* toAnthropicRequest *)

Start == [ok |-> TRUE, pending |-> {}, used |-> {}, started |-> FALSE,
          system |-> <<>>, out |-> <<>>]
Refuse(c) == [c EXCEPT !.ok = FALSE]

System(c, m) ==
    IF c.started \/ m.calls # <<>> \/ m.id # NoId THEN Refuse(c)
    ELSE [c EXCEPT !.system = Append(@, m.parts)]

(* The results of a turn are blocks of one user message. *)
ToolMessage(c, m) ==
    LET b == Result(m.id, m.parts)
        grouped == c.out # <<>> /\ Last(c.out).role = "user"
                   /\ \A j \in DOMAIN Last(c.out).content :
                        Last(c.out).content[j].type = "tool_result" IN
    IF m.id \notin c.pending \/ m.calls # <<>> THEN Refuse(c)
    ELSE [c EXCEPT !.started = TRUE, !.pending = @ \ {m.id},
            !.out = IF grouped
                      THEN Append(Front(@), Turn("user", Append(Last(@).content, b)))
                      ELSE Append(@, Turn("user", <<b>>))]

\* Mutant: the conversation goes on while calls wait for their results.
SpeakMutPending(c, m) ==
    IF \/ m.id # NoId \/ (m.role = "user" /\ m.calls # <<>>)
       \/ ToSet(m.calls) \cap c.used # {} \/ ~IsInjective(m.calls)
       \/ m.role = "assistant" /\ m.parts = <<>> /\ m.calls = <<>>
      THEN Refuse(c)
    ELSE [c EXCEPT !.started = TRUE,
            !.used = @ \cup ToSet(m.calls), !.pending = @ \cup ToSet(m.calls),
            !.out = Append(@, Turn(m.role, m.parts \o [j \in DOMAIN m.calls |-> Use(m.calls[j])]))]

(* A user or assistant message, once all calls before it have results; a   *)
(* call has an id that no call before it had.  An assistant message says   *)
(* or calls something; a user message may be an empty array.               *)
Speak(c, m) ==
    IF \/ c.pending # {}
       \/ m.id # NoId \/ (m.role = "user" /\ m.calls # <<>>)
       \/ ToSet(m.calls) \cap c.used # {} \/ ~IsInjective(m.calls)
       \/ m.role = "assistant" /\ m.parts = <<>> /\ m.calls = <<>>
      THEN Refuse(c)
    ELSE [c EXCEPT !.started = TRUE,
            !.used = @ \cup ToSet(m.calls), !.pending = @ \cup ToSet(m.calls),
            !.out = Append(@, Turn(m.role, m.parts \o [j \in DOMAIN m.calls |-> Use(m.calls[j])]))]

Read(messages) ==
    FoldLeft(LAMBDA c, m : CASE ~c.ok -> c
                             [] m.role = "system" -> System(c, m)
                             [] m.role = "tool" -> ToolMessage(c, m)
                             [] OTHER -> Speak(c, m), Start, messages)

\* No call may be left without a result, and somebody must have spoken.
ToAnthropic(messages) ==
    LET c == Read(messages) IN [c EXCEPT !.ok = @ /\ c.pending = {} /\ c.out # <<>>]
-----------------------------------------------------------------------------
(* toOpenAIRequest *)

AssistantTurn(m) ==
    <<Chat("assistant", Of(m.content, "text"),
           LET uses == Of(m.content, "tool_use") IN [j \in DOMAIN uses |-> uses[j].id], NoId)>>

(* What waits before a result is a message of its own. *)
Flush(s) ==
    IF s.waiting = <<>> THEN s
    ELSE [s EXCEPT !.out = Append(@, Chat("user", s.waiting, <<>>, NoId)), !.waiting = <<>>]

\* Mutant: the images of a result follow it at once.
ResultBlockMutInGroup(s, b) ==
    LET f == Flush(s)
        answer == Chat("tool", Of(b.parts, "text"), <<>>, b.id) IN
    [f EXCEPT !.out = @ \o (IF Of(b.parts, "image") = <<>> THEN <<answer>>
                            ELSE <<answer, Chat("user", b.parts, <<>>, NoId)>>)]

(* A result is a tool message with its text; one that has images is shown  *)
(* again, text and images, after the turn.                                 *)
ResultBlock(s, b) ==
    LET f == Flush(s) IN
    [f EXCEPT !.out = Append(@, Chat("tool", Of(b.parts, "text"), <<>>, b.id)),
              !.visuals = IF Of(b.parts, "image") = <<>> THEN @ ELSE @ \o b.parts]

UserTurn(m) ==
    LET s == Flush(FoldLeft(LAMBDA s, b : IF b.type = "tool_result" THEN ResultBlock(s, b)
                                          ELSE [s EXCEPT !.waiting = Append(@, b)],
                            [out |-> <<>>, waiting |-> <<>>, visuals |-> <<>>], m.content)) IN
    IF s.visuals = <<>> THEN s.out ELSE Append(s.out, Chat("user", s.visuals, <<>>, NoId))

(* All system texts, those inside the history too, lead it as one. *)
ToOpenAI(system, turns) ==
    LET inline == SelectSeq(turns, LAMBDA m : m.role = "system")
        texts == FlattenSeq(system \o [j \in DOMAIN inline |-> inline[j].content])
        rest == SelectSeq(turns, LAMBDA m : m.role # "system") IN
    (IF texts = <<>> THEN <<>> ELSE <<Chat("system", texts, <<>>, NoId)>>)
    \o FlattenSeq([j \in DOMAIN rest |->
            IF rest[j].role = "user" THEN UserTurn(rest[j]) ELSE AssistantTurn(rest[j])])
-----------------------------------------------------------------------------
(* Histories, one message after the other.  What a client of the Anthropic *)
(* protocol sends is legal: the turn after calls starts with their results.*)

Fresh == Len(history) + 1

\* A history that was refused stays refused: it is not continued.
ChatSays ==
    /\ Len(history) < MaxMessages /\ Read(history).ok
    /\ \E role \in {"system", "user", "assistant", "tool"},
          parts \in {<<>>, <<Text(Fresh)>>},
          calls \in {<<>>} \cup {<<a>> : a \in Ids} \cup {<<a, b>> : a \in Ids, b \in Ids},
          id \in Ids \cup {NoId} :
         /\ calls # <<>> => role = "assistant" \/ id = NoId
         /\ role \in {"system", "tool"} => parts # <<>>
         /\ history' = Append(history, Chat(role, parts, calls, id))
    /\ UNCHANGED claude

LastUses ==
    IF claude = <<>> THEN <<>>
    ELSE LET uses == Of(Last(claude).content, "tool_use") IN [j \in DOMAIN uses |-> uses[j].id]
UsedIds == UNION {ToSet(LET u == Of(claude[j].content, "tool_use") IN
                        [k \in DOMAIN u |-> u[k].id]) : j \in DOMAIN claude}

ClaudeSays ==
    /\ Len(claude) < MaxMessages
    /\ LET n == 10 * (Len(claude) + 1) IN
       \/ /\ LastUses = <<>>
          /\ \E role \in {"user", "system"} :
                claude' = Append(claude, Turn(role, <<Text(n)>>))
       \/ /\ LastUses = <<>> /\ claude # <<>>
          /\ \E uses \in {<<>>} \cup {<<a>> : a \in Ids} \cup {<<a, b>> : a \in Ids, b \in Ids} :
               /\ IsInjective(uses) /\ ToSet(uses) \cap UsedIds = {}
               /\ claude' = Append(claude, Turn("assistant", <<Text(n)>> \o [j \in DOMAIN uses |-> Use(uses[j])]))
       \/ /\ LastUses # <<>>
          /\ \E shown \in SUBSET ToSet(LastUses), says \in BOOLEAN :
               claude' = Append(claude, Turn("user",
                  [j \in DOMAIN LastUses |->
                      Result(LastUses[j], <<Text(n + j)>>
                             \o IF LastUses[j] \in shown THEN <<Image(n + 4 + j)>> ELSE <<>>)]
                  \o IF says THEN <<Image(n + 8), Text(n)>> ELSE <<>>))
    /\ UNCHANGED history

Init == history = <<>> /\ claude = <<>>

\* One of the two histories grows.
Next == (claude = <<>> /\ ChatSays) \/ (history = <<>> /\ ClaudeSays)

Spec == Init /\ [][Next]_vars
-----------------------------------------------------------------------------
Converted == ToAnthropic(history)

(* A history that is accepted comes back as it was, the system texts as    *)
(* one message, an empty user message not at all: nothing that was said is *)
(* dropped, merged or reordered on the way to either protocol              *)
(* (toAnthropicRequest, toOpenAIRequest).                                  *)
RoundTrip ==
    Converted.ok =>
        LET systems == SelectSeq(history, LAMBDA m : m.role = "system") IN
        ToOpenAI(Converted.system, Converted.out) =
            (IF systems = <<>> THEN <<>>
             ELSE <<Chat("system", FlattenSeq([j \in DOMAIN systems |-> systems[j].parts]), <<>>, NoId)>>)
            \o SelectSeq(history, LAMBDA m :
                    m.role # "system" /\ ~(m.role = "user" /\ m.parts = <<>>))

(* What the Anthropic backend is sent is legal: every call is answered,    *)
(* once, in the next message, and its id is new (pending, usedIds).        *)
ResultsFollowCalls ==
    Converted.ok =>
        \A j \in DOMAIN Converted.out :
            LET uses == Of(Converted.out[j].content, "tool_use") IN
            uses # <<>> =>
               /\ j < Len(Converted.out)
               /\ LET results == Of(Converted.out[j + 1].content, "tool_result") IN
                  /\ Len(results) = Len(uses)
                  /\ {uses[k].id : k \in DOMAIN uses} = {results[k].id : k \in DOMAIN results}

(* What the OpenAI backend is sent is legal and complete: the tool         *)
(* messages of a turn follow its calls with nothing between, and no item   *)
(* of the history is missing (the result group and its visuals).           *)
ToolGroupsAdjacent ==
    LET sent == ToOpenAI(<<>>, claude)
        items == {j \in DOMAIN claude : claude[j].role # "system"} IN
    /\ \A j \in DOMAIN sent : sent[j].calls # <<>> /\ j + Len(sent[j].calls) <= Len(sent) =>
         \A k \in DOMAIN sent[j].calls :
            sent[j + k].role = "tool" /\ sent[j + k].id = sent[j].calls[k]
    /\ \A j \in items : \A k \in DOMAIN claude[j].content :
         LET b == claude[j].content[k] IN
         b.type # "tool_use" =>
            \A p \in (IF b.type = "tool_result" THEN ToSet(b.parts) ELSE {b}) :
                \E m \in DOMAIN sent : p \in ToSet(sent[m].parts)
=============================================================================

------------------------------ MODULE Streams ------------------------------
(***************************************************************************)
(* What the gateway writes to a client: the stream of a managed request,   *)
(* and the translators between the two protocols.  They share no state,    *)
(* and each is explored while the others rest.  The two translators that   *)
(* write to an OpenAI client share the variables of the input, the output  *)
(* and the outcome.                                                        *)
(***************************************************************************)
EXTENDS ClientStream

CONSTANTS
    Completions,                        \* of a relayed request: n
    UpstreamCalls,                      \* the indexes of the calls of an OpenAI backend
    Deltas,                             \* of its relayed choices
    MaxIndex,                           \* of the blocks of an Anthropic backend
    MaxFrames, MaxEvents, MaxMessages,  \* bounds of the translators
    Ids                                 \* of the calls in a history

ASSUME TranslatorsAssumption ==
    /\ {Completions, MaxIndex, MaxFrames, MaxEvents} \subseteq Nat
    /\ UpstreamCalls \subseteq Nat

VARIABLES
    part, sent, out, stream,
    finishes, choice, deferred,                                   \* relay
    events, textOpen, thinkingOpen, nextIndex, finishReason, completed, tools,
    block, calls, reason,                                         \* client
    history, claude                                               \* messages

relayVars == <<finishes, choice, deferred>>
upstreamVars == <<events, textOpen, thinkingOpen, nextIndex, finishReason, completed, tools>>
clientVars == <<block, calls, reason>>
messageVars == <<history, claude>>
translatorVars == <<sent, out, stream, relayVars, upstreamVars, clientVars, messageVars>>

R == INSTANCE ChatRelay WITH N <- Completions, Calls <- UpstreamCalls, tool <- choice
U == INSTANCE OpenAIUpstream WITH Keys <- UpstreamCalls, wire <- events
C == INSTANCE OpenAIClient WITH received <- sent
M == INSTANCE ChatMessages

ASSUME DeltasAssumption == Deltas \subseteq R!PossibleDeltas

StreamsInit ==
    /\ part \in {"client stream", "relay", "upstream", "client", "messages"}
    /\ Init /\ R!Init /\ U!Init /\ C!Init /\ M!Init
    /\ part # "client stream" => hook = "done"

StreamsNext ==
    /\ \/ part = "client stream" /\ Next /\ UNCHANGED translatorVars
       \/ part = "relay" /\ R!Next
          /\ UNCHANGED <<vars, upstreamVars, clientVars, messageVars>>
       \/ part = "upstream" /\ U!Next
          /\ UNCHANGED <<vars, out, relayVars, clientVars, messageVars>>
       \/ part = "client" /\ C!Next
          /\ UNCHANGED <<vars, relayVars, upstreamVars, messageVars>>
       \/ part = "messages" /\ M!Next
          /\ UNCHANGED <<vars, sent, out, stream, relayVars, upstreamVars, clientVars>>
    /\ UNCHANGED part

(* The fairness of the client stream, whose queue, handler and timers run. *)
StreamsSpec ==
    /\ StreamsInit /\ [][StreamsNext]_<<part, vars, translatorVars>>
    /\ WF_vars(part = "client stream" /\ FairStep)

(* A translated stream is legal and complete: the relay confirms before it *)
(* commits and loses nothing; the blocks of an OpenAI backend are opened   *)
(* and closed in order and its calls committed at the end; the message of  *)
(* an Anthropic backend is finished legally, with all of its calls or none.*)
StreamsTranslated ==
    /\ TypeOK
    /\ part = "relay" => R!TypeOK /\ R!CommittedOnlyConfirmed /\ R!RelayComplete
    /\ part = "upstream" => U!TypeOK /\ U!BlocksLegal /\ U!ToolsCommitted
    /\ part = "client" => C!TypeOK /\ C!AcceptedIsLegal /\ C!ToolsTransactional

(* The histories keep their content, and the calls their results.          *)
HistoriesTranslated ==
    part = "messages" => M!RoundTrip /\ M!ResultsFollowCalls /\ M!ToolGroupsAdjacent

(* A stream that was opened ends (ClientStream's HandlerEnds).             *)
StreamEnds == part = "client stream" => HandlerEnds
=============================================================================

------------------------- MODULE Streams_proofs ------------------------------
(***************************************************************************)
(* The response stream of a request, for every number of calls, timeline   *)
(* fragments and final blocks.                                             *)
(*                                                                         *)
(* The progress text on the wire is a beginning of the timeline without a  *)
(* gap or a repetition, also with parallel calls: a fragment is shown, or  *)
(* is being written, or is queued, or is held back in one of two lists,    *)
(* and the numbers of these places follow each other.                      *)
(*                                                                         *)
(* Until the results of a round cross, the stream is one legal message:    *)
(* what is still to be written continues the wire, and ends where the next *)
(* index says.  A handler that ended has completed the message or sent an  *)
(* error, crossed or not: its last event is due, queued or written.        *)
(*                                                                         *)
(* The translators between the two protocols follow, for every number of   *)
(* completions, calls, blocks and frames: the deltas that are relayed are  *)
(* the deltas that arrived, by position; the blocks of an OpenAI backend   *)
(* are numbered in the order they are opened; and the message of an        *)
(* Anthropic backend is rebuilt from its own history.  The last section    *)
(* puts the parts together.                                                *)
(***************************************************************************)
EXTENDS Streams, Subsequence_proofs, SequenceTheorems, FiniteSetTheorems, TLAPS

Events == [k : AS!Kinds, i : Nat, from : Nat, to : Nat]

(* What LastKind and Started of AnthropicStream say, of any sequence. *)
IsTip(w, j) ==
    /\ j \in 1..Len(w)
    /\ w[j].k # "usage"
    /\ \A l \in j + 1..Len(w) : w[l].k = "usage"

TipOf(w) == w[CHOOSE j \in 1..Len(w) : w[j].k # "usage" /\ \A l \in j + 1..Len(w) : w[l].k = "usage"]
StartedIn(w) == Cardinality({j \in 1..Len(w) : w[j].k = "start"})

LEMMA TipIsLatest == AS!Latest(wire) = TipOf(wire) /\ AS!Started(wire) = StartedIn(wire)
<1>1. AS!Latest(wire) = TipOf(wire)
  BY Zenon DEF AS!Latest, TipOf
<1>2. AS!Started(wire) = StartedIn(wire)
  BY Zenon DEF AS!Started, StartedIn, AS!Cardinality, Cardinality
<1> QED
  BY <1>1, <1>2

LEMMA TipUnique ==
  ASSUME NEW w \in Seq(Events), NEW j, IsTip(w, j)
  PROVE  TipOf(w) = w[j]
<1> DEFINE P(l) == w[l].k # "usage" /\ \A m \in l + 1..Len(w) : w[m].k = "usage"
           c == CHOOSE l \in 1..Len(w) : P(l)
<1>1. j \in 1..Len(w) /\ P(j)
  BY DEF IsTip
<1>2. c \in 1..Len(w) /\ P(c)
  BY <1>1
<1>3. c = j
  <2>1. ~(j < c)
    BY <1>1, <1>2
  <2>2. ~(c < j)
    BY <1>1, <1>2
  <2> QED
    BY <2>1, <2>2, <1>1, <1>2
<1> QED
  BY <1>3 DEF TipOf

(* One event more. *)
LEMMA WireGrows ==
  ASSUME NEW w \in Seq(Events), NEW e \in Events
  PROVE  /\ e.k # "usage" =>
              TipOf(Append(w, e)) = e /\ \E j : IsTip(Append(w, e), j)
         /\ e.k = "usage" /\ (\E j : IsTip(w, j)) =>
              TipOf(Append(w, e)) = TipOf(w) /\ \E j : IsTip(Append(w, e), j)
         /\ StartedIn(Append(w, e)) = StartedIn(w) + (IF e.k = "start" THEN 1 ELSE 0)
<1> DEFINE v == Append(w, e)
           n == Len(w)
<1>1. /\ v \in Seq(Events) /\ n \in Nat /\ Len(v) = n + 1 /\ v[n + 1] = e
      /\ \A j \in 1..n : v[j] = w[j]
  OBVIOUS
<1> HIDE DEF v
<1>2. ASSUME e.k # "usage"
      PROVE  TipOf(v) = e /\ \E j : IsTip(v, j)
  <2>1. IsTip(v, n + 1)
    BY <1>1, <1>2 DEF IsTip
  <2> QED
    BY <1>1, <2>1, TipUnique
<1>3. ASSUME e.k = "usage", NEW j, IsTip(w, j)
      PROVE  TipOf(v) = TipOf(w) /\ IsTip(v, j)
  <2>1. IsTip(v, j)
    BY <1>1, <1>3 DEF IsTip
  <2>2. TipOf(v) = v[j] /\ TipOf(w) = w[j]
    BY <1>1, <1>3, <2>1, TipUnique
  <2> QED
    BY <1>1, <1>3, <2>1, <2>2 DEF IsTip
<1>4. StartedIn(v) = StartedIn(w) + (IF e.k = "start" THEN 1 ELSE 0)
  <2> DEFINE A == {j \in 1..n : w[j].k = "start"}
             B == {j \in 1..Len(v) : v[j].k = "start"}
  <2>1. A \in SUBSET (1..n) /\ n + 1 \notin A
    BY <1>1
  <2>2. IsFiniteSet(A) /\ Cardinality(A) \in Nat
    BY <1>1, <2>1, IndicesFinite
  <2>3. CASE e.k = "start"
    <3>1. B = A \cup {n + 1}
      BY <1>1, <2>3
    <3> HIDE DEF A, B
    <3>2. Cardinality(B) = Cardinality(A) + 1
      BY <3>1, <2>1, <2>2, FS_AddElement
    <3> QED
      BY <3>2, <2>3, <2>2 DEF StartedIn, A, B
  <2>4. CASE e.k # "start"
    <3>1. B = A
      BY <1>1, <2>4
    <3> QED
      BY <3>1, <2>4, <2>2 DEF StartedIn
  <2> QED
    BY <2>3, <2>4
<1> QED
  BY <1>2, <1>3, <1>4 DEF v
-----------------------------------------------------------------------------
(* The types, closer than TypeOK: what operations carry, and that only a   *)
(* timeline update writes fragments.                                       *)
PlainEvents == [k : AS!Kinds, i : Nat, from : {0}, to : {0}]
Raws == [op : {"raw"}, by : Emitters, ev : PlainEvents]
Updates == [op : {"update"}, by : {"none"}, entry : Entry]
Turns == [op : {"banner", "close"}, by : {"none"}]
Operations == Raws \cup Updates \cup Turns

StreamTypes ==
    /\ wire \in Seq(Events)
    /\ queue \in Seq(Operations)
    /\ writing \in Seq(Events)
    /\ script \in [Emitters -> Seq(PlainEvents)]
    /\ poisoned \in BOOLEAN

ProgressTypes ==
    /\ gone \in BOOLEAN /\ late \in BOOLEAN
    /\ content \in Nat
    /\ pendingUpdates \in Seq(Entry) /\ releasing \in Seq(Entry)
    /\ hook \in {"todo", "running", "done"}
    /\ visible \in BOOLEAN /\ progressClosed \in BOOLEAN /\ closed \in BOOLEAN
    /\ progressBlock \in Nat \cup {None} /\ nextContentIndex \in Nat

HandlerTypes ==
    /\ main \in MainStates
    /\ tool \in [Tools -> {"idle", "running", "emitting", "done", "thrown"}]
    /\ bridge \in Nat \cup {None}
    /\ main \in {"uses", "tools"} => bridge \in Nat
    /\ \A t \in Tools : tool[t] # "idle" => bridge \in Nat

(* Nothing is queued before the stream is open, nothing after a rejection, *)
(* and what is being written belongs to the first operation.               *)
Quiet ==
    main \in {"open", "banner"} =>
      /\ queue = <<>> /\ writing = <<>> /\ releasing = <<>> /\ pendingUpdates = <<>>
      /\ ~poisoned /\ ~closed /\ ~progressClosed /\ ~visible
      /\ progressBlock = None /\ nextContentIndex = 0 /\ content = 0
      /\ wire = IF main = "open" THEN <<>> ELSE <<Event("message_start", 0)>>

Rejected == poisoned => queue = <<>> /\ writing = <<>>

WritingKnown ==
    writing # <<>> =>
      /\ queue # <<>>
      /\ Head(queue).op = "raw" => writing = <<Head(queue).ev>>

BaseInv ==
    /\ StreamTypes
    /\ ProgressTypes
    /\ HandlerTypes
    /\ Quiet
    /\ Rejected
    /\ WritingKnown
    /\ crossed \in BOOLEAN

LEMMA OperationTypes ==
  ASSUME NEW o \in Operations
  PROVE  /\ o.op = "raw" => o.by \in Emitters /\ o.ev \in PlainEvents /\ o \in Raws
         /\ o.op # "raw" => o.by = "none" /\ o.by \notin Emitters
         /\ o.op = "update" => o.entry \in Entry /\ o \in Updates
         /\ o.op \in {"raw", "update", "banner", "close"}
<1>1. "none" \notin Emitters
  BY ConstantsAssumption DEF Emitters
<1> QED
  BY <1>1 DEF Operations, Raws, Updates, Turns

LEMMA ShortTypes ==
  ASSUME NEW T, NEW a \in T
  PROVE  <<a>> \in Seq(T) /\ \A b \in T : <<a, b>> \in Seq(T)
  OBVIOUS

LEMMA EventTypes ==
  /\ PlainEvents \subseteq Events
  /\ \A k \in AS!Kinds : \A i \in Nat : Event(k, i) \in PlainEvents
  /\ \A i, from, to \in Nat : Timeline(i, from, to) \in Events
  /\ \A i \in Nat : Block(i) \in Seq(PlainEvents) /\ ResultBlock(i) \in Seq(PlainEvents)
<1>1. PlainEvents \subseteq Events
  BY DEF PlainEvents, Events
<1>2. \A k \in AS!Kinds : \A i \in Nat : Event(k, i) \in PlainEvents
  BY DEF Event, AS!Event, PlainEvents
<1>3. \A i, from, to \in Nat : Timeline(i, from, to) \in Events
  BY DEF Timeline, Events, AS!Kinds
<1>4. {"start", "delta", "stop"} \subseteq AS!Kinds
  BY DEF AS!Kinds
<1>5. \A i \in Nat : Block(i) \in Seq(PlainEvents) /\ ResultBlock(i) \in Seq(PlainEvents)
  BY <1>2, <1>4 DEF Block, ResultBlock
<1> QED
  BY <1>1, <1>2, <1>3, <1>5

(* The final response: block by block, then the end of the message.        *)
LEMMA FinalTypes ==
  ASSUME NEW i \in Nat
  PROVE  /\ FinalEvents(i) \in Seq(PlainEvents)
         /\ Len(FinalEvents(i)) = 3 * FinalBlocks + 2
         /\ \A n \in 1..3 * FinalBlocks :
              FinalEvents(i)[n] = Block(i + (n - 1) \div 3)[((n - 1) % 3) + 1]
         /\ FinalEvents(i)[3 * FinalBlocks + 1] = Event("message_delta", 0)
         /\ FinalEvents(i)[3 * FinalBlocks + 2] = Event("message_stop", 0)
<1> DEFINE N == 3 * FinalBlocks
           blocks == [n \in 1..N |-> Block(i + (n - 1) \div 3)[((n - 1) % 3) + 1]]
           end == <<Event("message_delta", 0), Event("message_stop", 0)>>
<1>1. FinalBlocks \in Nat /\ N \in Nat
  BY ConstantsAssumption
<1>2. end \in Seq(PlainEvents) /\ Len(end) = 2
      /\ end[1] = Event("message_delta", 0) /\ end[2] = Event("message_stop", 0)
  <2>1. {"message_delta", "message_stop"} \subseteq AS!Kinds
    BY DEF AS!Kinds
  <2> QED
    BY <2>1, EventTypes
<1>3. blocks \in Seq(PlainEvents) /\ Len(blocks) = N
  <2>1. ASSUME NEW n \in 1..N
        PROVE  blocks[n] \in PlainEvents
    <3>1. i + (n - 1) \div 3 \in Nat /\ ((n - 1) % 3) + 1 \in 1..3
      BY <1>1
    <3>2. \A j \in Nat : \A m \in 1..3 : Block(j)[m] \in PlainEvents
      <4> SUFFICES ASSUME NEW j \in Nat, NEW m \in 1..3
                   PROVE  Block(j)[m] \in PlainEvents
        OBVIOUS
      <4>1. Block(j) \in Seq(PlainEvents) /\ Len(Block(j)) = 3
        BY EventTypes DEF Block
      <4> HIDE DEF blocks
      <4> QED
        BY <4>1, ElementOfSeq
    <3> QED
      BY <3>1, <3>2
  <2>2. blocks \in [1..N -> PlainEvents]
    BY <2>1
  <2> QED
    BY <1>1, <2>2
<1> HIDE DEF blocks, end
<1>4. FinalEvents(i) = blocks \o end
  BY DEF FinalEvents, blocks, end
<1>5. /\ blocks \o end \in Seq(PlainEvents) /\ Len(blocks \o end) = N + 2
      /\ \A n \in 1..N : (blocks \o end)[n] = blocks[n]
      /\ (blocks \o end)[N + 1] = end[1] /\ (blocks \o end)[N + 2] = end[2]
  <2> HIDE DEF N
  <2>0. blocks \in Seq(PlainEvents) /\ end \in Seq(PlainEvents) /\ Len(blocks) = N /\ Len(end) = 2
    BY <1>2, <1>3
  <2>4. blocks \o end \in Seq(PlainEvents)
    BY <2>0, ConcatProperties
  <2>5. Len(blocks \o end) = Len(blocks) + Len(end)
    BY <2>0, ConcatProperties
  <2>1. blocks \o end \in Seq(PlainEvents) /\ Len(blocks \o end) = N + 2
    BY <2>0, <2>4, <2>5
  <2>2. \A n \in 1..N + 2 : (blocks \o end)[n] = IF n <= N THEN blocks[n] ELSE end[n - N]
    <3>1. \A n \in 1..Len(blocks) + Len(end) :
             (blocks \o end)[n] = IF n <= Len(blocks) THEN blocks[n] ELSE end[n - Len(blocks)]
      BY <2>0, ConcatProperties
    <3> QED
      BY <2>0, <3>1
  <2>3. N + 1 \in 1..N + 2 /\ N + 2 \in 1..N + 2 /\ (N + 1) - N = 1 /\ (N + 2) - N = 2
        /\ ~(N + 1 <= N) /\ ~(N + 2 <= N)
    BY <1>1
  <2> QED
    BY <1>1, <2>1, <2>2, <2>3
<1> QED
  BY <1>2, <1>4, <1>5 DEF blocks
-----------------------------------------------------------------------------
(* What a step does to the chain: nothing, one operation more, the first   *)
(* of an emitter's events, a step of the chain itself, or message_start,   *)
(* which is written beside it.                                             *)
streamVars == <<wire, queue, writing, script, poisoned>>

Enqueues(o) == ~poisoned /\ queue' = Append(queue, o) /\ UNCHANGED <<wire, writing, script, poisoned>>
Sends(e, series) == ~poisoned /\ Emit(e, series) /\ UNCHANGED <<wire, writing, poisoned>>
Opens ==
    /\ main = "open" /\ ~gone
    /\ wire' = <<Event("message_start", 0)>>
    /\ UNCHANGED <<queue, writing, script, poisoned>>

Moves ==
    \/ UNCHANGED streamVars
    \/ \E o \in Updates \cup Turns : Enqueues(o) /\ (o.op = "close" => progressClosed')
    \/ \E e \in Emitters : \E series \in Seq(PlainEvents) : series # <<>> /\ Sends(e, series)
    \/ Opens
    \/ QueueStep

LEMMA TurnTypes ==
  /\ Op("banner") \in Turns /\ Op("close") \in Turns
  /\ Op("banner").op = "banner"
  /\ \A x \in Entry : [op |-> "update", by |-> "none", entry |-> x] \in Updates
  BY DEF Op, Turns, Updates

LEMMA CloseMoves ==
  ASSUME ~poisoned, CloseProgress, UNCHANGED <<wire, writing, script, poisoned>>
  PROVE  Moves
  BY TurnTypes DEF CloseProgress, Moves, Enqueues, streamVars

Sending ==
    \/ UNCHANGED streamVars
    \/ \E e \in Emitters : \E series \in Seq(PlainEvents) : series # <<>> /\ Sends(e, series)

LEMMA SendMoves ==
  ASSUME ~poisoned, NEW e \in Emitters, NEW series \in Seq(PlainEvents), series # <<>>,
         Emit(e, series), UNCHANGED <<wire, writing, poisoned>>
  PROVE  Sending
  BY DEF Sending, Sends

LEMMA MainSends ==
  ASSUME BaseInv, \/ UpdateUsage \/ FinalStart \/ ErrorWrite
                  \/ \E t \in Tools : EmitUse(t) \/ EmitResult(t)
  PROVE  Sending
<1> USE DEF BaseInv
<1>0. "main" \in Emitters /\ Tools \subseteq Emitters
      /\ AS!Kinds = {"message_start", "start", "delta", "stop", "message_delta",
                     "message_stop", "usage", "error"}
  BY DEF Emitters, AS!Kinds
<1>1. CASE UpdateUsage
  <2>1. <<Event("usage", 0)>> \in Seq(PlainEvents) /\ <<Event("usage", 0)>> # <<>>
    BY <1>0, EventTypes
  <2> QED
    BY <1>0, <1>1, <2>1, SendMoves DEF UpdateUsage
<1>2. CASE FinalStart
  <2>1. PICK i \in Nat : Emit("main", FinalEvents(i))
    BY <1>2 DEF FinalStart, ProgressTypes, HandlerTypes
  <2>2. FinalEvents(i) \in Seq(PlainEvents) /\ FinalEvents(i) # <<>>
    <3>1. FinalEvents(i) \in Seq(PlainEvents) /\ Len(FinalEvents(i)) = 3 * FinalBlocks + 2
      BY FinalTypes
    <3>2. Len(FinalEvents(i)) # 0
      BY <3>1, ConstantsAssumption
    <3> QED
      BY <3>1, <3>2, EmptySeq
  <2> QED
    BY <1>0, <1>2, <2>1, <2>2, SendMoves DEF FinalStart
<1>3. CASE ErrorWrite
  <2>1. <<Event("error", 0)>> \in Seq(PlainEvents) /\ <<Event("error", 0)>> # <<>>
    BY <1>0, EventTypes
  <2> QED
    BY <1>0, <1>3, <2>1, SendMoves DEF ErrorWrite
<1>4. ASSUME NEW t \in Tools, EmitUse(t)
      PROVE  Sending
  <2>1. bridge \in Nat
    BY <1>4 DEF EmitUse, HandlerTypes
  <2>2. Cardinality({s \in Tools : tool[s] = "running"}) \in Nat
    BY ConstantsAssumption, FS_Subset, FS_CardinalityType
  <2>3. PICK i \in Nat : Emit("main", Block(i))
    BY <1>4, <2>1, <2>2 DEF EmitUse
  <2>4. Block(i) \in Seq(PlainEvents) /\ Block(i) # <<>>
    BY EventTypes DEF Block
  <2>5. ~poisoned
    BY <1>4 DEF EmitUse, MainWaits
  <2> QED
    BY <1>0, <1>4, <2>3, <2>4, <2>5, SendMoves DEF EmitUse
<1>5. ASSUME NEW t \in Tools, EmitResult(t)
      PROVE  Sending
  <2>1. bridge \in Nat
    BY <1>5 DEF EmitResult, HandlerTypes
  <2>2. ResultBlock(bridge) \in Seq(PlainEvents) /\ ResultBlock(bridge) # <<>>
    BY <2>1, EventTypes DEF ResultBlock
  <2>3. CASE closed
    BY <1>5, <2>3 DEF EmitResult, Sending, streamVars
  <2>4. CASE ~closed
    BY <1>0, <1>5, <2>2, <2>4, SendMoves DEF EmitResult
  <2> QED
    BY <2>3, <2>4
<1> QED
  BY <1>1, <1>2, <1>3, <1>4, <1>5

LEMMA MainMoves ==
  ASSUME BaseInv, MainStep
  PROVE  Moves
<1> USE DEF BaseInv
<1>1. CASE Open \/ OpenFails
  BY <1>1 DEF Open, OpenFails, Moves, Opens
<1>2. CASE OpenBanner
  BY <1>2, TurnTypes DEF OpenBanner, Moves, Enqueues, streamVars, Quiet
<1>3. CASE \/ UpdateUsage \/ FinalStart \/ ErrorWrite
           \/ \E t \in Tools : EmitUse(t) \/ EmitResult(t)
  BY <1>3, MainSends DEF Sending, Moves
<1>4. CASE BridgeClose \/ FinalClose \/ ErrorClose
  BY <1>4, CloseMoves DEF BridgeClose, FinalClose, ErrorClose
<1>5. CASE \/ Opened \/ UsageWritten \/ BridgeStart \/ UsesEmitted \/ ToolsDone \/ Fail
           \/ FinalUpdate \/ FinalDone \/ ErrorLeave \/ ErrorEscapes \/ ErrorDone
           \/ \E t \in Tools : ResultEmitted(t) \/ ToolThrows(t)
  BY <1>5 DEF Opened, UsageWritten, BridgeStart, UsesEmitted, ToolsDone, Fail, FinalUpdate,
     FinalDone, ErrorLeave, ErrorEscapes, ErrorDone, ResultEmitted, ToolThrows, Moves, streamVars
<1> QED
  BY <1>1, <1>2, <1>3, <1>4, <1>5 DEF MainStep

LEMMA StepMoves ==
  ASSUME BaseInv, [Next]_vars
  PROVE  Moves
<1>1. CASE RunHook
  BY <1>1, TurnTypes DEF RunHook, Moves, Enqueues, streamVars
<1>2. CASE Release
  <2>1. Head(releasing) \in Entry
    BY <1>2 DEF Release, BaseInv, ProgressTypes
  <2> QED
    BY <1>2, <2>1, TurnTypes DEF Release, Moves, Enqueues, streamVars
<1>3. CASE FlushTimer \/ Update \/ Elapse \/ Disconnect \/ UNCHANGED vars
  BY <1>3 DEF FlushTimer, Update, Elapse, Disconnect, vars, Moves, streamVars
<1>4. CASE QueueStep
  BY <1>4 DEF Moves
<1> QED
  BY <1>1, <1>2, <1>3, <1>4, MainMoves DEF Next, ProgressStep

(* The chain is always what it should be. *)
ChainInv == StreamTypes /\ Rejected /\ WritingKnown

LEMMA EnqueueKeepsChain ==
  ASSUME BaseInv, NEW o \in Updates \cup Turns, Enqueues(o)
  PROVE  ChainInv'
<1> USE DEF BaseInv
<1>1. o \in Operations
  BY DEF Operations
<1>2. /\ queue' \in Seq(Operations) /\ queue' # <<>>
      /\ queue # <<>> => Head(queue') = Head(queue)
  BY <1>1 DEF Enqueues, StreamTypes
<1>3. wire' = wire /\ writing' = writing /\ script' = script /\ poisoned' = FALSE
  BY DEF Enqueues, StreamTypes
<1>4. StreamTypes'
  BY <1>2, <1>3 DEF StreamTypes
<1>5. Rejected' /\ WritingKnown'
  BY <1>2, <1>3 DEF Rejected, WritingKnown
<1> QED
  BY <1>4, <1>5 DEF ChainInv

LEMMA SendKeepsChain ==
  ASSUME BaseInv, NEW e \in Emitters, NEW series \in Seq(PlainEvents), series # <<>>,
         Sends(e, series)
  PROVE  ChainInv'
<1> USE DEF BaseInv
<1>1. Head(series) \in PlainEvents /\ Tail(series) \in Seq(PlainEvents)
  BY HeadTailProperties
<1>2. Raw(e, Head(series)) \in Operations
  BY <1>1 DEF Raw, Raws, Operations
<1>3. /\ queue' \in Seq(Operations) /\ queue' # <<>>
      /\ queue # <<>> => Head(queue') = Head(queue)
  BY <1>2 DEF Sends, Emit, StreamTypes
<1>4. /\ wire' = wire /\ writing' = writing /\ poisoned' = FALSE
      /\ script' = [script EXCEPT ![e] = Tail(series)]
  BY DEF Sends, Emit, StreamTypes
<1>5. StreamTypes'
  BY <1>1, <1>3, <1>4 DEF StreamTypes
<1>6. Rejected' /\ WritingKnown'
  BY <1>3, <1>4 DEF Rejected, WritingKnown
<1> QED
  BY <1>5, <1>6 DEF ChainInv

LEMMA StartKeepsChain ==
  ASSUME BaseInv, StartRaw \/ StartUpdate \/ StartBanner \/ StartClose
  PROVE  ChainInv'
<1> USE DEF BaseInv
<1>0. /\ queue # <<>> /\ writing = <<>> /\ Head(queue) \in Operations
      /\ Tail(queue) \in Seq(Operations)
      /\ wire' = wire /\ script' = script /\ poisoned' = poisoned /\ ~poisoned
  BY HeadTailProperties DEF StartRaw, StartUpdate, StartBanner, StartClose, StreamTypes, Rejected
<1>1. CASE StartRaw
  <2>1. queue' = queue /\ writing' = <<Head(queue).ev>> /\ Head(queue).ev \in Events
    BY <1>0, <1>1, OperationTypes, EventTypes DEF StartRaw
  <2>2. StreamTypes'
    BY <1>0, <2>1 DEF StreamTypes
  <2> QED
    BY <1>0, <2>1, <2>2 DEF ChainInv, Rejected, WritingKnown
<1>2. CASE Head(queue).op # "raw" /\ queue' = Tail(queue) /\ writing' = writing
  <2>1. StreamTypes'
    BY <1>0, <1>2 DEF StreamTypes
  <2> QED
    BY <1>0, <1>2, <2>1 DEF ChainInv, Rejected, WritingKnown
<1>3. CASE Head(queue).op # "raw" /\ queue' = queue /\ writing' \in Seq(Events)
  <2>1. StreamTypes'
    BY <1>0, <1>3 DEF StreamTypes
  <2> QED
    BY <1>0, <1>3, <2>1 DEF ChainInv, Rejected, WritingKnown
<1>4. Head(queue).op = "update" => Head(queue).entry.n \in Nat
  BY <1>0, OperationTypes DEF Entry
<1>5. nextContentIndex \in Nat /\ (progressBlock # None => progressBlock \in Nat)
  BY DEF ProgressTypes
<1>6. CASE StartUpdate
  <2>1. /\ queue' = Tail(queue) /\ writing' = writing
        \/ /\ queue' = queue
           /\ \/ /\ writing' = <<Event("start", nextContentIndex),
                                  Timeline(nextContentIndex, 1, Head(queue).entry.n)>>
              \/ /\ progressBlock # None
                 /\ writing' = <<Timeline(progressBlock, Head(queue).entry.n, Head(queue).entry.n)>>
    BY <1>6 DEF StartUpdate
  <2>2. Event("start", nextContentIndex) \in Events
    BY <1>5, EventTypes DEF AS!Kinds
  <2>3. Head(queue).op = "update" /\ Head(queue).entry.n \in Nat
    BY <1>4, <1>6 DEF StartUpdate
  <2>4. Timeline(nextContentIndex, 1, Head(queue).entry.n) \in Events
    BY <1>5, <2>3, EventTypes
  <2>5. progressBlock # None =>
          Timeline(progressBlock, Head(queue).entry.n, Head(queue).entry.n) \in Events
    BY <1>5, <2>3, EventTypes
  <2>6. CASE queue' = Tail(queue) /\ writing' = writing
    BY <1>2, <2>3, <2>6
  <2>7. CASE ~(queue' = Tail(queue) /\ writing' = writing)
    <3>1. queue' = queue
      BY <2>1, <2>7
    <3>2. writing' \in Seq(Events)
      BY <2>1, <2>2, <2>4, <2>5, <2>7, ShortTypes
    <3> QED
      BY <1>3, <2>3, <3>1, <3>2
  <2> QED
    BY <2>6, <2>7
<1>7. CASE StartBanner
  <2>1. /\ queue' = Tail(queue) /\ writing' = writing
        \/ /\ queue' = queue /\ writing' = Block(nextContentIndex)
    BY <1>7 DEF StartBanner
  <2>2. Block(nextContentIndex) \in Seq(Events)
    <3>1. \A k \in {"start", "delta", "stop"} : Event(k, nextContentIndex) \in Events
      BY <1>5, EventTypes DEF AS!Kinds
    <3> QED
      BY <3>1 DEF Block
  <2>3. Head(queue).op # "raw"
    BY <1>7 DEF StartBanner
  <2> QED
    BY <1>2, <1>3, <2>1, <2>2, <2>3
<1>8. CASE StartClose
  <2>1. /\ queue' = Tail(queue) /\ writing' = writing
        \/ /\ queue' = queue /\ progressBlock # None
           /\ writing' = <<Event("delta", progressBlock), Event("stop", progressBlock)>>
    BY <1>8 DEF StartClose
  <2>2. progressBlock # None =>
          Event("delta", progressBlock) \in Events /\ Event("stop", progressBlock) \in Events
    BY <1>5, EventTypes DEF AS!Kinds
  <2>3. Head(queue).op # "raw"
    BY <1>8 DEF StartClose
  <2>4. CASE queue' = Tail(queue) /\ writing' = writing
    BY <1>2, <2>3, <2>4
  <2>5. CASE ~(queue' = Tail(queue) /\ writing' = writing)
    <3>1. queue' = queue /\ writing' \in Seq(Events)
      BY <2>1, <2>2, <2>5, ShortTypes
    <3> QED
      BY <1>3, <2>3, <3>1
  <2> QED
    BY <2>4, <2>5
<1> QED
  BY <1>1, <1>6, <1>7, <1>8

(* What a write leaves of the chain.                                       *)
Continues(op) == op.op = "raw" /\ script[op.by] # <<>> /\ ~closed

LEMMA WriteEffects ==
  ASSUME BaseInv, WriteEvent
  PROVE  /\ writing # <<>> /\ queue # <<>> /\ ~gone /\ ~poisoned
         /\ Head(queue) \in Operations /\ Head(writing) \in Events /\ Tail(queue) \in Seq(Operations)
         /\ wire' = Append(wire, Head(writing)) /\ poisoned' = FALSE
         /\ writing' = Tail(writing) /\ writing' \in Seq(Events)
         /\ \/ /\ Len(writing) > 1 /\ writing' # <<>> /\ Head(queue).op # "raw"
               /\ queue' = queue /\ script' = script
            \/ /\ Len(writing) = 1 /\ writing' = <<>> /\ Continues(Head(queue))
               /\ queue' = Append(Tail(queue), Raw(Head(queue).by, Head(script[Head(queue).by])))
               /\ script' = [script EXCEPT ![Head(queue).by] = Tail(@)]
            \/ /\ Len(writing) = 1 /\ writing' = <<>> /\ ~Continues(Head(queue))
               /\ queue' = Tail(queue)
               /\ script' = IF Head(queue).op = "raw" THEN [script EXCEPT ![Head(queue).by] = <<>>]
                            ELSE script
<1> USE DEF BaseInv
<1>1. /\ writing # <<>> /\ queue # <<>> /\ ~gone /\ ~poisoned /\ poisoned' = poisoned
      /\ Head(queue).op = "raw" => writing = <<Head(queue).ev>>
  BY DEF WriteEvent, WritingKnown, Rejected
<1>2. /\ Head(queue) \in Operations /\ Tail(queue) \in Seq(Operations)
      /\ Head(writing) \in Events /\ Tail(writing) \in Seq(Events)
  BY <1>1, HeadTailProperties DEF StreamTypes
<1>3. /\ Len(writing) \in Nat /\ Len(writing) >= 1
      /\ Len(Tail(writing)) = Len(writing) - 1
  BY <1>1, HeadTailProperties, EmptySeq DEF StreamTypes
<1>4. Tail(writing) = <<>> <=> Len(writing) = 1
  <2> DEFINE w == Tail(writing)
  <2>1. w \in Seq(Events) /\ Len(w) = Len(writing) - 1
    BY <1>2, <1>3
  <2> HIDE DEF w
  <2>2. w = <<>> <=> Len(w) = 0
    BY <2>1, EmptySeq
  <2>3. w = <<>> <=> Len(writing) = 1
    BY <1>3, <2>1, <2>2
  <2> QED
    BY <2>3 DEF w
<1>5. Len(writing) > 1 => Head(queue).op # "raw"
  <2> SUFFICES ASSUME Head(queue).op = "raw", Len(writing) > 1 PROVE FALSE
    OBVIOUS
  <2>1. writing = <<Head(queue).ev>>
    BY <1>1
  <2> HIDE DEF BaseInv
  <2> QED
    BY <2>1
<1>6. poisoned' = FALSE
  BY <1>1 DEF StreamTypes
<1> QED
  BY <1>1, <1>2, <1>3, <1>4, <1>5, <1>6 DEF WriteEvent, Continues

LEMMA WriteKeepsChain ==
  ASSUME BaseInv, WriteEvent \/ WriteFails
  PROVE  ChainInv'
<1> USE DEF BaseInv
<1>1. CASE WriteEvent
  <2>0. /\ writing # <<>> /\ queue # <<>> /\ ~gone /\ ~poisoned
         /\ Head(queue) \in Operations /\ Head(writing) \in Events /\ Tail(queue) \in Seq(Operations)
         /\ wire' = Append(wire, Head(writing)) /\ poisoned' = FALSE
         /\ writing' = Tail(writing) /\ writing' \in Seq(Events)
    BY <1>1, WriteEffects
  <2>1. wire' \in Seq(Events)
    BY <2>0 DEF StreamTypes
  <2>2. /\ queue' \in Seq(Operations) /\ script' \in [Emitters -> Seq(PlainEvents)]
    <3>1. Head(queue).op = "raw" => Head(queue).by \in Emitters
      BY <2>0, OperationTypes
    <3>2. CASE Continues(Head(queue)) /\ writing' = <<>>
      <4>1. /\ queue' = Append(Tail(queue), Raw(Head(queue).by, Head(script[Head(queue).by])))
            /\ script' = [script EXCEPT ![Head(queue).by] = Tail(@)]
        BY <1>1, <3>2, WriteEffects
      <4>2. script[Head(queue).by] \in Seq(PlainEvents) /\ script[Head(queue).by] # <<>>
        BY <3>1, <3>2 DEF Continues, StreamTypes
      <4>3. Head(script[Head(queue).by]) \in PlainEvents /\ Tail(script[Head(queue).by]) \in Seq(PlainEvents)
        BY <4>2, HeadTailProperties
      <4>4. Raw(Head(queue).by, Head(script[Head(queue).by])) \in Operations
        BY <3>1, <3>2, <4>3 DEF Continues, Raw, Raws, Operations
      <4>5. queue' \in Seq(Operations)
        BY <2>0, <4>1, <4>4
      <4>6. script' \in [Emitters -> Seq(PlainEvents)]
        BY <4>1, <4>3 DEF StreamTypes
      <4> QED
        BY <4>5, <4>6
    <3>3. CASE ~(Continues(Head(queue)) /\ writing' = <<>>)
      <4>1. /\ queue' \in {queue, Tail(queue)}
            /\ \/ script' = script
               \/ Head(queue).op = "raw" /\ script' = [script EXCEPT ![Head(queue).by] = <<>>]
        BY <1>1, <3>3, WriteEffects
      <4>2. <<>> \in Seq(PlainEvents)
        OBVIOUS
      <4>3. script' \in [Emitters -> Seq(PlainEvents)]
        BY <3>1, <4>1, <4>2 DEF StreamTypes
      <4> QED
        BY <2>0, <4>1, <4>3 DEF StreamTypes
    <3> QED
      BY <3>2, <3>3
  <2>3. StreamTypes'
    BY <2>0, <2>1, <2>2 DEF StreamTypes
  <2>4. writing' # <<>> => queue' = queue /\ Head(queue).op # "raw"
    BY <1>1, WriteEffects
  <2> QED
    BY <2>0, <2>3, <2>4 DEF ChainInv, Rejected, WritingKnown
<1>2. CASE WriteFails
  <2>1. /\ wire' \in {wire, Append(wire, Head(writing))} /\ writing # <<>>
        /\ poisoned' = TRUE /\ queue' = <<>> /\ writing' = <<>>
        /\ script' = [e \in Emitters |-> <<>>]
    BY <1>2 DEF WriteFails
  <2>2. Head(writing) \in Events /\ wire \in Seq(Events)
    BY <2>1, HeadTailProperties DEF StreamTypes
  <2>5. Append(wire, Head(writing)) \in Seq(Events)
    BY <2>2, AppendProperties
  <2>3. wire' \in Seq(Events)
    BY <2>1, <2>2, <2>5
  <2>4. StreamTypes'
    BY <2>1, <2>3 DEF StreamTypes
  <2> QED
    BY <2>1, <2>4 DEF ChainInv, Rejected, WritingKnown
<1> QED
  BY <1>1, <1>2

LEMMA StepKeepsChain ==
  ASSUME BaseInv, [Next]_vars
  PROVE  ChainInv'
<1>1. CASE UNCHANGED streamVars
  BY <1>1 DEF BaseInv, ChainInv, streamVars, StreamTypes, Rejected, WritingKnown
<1>2. CASE Opens
  <2>1. Event("message_start", 0) \in Events
    BY EventTypes DEF AS!Kinds
  <2>2. wire' \in Seq(Events)
    BY <1>2, <2>1 DEF Opens
  <2> QED
    BY <1>2, <2>2 DEF Opens, BaseInv, ChainInv, StreamTypes, Rejected, WritingKnown
<1> QED
  BY <1>1, <1>2, StepMoves, EnqueueKeepsChain, SendKeepsChain, StartKeepsChain,
     WriteKeepsChain DEF Moves, QueueStep

(* The steps that touch the updates: what they add is a fragment, and what *)
(* they keep was there.                                                    *)
LEMMA ProgressKeepsTypes ==
  ASSUME BaseInv, ProgressStep \/ Update \/ FinalUpdate
  PROVE  ProgressTypes'
<1> USE DEF BaseInv
<1>0. ProgressTypes
  OBVIOUS
<1>1. CASE FlushTimer
  BY <1>0, <1>1 DEF FlushTimer, ProgressTypes, flagVars
<1>2. CASE RunHook
  <2>1. /\ hook' \in {"done", "running"} /\ pendingUpdates' \in {pendingUpdates, <<>>}
        /\ UNCHANGED <<gone, late, content, releasing, visible, progressBlock, nextContentIndex,
                       progressClosed, closed>>
    BY <1>2 DEF RunHook
  <2>2. pendingUpdates' \in Seq(Entry)
    BY <1>0, <2>1, EmptySeq DEF ProgressTypes
  <2> QED
    BY <1>0, <2>1, <2>2 DEF ProgressTypes
<1>3. CASE Release
  <2>1. Tail(releasing) \in Seq(Entry)
    BY <1>0, <1>3, HeadTailProperties DEF Release, ProgressTypes
  <2> QED
    BY <1>0, <1>3, <2>1 DEF Release, ProgressTypes, flagVars
<1>4. CASE Update \/ FinalUpdate
  <2>1. \A emit \in BOOLEAN : [n |-> content + 1, emit |-> emit] \in Entry
    BY <1>0 DEF ProgressTypes, Entry
  <2>2. content' \in {content, content + 1}
    BY <1>4 DEF Update, FinalUpdate
  <2>3. \E e \in Entry :
          /\ pendingUpdates' \in {pendingUpdates, <<>>, <<e>>, Append(pendingUpdates, e)}
          /\ releasing' \in {releasing, (releasing \o pendingUpdates) \o <<e>>, Append(releasing, e)}
    <3>1. CASE Update
      <4>1. PICK emit \in BOOLEAN :
              LET e == [n |-> content + 1, emit |-> emit] IN
              /\ pendingUpdates' \in {<<>>, Append(pendingUpdates, e)}
              /\ releasing' \in {releasing, (releasing \o pendingUpdates) \o <<e>>}
        BY <3>1 DEF Update
      <4> QED
        BY <2>1, <4>1
    <3>2. CASE FinalUpdate
      <4>1. LET e == [n |-> content + 1, emit |-> TRUE] IN
              /\ pendingUpdates' \in {pendingUpdates, <<>>, <<e>>}
              /\ releasing' \in {releasing, Append(releasing, e)}
        BY <3>2 DEF FinalUpdate
      <4> QED
        BY <2>1, <4>1
    <3> QED
      BY <1>4, <3>1, <3>2
  <2>4. pendingUpdates' \in Seq(Entry) /\ releasing' \in Seq(Entry)
    <3>1. PICK e \in Entry :
            /\ pendingUpdates' \in {pendingUpdates, <<>>, <<e>>, Append(pendingUpdates, e)}
            /\ releasing' \in {releasing, (releasing \o pendingUpdates) \o <<e>>, Append(releasing, e)}
      BY <2>3
    <3>2. /\ pendingUpdates \in Seq(Entry) /\ releasing \in Seq(Entry) /\ <<e>> \in Seq(Entry)
          /\ <<>> \in Seq(Entry)
      BY <1>0, ShortTypes DEF ProgressTypes
    <3>3. releasing \o pendingUpdates \in Seq(Entry)
      BY <3>2, ConcatProperties
    <3>4. (releasing \o pendingUpdates) \o <<e>> \in Seq(Entry)
      BY <3>2, <3>3, ConcatProperties
    <3>5. Append(releasing, e) \in Seq(Entry) /\ Append(pendingUpdates, e) \in Seq(Entry)
      BY <3>2, AppendProperties
    <3> QED
      BY <3>1, <3>2, <3>4, <3>5
  <2> QED
    BY <1>0, <1>4, <2>2, <2>4 DEF Update, FinalUpdate, ProgressTypes, flagVars
<1> QED
  BY <1>1, <1>2, <1>3, <1>4 DEF ProgressStep

LEMMA ChainKeepsProgressTypes ==
  ASSUME BaseInv, QueueStep
  PROVE  ProgressTypes'
<1> USE DEF BaseInv
<1>0. ProgressTypes
  OBVIOUS
<1>1. CASE StartUpdate
  <2>1. /\ visible' \in {visible, TRUE}
        /\ nextContentIndex' \in {nextContentIndex, nextContentIndex + 1}
        /\ progressBlock' \in {progressBlock, nextContentIndex}
        /\ UNCHANGED <<gone, late, content, pendingUpdates, releasing, hook, progressClosed, closed>>
    BY <1>1 DEF StartUpdate, progressVars
  <2>2. visible' \in BOOLEAN
    BY <1>0, <2>1, Zenon DEF ProgressTypes
  <2> QED
    BY <1>0, <2>1, <2>2 DEF ProgressTypes
<1>2. CASE StartBanner \/ StartClose
  <2>1. /\ hook' \in {hook, "done"} /\ visible' \in {visible, TRUE}
        /\ nextContentIndex' \in {nextContentIndex, nextContentIndex + 1}
        /\ progressBlock' \in {progressBlock, None}
        /\ UNCHANGED <<gone, late, content, pendingUpdates, releasing, progressClosed, closed>>
    BY <1>2 DEF StartBanner, StartClose, progressVars
  <2>2. visible' \in BOOLEAN
    BY <1>0, <2>1, Zenon DEF ProgressTypes
  <2> QED
    BY <1>0, <2>1, <2>2 DEF ProgressTypes
<1>3. CASE StartRaw \/ WriteFails
  BY <1>0, <1>3 DEF StartRaw, WriteFails, ProgressTypes, progressVars, flagVars
<1>4. CASE WriteEvent
  <2>1. hook' \in {hook, "done"}
    BY <1>4 DEF WriteEvent
  <2> QED
    BY <1>0, <1>4, <2>1 DEF WriteEvent, ProgressTypes, progressVars
<1> QED
  BY <1>1, <1>2, <1>3, <1>4 DEF QueueStep

LEMMA StepKeepsProgressTypes ==
  ASSUME BaseInv, [Next]_vars
  PROVE  ProgressTypes'
<1>0. ProgressTypes
  BY DEF BaseInv
<1>1. CASE BridgeClose \/ FinalClose \/ ErrorClose
  <2>1. /\ progressClosed' \in {progressClosed, TRUE}
        /\ pendingUpdates' \in {pendingUpdates, <<>>}
        /\ UNCHANGED <<gone, late, content, releasing, flagVars, closed>>
    BY <1>1 DEF BridgeClose, FinalClose, ErrorClose, CloseProgress
  <2>2. pendingUpdates' \in Seq(Entry)
    BY <1>0, <2>1, EmptySeq DEF ProgressTypes
  <2> QED
    BY <1>0, <2>1, <2>2 DEF ProgressTypes, flagVars
<1>2. CASE FinalDone \/ ErrorLeave \/ ErrorEscapes \/ ErrorDone
  <2>1. /\ closed' = TRUE /\ pendingUpdates' = <<>>
        /\ UNCHANGED <<gone, late, content, releasing, flagVars, progressClosed>>
    BY <1>2 DEF FinalDone, ErrorLeave, ErrorEscapes, ErrorDone, Stop
  <2>2. pendingUpdates' \in Seq(Entry)
    BY <2>1, EmptySeq
  <2> QED
    BY <1>0, <2>1, <2>2 DEF ProgressTypes, flagVars
<1>3. CASE \/ Open \/ OpenFails \/ OpenBanner \/ Opened \/ UpdateUsage \/ UsageWritten
           \/ BridgeStart \/ UsesEmitted \/ ToolsDone \/ Fail \/ FinalStart \/ ErrorWrite
           \/ \E t \in Tools : EmitUse(t) \/ EmitResult(t) \/ ResultEmitted(t) \/ ToolThrows(t)
           \/ UNCHANGED vars
  <2>1. UNCHANGED <<gone, progressVars, flagVars, progressClosed, closed>>
    BY <1>3 DEF Open, OpenFails, OpenBanner, Opened, UpdateUsage, UsageWritten, BridgeStart,
       UsesEmitted, ToolsDone, Fail, FinalStart, ErrorWrite, EmitUse, EmitResult, ResultEmitted,
       ToolThrows, vars, progressVars, flagVars
  <2> QED
    BY <1>0, <2>1 DEF progressVars, flagVars, ProgressTypes
<1>4. CASE Elapse \/ Disconnect
  BY <1>0, <1>4 DEF Elapse, Disconnect, flagVars, progressVars, ProgressTypes
<1> QED
  BY <1>1, <1>2, <1>3, <1>4, ProgressKeepsTypes, ChainKeepsProgressTypes DEF Next, MainStep

LEMMA StepKeepsHandlerTypes ==
  ASSUME BaseInv, [Next]_vars
  PROVE  HandlerTypes'
<1>0. HandlerTypes /\ nextContentIndex \in Nat
  BY DEF BaseInv, ProgressTypes
<1>1. CASE QueueStep \/ ProgressStep \/ Update \/ Elapse \/ Disconnect \/ UNCHANGED vars
  <2>1. main' = main /\ tool' = tool /\ bridge' = bridge
    BY <1>1 DEF QueueStep, StartRaw, StartUpdate, StartBanner, StartClose, WriteEvent, WriteFails,
       ProgressStep, FlushTimer, RunHook, Release, Update, Elapse, Disconnect, vars
  <2> QED
    BY <1>0, <2>1 DEF HandlerTypes
<1>2. CASE \/ Open \/ OpenFails \/ OpenBanner \/ Opened \/ UpdateUsage \/ UsageWritten
           \/ BridgeClose \/ ToolsDone \/ Fail \/ FinalUpdate \/ FinalClose \/ FinalStart
           \/ FinalDone \/ ErrorLeave \/ ErrorEscapes \/ ErrorClose \/ ErrorWrite \/ ErrorDone
  <2>1. /\ tool' = tool /\ bridge' = bridge
        /\ main' \in MainStates \ {"uses", "tools"}
    BY <1>2 DEF Open, OpenFails, OpenBanner, Opened, UpdateUsage, UsageWritten, BridgeClose,
       ToolsDone, Fail, FinalUpdate, FinalClose, FinalStart, FinalDone, ErrorLeave, ErrorEscapes,
       ErrorClose, ErrorWrite, ErrorDone, Stop, MainStates
  <2> QED
    BY <1>0, <2>1 DEF HandlerTypes
<1>3. CASE BridgeStart
  BY <1>0, <1>3 DEF BridgeStart, HandlerTypes, MainStates
<1>4. CASE UsesEmitted
  <2>1. Cardinality(Tools) \in Nat
    BY ConstantsAssumption, FS_CardinalityType
  <2>2. bridge' \in Nat /\ main' = "tools" /\ tool' = tool
    BY <1>0, <1>4, <2>1 DEF UsesEmitted, HandlerTypes
  <2> QED
    BY <1>0, <2>2 DEF HandlerTypes, MainStates
<1>5. ASSUME NEW t \in Tools, EmitUse(t) \/ EmitResult(t) \/ ToolThrows(t)
      PROVE  HandlerTypes'
  <2>1. /\ bridge' = bridge /\ main' \in {main, "error"} /\ bridge \in Nat
        /\ \/ tool' = [tool EXCEPT ![t] = "running"]
           \/ tool' = [tool EXCEPT ![t] = "emitting"]
           \/ tool' = [tool EXCEPT ![t] = "thrown"]
    BY <1>0, <1>5 DEF EmitUse, EmitResult, ToolThrows, HandlerTypes
  <2> QED
    BY <1>0, <2>1 DEF HandlerTypes, MainStates
<1>6. ASSUME NEW t \in Tools, ResultEmitted(t)
      PROVE  HandlerTypes'
  <2>1. /\ bridge' = bridge + 1 /\ main' = main /\ bridge \in Nat
        /\ tool' = [tool EXCEPT ![t] = "done"]
    BY <1>0, <1>6 DEF ResultEmitted, HandlerTypes
  <2> QED
    BY <1>0, <2>1 DEF HandlerTypes
<1> QED
  BY <1>1, <1>2, <1>3, <1>4, <1>5, <1>6 DEF Next, MainStep

(* A stream whose handler is not past its first awaits is untouched.       *)
LEMMA StepKeepsQuiet ==
  ASSUME BaseInv, [Next]_vars
  PROVE  Quiet'
<1> SUFFICES ASSUME main' \in {"open", "banner"}
             PROVE  Quiet'
  BY DEF Quiet
<1>0. Quiet
  BY DEF BaseInv
<1>1. CASE Open
  BY <1>0, <1>1 DEF Open, Quiet, progressVars, flagVars
<1>2. CASE ~Open /\ MainStep
  <2>1. CASE \E t \in Tools : ResultEmitted(t)
    BY <1>0, <2>1 DEF ResultEmitted, Quiet, progressVars, flagVars
  <2>2. CASE \E t \in Tools : EmitUse(t) \/ EmitResult(t) \/ ToolThrows(t)
    BY <2>2 DEF EmitUse, EmitResult, ToolThrows
  <2>3. CASE ~(\E t \in Tools : EmitUse(t) \/ EmitResult(t) \/ ResultEmitted(t) \/ ToolThrows(t))
    BY <1>2, <2>3 DEF MainStep, OpenFails, OpenBanner, Opened, UpdateUsage, UsageWritten,
       BridgeClose, BridgeStart, UsesEmitted, ToolsDone, Fail, FinalUpdate, FinalClose,
       FinalStart, FinalDone, ErrorLeave, ErrorEscapes, ErrorClose, ErrorWrite, ErrorDone, Stop
  <2> QED
    BY <2>1, <2>2, <2>3
<1>3. CASE QueueStep \/ ProgressStep \/ Update
  <2>1. main' = main
    BY <1>3 DEF QueueStep, StartRaw, StartUpdate, StartBanner, StartClose, WriteEvent, WriteFails,
       ProgressStep, FlushTimer, RunHook, Release, Update
  <2>2. queue = <<>> /\ writing = <<>> /\ releasing = <<>> /\ pendingUpdates = <<>>
    BY <1>0, <2>1 DEF Quiet
  <2> QED
    BY <1>3, <2>1, <2>2 DEF QueueStep, StartRaw, StartUpdate, StartBanner, StartClose, WriteEvent,
       WriteFails, ProgressStep, FlushTimer, RunHook, Release, Update, CanUpdate
<1>4. CASE Elapse \/ Disconnect \/ UNCHANGED vars
  BY <1>0, <1>4 DEF Elapse, Disconnect, vars, Quiet, progressVars, flagVars
<1> QED
  BY <1>1, <1>2, <1>3, <1>4 DEF Next

LEMMA BaseStarts == Init => BaseInv
<1> SUFFICES ASSUME Init PROVE BaseInv
  OBVIOUS
<1>0. <<>> \in Seq(Events) /\ <<>> \in Seq(Operations) /\ <<>> \in Seq(PlainEvents) /\ <<>> \in Seq(Entry)
  BY EmptySeq
<1>1. StreamTypes
  BY <1>0 DEF Init, StreamTypes
<1>4. Rejected /\ WritingKnown
  BY DEF Init, Rejected, WritingKnown
<1>5. ProgressTypes
  BY <1>0 DEF Init, ProgressTypes
<1>2. HandlerTypes
  BY DEF Init, HandlerTypes, MainStates
<1>3. Quiet
  BY DEF Init, Quiet
<1>6. crossed \in BOOLEAN
  BY DEF Init
<1> QED
  BY <1>1, <1>2, <1>3, <1>4, <1>5, <1>6 DEF BaseInv

LEMMA StepIsWatched ==
  ASSUME crossed \in BOOLEAN, [Next]_vars
  PROVE  /\ crossed' \in BOOLEAN /\ (~crossed' => ~crossed)
         /\ ~crossed' => Serial' \/ UNCHANGED vars
<1>1. Watch \/ UNCHANGED vars
  BY DEF Next
<1>2. CASE Watch
  BY <1>2 DEF Watch
<1>3. CASE UNCHANGED vars
  BY <1>3 DEF vars
<1> QED
  BY <1>1, <1>2, <1>3

LEMMA BaseKept ==
  ASSUME BaseInv, [Next]_vars
  PROVE  BaseInv'
  BY StepKeepsChain, StepKeepsProgressTypes, StepKeepsHandlerTypes, StepKeepsQuiet, StepIsWatched
     DEF BaseInv, ChainInv

LEMMA BaseHolds == Spec => []BaseInv
  BY BaseStarts, BaseKept, PTL DEF Spec
-----------------------------------------------------------------------------
(* The timeline.  What is shown grows at its end: a fragment that is being *)
(* written joins it, wherever the write stops.                             *)
ShownIn(w) == Select(w, LAMBDA e : e.to > 0)
Frontier(w) == IF ShownIn(w) = <<>> THEN 0 ELSE Last(ShownIn(w)).to

Gapless(w) ==
    \A j \in 1..Len(ShownIn(w)) :
      /\ ShownIn(w)[j].from = IF j = 1 THEN 1 ELSE ShownIn(w)[j - 1].to + 1
      /\ ShownIn(w)[j].from <= ShownIn(w)[j].to

AllShown(w, n) == \A j \in 1..Len(ShownIn(w)) : ShownIn(w)[j].to <= n

TextAt(q, j) ==
    /\ j \in 1..Len(q)
    /\ q[j].to > 0
    /\ \A l \in 1..Len(q) : q[l].to > 0 => l = j

WritingText ==
    \A j \in 1..Len(writing) : writing[j].to > 0 =>
      /\ TextAt(writing, j)
      /\ writing[j].from = Frontier(wire) + 1
      /\ writing[j].from <= writing[j].to
      /\ writing[j].to <= content

LEMMA ShownTypes ==
  ASSUME NEW w \in Seq(Events)
  PROVE  /\ ShownIn(w) \in Seq(Events)
         /\ Frontier(w) \in Nat
<1>1. ShownIn(w) \in Seq(Events)
  BY SubsequenceType DEF ShownIn, Select
<1>2. Frontier(w) \in Nat
  <2> DEFINE q == ShownIn(w)
  <2>1. CASE q = <<>>
    BY <2>1 DEF Frontier
  <2>2. CASE q # <<>>
    <3>1. q \in Seq(Events)
      BY <1>1
    <3> HIDE DEF q
    <3>2. Len(q) \in 1..Len(q)
      BY <2>2, <3>1, EmptySeq
    <3>3. q[Len(q)] \in Events
      BY <3>1, <3>2, ElementOfSeq
    <3>4. q[Len(q)].to \in Nat
      BY <3>3 DEF Events
    <3> QED
      BY <2>2, <3>4 DEF Frontier, Last, q
  <2> QED
    BY <2>1, <2>2
<1> QED
  BY <1>1, <1>2

LEMMA ShownGrows ==
  ASSUME NEW w \in Seq(Events), NEW e \in Events
  PROVE  ShownIn(Append(w, e)) = IF e.to > 0 THEN Append(ShownIn(w), e) ELSE ShownIn(w)
<1> DEFINE I == {i \in DOMAIN w : w[i].to > 0}
           v == Append(w, e)
           K == {i \in DOMAIN v : v[i].to > 0}
<1>1. /\ Len(w) \in Nat /\ DOMAIN w = 1..Len(w) /\ DOMAIN v = 1..Len(w) + 1
      /\ v[Len(w) + 1] = e /\ \A i \in 1..Len(w) : v[i] = w[i]
  OBVIOUS
<1>2. ShownIn(w) = Subsequence(w, I) /\ ShownIn(v) = Subsequence(v, K)
  BY DEF ShownIn, Select
<1> HIDE DEF v
<1>3. CASE e.to > 0
  <2>1. K = I \cup {Len(w) + 1}
    BY <1>1, <1>3
  <2>2. I \in SUBSET DOMAIN w
    OBVIOUS
  <2> HIDE DEF I, K
  <2>3. Subsequence(Append(w, e), I \cup {Len(w) + 1}) = Append(Subsequence(w, I), e)
    BY <2>2, SubsequenceGrows
  <2> QED
    BY <1>2, <1>3, <2>1, <2>3 DEF v
<1>4. CASE ~(e.to > 0)
  <2>1. K = I
    BY <1>1, <1>4
  <2>2. I \in SUBSET DOMAIN w
    OBVIOUS
  <2> HIDE DEF I, K
  <2>3. Subsequence(Append(w, e), I) = Subsequence(w, I)
    BY <2>2, SubsequenceGrows
  <2> QED
    BY <1>2, <1>4, <2>1, <2>3 DEF v
<1> QED
  BY <1>3, <1>4 DEF v

(* A fragment that begins where the shown ones end. *)
LEMMA GaplessGrows ==
  ASSUME NEW w \in Seq(Events), NEW e \in Events, NEW n \in Nat, Gapless(w), AllShown(w, n),
         e.to > 0 => e.from = Frontier(w) + 1 /\ e.from <= e.to /\ e.to <= n
  PROVE  /\ Gapless(Append(w, e)) /\ AllShown(Append(w, e), n)
         /\ Frontier(Append(w, e)) = IF e.to > 0 THEN e.to ELSE Frontier(w)
<1> DEFINE q == ShownIn(w)
           r == ShownIn(Append(w, e))
<1>1. q \in Seq(Events) /\ Frontier(w) \in Nat
  BY ShownTypes
<1>2. r = IF e.to > 0 THEN Append(q, e) ELSE q
  BY ShownGrows
<1>3. CASE ~(e.to > 0)
  BY <1>2, <1>3 DEF Gapless, AllShown, Frontier
<1>4. CASE e.to > 0
  <2>1. r = Append(q, e)
    BY <1>2, <1>4
  <2>2. Gapless(w) <=> \A j \in 1..Len(q) :
          q[j].from = (IF j = 1 THEN 1 ELSE q[j - 1].to + 1) /\ q[j].from <= q[j].to
    BY DEF Gapless
  <2>3. Gapless(Append(w, e)) <=> \A j \in 1..Len(r) :
          r[j].from = (IF j = 1 THEN 1 ELSE r[j - 1].to + 1) /\ r[j].from <= r[j].to
    BY DEF Gapless
  <2>4. AllShown(w, n) <=> \A j \in 1..Len(q) : q[j].to <= n
    BY DEF AllShown
  <2>5. AllShown(Append(w, e), n) <=> \A j \in 1..Len(r) : r[j].to <= n
    BY DEF AllShown
  <2>6. /\ Frontier(w) = IF q = <<>> THEN 0 ELSE q[Len(q)].to
        /\ Frontier(Append(w, e)) = IF r = <<>> THEN 0 ELSE r[Len(r)].to
    BY DEF Frontier, Last
  <2> HIDE DEF q, r
  <2>7. /\ Len(q) \in Nat /\ Len(r) = Len(q) + 1 /\ r # <<>> /\ (q = <<>> <=> Len(q) = 0)
        /\ r[Len(q) + 1] = e
        /\ \A j \in 1..Len(q) : r[j] = q[j]
    BY <1>1, <2>1, AppendProperties, EmptySeq
  <2>8. ASSUME NEW j \in 1..Len(r)
        PROVE  /\ r[j].from = IF j = 1 THEN 1 ELSE r[j - 1].to + 1
               /\ r[j].from <= r[j].to /\ r[j].to <= n
    <3>1. CASE j \in 1..Len(q)
      <4>1. r[j] = q[j] /\ (j # 1 => r[j - 1] = q[j - 1])
        BY <2>7, <3>1
      <4> QED
        BY <2>2, <2>4, <3>1, <4>1
    <3>2. CASE j = Len(q) + 1
      <4>1. r[j] = e /\ (j # 1 => r[j - 1] = q[Len(q)] /\ q # <<>>) /\ (j = 1 => q = <<>>)
        BY <2>7, <3>2
      <4> QED
        BY <1>4, <2>6, <4>1
    <3> QED
      BY <2>7, <3>1, <3>2
  <2>9. Frontier(Append(w, e)) = e.to
    BY <2>6, <2>7
  <2> QED
    BY <1>4, <2>3, <2>5, <2>8, <2>9
<1> QED
  BY <1>3, <1>4

LEMMA TimelineIs == TimelineIsPrefix <=> Gapless(wire) /\ AllShown(wire, content)
  BY DEF TimelineIsPrefix, Gapless, AllShown, ShownIn

(* A write of the chain moves one event from what is being written to the  *)
(* wire.                                                                   *)
TextKnown == Gapless(wire) /\ AllShown(wire, content) /\ WritingText

LEMMA WritingMoves ==
  ASSUME BaseInv, TextKnown, writing # <<>>,
         wire' = Append(wire, Head(writing)), content' = content,
         writing' \in {Tail(writing), <<>>}
  PROVE  TextKnown'
<1>1. /\ writing \in Seq(Events) /\ wire \in Seq(Events) /\ content \in Nat
      /\ Head(writing) = writing[1] /\ Head(writing) \in Events /\ Len(writing) \in Nat
      /\ 1 \in 1..Len(writing) /\ Len(Tail(writing)) = Len(writing) - 1
      /\ \A j \in 1..Len(Tail(writing)) : Tail(writing)[j] = writing[j + 1] /\ j + 1 \in 1..Len(writing)
  BY HeadTailProperties, EmptySeq DEF BaseInv, StreamTypes, ProgressTypes
<1>2. Head(writing).to > 0 =>
        /\ Head(writing).from = Frontier(wire) + 1
        /\ Head(writing).from <= Head(writing).to /\ Head(writing).to <= content
  BY <1>1 DEF TextKnown, WritingText
<1>3. /\ Gapless(wire') /\ AllShown(wire', content)
      /\ Frontier(wire') = IF Head(writing).to > 0 THEN Head(writing).to ELSE Frontier(wire)
  BY <1>1, <1>2, GaplessGrows DEF TextKnown
<1>4. ASSUME NEW j \in 1..Len(writing'), writing'[j].to > 0
      PROVE  /\ TextAt(writing', j) /\ writing'[j].from = Frontier(wire') + 1
             /\ writing'[j].from <= writing'[j].to /\ writing'[j].to <= content
  <2>1. writing' = Tail(writing)
    <3>1. ASSUME writing' = <<>> PROVE FALSE
      BY <1>4, <3>1
    <3> QED
      BY <3>1
  <2>2. writing'[j] = writing[j + 1] /\ j + 1 \in 1..Len(writing) /\ j + 1 # 1
    BY <1>1, <2>1
  <2>3. /\ TextAt(writing, j + 1) /\ writing[j + 1].from = Frontier(wire) + 1
        /\ writing[j + 1].from <= writing[j + 1].to /\ writing[j + 1].to <= content
    BY <1>4, <2>2 DEF TextKnown, WritingText
  <2>4. ~(Head(writing).to > 0)
    BY <1>1, <2>2, <2>3 DEF TextAt
  <2>5. TextAt(writing', j)
    BY <1>1, <1>4, <2>1, <2>2, <2>3 DEF TextAt
  <2> QED
    BY <1>3, <2>2, <2>3, <2>4, <2>5
<1> QED
  BY <1>3, <1>4 DEF TextKnown, WritingText
-----------------------------------------------------------------------------
(* The updates on their way.  Those in the chain end with the fragment     *)
(* before the first one that is released or held back; behind these, the   *)
(* timeline has no more.                                                   *)
IsUpdate(u, j) == j \in 1..Len(u) /\ u[j].op = "update"
NoUpdates(u) == \A j \in 1..Len(u) : u[j].op # "update"
Fit(e) == e.n \in Nat /\ (~e.emit => e.n = 1)

UpTo(u, b) ==
    /\ \A j : IsUpdate(u, j) => u[j].entry.n \in 1..b /\ Fit(u[j].entry)
    /\ \A j, l : IsUpdate(u, j) /\ IsUpdate(u, l) /\ j < l => u[j].entry.n < u[l].entry.n
    /\ \A j : IsUpdate(u, j) => \A m \in u[j].entry.n..b :
         \E l : IsUpdate(u, l) /\ u[l].entry.n = m

(* From the fragment behind f on, all of them are there. *)
From(u, b, f) ==
    /\ f \in 1..b
    /\ \A j : IsUpdate(u, j) => u[j].entry.n > f
    /\ \A m \in f + 1..b : \E l : IsUpdate(u, l) /\ u[l].entry.n = m

LEMMA UpToNone ==
  ASSUME NEW u, NEW b \in Nat, NoUpdates(u)
  PROVE  UpTo(u, b)
  BY DEF UpTo, NoUpdates, IsUpdate

LEMMA AppendUpdate ==
  ASSUME NEW u \in Seq(Operations), NEW o \in Operations
  PROVE  \A j : IsUpdate(Append(u, o), j) <=>
                IsUpdate(u, j) \/ (j = Len(u) + 1 /\ o.op = "update")
  BY DEF IsUpdate

LEMMA TailUpdate ==
  ASSUME NEW u \in Seq(Operations), u # <<>>
  PROVE  /\ \A j : IsUpdate(Tail(u), j) <=> j \in Nat \ {0} /\ IsUpdate(u, j + 1)
         /\ \A j : IsUpdate(Tail(u), j) => Tail(u)[j] = u[j + 1]
         /\ \A j : IsUpdate(u, j) /\ j # 1 => j - 1 \in Nat \ {0} /\ IsUpdate(Tail(u), j - 1)
         /\ Head(u) = u[1] /\ 1 \in 1..Len(u)
<1>1. /\ Len(u) \in Nat \ {0} /\ Len(Tail(u)) = Len(u) - 1 /\ Head(u) = u[1]
      /\ \A i \in 1..Len(Tail(u)) : Tail(u)[i] = u[i + 1]
  BY HeadTailProperties, EmptySeq
<1> QED
  BY <1>1 DEF IsUpdate

(* An operation of another kind behind them. *)
LEMMA OtherBehind ==
  ASSUME NEW u \in Seq(Operations), NEW b \in Nat, NEW o \in Operations, o.op # "update"
  PROVE  /\ UpTo(u, b) => UpTo(Append(u, o), b)
         /\ \A f : From(u, b, f) => From(Append(u, o), b, f)
         /\ NoUpdates(u) => NoUpdates(Append(u, o))
<1> DEFINE v == Append(u, o)
<1>1. \A j : IsUpdate(v, j) <=> IsUpdate(u, j)
  BY AppendUpdate
<1>2. \A j : IsUpdate(u, j) => v[j] = u[j]
  BY DEF IsUpdate
<1>3. NoUpdates(u) => NoUpdates(v)
  BY DEF NoUpdates
<1> HIDE DEF v
<1>4. UpTo(u, b) => UpTo(v, b)
  BY <1>1, <1>2 DEF UpTo
<1>5. \A f : From(u, b, f) => From(v, b, f)
  BY <1>1, <1>2 DEF From
<1> QED
  BY <1>3, <1>4, <1>5 DEF v

(* The next fragment behind them. *)
LEMMA NextBehind ==
  ASSUME NEW u \in Seq(Operations), NEW b \in Nat, NEW o \in Operations, o.op = "update",
         Fit(o.entry), o.entry.n = b + 1, UpTo(u, b)
  PROVE  /\ UpTo(Append(u, o), b + 1)
         /\ \A f : From(u, b, f) => From(Append(u, o), b + 1, f)
<1> DEFINE v == Append(u, o)
           n == Len(u) + 1
<1>1. \A j : IsUpdate(v, j) <=> IsUpdate(u, j) \/ j = n
  BY AppendUpdate
<1>2. (\A j : IsUpdate(u, j) => v[j] = u[j] /\ j < n /\ j \in Nat) /\ v[n] = o /\ n \in Nat
  BY DEF IsUpdate
<1> HIDE DEF v, n
<1>3. /\ IsUpdate(v, n) /\ v[n].entry.n = b + 1
      /\ \A j : IsUpdate(u, j) => IsUpdate(v, j) /\ v[j].entry.n = u[j].entry.n /\ u[j].entry.n \in 1..b
  BY <1>1, <1>2 DEF UpTo
<1>4. UpTo(v, b + 1)
  <2>1. ASSUME NEW j, IsUpdate(v, j)
        PROVE  v[j].entry.n \in 1..b + 1 /\ Fit(v[j].entry)
    BY <1>1, <1>2, <1>3, <2>1 DEF UpTo
  <2>2. ASSUME NEW j, NEW l, IsUpdate(v, j), IsUpdate(v, l), j < l
        PROVE  v[j].entry.n < v[l].entry.n
    <3>1. IsUpdate(u, j)
      BY <1>1, <1>2, <2>2
    <3>2. CASE l = n
      BY <1>3, <3>1, <3>2
    <3>3. CASE IsUpdate(u, l)
      BY <1>3, <2>2, <3>1, <3>3 DEF UpTo
    <3> QED
      BY <1>1, <2>2, <3>2, <3>3
  <2>3. ASSUME NEW j, IsUpdate(v, j), NEW m \in v[j].entry.n..b + 1
        PROVE  \E l : IsUpdate(v, l) /\ v[l].entry.n = m
    <3>1. CASE m = b + 1
      BY <1>3, <3>1
    <3>2. CASE m # b + 1
      <4>1. IsUpdate(u, j) /\ m \in u[j].entry.n..b
        BY <1>1, <1>2, <1>3, <2>1, <2>3, <3>2
      <4>2. PICK l : IsUpdate(u, l) /\ u[l].entry.n = m
        BY <4>1 DEF UpTo
      <4> QED
        BY <1>3, <4>2
    <3> QED
      BY <3>1, <3>2
  <2> QED
    BY <2>1, <2>2, <2>3 DEF UpTo
<1>5. ASSUME NEW f, From(u, b, f)
      PROVE  From(v, b + 1, f)
  <2>1. f \in 1..b + 1
    BY <1>5 DEF From
  <2>2. \A j : IsUpdate(v, j) => v[j].entry.n > f
    BY <1>1, <1>3, <1>5 DEF From
  <2>3. \A m \in f + 1..b + 1 : \E l : IsUpdate(v, l) /\ v[l].entry.n = m
    <3> SUFFICES ASSUME NEW m \in f + 1..b + 1, m # b + 1
                 PROVE  \E l : IsUpdate(v, l) /\ v[l].entry.n = m
      BY <1>3
    <3>1. m \in f + 1..b
      BY <2>1
    <3> QED
      BY <1>3, <1>5, <3>1 DEF From
  <2> QED
    BY <2>1, <2>2, <2>3 DEF From
<1> QED
  BY <1>4, <1>5 DEF v

(* The first operation leaves. *)
LEMMA HeadLeaves ==
  ASSUME NEW u \in Seq(Operations), u # <<>>, NEW b \in Nat, UpTo(u, b)
  PROVE  /\ UpTo(Tail(u), b)
         /\ Head(u).op # "update" => \A f : From(u, b, f) => From(Tail(u), b, f)
         /\ Head(u).op = "update" => From(Tail(u), b, Head(u).entry.n)
         /\ NoUpdates(u) => NoUpdates(Tail(u))
<1> DEFINE v == Tail(u)
<1>1. /\ \A j : IsUpdate(v, j) => IsUpdate(u, j + 1) /\ v[j] = u[j + 1] /\ j \in Nat \ {0}
      /\ \A j : IsUpdate(u, j) /\ j # 1 => IsUpdate(v, j - 1) /\ v[j - 1] = u[j]
      /\ Head(u) = u[1] /\ 1 \in 1..Len(u)
  <2>1. ASSUME NEW j, IsUpdate(v, j)
        PROVE  IsUpdate(u, j + 1) /\ v[j] = u[j + 1] /\ j \in Nat \ {0}
    BY <2>1, TailUpdate
  <2>2. ASSUME NEW j, IsUpdate(u, j), j # 1
        PROVE  IsUpdate(v, j - 1) /\ v[j - 1] = u[j]
    <3>1. j \in Nat /\ (j - 1) + 1 = j
      BY <2>2 DEF IsUpdate
    <3>2. IsUpdate(v, j - 1)
      BY <2>2, TailUpdate
    <3>3. v[j - 1] = u[(j - 1) + 1]
      BY <3>2, TailUpdate
    <3> QED
      BY <3>1, <3>2, <3>3
  <2> QED
    BY <2>1, <2>2, TailUpdate
<1>2. NoUpdates(u) => NoUpdates(v)
  BY <1>1 DEF NoUpdates, IsUpdate
<1> HIDE DEF v
<1>3. UpTo(v, b)
  <2>1. \A j : IsUpdate(v, j) => v[j].entry.n \in 1..b /\ Fit(v[j].entry)
    BY <1>1 DEF UpTo
  <2>2. \A j, l : IsUpdate(v, j) /\ IsUpdate(v, l) /\ j < l => v[j].entry.n < v[l].entry.n
    <3> SUFFICES ASSUME NEW j, NEW l, IsUpdate(v, j), IsUpdate(v, l), j < l
                 PROVE  v[j].entry.n < v[l].entry.n
      OBVIOUS
    <3>1. j + 1 < l + 1
      BY <1>1
    <3> QED
      BY <1>1, <3>1 DEF UpTo
  <2>3. ASSUME NEW j, IsUpdate(v, j), NEW m \in v[j].entry.n..b
        PROVE  \E l : IsUpdate(v, l) /\ v[l].entry.n = m
    <3>1. IsUpdate(u, j + 1) /\ v[j] = u[j + 1] /\ j \in Nat \ {0}
      BY <1>1, <2>3
    <3>2. PICK l : IsUpdate(u, l) /\ u[l].entry.n = m
      BY <3>1 DEF UpTo
    <3>3. l # 1
      <4> SUFFICES ASSUME l = 1 PROVE FALSE
        OBVIOUS
      <4>3. IsUpdate(u, 1) /\ 1 < j + 1 /\ IsUpdate(u, j + 1)
        BY <3>1, <3>2
      <4>1. u[1].entry.n < u[j + 1].entry.n
        BY <4>3 DEF UpTo
      <4>2. u[1].entry.n \in Nat /\ u[j + 1].entry.n \in Nat
        BY <3>1, <3>2 DEF UpTo
      <4> QED
        BY <3>1, <3>2, <4>1, <4>2
    <3> QED
      BY <1>1, <3>2, <3>3
  <2> QED
    BY <2>1, <2>2, <2>3 DEF UpTo
<1>4. ASSUME Head(u).op # "update", NEW f, From(u, b, f)
      PROVE  From(v, b, f)
  <2>1. \A j : IsUpdate(u, j) => j # 1
    BY <1>1, <1>4 DEF IsUpdate
  <2> QED
    BY <1>1, <1>4, <2>1 DEF From
<1>5. ASSUME Head(u).op = "update"
      PROVE  From(v, b, Head(u).entry.n)
  <2>1. IsUpdate(u, 1)
    BY <1>1, <1>5 DEF IsUpdate
  <2>2. Head(u).entry.n \in 1..b
    BY <1>1, <2>1 DEF UpTo
  <2>3. \A j : IsUpdate(v, j) => v[j].entry.n > Head(u).entry.n
    <3> SUFFICES ASSUME NEW j, IsUpdate(v, j) PROVE v[j].entry.n > Head(u).entry.n
      OBVIOUS
    <3>1. IsUpdate(u, j + 1) /\ v[j] = u[j + 1] /\ 1 < j + 1
      BY <1>1
    <3> QED
      BY <1>1, <2>1, <2>2, <3>1 DEF UpTo
  <2>4. \A m \in Head(u).entry.n + 1..b : \E l : IsUpdate(v, l) /\ v[l].entry.n = m
    <3> SUFFICES ASSUME NEW m \in Head(u).entry.n + 1..b
                 PROVE  \E l : IsUpdate(v, l) /\ v[l].entry.n = m
      OBVIOUS
    <3>1. m \in u[1].entry.n..b /\ m # u[1].entry.n
      BY <1>1, <2>2
    <3>2. PICK l : IsUpdate(u, l) /\ u[l].entry.n = m
      BY <2>1, <3>1 DEF UpTo
    <3> QED
      BY <1>1, <3>1, <3>2
  <2> QED
    BY <2>2, <2>3, <2>4 DEF From
<1> QED
  BY <1>2, <1>3, <1>4, <1>5 DEF v

(* Fragments in a row, behind the fragment c. *)
Held(q, c) == \A j \in 1..Len(q) : q[j].n = c + j /\ Fit(q[j])

LEMMA HeldOne ==
  ASSUME NEW e, NEW c \in Nat, e.n = c + 1, Fit(e)
  PROVE  Held(<<e>>, c)
  BY DEF Held

LEMMA HeldJoins ==
  ASSUME NEW p \in Seq(Entry), NEW q \in Seq(Entry), NEW c \in Nat,
         Held(p, c), Held(q, c + Len(p))
  PROVE  Held(p \o q, c)
<1>1. /\ Len(p) \in Nat /\ Len(q) \in Nat /\ Len(p \o q) = Len(p) + Len(q)
      /\ \A j \in 1..Len(p) + Len(q) : (p \o q)[j] = IF j <= Len(p) THEN p[j] ELSE q[j - Len(p)]
  OBVIOUS
<1> SUFFICES ASSUME NEW j \in 1..Len(p) + Len(q)
             PROVE  (p \o q)[j].n = c + j /\ Fit((p \o q)[j])
  BY <1>1 DEF Held
<1>2. CASE j <= Len(p)
  <2>1. (p \o q)[j] = p[j] /\ j \in 1..Len(p)
    BY <1>1, <1>2
  <2> QED
    BY <2>1 DEF Held
<1>3. CASE ~(j <= Len(p))
  <2>1. (p \o q)[j] = q[j - Len(p)] /\ j - Len(p) \in 1..Len(q)
        /\ (c + Len(p)) + (j - Len(p)) = c + j
    BY <1>1, <1>3
  <2> QED
    BY <2>1 DEF Held
<1> QED
  BY <1>2, <1>3

LEMMA HeldLeaves ==
  ASSUME NEW q \in Seq(Entry), q # <<>>, NEW c \in Nat, Held(q, c)
  PROVE  /\ Head(q).n = c + 1 /\ Fit(Head(q)) /\ Head(q) \in Entry
         /\ Held(Tail(q), c + 1) /\ Tail(q) \in Seq(Entry)
         /\ Len(Tail(q)) = Len(q) - 1 /\ Len(q) \in Nat \ {0}
<1>1. /\ Len(q) \in Nat \ {0} /\ Head(q) = q[1] /\ Head(q) \in Entry
      /\ Tail(q) \in Seq(Entry) /\ Len(Tail(q)) = Len(q) - 1
      /\ \A j \in 1..Len(Tail(q)) : Tail(q)[j] = q[j + 1]
  BY HeadTailProperties, EmptySeq
<1>2. 1 \in 1..Len(q) /\ \A j \in 1..Len(Tail(q)) : j + 1 \in 1..Len(q) /\ c + (j + 1) = (c + 1) + j
  BY <1>1
<1> QED
  BY <1>1, <1>2 DEF Held

(* The operations behind the one that is being written, the last fragment  *)
(* that has left releasing, and the one the wire will show after this write. *)
Unread == IF writing = <<>> THEN queue ELSE Tail(queue)
Released == (content - Len(pendingUpdates)) - Len(releasing)

NoText(q) == \A j \in 1..Len(q) : ~(q[j].to > 0)
ReachOf(w, q) ==
    IF NoText(q) THEN Frontier(w) ELSE q[CHOOSE j \in 1..Len(q) : q[j].to > 0].to
Reach == ReachOf(wire, writing)

HeldCounted ==
    /\ Len(pendingUpdates) + Len(releasing) <= content
    /\ Held(releasing, Released)
    /\ Held(pendingUpdates, content - Len(pendingUpdates))

(* Updates wait only in front of an empty chain, before anything is shown: *)
(* that is why the banner's hook, a final status and a timer lose none.    *)
HeldBack ==
    pendingUpdates # <<>> \/ ~late =>
      releasing = <<>> /\ NoUpdates(Unread) /\ progressBlock = None

BlockShows == IF progressBlock = None THEN Reach = 0 ELSE From(Unread, Released, Reach)

CloseKnown == Queued("close") => progressClosed
Flowing == ~closed /\ ~progressClosed /\ ~poisoned
Flow == HeldCounted /\ UpTo(Unread, Released) /\ HeldBack /\ BlockShows

TextInv == TextKnown /\ CloseKnown /\ (Flowing => Flow)

LEMMA ReachIs ==
  ASSUME NEW w, NEW q
  PROVE  /\ NoText(q) => ReachOf(w, q) = Frontier(w)
         /\ \A j : TextAt(q, j) => ReachOf(w, q) = q[j].to
<1>1. ASSUME NEW j, TextAt(q, j)
      PROVE  ReachOf(w, q) = q[j].to
  <2>1. ~NoText(q)
    BY <1>1 DEF TextAt, NoText
  <2>2. (CHOOSE l \in 1..Len(q) : q[l].to > 0) = j
    <3>1. j \in 1..Len(q) /\ q[j].to > 0
      BY <1>1 DEF TextAt
    <3>2. (CHOOSE l \in 1..Len(q) : q[l].to > 0) \in {l \in 1..Len(q) : q[l].to > 0}
      BY <3>1
    <3> QED
      BY <1>1, <3>2 DEF TextAt
  <2> QED
    BY <2>1, <2>2 DEF ReachOf
<1> QED
  BY <1>1 DEF ReachOf

LEMMA FlowTypes ==
  ASSUME BaseInv
  PROVE  /\ Unread \in Seq(Operations)
         /\ HeldCounted => Released \in Nat /\ content - Len(pendingUpdates) \in Nat
                           /\ Len(pendingUpdates) \in Nat /\ Len(releasing) \in Nat
                           /\ Released + Len(releasing) = content - Len(pendingUpdates)
                           /\ Released <= content
<1>1. Unread \in Seq(Operations)
  BY HeadTailProperties DEF Unread, BaseInv, StreamTypes, WritingKnown
<1>2. Len(pendingUpdates) \in Nat /\ Len(releasing) \in Nat /\ content \in Nat
  BY DEF BaseInv, ProgressTypes
<1> QED
  BY <1>1, <1>2 DEF HeldCounted, Released

LEMMA EventText ==
  /\ \A w \in Seq(Events) : \A j \in 1..Len(w) : w[j].to \in Nat
  /\ \A w \in Seq(PlainEvents) : \A j \in 1..Len(w) : w[j].to = 0
<1>1. ASSUME NEW w \in Seq(Events), NEW j \in 1..Len(w)
      PROVE  w[j].to \in Nat
  <2>1. w[j] \in Events
    BY ElementOfSeq
  <2> QED
    BY <2>1 DEF Events
<1>2. ASSUME NEW w \in Seq(PlainEvents), NEW j \in 1..Len(w)
      PROVE  w[j].to = 0
  <2>1. w[j] \in PlainEvents
    BY ElementOfSeq
  <2> QED
    BY <2>1 DEF PlainEvents
<1> QED
  BY <1>1, <1>2

(* What is being written may change only to something without text, or to  *)
(* the fragment behind what is shown.                                      *)
LEMMA TextStays ==
  ASSUME BaseInv, TextKnown, wire' = wire, content' \in Nat, content <= content',
         writing' = writing \/ NoText(writing')
  PROVE  TextKnown'
<1>1. Gapless(wire') /\ AllShown(wire', content')
  <2>1. \A j \in 1..Len(ShownIn(wire)) : ShownIn(wire)[j].to \in Nat
    <3>1. ShownIn(wire) \in Seq(Events)
      BY ShownTypes DEF BaseInv, StreamTypes
    <3> QED
      BY <3>1, EventText
  <2> QED
    BY <2>1 DEF TextKnown, AllShown, BaseInv, ProgressTypes
<1>2. WritingText'
  <2>1. CASE NoText(writing')
    BY <2>1 DEF NoText, WritingText
  <2>2. CASE writing' = writing
    <3>1. \A j \in 1..Len(writing) : writing[j].to \in Nat
      <4>1. writing \in Seq(Events)
        BY DEF BaseInv, StreamTypes
      <4> QED
        BY <4>1, EventText
    <3>2. content \in Nat
      BY DEF BaseInv, ProgressTypes
    <3> QED
      BY <2>2, <3>1, <3>2 DEF TextKnown, WritingText
  <2> QED
    BY <2>1, <2>2
<1> QED
  BY <1>1, <1>2 DEF TextKnown

LEMMA PlainWrites ==
  /\ NoText(<<>>)
  /\ \A e \in PlainEvents : NoText(<<e>>)
  /\ \A q \in Seq(PlainEvents) : NoText(q)
  /\ \A i : NoText(Block(i)) /\ NoText(<<Event("delta", i), Event("stop", i)>>)
<1>1. NoText(<<>>)
  BY DEF NoText
<1>2. \A e \in PlainEvents : NoText(<<e>>)
  BY DEF NoText, PlainEvents
<1>3. ASSUME NEW q \in Seq(PlainEvents)
      PROVE  NoText(q)
  <2>1. \A j \in 1..Len(q) : q[j].to = 0
    BY EventText
  <2> QED
    BY <2>1 DEF NoText
<1>4. \A k, i : Event(k, i).to = 0
  BY DEF Event, AS!Event
<1>5. ASSUME NEW i
      PROVE  NoText(Block(i)) /\ NoText(<<Event("delta", i), Event("stop", i)>>)
  <2> DEFINE a == Event("start", i)
             b == Event("delta", i)
             c == Event("stop", i)
  <2>1. a.to = 0 /\ b.to = 0 /\ c.to = 0
    BY <1>4
  <2> HIDE DEF a, b, c
  <2>2. NoText(<<a, b, c>>) /\ NoText(<<b, c>>)
    BY <2>1 DEF NoText
  <2> QED
    BY <2>2 DEF Block, a, b, c
<1> QED
  BY <1>1, <1>2, <1>3, <1>5

(* The update at the head of an open chain: what it writes begins where    *)
(* the shown text ends, because the updates before it have been written    *)
(* and none of those was lost.                                             *)
LEMMA UpdateFollows ==
  ASSUME BaseInv, TextInv, StartUpdate, writing' # writing
  PROVE  LET e == Head(queue).entry
             f == Frontier(wire)
         IN  /\ Flowing /\ Flow /\ IsUpdate(queue, 1) /\ Head(queue) = queue[1]
             /\ e.n \in 1..Released /\ e.n <= content /\ e.n > f /\ f \in Nat
             /\ progressBlock = None => f = 0 /\
                  writing' = <<Event("start", nextContentIndex), Timeline(nextContentIndex, 1, e.n)>>
             /\ progressBlock # None => e.n = f + 1 /\
                  writing' = <<Timeline(progressBlock, e.n, e.n)>>
<1> DEFINE e == Head(queue).entry
           f == Frontier(wire)
<1>1. /\ queue # <<>> /\ Head(queue).op = "update" /\ writing = <<>>
      /\ ~closed /\ ~progressClosed /\ ~poisoned
      /\ progressBlock = None =>
           writing' = <<Event("start", nextContentIndex), Timeline(nextContentIndex, 1, e.n)>>
      /\ progressBlock # None => writing' = <<Timeline(progressBlock, e.n, e.n)>>
  BY DEF StartUpdate, BaseInv, Rejected
<1>2. Flowing /\ Flow /\ Unread = queue /\ Reach = f
  BY <1>1, ReachIs, PlainWrites DEF Flowing, TextInv, Unread, Reach
<1>3. queue \in Seq(Operations) /\ f \in Nat /\ content \in Nat
  BY ShownTypes DEF BaseInv, StreamTypes, ProgressTypes
<1>4. IsUpdate(queue, 1) /\ Head(queue) = queue[1]
  BY <1>1, <1>3, TailUpdate DEF IsUpdate
<1>5. UpTo(queue, Released) /\ Released \in Nat /\ Released <= content
  BY <1>2, FlowTypes DEF Flow
<1>6. e.n \in 1..Released /\ e.n <= content
  <2>1. queue[1].entry.n \in 1..Released
    BY <1>4, <1>5 DEF UpTo
  <2>2. e.n \in 1..Released
    BY <1>4, <2>1
  <2> QED
    BY <1>3, <1>5, <2>2
<1>7. CASE progressBlock = None
  <2>1. f = 0
    BY <1>2, <1>7 DEF Flow, BlockShows
  <2> QED
    BY <1>1, <1>2, <1>4, <1>6, <1>7, <2>1
<1>8. CASE progressBlock # None
  <2>1. From(queue, Released, f)
    BY <1>2, <1>8 DEF Flow, BlockShows
  <2>7. queue[1].entry.n > f
    BY <1>4, <2>1 DEF From
  <2>2. e.n > f
    BY <1>4, <2>7
  <2>6. f + 1 \in f + 1..Released
    BY <1>3, <1>5, <1>6, <2>2
  <2>3. PICK l : IsUpdate(queue, l) /\ queue[l].entry.n = f + 1
    BY <2>1, <2>6 DEF From
  <2>4. l = 1
    <3> SUFFICES ASSUME l # 1 PROVE FALSE
      OBVIOUS
    <3>1. 1 < l
      BY <2>3 DEF IsUpdate
    <3>2. queue[1].entry.n < queue[l].entry.n
      BY <1>4, <1>5, <2>3, <3>1 DEF UpTo
    <3> QED
      BY <1>3, <1>4, <1>6, <2>2, <2>3, <3>2
  <2>5. e.n = f + 1
    BY <1>4, <2>3, <2>4
  <2> QED
    BY <1>1, <1>2, <1>3, <1>4, <1>6, <1>8, <2>2, <2>5
<1> QED
  BY <1>3, <1>7, <1>8

LEMMA TextOfUpdate ==
  ASSUME BaseInv, TextInv, StartUpdate, writing' # writing
  PROVE  TextKnown' /\ Reach' = Head(queue).entry.n
<1> DEFINE e == Head(queue).entry
           f == Frontier(wire)
<1>0. /\ e.n \in 1..Released /\ e.n <= content /\ e.n > f /\ f \in Nat
      /\ progressBlock = None => f = 0 /\
           writing' = <<Event("start", nextContentIndex), Timeline(nextContentIndex, 1, e.n)>>
      /\ progressBlock # None => e.n = f + 1 /\
           writing' = <<Timeline(progressBlock, e.n, e.n)>>
  BY UpdateFollows
<1>1. wire' = wire /\ content' = content
  BY DEF StartUpdate, progressVars
<1>2. Gapless(wire') /\ AllShown(wire', content')
  BY <1>1 DEF TextInv, TextKnown
<1>3. \A k, i : Event(k, i).to = 0
  BY DEF Event, AS!Event
<1>4. \A i, from, to : Timeline(i, from, to).to = to /\ Timeline(i, from, to).from = from
  BY DEF Timeline
<1>5. \E j : /\ TextAt(writing', j) /\ writing'[j].to = e.n
             /\ writing'[j].from = f + 1
             /\ \A l \in 1..Len(writing') : l # j => ~(writing'[l].to > 0)
  <2>1. CASE progressBlock = None
    <3> DEFINE a == Event("start", nextContentIndex)
               b == Timeline(nextContentIndex, 1, e.n)
    <3>1. a.to = 0 /\ b.to = e.n /\ b.from = 1
      BY <1>3, <1>4
    <3>2. f = 0 /\ writing' = <<a, b>>
      BY <1>0, <2>1
    <3>3. e.n \in Nat /\ e.n > 0
      BY <1>0
    <3> HIDE DEF a, b, e, f
    <3>4. TextAt(writing', 2) /\ writing'[2].to = e.n /\ writing'[2].from = f + 1
          /\ \A l \in 1..Len(writing') : l # 2 => ~(writing'[l].to > 0)
      BY <3>1, <3>2, <3>3 DEF TextAt
    <3> QED
      BY <3>4
  <2>2. CASE progressBlock # None
    <3> DEFINE b == Timeline(progressBlock, e.n, e.n)
    <3>1. b.to = e.n /\ b.from = e.n
      BY <1>4
    <3>2. e.n = f + 1 /\ writing' = <<b>>
      BY <1>0, <2>2
    <3>3. e.n \in Nat /\ e.n > 0
      BY <1>0
    <3> HIDE DEF b, e, f
    <3>4. TextAt(writing', 1) /\ writing'[1].to = e.n /\ writing'[1].from = f + 1
          /\ \A l \in 1..Len(writing') : l # 1 => ~(writing'[l].to > 0)
      BY <3>1, <3>2, <3>3 DEF TextAt
    <3> QED
      BY <3>4
  <2> QED
    BY <2>1, <2>2
<1>6. Reach' = e.n
  BY <1>5, ReachIs DEF Reach
<1>7. f + 1 <= e.n
  BY <1>0
<1>8. WritingText'
  BY <1>0, <1>1, <1>5, <1>7 DEF WritingText
<1> QED
  BY <1>2, <1>6, <1>8 DEF TextKnown

LEMMA StepKeepsText ==
  ASSUME BaseInv, TextInv, [Next]_vars
  PROVE  TextKnown'
<1> USE DEF TextInv
<1>0. content \in Nat
  BY DEF BaseInv, ProgressTypes
<1>1. CASE UNCHANGED <<wire, writing>> /\ content' \in {content, content + 1}
  BY <1>0, <1>1, TextStays
<1>2. CASE Open \/ OpenFails
  <2> DEFINE e == Event("message_start", 0)
  <2>1. /\ wire = <<>> /\ wire' = <<e>> /\ writing' = <<>> /\ content' = content
        /\ e \in Events /\ e.to = 0
    <3>1. Event("message_start", 0) \in Events /\ Event("message_start", 0).to = 0
      BY EventTypes DEF AS!Kinds, Event, AS!Event
    <3> QED
      BY <1>2, <3>1 DEF Open, OpenFails, BaseInv, Quiet, progressVars
  <2> HIDE DEF e
  <2>2. Append(wire, e) = <<e>>
    BY <2>1
  <2>3. wire \in Seq(Events) /\ Gapless(wire) /\ AllShown(wire, content)
    BY DEF BaseInv, StreamTypes, TextKnown
  <2>5. e \in Events /\ ~(e.to > 0)
    BY <2>1
  <2>4. Gapless(Append(wire, e)) /\ AllShown(Append(wire, e), content)
    BY <1>0, <2>3, <2>5, GaplessGrows
  <2> QED
    BY <2>1, <2>2, <2>4 DEF TextKnown, WritingText
<1>3. CASE StartRaw \/ StartBanner \/ StartClose
  <2>1. wire' = wire /\ content' = content
    BY <1>3 DEF StartRaw, StartBanner, StartClose, progressVars
  <2>2. writing' = writing \/ NoText(writing')
    <3>1. CASE StartRaw
      <4>1. Head(queue) \in Operations
        BY <3>1, HeadTailProperties DEF StartRaw, BaseInv, StreamTypes
      <4>2. Head(queue).ev \in PlainEvents
        BY <3>1, <4>1, OperationTypes DEF StartRaw
      <4>3. NoText(<<Head(queue).ev>>)
        BY <4>2, PlainWrites
      <4> QED
        BY <3>1, <4>3 DEF StartRaw
    <3>2. CASE StartBanner \/ StartClose
      BY <3>2, PlainWrites DEF StartBanner, StartClose
    <3> QED
      BY <1>3, <3>1, <3>2
  <2> QED
    BY <1>0, <2>1, <2>2, TextStays
<1>4. CASE StartUpdate
  <2>1. CASE writing' = writing
    BY <1>0, <1>4, <2>1, TextStays DEF StartUpdate, progressVars
  <2> QED
    BY <1>4, <2>1, TextOfUpdate
<1>5. CASE WriteEvent
  BY <1>5, WritingMoves DEF WriteEvent, progressVars
<1>6. CASE WriteFails
  <2>1. writing # <<>> /\ content' = content /\ writing' = <<>>
        /\ wire' \in {wire, Append(wire, Head(writing))}
    BY <1>6 DEF WriteFails, progressVars
  <2>2. CASE wire' = Append(wire, Head(writing))
    BY <2>1, <2>2, WritingMoves
  <2>3. CASE wire' = wire
    BY <1>0, <2>1, <2>3, TextStays, PlainWrites
  <2> QED
    BY <2>1, <2>2, <2>3
<1>7. CASE ProgressStep \/ Update \/ Elapse \/ Disconnect \/ UNCHANGED vars
  <2>1. UNCHANGED <<wire, writing>> /\ content' \in {content, content + 1}
    BY <1>7 DEF ProgressStep, FlushTimer, RunHook, Release, Update, Elapse, Disconnect, vars,
       progressVars
  <2> QED
    BY <1>1, <2>1
<1>8. CASE MainStep /\ ~(Open \/ OpenFails)
  <2>1. CASE \E t \in Tools : EmitUse(t) \/ EmitResult(t) \/ ResultEmitted(t) \/ ToolThrows(t)
    BY <1>1, <2>1 DEF EmitUse, EmitResult, ResultEmitted, ToolThrows, progressVars
  <2>2. CASE FinalUpdate
    BY <1>1, <2>2 DEF FinalUpdate
  <2>3. CASE ~(\E t \in Tools : EmitUse(t) \/ EmitResult(t) \/ ResultEmitted(t) \/ ToolThrows(t))
             /\ ~FinalUpdate
    <3>1. UNCHANGED <<wire, writing>> /\ content' = content
      BY <1>8, <2>3 DEF MainStep, OpenBanner, Opened, UpdateUsage, UsageWritten, BridgeClose,
         BridgeStart, UsesEmitted, ToolsDone, Fail, FinalClose, FinalStart, FinalDone, ErrorLeave,
         ErrorEscapes, ErrorClose, ErrorWrite, ErrorDone, Stop, progressVars
    <3> QED
      BY <1>1, <3>1
  <2> QED
    BY <2>1, <2>2, <2>3
<1> QED
  BY <1>2, <1>3, <1>4, <1>5, <1>6, <1>7, <1>8 DEF Next, QueueStep

(* Closing the progress is never undone, and only it enqueues the close.   *)
Closes(q) == \E j \in 1..Len(q) : q[j].op = "close"

LEMMA CloseAppended ==
  ASSUME NEW q \in Seq(Operations), NEW o \in Operations, Closes(Append(q, o))
  PROVE  Closes(q) \/ o.op = "close"
  BY DEF Closes

LEMMA CloseLeaves ==
  ASSUME NEW q \in Seq(Operations), q # <<>>, Closes(Tail(q))
  PROVE  Closes(q)
<1>1. /\ Len(q) \in Nat \ {0} /\ Len(Tail(q)) = Len(q) - 1
      /\ \A i \in 1..Len(Tail(q)) : Tail(q)[i] = q[i + 1]
  BY HeadTailProperties, EmptySeq
<1> QED
  BY <1>1 DEF Closes

LEMMA StepKeepsClose ==
  ASSUME BaseInv, CloseKnown, [Next]_vars
  PROVE  CloseKnown'
<1>0. queue \in Seq(Operations) /\ (Queued("close") <=> Closes(queue))
      /\ (Queued("close")' <=> Closes(queue'))
  BY DEF BaseInv, StreamTypes, Queued, Closes
<1>1. progressClosed => progressClosed'
  <2>1. CASE \E t \in Tools : EmitUse(t) \/ EmitResult(t) \/ ResultEmitted(t) \/ ToolThrows(t)
    BY <2>1 DEF EmitUse, EmitResult, ResultEmitted, ToolThrows
  <2>2. CASE QueueStep \/ ProgressStep \/ Update \/ Elapse \/ Disconnect \/ UNCHANGED vars
    BY <2>2 DEF QueueStep, StartRaw, StartUpdate, StartBanner, StartClose, WriteEvent, WriteFails,
       ProgressStep, FlushTimer, RunHook, Release, Update, Elapse, Disconnect, vars
  <2>3. CASE MainStep /\ ~(\E t \in Tools : EmitUse(t) \/ EmitResult(t) \/ ResultEmitted(t) \/ ToolThrows(t))
    BY <2>3 DEF MainStep, Open, OpenFails, OpenBanner, Opened, UpdateUsage, UsageWritten, BridgeClose,
       BridgeStart, UsesEmitted, ToolsDone, Fail, FinalUpdate, FinalClose, FinalStart, FinalDone,
       ErrorLeave, ErrorEscapes, ErrorClose, ErrorWrite, ErrorDone, Stop, CloseProgress
  <2> QED
    BY <2>1, <2>2, <2>3 DEF Next
<1>2. CASE queue' = queue
  BY <1>0, <1>1, <1>2 DEF CloseKnown
<1>9. ASSUME NEW o \in Operations, o.op # "close", queue' = Append(queue, o)
      PROVE  CloseKnown'
  BY <1>0, <1>1, <1>9, CloseAppended DEF CloseKnown
<1>3. ASSUME NEW o \in Updates \cup Turns, Enqueues(o), o.op = "close" => progressClosed'
      PROVE  CloseKnown'
  <2>1. o \in Operations /\ queue' = Append(queue, o)
    BY <1>3 DEF Operations, Enqueues
  <2>2. CASE o.op = "close"
    BY <1>3, <2>2 DEF CloseKnown
  <2> QED
    BY <1>9, <2>1, <2>2
<1>5. ASSUME NEW e \in Emitters, NEW series \in Seq(PlainEvents), series # <<>>, Sends(e, series)
      PROVE  CloseKnown'
  <2>1. Head(series) \in PlainEvents
    BY <1>5, HeadTailProperties
  <2>2. Raw(e, Head(series)) \in Operations /\ Raw(e, Head(series)).op # "close"
    BY <2>1 DEF Raw, Raws, Operations
  <2> QED
    BY <1>5, <1>9, <2>2 DEF Sends, Emit
<1>6. CASE QueueStep
  <2>1. CASE WriteFails
    <3>1. queue' = <<>>
      BY <2>1 DEF WriteFails
    <3>2. ~Closes(<<>>)
      BY DEF Closes
    <3> QED
      BY <1>0, <3>1, <3>2 DEF CloseKnown
  <2>2. CASE queue # <<>> /\ queue' = Tail(queue)
    BY <1>0, <1>1, <2>2, CloseLeaves DEF CloseKnown
  <2>3. CASE StartRaw \/ StartUpdate \/ StartBanner \/ StartClose
    BY <1>2, <2>2, <2>3 DEF StartRaw, StartUpdate, StartBanner, StartClose
  <2>4. CASE WriteEvent
    <3>1. CASE queue' = Append(Tail(queue), Raw(Head(queue).by, Head(script[Head(queue).by])))
               /\ Continues(Head(queue))
      <4> DEFINE e == Head(queue).by
                 o == Raw(e, Head(script[e]))
      <4>1. Head(queue) \in Operations /\ Tail(queue) \in Seq(Operations) /\ queue # <<>>
        BY <2>4, WriteEffects
      <4>2. e \in Emitters /\ script[e] # <<>>
        BY <3>1, <4>1, OperationTypes DEF Continues
      <4>3. script[e] \in Seq(PlainEvents)
        BY <4>2 DEF BaseInv, StreamTypes
      <4>4. Head(script[e]) \in PlainEvents
        BY <4>2, <4>3, HeadTailProperties
      <4>5. o \in Operations /\ o.op # "close"
        BY <4>2, <4>4 DEF Raw, Raws, Operations
      <4> HIDE DEF o
      <4>6. queue' = Append(Tail(queue), o)
        BY <3>1 DEF o
      <4> QED
        BY <1>0, <1>1, <4>1, <4>5, <4>6, CloseAppended, CloseLeaves DEF CloseKnown
    <3> QED
      BY <1>2, <2>2, <2>4, <3>1, WriteEffects
  <2> QED
    BY <1>6, <2>1, <2>3, <2>4 DEF QueueStep
<1>7. CASE UNCHANGED streamVars \/ Opens
  BY <1>2, <1>7 DEF streamVars, Opens
<1> QED
  BY <1>3, <1>5, <1>6, <1>7, StepMoves DEF Moves

(* The flow through the chain: what the steps of the chain and of its      *)
(* callers leave of it.                                                    *)
LEMMA ChainKeepsFlow ==
  ASSUME BaseInv, Flow, UNCHANGED <<content, pendingUpdates, releasing, progressBlock>>,
         late => late',
         UpTo(Unread, Released) => UpTo(Unread', Released),
         NoUpdates(Unread) => NoUpdates(Unread'),
         \A f : From(Unread, Released, f) => From(Unread', Released, f),
         Reach' = Reach
  PROVE  Flow'
<1>1. Released' = Released /\ content' = content /\ pendingUpdates' = pendingUpdates
      /\ releasing' = releasing /\ progressBlock' = progressBlock
  BY DEF Released
<1>2. HeldCounted'
  BY <1>1 DEF Flow, HeldCounted
<1>3. UpTo(Unread', Released')
  BY <1>1 DEF Flow
<1>4. HeldBack'
  BY <1>1 DEF Flow, HeldBack
<1>5. BlockShows'
  BY <1>1 DEF Flow, BlockShows
<1> QED
  BY <1>2, <1>3, <1>4, <1>5 DEF Flow

LEMMA FrameKeepsFlow ==
  ASSUME BaseInv, Flow, UNCHANGED <<wire, queue, writing>>,
         UNCHANGED <<content, pendingUpdates, releasing, progressBlock>>, late => late'
  PROVE  Flow'
<1>1. Unread' = Unread /\ Reach' = Reach
  BY DEF Unread, Reach
<1> QED
  BY <1>1, ChainKeepsFlow

LEMMA AppendKeepsFlow ==
  ASSUME BaseInv, Flow, NEW o \in Operations, o.op # "update", queue' = Append(queue, o),
         UNCHANGED <<wire, writing>>,
         UNCHANGED <<content, pendingUpdates, releasing, progressBlock>>, late => late'
  PROVE  Flow'
<1>1. queue \in Seq(Operations) /\ (writing # <<>> => queue # <<>>)
  BY DEF BaseInv, StreamTypes, WritingKnown
<1>2. Unread' = Append(Unread, o) /\ Reach' = Reach
  <2>1. queue # <<>> => Tail(Append(queue, o)) = Append(Tail(queue), o)
    BY <1>1
  <2> QED
    BY <1>1, <2>1 DEF Unread, Reach
<1>3. Unread \in Seq(Operations) /\ Released \in Nat
  BY FlowTypes DEF Flow
<1>4. /\ UpTo(Unread, Released) => UpTo(Append(Unread, o), Released)
      /\ \A f : From(Unread, Released, f) => From(Append(Unread, o), Released, f)
      /\ NoUpdates(Unread) => NoUpdates(Append(Unread, o))
  BY <1>3, OtherBehind
<1> QED
  BY <1>2, <1>4, ChainKeepsFlow

LEMMA SendKeepsFlow ==
  ASSUME BaseInv, Flow, NEW e \in Emitters, NEW series \in Seq(PlainEvents), series # <<>>,
         Sends(e, series),
         UNCHANGED <<content, pendingUpdates, releasing, progressBlock, late>>
  PROVE  Flow'
<1>1. Head(series) \in PlainEvents
  BY HeadTailProperties
<1>2. Raw(e, Head(series)) \in Operations /\ Raw(e, Head(series)).op # "update"
  BY <1>1 DEF Raw, Raws, Operations
<1> QED
  BY <1>2, AppendKeepsFlow DEF Sends, Emit

LEMMA ReleaseKeepsFlow ==
  ASSUME BaseInv, Flow, Flowing, Release
  PROVE  Flow'
<1> DEFINE x == Head(releasing)
           o == [op |-> "update", by |-> "none", entry |-> x]
<1>1. /\ releasing # <<>> /\ releasing' = Tail(releasing) /\ queue' = Append(queue, o)
      /\ UNCHANGED <<wire, writing, late, content, pendingUpdates, progressBlock>>
      /\ releasing \in Seq(Entry) /\ queue \in Seq(Operations)
      /\ writing # <<>> => queue # <<>>
  BY DEF Release, Flowing, BaseInv, StreamTypes, ProgressTypes, WritingKnown, progressVars, flagVars
<1>2. /\ Released \in Nat /\ Unread \in Seq(Operations) /\ Held(releasing, Released)
      /\ Len(pendingUpdates) \in Nat /\ content \in Nat
      /\ Len(pendingUpdates) + Len(releasing) <= content
      /\ Held(pendingUpdates, content - Len(pendingUpdates))
  BY FlowTypes DEF Flow, HeldCounted, BaseInv, ProgressTypes
<1>3. /\ x.n = Released + 1 /\ Fit(x) /\ x \in Entry /\ Held(Tail(releasing), Released + 1)
      /\ Len(Tail(releasing)) = Len(releasing) - 1 /\ Len(releasing) \in Nat \ {0}
  BY <1>1, <1>2, HeldLeaves
<1>4. pendingUpdates = <<>> /\ late
  BY <1>1 DEF Flow, HeldBack
<1>5. o \in Operations /\ o.op = "update" /\ o.entry = x
  BY <1>3, TurnTypes DEF Operations
<1> HIDE DEF o, x
<1>6. Unread' = Append(Unread, o) /\ Reach' = Reach
  <2>1. queue # <<>> => Tail(Append(queue, o)) = Append(Tail(queue), o)
    BY <1>1, <1>5
  <2> QED
    BY <1>1, <2>1 DEF Unread, Reach
<1>7. Released' = Released + 1
  BY <1>1, <1>2, <1>3 DEF Released
<1>8. /\ UpTo(Append(Unread, o), Released + 1)
      /\ \A f : From(Unread, Released, f) => From(Append(Unread, o), Released + 1, f)
  BY <1>2, <1>3, <1>5, NextBehind DEF Flow
<1>9. HeldCounted'
  <2>1. Len(pendingUpdates') + Len(releasing') <= content'
    BY <1>1, <1>2, <1>3
  <2>2. Held(releasing', Released')
    BY <1>1, <1>3, <1>7
  <2>3. Held(pendingUpdates', content' - Len(pendingUpdates'))
    BY <1>1, <1>2
  <2> QED
    BY <2>1, <2>2, <2>3 DEF HeldCounted
<1>10. HeldBack'
  BY <1>1, <1>4 DEF HeldBack
<1>11. BlockShows'
  BY <1>1, <1>6, <1>7, <1>8 DEF Flow, BlockShows
<1> QED
  BY <1>6, <1>7, <1>8, <1>9, <1>10, <1>11 DEF Flow

(* The first operation starts to write, or leaves without writing: the     *)
(* operations behind it are the unread ones.                               *)
LEMMA HeadStarts ==
  ASSUME BaseInv, Flow, queue # <<>>, writing = <<>>,
         (queue' = queue /\ writing' # <<>>) \/ (queue' = Tail(queue) /\ writing' = <<>>)
  PROVE  /\ Unread = queue /\ Unread' = Tail(queue) /\ Reach = Frontier(wire)
         /\ UpTo(queue, Released) /\ UpTo(Tail(queue), Released)
         /\ Head(queue).op # "update" =>
              \A f : From(queue, Released, f) => From(Tail(queue), Released, f)
         /\ Head(queue).op = "update" => From(Tail(queue), Released, Head(queue).entry.n)
         /\ NoUpdates(queue) => NoUpdates(Tail(queue))
<1>1. Unread = queue /\ Unread' = Tail(queue) /\ Reach = Frontier(wire)
  BY ReachIs, PlainWrites DEF Unread, Reach
<1>2. queue \in Seq(Operations) /\ UpTo(queue, Released) /\ Released \in Nat
  BY <1>1, FlowTypes DEF Flow, BaseInv, StreamTypes
<1> QED
  BY <1>1, <1>2, HeadLeaves

LEMMA StartKeepsFlow ==
  ASSUME BaseInv, Flow, Flowing, CloseKnown, StartRaw \/ StartBanner \/ StartClose
  PROVE  Flow'
<1>1. ~StartClose
  <2> SUFFICES ASSUME StartClose PROVE FALSE
    OBVIOUS
  <2>1. queue # <<>> /\ Head(queue).op = "close" /\ queue \in Seq(Operations)
    BY DEF StartClose, BaseInv, StreamTypes
  <2>2. Head(queue) = queue[1] /\ 1 \in 1..Len(queue)
    BY <2>1, TailUpdate
  <2>3. Queued("close")
    BY <2>1, <2>2 DEF Queued
  <2> QED
    BY <2>3 DEF CloseKnown, Flowing
<1>2. /\ queue # <<>> /\ writing = <<>> /\ Head(queue).op # "update"
      /\ UNCHANGED <<wire, content, pendingUpdates, releasing, progressBlock, late>>
  BY <1>1 DEF StartRaw, StartBanner, progressVars, flagVars
<1>3. (queue' = queue /\ writing' # <<>>) \/ (queue' = Tail(queue) /\ writing' = <<>>)
  BY <1>1, <1>2 DEF StartRaw, StartBanner, Block
<1>4. NoText(writing')
  <2>1. CASE StartRaw
    <3>1. Head(queue) \in Operations
      BY <1>2, HeadTailProperties DEF BaseInv, StreamTypes
    <3>2. Head(queue).ev \in PlainEvents
      BY <2>1, <3>1, OperationTypes DEF StartRaw
    <3>3. NoText(<<Head(queue).ev>>)
      BY <3>2, PlainWrites
    <3> QED
      BY <2>1, <3>3 DEF StartRaw
  <2>2. CASE StartBanner
    BY <1>2, <2>2, PlainWrites DEF StartBanner
  <2> QED
    BY <1>1, <2>1, <2>2
<1>5. Reach' = Reach
  BY <1>2, <1>3, <1>4, HeadStarts, ReachIs DEF Reach
<1> QED
  BY <1>2, <1>3, <1>5, HeadStarts, ChainKeepsFlow

LEMMA UpdateKeepsFlow ==
  ASSUME BaseInv, TextInv, Flowing, StartUpdate
  PROVE  Flow'
<1> DEFINE e == Head(queue).entry
<1>0. Flow /\ queue # <<>> /\ writing = <<>> /\ Head(queue).op = "update"
      /\ UNCHANGED <<wire, content, pendingUpdates, releasing, late>>
      /\ queue \in Seq(Operations)
  BY DEF StartUpdate, TextInv, progressVars, BaseInv, StreamTypes
<1>1. (queue' = queue /\ writing' # <<>>) \/ (queue' = Tail(queue) /\ writing' = <<>>)
  <2>1. \A a, b : <<a>> # <<>> /\ <<a, b>> # <<>>
    OBVIOUS
  <2>2. \/ queue' = Tail(queue) /\ writing' = writing
        \/ queue' = queue /\ \E a, b : writing' = <<a>> \/ writing' = <<a, b>>
    BY DEF StartUpdate
  <2> QED
    BY <1>0, <2>1, <2>2
<1>2. /\ Unread = queue /\ Unread' = Tail(queue) /\ Reach = Frontier(wire)
      /\ UpTo(queue, Released) /\ UpTo(Tail(queue), Released)
      /\ From(Tail(queue), Released, e.n)
  BY <1>0, <1>1, HeadStarts
<1>3. IsUpdate(queue, 1) /\ Head(queue) = queue[1]
  BY <1>0, TailUpdate DEF IsUpdate
<1>4. pendingUpdates = <<>> /\ late
  BY <1>0, <1>2, <1>3 DEF Flow, HeldBack, NoUpdates, IsUpdate
<1>5. HeldCounted' /\ Released' = Released
  BY <1>0 DEF Flow, HeldCounted, Released
<1>6. HeldBack'
  BY <1>0, <1>4 DEF HeldBack
<1>7. UpTo(Unread', Released')
  BY <1>2, <1>5
<1>8. CASE writing' # writing
  <2>1. Reach' = e.n
    BY <1>8, TextOfUpdate
  <2>2. progressBlock' # None
    <3>1. nextContentIndex # None
      BY ConstantsAssumption DEF BaseInv, ProgressTypes
    <3> QED
      BY <1>0, <1>8, <3>1 DEF StartUpdate
  <2>3. BlockShows'
    BY <1>2, <1>5, <2>1, <2>2 DEF BlockShows
  <2> QED
    BY <1>5, <1>6, <1>7, <2>3 DEF Flow
<1>9. CASE writing' = writing
  <2>1. ~e.emit /\ progressBlock' = progressBlock
    BY <1>0, <1>9 DEF StartUpdate, Flowing
  <2>2. e.n = 1
    BY <1>2, <1>3, <2>1 DEF UpTo, Fit
  <2>3. progressBlock = None
    <3> SUFFICES ASSUME progressBlock # None PROVE FALSE
      OBVIOUS
    <3>1. From(queue, Released, Reach)
      BY <1>0, <1>2 DEF Flow, BlockShows
    <3>2. queue[1].entry.n > Reach /\ Reach \in 1..Released
      BY <1>3, <3>1 DEF From
    <3>3. Released \in Nat
      BY <1>0, FlowTypes DEF Flow
    <3> QED
      BY <1>3, <2>2, <3>2, <3>3
  <2>4. Reach = 0 /\ Reach' = Reach
    BY <1>0, <1>9, <2>3 DEF Flow, BlockShows, Reach
  <2>5. BlockShows'
    BY <2>1, <2>3, <2>4 DEF BlockShows
  <2> QED
    BY <1>5, <1>6, <1>7, <2>5 DEF Flow
<1> QED
  BY <1>8, <1>9

(* A write moves one event to the wire; what it reaches stays.             *)
LEMMA WriteReach ==
  ASSUME BaseInv, TextKnown, WriteEvent
  PROVE  Reach' = Reach
<1>1. /\ writing # <<>> /\ Head(writing) \in Events
      /\ wire' = Append(wire, Head(writing)) /\ writing' = Tail(writing)
      /\ wire \in Seq(Events) /\ writing \in Seq(Events) /\ content \in Nat
  BY WriteEffects DEF BaseInv, StreamTypes, ProgressTypes
<1>2. /\ Head(writing) = writing[1] /\ 1 \in 1..Len(writing) /\ Len(writing') = Len(writing) - 1
      /\ Len(writing) \in Nat
      /\ \A j \in 1..Len(writing') : writing'[j] = writing[j + 1] /\ j + 1 \in 1..Len(writing)
  BY <1>1, HeadTailProperties, EmptySeq
<1>3. writing[1].to > 0 =>
        /\ TextAt(writing, 1) /\ writing[1].from = Frontier(wire) + 1
        /\ writing[1].from <= writing[1].to /\ writing[1].to <= content
  BY <1>2 DEF TextKnown, WritingText
<1>4. Frontier(wire') = IF writing[1].to > 0 THEN writing[1].to ELSE Frontier(wire)
  BY <1>1, <1>2, <1>3, GaplessGrows DEF TextKnown
<1>5. CASE writing[1].to > 0
  <2>1. NoText(writing')
    <3> SUFFICES ASSUME NEW j \in 1..Len(writing'), writing'[j].to > 0 PROVE FALSE
      BY DEF NoText
    <3>1. writing[j + 1].to > 0 /\ j + 1 \in 1..Len(writing) /\ j + 1 # 1
      BY <1>2
    <3> QED
      BY <1>3, <1>5, <3>1 DEF TextAt
  <2> QED
    BY <1>3, <1>4, <1>5, <2>1, ReachIs DEF Reach
<1>6. CASE ~(writing[1].to > 0)
  <2>1. CASE NoText(writing)
    <3>1. NoText(writing')
      BY <1>2, <2>1 DEF NoText
    <3> QED
      BY <1>4, <1>6, <2>1, <3>1, ReachIs DEF Reach
  <2>2. CASE ~NoText(writing)
    <3>1. PICK j \in 1..Len(writing) : writing[j].to > 0
      BY <2>2 DEF NoText
    <3>2. TextAt(writing, j) /\ j # 1
      BY <1>6, <3>1 DEF TextKnown, WritingText
    <3>3. j - 1 \in 1..Len(writing') /\ (j - 1) + 1 = j
      BY <1>2, <3>2
    <3>4. writing'[j - 1] = writing[j]
      BY <1>2, <3>3
    <3>5. TextAt(writing', j - 1)
      <4>1. ASSUME NEW l \in 1..Len(writing'), writing'[l].to > 0
            PROVE  l = j - 1
        <5>1. writing[l + 1].to > 0 /\ l + 1 \in 1..Len(writing)
          BY <1>2, <4>1
        <5>2. l + 1 = j
          BY <3>2, <5>1 DEF TextAt
        <5> QED
          BY <5>2
      <4> QED
        BY <3>1, <3>3, <3>4, <4>1 DEF TextAt
    <3> QED
      BY <3>2, <3>4, <3>5, ReachIs DEF Reach
  <2> QED
    BY <2>1, <2>2
<1> QED
  BY <1>5, <1>6

LEMMA WriteKeepsFlow ==
  ASSUME BaseInv, TextKnown, Flow, WriteEvent
  PROVE  Flow'
<1>1. /\ writing # <<>> /\ queue # <<>> /\ Unread = Tail(queue) /\ Tail(queue) \in Seq(Operations)
      /\ Head(queue) \in Operations
      /\ UNCHANGED <<content, pendingUpdates, releasing, progressBlock, late>>
  BY WriteEffects DEF WriteEvent, Unread, progressVars
<1>2. Reach' = Reach
  BY WriteReach
<1>3. CASE Unread' = Unread
  BY <1>1, <1>2, <1>3, ChainKeepsFlow
<1>4. CASE Continues(Head(queue)) /\ writing' = <<>> /\
           queue' = Append(Tail(queue), Raw(Head(queue).by, Head(script[Head(queue).by])))
  <2> DEFINE e == Head(queue).by
             o == Raw(e, Head(script[e]))
  <2>1. e \in Emitters /\ script[e] # <<>>
    BY <1>1, <1>4, OperationTypes DEF Continues
  <2>2. script[e] \in Seq(PlainEvents)
    BY <2>1 DEF BaseInv, StreamTypes
  <2>3. Head(script[e]) \in PlainEvents
    BY <2>1, <2>2, HeadTailProperties
  <2>4. o \in Operations /\ o.op # "update"
    BY <2>1, <2>3 DEF Raw, Raws, Operations
  <2>5. Unread' = Append(Unread, o)
    BY <1>1, <1>4 DEF Unread
  <2> HIDE DEF o
  <2>6. Unread \in Seq(Operations) /\ Released \in Nat
    BY FlowTypes DEF Flow
  <2>7. /\ UpTo(Unread, Released) => UpTo(Append(Unread, o), Released)
        /\ \A f : From(Unread, Released, f) => From(Append(Unread, o), Released, f)
        /\ NoUpdates(Unread) => NoUpdates(Append(Unread, o))
    BY <2>4, <2>6, OtherBehind
  <2> QED
    BY <1>1, <1>2, <2>5, <2>7, ChainKeepsFlow
<1>5. CASE writing' = <<>> /\ queue' = Tail(queue)
  BY <1>1, <1>3, <1>5 DEF Unread
<1>6. CASE writing' # <<>> /\ queue' = queue
  BY <1>1, <1>3, <1>6 DEF Unread
<1> QED
  BY <1>4, <1>5, <1>6, WriteEffects

(* The steps before the chain: a fragment is added, held back, or released *)
(* for the chain.  What has left may jump only while nothing has left.     *)
LEMMA HoldKeepsFlow ==
  ASSUME BaseInv, Flow, UNCHANGED <<wire, queue, writing, progressBlock, late>>,
         HeldCounted', Released' \in Nat,
         Released' = Released \/ (NoUpdates(Unread) /\ progressBlock = None),
         pendingUpdates' # <<>> =>
           releasing' = <<>> /\ (pendingUpdates # <<>> \/ ~late),
         ~late => releasing' = <<>>
  PROVE  Flow'
<1>1. Unread' = Unread /\ Reach' = Reach /\ progressBlock' = progressBlock /\ late' = late
  BY DEF Unread, Reach
<1>2. UpTo(Unread', Released')
  BY <1>1, UpToNone DEF Flow
<1>3. HeldBack'
  BY <1>1 DEF Flow, HeldBack
<1>4. BlockShows'
  BY <1>1 DEF Flow, BlockShows
<1> QED
  BY <1>2, <1>3, <1>4 DEF Flow

LEMMA FlushKeepsFlow ==
  ASSUME BaseInv, Flow, FlushTimer
  PROVE  Flow'
<1>1. /\ pendingUpdates # <<>> /\ late /\ pendingUpdates' = <<>>
      /\ releasing' = releasing \o pendingUpdates
      /\ UNCHANGED <<wire, queue, writing, progressBlock, late, content>>
      /\ pendingUpdates \in Seq(Entry) /\ releasing \in Seq(Entry) /\ content \in Nat
  BY DEF FlushTimer, flagVars, BaseInv, ProgressTypes
<1>2. /\ Held(releasing, Released) /\ Held(pendingUpdates, content - Len(pendingUpdates))
      /\ Released \in Nat /\ Released + Len(releasing) = content - Len(pendingUpdates)
      /\ Len(pendingUpdates) \in Nat /\ Len(releasing) \in Nat
      /\ Len(pendingUpdates) + Len(releasing) <= content
  BY FlowTypes DEF Flow, HeldCounted
<1>3. Held(releasing', Released)
  BY <1>1, <1>2, HeldJoins
<1>4. Len(releasing') = Len(releasing) + Len(pendingUpdates) /\ Len(pendingUpdates') = 0
  BY <1>1, ConcatProperties
<1>5. Released' = Released
  BY <1>1, <1>2, <1>4 DEF Released
<1>6. HeldCounted'
  <2>1. Held(<<>>, content - 0)
    BY DEF Held
  <2>2. Len(pendingUpdates') + Len(releasing') <= content'
    BY <1>1, <1>2, <1>4
  <2> QED
    BY <1>1, <1>3, <1>4, <1>5, <2>1, <2>2 DEF HeldCounted
<1> QED
  BY <1>1, <1>2, <1>5, <1>6, HoldKeepsFlow

LEMMA AddKeepsFlow ==
  ASSUME BaseInv, Flow, Update
  PROVE  Flow'
<1>1. /\ content' = content + 1
      /\ UNCHANGED <<wire, queue, writing, progressBlock, late>>
      /\ pendingUpdates \in Seq(Entry) /\ releasing \in Seq(Entry) /\ content \in Nat
  BY DEF Update, flagVars, BaseInv, ProgressTypes
<1>2. /\ Held(releasing, Released) /\ Held(pendingUpdates, content - Len(pendingUpdates))
      /\ Released \in Nat /\ Released + Len(releasing) = content - Len(pendingUpdates)
      /\ Len(pendingUpdates) \in Nat /\ Len(releasing) \in Nat
      /\ Len(pendingUpdates) + Len(releasing) <= content
      /\ content - Len(pendingUpdates) \in Nat
  BY FlowTypes DEF Flow, HeldCounted
<1>3. PICK emit \in BOOLEAN :
        /\ content > 0 => emit
        /\ LET e == [n |-> content + 1, emit |-> emit] IN
           IF late
             THEN /\ releasing' = (releasing \o pendingUpdates) \o <<e>>
                  /\ pendingUpdates' = <<>>
             ELSE /\ pendingUpdates' = Append(pendingUpdates, e)
                  /\ UNCHANGED releasing
  BY DEF Update
<1> DEFINE e == [n |-> content + 1, emit |-> emit]
<1>4. e \in Entry /\ e.n = content + 1 /\ Fit(e)
  BY <1>1, <1>3 DEF Entry, Fit
<1>5. /\ late => releasing' = (releasing \o pendingUpdates) \o <<e>> /\ pendingUpdates' = <<>>
      /\ ~late => pendingUpdates' = Append(pendingUpdates, e) /\ releasing' = releasing
  BY <1>3
<1> HIDE DEF e
<1>6. <<e>> \in Seq(Entry) /\ Len(<<e>>) = 1 /\ Held(<<e>>, content)
  BY <1>1, <1>4, HeldOne
<1>7. CASE late
  <2> DEFINE r == releasing \o pendingUpdates
  <2>1. r \in Seq(Entry) /\ Len(r) = Len(releasing) + Len(pendingUpdates)
    BY <1>1, ConcatProperties
  <2>2. Held(r, Released)
    BY <1>1, <1>2, HeldJoins
  <2>3. Released + Len(r) = content
    BY <1>1, <1>2, <2>1
  <2> HIDE DEF r
  <2>4. Held(r \o <<e>>, Released)
    BY <1>2, <1>6, <2>1, <2>2, <2>3, HeldJoins
  <2>5. Len(r \o <<e>>) = Len(r) + 1
    BY <1>6, <2>1, ConcatProperties
  <2>6. releasing' = r \o <<e>> /\ pendingUpdates' = <<>> /\ Len(pendingUpdates') = 0
    BY <1>5, <1>7 DEF r
  <2>9. Len(releasing') = (Len(releasing) + Len(pendingUpdates)) + 1
    BY <2>1, <2>5, <2>6
  <2>7. Released' = Released
    <3>1. Released' = ((content + 1) - 0) - ((Len(releasing) + Len(pendingUpdates)) + 1)
      BY <1>1, <2>6, <2>9 DEF Released
    <3>2. Released = (content - Len(pendingUpdates)) - Len(releasing)
      BY DEF Released
    <3> QED
      BY <1>1, <1>2, <3>1, <3>2
  <2>8. HeldCounted'
    <3>1. Len(pendingUpdates') + Len(releasing') <= content'
      BY <1>1, <1>2, <2>1, <2>5, <2>6
    <3>2. Held(pendingUpdates', content' - Len(pendingUpdates'))
      BY <2>6 DEF Held
    <3> QED
      BY <2>4, <2>6, <2>7, <3>1, <3>2 DEF HeldCounted
  <2> QED
    BY <1>1, <1>2, <1>7, <2>6, <2>7, <2>8, HoldKeepsFlow
<1>8. CASE ~late
  <2>1. pendingUpdates' = pendingUpdates \o <<e>> /\ releasing' = releasing
    <3>1. Append(pendingUpdates, e) = pendingUpdates \o <<e>>
      BY <1>1, <1>4, AppendIsConcat
    <3> QED
      BY <1>5, <1>8, <3>1
  <2>2. (content - Len(pendingUpdates)) + Len(pendingUpdates) = content
    BY <1>1, <1>2
  <2>3. Held(pendingUpdates', content - Len(pendingUpdates))
    BY <1>1, <1>2, <1>6, <2>1, <2>2, HeldJoins
  <2>4. Len(pendingUpdates') = Len(pendingUpdates) + 1
    BY <1>1, <1>6, <2>1, ConcatProperties
  <2>5. content' - Len(pendingUpdates') = content - Len(pendingUpdates)
    BY <1>1, <1>2, <2>4
  <2>6. Released' = Released
    BY <2>1, <2>5 DEF Released
  <2>7. HeldCounted'
    <3>1. Len(pendingUpdates') + Len(releasing') <= content'
      BY <1>1, <1>2, <2>1, <2>4
    <3> QED
      BY <1>2, <2>1, <2>3, <2>5, <2>6, <3>1 DEF HeldCounted
  <2>8. releasing = <<>>
    BY <1>8 DEF Flow, HeldBack
  <2> QED
    BY <1>1, <1>2, <1>8, <2>1, <2>6, <2>7, <2>8, HoldKeepsFlow
<1> QED
  BY <1>7, <1>8

LEMMA FinalKeepsFlow ==
  ASSUME BaseInv, Flow, Flowing, FinalUpdate
  PROVE  Flow'
<1> DEFINE e == [n |-> content + 1, emit |-> TRUE]
<1>1. /\ UNCHANGED <<wire, queue, writing, progressBlock, late>>
      /\ pendingUpdates \in Seq(Entry) /\ releasing \in Seq(Entry) /\ content \in Nat
      /\ \/ UNCHANGED <<content, pendingUpdates, releasing>>
         \/ content = 0 /\ content' = 0 /\ pendingUpdates' = <<>> /\ releasing' = releasing
         \/ late /\ content' = content + 1 /\ pendingUpdates' = <<>>
              /\ releasing' = Append(releasing, e)
         \/ ~late /\ content' = content + 1 /\ pendingUpdates' = <<e>> /\ releasing' = releasing
  BY DEF FinalUpdate, flagVars, BaseInv, ProgressTypes
<1>2. /\ Held(releasing, Released) /\ Held(pendingUpdates, content - Len(pendingUpdates))
      /\ Released \in Nat /\ Released + Len(releasing) = content - Len(pendingUpdates)
      /\ Len(pendingUpdates) \in Nat /\ Len(releasing) \in Nat
      /\ Len(pendingUpdates) + Len(releasing) <= content
      /\ content - Len(pendingUpdates) \in Nat
  BY FlowTypes DEF Flow, HeldCounted
<1>3. e \in Entry /\ e.n = content + 1 /\ Fit(e)
  BY <1>1 DEF Entry, Fit
<1> HIDE DEF e
<1>4. /\ <<e>> \in Seq(Entry) /\ Len(<<e>>) = 1 /\ Held(<<e>>, content)
      /\ Len(<<>>) = 0 /\ \A c : Held(<<>>, c)
  BY <1>1, <1>3, HeldOne DEF Held
<1>5. CASE UNCHANGED <<content, pendingUpdates, releasing>>
  BY <1>1, <1>5, FrameKeepsFlow
<1>6. CASE content = 0 /\ content' = 0 /\ pendingUpdates' = <<>> /\ releasing' = releasing
  <2>1. Len(pendingUpdates) = 0
    BY <1>2, <1>6
  <2>2. pendingUpdates = <<>>
    BY <1>1, <2>1, EmptySeq
  <2> QED
    BY <1>1, <1>6, <2>2, FrameKeepsFlow
<1>7. CASE late /\ content' = content + 1 /\ pendingUpdates' = <<>>
             /\ releasing' = Append(releasing, e)
  <2>1. releasing' = releasing \o <<e>> /\ Len(releasing') = Len(releasing) + 1
        /\ Len(pendingUpdates') = 0
    BY <1>1, <1>3, <1>4, <1>7
  <2>2. Released' = content - Len(releasing)
    BY <1>1, <1>2, <1>7, <2>1 DEF Released
  <2>3. CASE pendingUpdates = <<>>
    <3>1. Len(pendingUpdates) = 0
      BY <1>4, <2>3
    <3>2. Released' = Released /\ Released + Len(releasing) = content
      BY <1>1, <1>2, <2>2, <3>1
    <3>3. Held(releasing', Released')
      BY <1>1, <1>2, <1>4, <2>1, <3>2, HeldJoins
    <3>4. HeldCounted'
      BY <1>1, <1>2, <1>4, <1>7, <2>1, <3>1, <3>3 DEF HeldCounted
    <3> QED
      BY <1>1, <1>2, <1>7, <3>2, <3>4, HoldKeepsFlow
  <2>4. CASE pendingUpdates # <<>>
    <3>1. releasing = <<>> /\ NoUpdates(Unread) /\ progressBlock = None
      BY <2>4 DEF Flow, HeldBack
    <3>2. Released' = content /\ releasing' = <<e>>
      BY <1>1, <1>4, <1>7, <2>2, <3>1
    <3>3. HeldCounted'
      <4>1. Len(pendingUpdates') + Len(releasing') <= content'
        BY <1>1, <1>4, <1>7, <2>1, <3>2
      <4> QED
        BY <1>4, <1>7, <3>2, <4>1 DEF HeldCounted
    <3> QED
      BY <1>1, <1>7, <3>1, <3>2, <3>3, HoldKeepsFlow
  <2> QED
    BY <2>3, <2>4
<1>8. CASE ~late /\ content' = content + 1 /\ pendingUpdates' = <<e>> /\ releasing' = releasing
  <2>1. releasing = <<>> /\ NoUpdates(Unread) /\ progressBlock = None
    BY <1>8 DEF Flow, HeldBack
  <2>2. Len(pendingUpdates') = 1 /\ Len(releasing') = 0 /\ content' - Len(pendingUpdates') = content
    BY <1>1, <1>4, <1>8, <2>1
  <2>3. Released' = content
    BY <1>1, <2>2 DEF Released
  <2>4. HeldCounted'
    <3>1. Len(pendingUpdates') + Len(releasing') <= content'
      BY <1>1, <1>8, <2>2
    <3> QED
      BY <1>4, <1>8, <2>1, <2>2, <2>3, <3>1 DEF HeldCounted
  <2> QED
    BY <1>1, <1>8, <2>1, <2>3, <2>4, HoldKeepsFlow
<1> QED
  BY <1>1, <1>5, <1>6, <1>7, <1>8

LEMMA StepKeepsFlow ==
  ASSUME BaseInv, TextInv, [Next]_vars, Flowing'
  PROVE  Flow'
<1>0. "main" \in Emitters /\ Tools \subseteq Emitters
  BY DEF Emitters
<1>1. Flowing
  <2>1. closed \in BOOLEAN /\ progressClosed \in BOOLEAN /\ poisoned \in BOOLEAN
    BY DEF BaseInv, StreamTypes, ProgressTypes
  <2>2. CASE \E t \in Tools : EmitUse(t) \/ EmitResult(t) \/ ResultEmitted(t) \/ ToolThrows(t)
    BY <2>2 DEF EmitUse, EmitResult, ResultEmitted, ToolThrows, Flowing
  <2>3. CASE QueueStep
    BY <2>3 DEF QueueStep, StartRaw, StartUpdate, StartBanner, StartClose, WriteEvent, WriteFails,
       Flowing
  <2>4. CASE ProgressStep \/ Update \/ Elapse \/ Disconnect \/ UNCHANGED vars
    BY <2>4 DEF ProgressStep, FlushTimer, RunHook, Release, Update, Elapse, Disconnect, vars, Flowing
  <2>5. CASE BridgeClose \/ FinalClose \/ ErrorClose
    BY <2>1, <2>5 DEF BridgeClose, FinalClose, ErrorClose, CloseProgress, Flowing
  <2>6. CASE FinalDone \/ ErrorLeave \/ ErrorEscapes \/ ErrorDone
    BY <2>6 DEF FinalDone, ErrorLeave, ErrorEscapes, ErrorDone, Stop, Flowing
  <2>7. CASE \/ Open \/ OpenFails \/ OpenBanner \/ Opened \/ UpdateUsage \/ UsageWritten
             \/ BridgeStart \/ UsesEmitted \/ ToolsDone \/ Fail \/ FinalUpdate \/ FinalStart
             \/ ErrorWrite
    BY <2>7 DEF Open, OpenFails, OpenBanner, Opened, UpdateUsage, UsageWritten, BridgeStart,
       UsesEmitted, ToolsDone, Fail, FinalUpdate, FinalStart, ErrorWrite, Flowing
  <2> QED
    BY <2>2, <2>3, <2>4, <2>5, <2>6, <2>7 DEF Next, MainStep
<1>2. Flow /\ TextKnown /\ CloseKnown
  BY <1>1 DEF TextInv
<1>3. CASE Update \/ FlushTimer \/ FinalUpdate \/ Release
  BY <1>1, <1>2, <1>3, AddKeepsFlow, FlushKeepsFlow, FinalKeepsFlow, ReleaseKeepsFlow
<1>4. CASE QueueStep
  <2>1. ~WriteFails
    BY DEF WriteFails, Flowing
  <2> QED
    BY <1>1, <1>2, <1>4, <2>1, StartKeepsFlow, UpdateKeepsFlow, WriteKeepsFlow DEF QueueStep
<1>5. CASE RunHook
  <2>1. pendingUpdates = <<>>
    BY <1>2, <1>5 DEF RunHook, Flow, HeldBack
  <2>2. UNCHANGED <<wire, writing, content, pendingUpdates, releasing, progressBlock, late>>
    BY <1>5, <2>1 DEF RunHook
  <2>3. Op("banner") \in Operations /\ Op("banner").op # "update"
    BY TurnTypes DEF Operations
  <2>4. queue' = queue \/ queue' = Append(queue, Op("banner"))
    BY <1>5 DEF RunHook
  <2> QED
    BY <1>2, <2>2, <2>3, <2>4, FrameKeepsFlow, AppendKeepsFlow
<1>6. CASE Elapse \/ Disconnect \/ UNCHANGED vars
  <2>1. /\ UNCHANGED <<wire, queue, writing, content, pendingUpdates, releasing, progressBlock>>
        /\ late => late'
    BY <1>6 DEF Elapse, Disconnect, vars, progressVars, flagVars
  <2> QED
    BY <1>2, <2>1, FrameKeepsFlow
<1>7. CASE Open \/ OpenFails
  <2>1. /\ UNCHANGED <<queue, writing, content, pendingUpdates, releasing, progressBlock, late>>
        /\ wire = <<>> /\ writing = <<>> /\ progressBlock = None
        /\ wire' = <<Event("message_start", 0)>>
    BY <1>7 DEF Open, OpenFails, BaseInv, Quiet, progressVars, flagVars
  <2>2. Unread' = Unread
    BY <2>1 DEF Unread
  <2>3. Reach = 0 /\ Reach = Frontier(wire)
    BY <1>2, <2>1, ReachIs, PlainWrites DEF Flow, BlockShows, Reach
  <2>4. Frontier(wire') = 0
    <3> DEFINE e == Event("message_start", 0)
    <3>1. e \in Events /\ ~(e.to > 0)
      <4>1. Event("message_start", 0) \in Events /\ Event("message_start", 0).to = 0
        BY EventTypes DEF AS!Kinds, Event, AS!Event
      <4> QED
        BY <4>1
    <3> HIDE DEF e
    <3>2. wire \in Seq(Events) /\ content \in Nat /\ Gapless(wire) /\ AllShown(wire, content)
      BY <1>2 DEF BaseInv, StreamTypes, ProgressTypes, TextKnown
    <3>3. Frontier(Append(wire, e)) = Frontier(wire)
      BY <3>1, <3>2, GaplessGrows
    <3>4. wire' = <<e>>
      BY <2>1 DEF e
    <3>5. wire' = Append(wire, e)
      BY <2>1, <3>4
    <3> QED
      BY <2>3, <3>3, <3>5
  <2>5. Reach' = Reach
    <3>1. writing' = <<>>
      BY <2>1
    <3>2. NoText(writing')
      BY <3>1, PlainWrites
    <3> QED
      BY <2>3, <2>4, <3>2, ReachIs DEF Reach
  <2> QED
    BY <1>2, <2>1, <2>2, <2>5, ChainKeepsFlow
<1>8. CASE OpenBanner
  <2>1. UNCHANGED <<wire, writing, content, pendingUpdates, releasing, progressBlock, late>>
    BY <1>8 DEF OpenBanner, progressVars, flagVars
  <2>2. Op("banner") \in Operations /\ Op("banner").op # "update"
    BY TurnTypes DEF Operations
  <2>3. queue' = queue \/ queue' = Append(queue, Op("banner"))
    BY <1>8 DEF OpenBanner
  <2> QED
    BY <1>2, <2>1, <2>2, <2>3, FrameKeepsFlow, AppendKeepsFlow
<1>9. CASE BridgeClose \/ FinalClose \/ ErrorClose
  BY <1>1, <1>9 DEF BridgeClose, FinalClose, ErrorClose, CloseProgress, Flowing
<1>10. CASE FinalDone \/ ErrorLeave \/ ErrorEscapes \/ ErrorDone
  BY <1>10 DEF FinalDone, ErrorLeave, ErrorEscapes, ErrorDone, Stop, Flowing
<1>11. CASE \/ Opened \/ UsageWritten \/ BridgeStart \/ UsesEmitted \/ ToolsDone \/ Fail
            \/ \E t \in Tools : ResultEmitted(t) \/ ToolThrows(t)
  <2>1. UNCHANGED <<wire, queue, writing, content, pendingUpdates, releasing, progressBlock, late>>
    BY <1>11 DEF Opened, UsageWritten, BridgeStart, UsesEmitted, ToolsDone, Fail, ResultEmitted,
       ToolThrows, progressVars, flagVars
  <2> QED
    BY <1>2, <2>1, FrameKeepsFlow
<1>12. CASE UpdateUsage \/ FinalStart \/ ErrorWrite
            \/ \E t \in Tools : EmitUse(t) \/ EmitResult(t)
  <2>1. UNCHANGED <<wire, writing, content, pendingUpdates, releasing, progressBlock, late>>
    BY <1>12 DEF UpdateUsage, FinalStart, ErrorWrite, EmitUse, EmitResult, progressVars, flagVars
  <2>3. CASE UNCHANGED streamVars
    BY <1>2, <2>1, <2>3, FrameKeepsFlow DEF streamVars
  <2>4. CASE \E e \in Emitters : \E series \in Seq(PlainEvents) : series # <<>> /\ Sends(e, series)
    BY <1>2, <2>1, <2>4, SendKeepsFlow
  <2> QED
    BY <1>12, <2>3, <2>4, MainSends DEF Sending
<1> QED
  BY <1>3, <1>4, <1>5, <1>6, <1>7, <1>8, <1>9, <1>10, <1>11, <1>12 DEF Next, MainStep, ProgressStep

LEMMA TextStarts == Init => TextInv
<1> SUFFICES ASSUME Init PROVE TextInv
  OBVIOUS
<1>1. BaseInv
  BY BaseStarts
<1>2. wire = <<>> /\ writing = <<>> /\ queue = <<>> /\ content = 0 /\ pendingUpdates = <<>>
      /\ releasing = <<>> /\ progressBlock = None
  BY DEF Init
<1>3. ShownIn(<<>>) = <<>> /\ Len(<<>>) = 0
  <2> DEFINE I == {i \in DOMAIN <<>> : <<>>[i].to > 0}
             w == <<>>
  <2>1. ShownIn(<<>>) = Subsequence(<<>>, I)
    BY DEF ShownIn, Select
  <2>2. w \in Seq(Events) /\ Len(w) = 0 /\ I \in SUBSET DOMAIN w
    OBVIOUS
  <2>3. Subsequence(<<>>, I) \in Seq(Events) /\ Len(Subsequence(<<>>, I)) \in Nat
    <3>1. ShownIn(<<>>) \in Seq(Events)
      BY <2>2, ShownTypes
    <3> QED
      BY <2>1, <3>1, LenProperties
  <2> HIDE DEF I
  <2>4. Len(Subsequence(<<>>, I)) <= 0
    BY <2>2, SubsequenceShorter
  <2>5. Len(Subsequence(<<>>, I)) = 0
    BY <2>3, <2>4
  <2> QED
    BY <2>1, <2>3, <2>5, EmptySeq
<1>4. TextKnown
  BY <1>2, <1>3 DEF TextKnown, Gapless, AllShown, WritingText
<1>5. CloseKnown
  BY <1>2 DEF CloseKnown, Queued
<1>6. Flow
  <2>1. Released = 0 /\ HeldCounted
    <3>1. Len(pendingUpdates) = 0 /\ Len(releasing) = 0
      BY <1>2, <1>3
    <3>4. Released = (0 - 0) - 0
      BY <1>2, <3>1, Zenon DEF Released
    <3>2. Released = 0
      BY <3>4
    <3>3. \A c : Held(<<>>, c)
      BY DEF Held
    <3> QED
      BY <1>2, <3>1, <3>2, <3>3 DEF HeldCounted
  <2>2. Unread = <<>> /\ NoUpdates(<<>>) /\ Frontier(wire) = 0
    BY <1>2, <1>3 DEF Unread, NoUpdates, Frontier
  <2>3. Reach = 0
    BY <1>2, <2>2, ReachIs, PlainWrites DEF Reach
  <2>4. UpTo(Unread, Released)
    BY <2>1, <2>2, UpToNone
  <2> QED
    BY <1>2, <2>1, <2>2, <2>3, <2>4 DEF Flow, HeldBack, BlockShows
<1> QED
  BY <1>4, <1>5, <1>6 DEF TextInv

LEMMA TextKept ==
  ASSUME BaseInv, TextInv, [Next]_vars
  PROVE  TextInv'
<1>1. TextKnown'
  BY StepKeepsText
<1>2. CloseKnown'
  BY StepKeepsClose DEF TextInv
<1>3. Flowing' => Flow'
  BY StepKeepsFlow
<1> QED
  BY <1>1, <1>2, <1>3 DEF TextInv

(* The progress text on the wire is a gapless beginning of the timeline,   *)
(* for any number of calls and fragments: what is held back, released by a *)
(* timer, by the next update or by the final status, or waits for the      *)
(* banner is shown in order and once, and a fragment is only ever missing  *)
(* at the end (progress.js update, #flushPending, #emitUpdate).            *)
THEOREM TimelineIsGapless == Spec => []TimelineIsPrefix
<1>1. TextInv => TimelineIsPrefix
  BY TimelineIs DEF TextInv, TextKnown
<1> QED
  BY <1>1, BaseHolds, TextStarts, TextKept, PTL DEF Spec
-----------------------------------------------------------------------------
(* The message.  Where one operation writes at a time, what follows the    *)
(* wire is known: the events still to come, of the operation that writes   *)
(* or of the emitter whose event is queued, continue it one by one, and    *)
(* end where the handler's next index says.                                *)

(* The stream between two blocks, inside one, and the index of the next.   *)
Between(a) == a.k \in {"message_start", "stop"}
Inside(a) == a.k \in {"start", "delta"}
NextIndex(a) == IF a.k = "message_start" THEN 0 ELSE a.i + 1

Follows(a, e) ==
    \/ e.k = "start" /\ Between(a) /\ e.i = NextIndex(a)
    \/ e.k \in {"delta", "stop"} /\ Inside(a) /\ e.i = a.i
    \/ e.k = "message_delta" /\ Between(a)
    \/ e.k = "message_stop" /\ a.k = "message_delta"
    \/ e.k = "error" /\ Between(a)

Path(a, q) ==
    /\ q # <<>> => Follows(a, q[1])
    /\ \A j \in 1..Len(q) - 1 : Follows(q[j], q[j + 1])
EndOf(a, q) == IF q = <<>> THEN a ELSE q[Len(q)]

Tip == TipOf(wire)

(* The last event tells how many blocks have started, and only the usage   *)
(* may come after it.                                                      *)
WireKnown(w) ==
    LET tip == TipOf(w) IN
    /\ \E j : IsTip(w, j)
    /\ Between(tip) \/ Inside(tip) => StartedIn(w) = NextIndex(tip)
    /\ Between(tip) \/ Inside(tip) \/ (w # <<>> /\ tip = w[Len(w)])

(* What is still to be written before another operation has its turn.      *)
Upcoming ==
    IF queue = <<>> THEN <<>>
    ELSE IF Head(queue).op # "raw" THEN writing
    ELSE IF Head(queue).ev.k = "usage" THEN <<>>
    ELSE <<Head(queue).ev>> \o script[Head(queue).by]

End == EndOf(Tip, Upcoming)

Beginning == {"open", "banner", "banner_wait", "work", "usage", "loop"}
Emitting == {"uses", "tools", "final", "error_write"}
Closing == {"bridge_close", "uses", "tools", "answer", "final_close", "final",
            "error_close", "error_write"}

(* How far the handler is, the calls of the round and the bridge are.      *)
Stage ==
    /\ closed <=> main \in {"ended", "escaped"}
    /\ main \in Beginning => ~progressClosed
    /\ main \in Closing => progressClosed
    /\ main \in Beginning \cup {"bridge_close"} =>
         bridge = None /\ \A t \in Tools : tool[t] = "idle"
    /\ main = "uses" => \A t \in Tools : tool[t] \in {"idle", "running"}
    /\ main = "tools" => \A t \in Tools : tool[t] \in {"running", "emitting", "done"}
    /\ main \notin {"uses", "tools", "ended"} => \A t \in Tools : tool[t] # "emitting"
    /\ bridge # None => progressClosed /\ progressBlock = None

(* The chain while the progress has it: nothing but the usage is emitted,  *)
(* and the close is the last operation of the progress.                    *)
SoftQueue ==
    /\ \A j \in 1..Len(queue) : queue[j].op = "raw" =>
         main = "usage" /\ queue[j] = Raw("main", Event("usage", 0))
    /\ \A e \in Emitters : script[e] = <<>>
    /\ \A j \in 1..Len(queue) : queue[j].op = "close" => j = Len(queue) /\ progressClosed
    /\ progressClosed => queue = <<>> \/ queue[Len(queue)].op = "close"
    /\ progressClosed /\ queue = <<>> => progressBlock = None
    /\ writing # <<>> /\ Head(queue).op = "close" => progressBlock = None

(* The chain while one emitter has it. *)
RawQueue ==
    /\ progressBlock = None
    /\ Len(queue) <= 1
    /\ queue # <<>> =>
         /\ queue[1].op = "raw" /\ queue[1].ev.k # "usage"
         /\ IF main = "tools" THEN queue[1].by \in Tools /\ tool[queue[1].by] = "emitting"
                              ELSE queue[1].by = "main"
    /\ \A e \in Emitters : script[e] # <<>> => queue # <<>> /\ queue[1].by = e

Shape ==
    /\ main \in Emitting => RawQueue
    /\ main \notin Emitting => SoftQueue
    /\ main = "ended" => queue = <<>>

(* The index of the next block, once what is to come is written.           *)
Due ==
    IF bridge = None THEN nextContentIndex
    ELSE IF main = "uses" THEN bridge + Cardinality({t \in Tools : tool[t] = "running"})
    ELSE IF \E t \in Tools : tool[t] = "emitting" THEN bridge + 1 ELSE bridge

Standing ==
    /\ main = "final" => End.k = "message_stop"
    /\ main = "error_write" => End.k = "error"
    /\ main = "ended" => End.k \in {"message_stop", "error"}
    /\ main \notin {"open", "final", "error_write", "ended"} =>
         IF progressBlock = None
           THEN Between(End) /\ NextIndex(End) = Due
           ELSE Inside(End) /\ End.i = progressBlock /\ nextContentIndex = progressBlock + 1
                /\ visible

Order == main # "open" => Path(Tip, Upcoming)

(* All of it, while the client is there and no write has failed.  Where    *)
(* results cross the chain has two emitters, and RawQueue is lost.         *)
Sound == Stage /\ Shape /\ Order /\ Standing
Healthy == ~gone /\ ~poisoned

(* One event of the path is written. *)
LEMMA PathGoesOn ==
  ASSUME NEW a, NEW q \in Seq(Events), q # <<>>, Path(a, q)
  PROVE  /\ Follows(a, Head(q)) /\ Head(q) \in Events
         /\ Path(Head(q), Tail(q)) /\ EndOf(Head(q), Tail(q)) = EndOf(a, q)
<1> DEFINE t == Tail(q)
           n == Len(q)
<1>1. /\ n \in Nat /\ n >= 1 /\ t \in Seq(Events) /\ Len(t) = n - 1
      /\ \A j \in 1..n - 1 : t[j] = q[j + 1]
      /\ Head(q) = q[1] /\ Head(q) \in Events
  BY HeadTailProperties, EmptySeq
<1> HIDE DEF t
<1>2. t = <<>> <=> n = 1
  BY <1>1, EmptySeq
<1>3. Follows(a, q[1]) /\ \A j \in 1..n - 1 : Follows(q[j], q[j + 1])
  BY DEF Path
<1>4. t # <<>> => Follows(q[1], t[1])
  BY <1>1, <1>2, <1>3
<1>5. ASSUME NEW j \in 1..Len(t) - 1
      PROVE  Follows(t[j], t[j + 1])
  <2>1. j + 1 \in 1..n - 1 /\ j \in 1..n - 1 /\ t[j] = q[j + 1] /\ t[j + 1] = q[(j + 1) + 1]
    BY <1>1
  <2> QED
    BY <1>3, <2>1
<1>6. EndOf(q[1], t) = EndOf(a, q)
  <2>1. CASE n = 1
    BY <1>1, <1>2, <2>1 DEF EndOf
  <2>2. CASE n # 1
    <3>1. t[Len(t)] = q[n]
      BY <1>1, <2>2
    <3> QED
      BY <1>1, <1>2, <2>2, <3>1 DEF EndOf
  <2> QED
    BY <2>1, <2>2
<1> QED
  BY <1>1, <1>3, <1>4, <1>5, <1>6 DEF Path, t

(* One event more: it follows the last one, or tells the usage. *)
Continuing(tip, e) ==
    \/ Follows(tip, e)
    \/ e.k = "usage" /\ (Between(tip) \/ Inside(tip))

LEMMA WireContinues ==
  ASSUME NEW w \in Seq(Events), WireKnown(w), NEW e \in Events, Continuing(TipOf(w), e)
  PROVE  /\ WireKnown(Append(w, e))
         /\ TipOf(Append(w, e)) = IF e.k = "usage" THEN TipOf(w) ELSE e
<1> DEFINE v == Append(w, e)
<1>1. /\ v \in Seq(Events) /\ Len(v) = Len(w) + 1 /\ v[Len(v)] = e /\ v # <<>>
  BY AppendProperties, EmptySeq
<1>2. \E j : IsTip(w, j)
  BY DEF WireKnown
<1>3. PICK j : IsTip(w, j)
  BY <1>2
<1>4. TipOf(w) = w[j] /\ w[j] \in Events
  BY <1>3, TipUnique DEF IsTip
<1>5. /\ e.k # "usage" => TipOf(v) = e /\ \E l : IsTip(v, l)
      /\ e.k = "usage" => TipOf(v) = TipOf(w) /\ \E l : IsTip(v, l)
      /\ StartedIn(v) = StartedIn(w) + (IF e.k = "start" THEN 1 ELSE 0)
  BY <1>2, WireGrows
<1> HIDE DEF v
<1>6. CASE e.k = "usage"
  <2>1. TipOf(v) = TipOf(w) /\ StartedIn(v) = StartedIn(w) + 0
    BY <1>5, <1>6
  <2>2. Between(TipOf(w)) \/ Inside(TipOf(w))
    BY <1>6 DEF Continuing, Follows
  <2>3. StartedIn(w) = NextIndex(TipOf(w))
    BY <2>2 DEF WireKnown
  <2>4. NextIndex(TipOf(w)) \in Nat
    BY <1>4 DEF NextIndex, Events
  <2> QED
    BY <1>5, <1>6, <2>1, <2>2, <2>3, <2>4 DEF WireKnown, v
<1>7. CASE e.k # "usage"
  <2>1. TipOf(v) = e /\ \E l : IsTip(v, l)
    BY <1>5, <1>7
  <2>2. Follows(TipOf(w), e)
    BY <1>7 DEF Continuing
  <2>3. Between(e) \/ Inside(e) => StartedIn(v) = NextIndex(e)
    <3>1. CASE e.k = "start"
      <4>1. Between(TipOf(w)) /\ e.i = NextIndex(TipOf(w))
        BY <2>2, <3>1 DEF Follows
      <4>2. StartedIn(w) = e.i
        BY <4>1 DEF WireKnown
      <4> QED
        BY <1>5, <3>1, <4>2 DEF NextIndex
    <3>2. CASE e.k \in {"delta", "stop"}
      <4>1. Inside(TipOf(w)) /\ e.i = TipOf(w).i
        BY <2>2, <3>2 DEF Follows
      <4>2. StartedIn(w) = e.i + 1
        BY <4>1 DEF WireKnown, Inside, NextIndex
      <4> QED
        BY <1>5, <3>2, <4>2 DEF NextIndex, Events
    <3>3. CASE e.k \notin {"start", "delta", "stop"}
      BY <2>2, <3>3 DEF Follows, Between, Inside
    <3> QED
      BY <3>1, <3>2, <3>3
  <2> QED
    BY <1>1, <1>7, <2>1, <2>3 DEF WireKnown, v
<1> QED
  BY <1>6, <1>7

(* Such an event is one that AnthropicStream allows. *)
LEMMA ContinuingIsSent ==
  ASSUME wire \in Seq(Events), WireKnown(wire), NEW e \in Events, Continuing(TipOf(wire), e),
         wire' = Append(wire, e)
  PROVE  AS!Send
<1>1. PICK j : IsTip(wire, j)
  BY DEF WireKnown
<1>2. wire # <<>> /\ j \in 1..Len(wire)
  BY <1>1 DEF IsTip
<1>3. AS!LastKind(wire) = TipOf(wire).k
  BY <1>2, TipIsLatest DEF AS!LastKind
<1>4. /\ AS!BlockOpen(wire) <=> Inside(TipOf(wire))
      /\ AS!Between(wire) <=> Between(TipOf(wire))
  BY <1>3 DEF AS!BlockOpen, AS!Between, Inside, Between
<1>5. Between(TipOf(wire)) => AS!Started(wire) = NextIndex(TipOf(wire))
  BY TipIsLatest DEF WireKnown
<1>6. AS!Legal(wire, e)
  BY <1>2, <1>3, <1>4, <1>5, TipIsLatest DEF AS!Legal, Continuing, Follows
<1>7. /\ Len(wire') = Len(wire) + 1 /\ wire'[Len(wire')] = e
      /\ wire' \in Seq(Events) /\ \A l \in 1..Len(wire) : wire'[l] = wire[l]
  OBVIOUS
<1> QED
  BY <1>6, <1>7 DEF AS!Send

(* What is still to be written. *)
LEMMA PlainSeq ==
  ASSUME NEW q \in Seq(PlainEvents)
  PROVE  q \in Seq(Events)
<1>1. Len(q) \in Nat /\ q \in [1..Len(q) -> PlainEvents]
  BY LenProperties
<1>2. q \in [1..Len(q) -> Events]
  BY <1>1, EventTypes
<1> QED
  BY <1>1, <1>2, IsASeq

LEMMA UpcomingTypes ==
  ASSUME BaseInv
  PROVE  Upcoming \in Seq(Events)
<1>1. <<>> \in Seq(Events) /\ writing \in Seq(Events)
  BY DEF BaseInv, StreamTypes
<1>2. ASSUME queue # <<>>, Head(queue).op = "raw"
      PROVE  <<Head(queue).ev>> \o script[Head(queue).by] \in Seq(Events)
  <2>1. Head(queue) \in Operations
    BY <1>2, HeadTailProperties DEF BaseInv, StreamTypes
  <2>2. Head(queue).by \in Emitters /\ Head(queue).ev \in Events
    BY <1>2, <2>1, OperationTypes, EventTypes
  <2>3. script[Head(queue).by] \in Seq(PlainEvents)
    BY <2>2 DEF BaseInv, StreamTypes
  <2>4. script[Head(queue).by] \in Seq(Events)
    BY <2>3, PlainSeq
  <2> QED
    BY <2>2, <2>4
<1> QED
  BY <1>1, <1>2 DEF Upcoming

LEMMA PositionStays ==
  ASSUME UNCHANGED <<wire, queue, writing, script>>
  PROVE  Tip' = Tip /\ Upcoming' = Upcoming /\ End' = End
<1>1. Tip' = Tip
  BY DEF Tip
<1>2. Upcoming' = Upcoming
  BY DEF Upcoming
<1> QED
  BY <1>1, <1>2 DEF End

LEMMA PositionBehind ==
  ASSUME BaseInv, NEW o \in Operations, o.op # "raw", queue' = Append(queue, o),
         UNCHANGED <<wire, writing, script>>
  PROVE  Tip' = Tip /\ Upcoming' = Upcoming /\ End' = End
<1>1. Tip' = Tip
  BY DEF Tip
<1>2. Upcoming' = Upcoming
  <2>0. queue \in Seq(Operations) /\ queue' \in Seq(Operations) /\ queue' # <<>>
    <3>1. queue \in Seq(Operations)
      BY DEF BaseInv, StreamTypes
    <3>2. Append(queue, o) \in Seq(Operations) /\ Append(queue, o) # <<>>
      BY <3>1, AppendProperties
    <3> QED
      BY <3>1, <3>2
  <2>1. CASE queue = <<>>
    <3>1. Head(queue') = o
      BY <2>0, <2>1
    <3>2. writing = <<>>
      BY <2>1 DEF BaseInv, WritingKnown
    <3> QED
      BY <2>0, <2>1, <3>1, <3>2 DEF Upcoming
  <2>2. CASE queue # <<>>
    <3>1. Head(queue') = Head(queue)
      BY <2>0, <2>2
    <3> QED
      BY <2>0, <2>2, <3>1 DEF Upcoming
  <2> QED
    BY <2>1, <2>2
<1> QED
  BY <1>1, <1>2 DEF End

(* Nothing of the chain, the block and the handler changes. *)
standing == <<wire, queue, writing, script, progressBlock, nextContentIndex, visible,
              progressClosed, closed, main, tool, bridge>>

LEMMA RestIsSound ==
  ASSUME Sound, UNCHANGED standing
  PROVE  Sound'
<1>1. Tip' = Tip /\ Upcoming' = Upcoming /\ End' = End
  BY PositionStays DEF standing
<1>2. Stage'
  BY DEF standing, Stage, Sound
<1>3. Shape'
  BY DEF standing, Shape, Sound, SoftQueue, RawQueue
<1>4. Order'
  BY <1>1 DEF standing, Order, Sound
<1>5. Due' = Due
  BY DEF standing, Due
<1>6. Standing'
  BY <1>1, <1>5 DEF standing, Standing, Sound
<1> QED
  BY <1>2, <1>3, <1>4, <1>6 DEF Sound

(* One more operation of the progress. *)
LEMMA AppendIsSoft ==
  ASSUME BaseInv, SoftQueue, NEW o \in Operations, queue' = Append(queue, o),
         UNCHANGED <<writing, script, progressBlock>>,
         o.op # "raw", main' = main \/ (main # "usage" /\ main' \notin {"usage"}),
         ~progressClosed, o.op = "close" <=> progressClosed',
         progressClosed' \in BOOLEAN
  PROVE  SoftQueue'
<1>0. /\ queue \in Seq(Operations) /\ Len(queue') = Len(queue) + 1
      /\ \A j \in 1..Len(queue) : queue'[j] = queue[j]
      /\ queue'[Len(queue')] = o /\ queue' # <<>>
  <2>1. queue \in Seq(Operations)
    BY DEF BaseInv, StreamTypes
  <2>2. Append(queue, o) # <<>>
    BY <2>1
  <2> QED
    BY <2>1, <2>2, AppendProperties
<1>1. \A j \in 1..Len(queue) : queue[j].op # "close"
  BY DEF SoftQueue
<1>2. \A j \in 1..Len(queue') : queue'[j].op = "raw" =>
         main' = "usage" /\ queue'[j] = Raw("main", Event("usage", 0))
  BY <1>0 DEF SoftQueue
<1>3. \A j \in 1..Len(queue') : queue'[j].op = "close" => j = Len(queue') /\ progressClosed'
  BY <1>0, <1>1
<1>4. writing' # <<>> /\ Head(queue').op = "close" => progressBlock' = None
  <2> SUFFICES ASSUME writing # <<>> PROVE Head(queue').op # "close"
    OBVIOUS
  <2>1. queue # <<>>
    BY DEF BaseInv, WritingKnown
  <2>2. Head(queue') = queue[1] /\ 1 \in 1..Len(queue)
    BY <1>0, <2>1
  <2> QED
    BY <1>1, <2>2
<1> QED
  BY <1>0, <1>2, <1>3, <1>4 DEF SoftQueue

(* The first operation is done with. *)
LEMMA TailIsSoft ==
  ASSUME BaseInv, SoftQueue, queue # <<>>, queue' = Tail(queue), writing' = <<>>,
         \A e \in Emitters : script'[e] = <<>>, UNCHANGED <<main, progressClosed, progressBlock>>,
         Head(queue).op = "close" => progressBlock = None
  PROVE  SoftQueue' /\ Upcoming' = <<>>
<1>1. /\ queue' \in Seq(Operations) /\ Len(queue') = Len(queue) - 1 /\ Len(queue) \in Nat \ {0}
      /\ \A j \in 1..Len(queue') : queue'[j] = queue[j + 1]
      /\ Head(queue) = queue[1]
  BY HeadTailProperties, EmptySeq DEF BaseInv, StreamTypes
<1>2. queue' = <<>> <=> Len(queue') = 0
  BY <1>1, EmptySeq
<1>3. \A j \in 1..Len(queue') : j + 1 \in 1..Len(queue)
  BY <1>1
<1>4. \A j \in 1..Len(queue') : queue'[j].op = "raw" =>
        main' = "usage" /\ queue'[j] = Raw("main", Event("usage", 0))
  BY <1>1, <1>3 DEF SoftQueue
<1>5. \A j \in 1..Len(queue') : queue'[j].op = "close" => j = Len(queue') /\ progressClosed'
  <2> SUFFICES ASSUME NEW j \in 1..Len(queue'), queue'[j].op = "close"
               PROVE  j = Len(queue') /\ progressClosed'
    OBVIOUS
  <2>1. j + 1 \in 1..Len(queue) /\ queue[j + 1].op = "close"
    BY <1>1, <1>3
  <2>2. j + 1 = Len(queue) /\ progressClosed
    BY <2>1 DEF SoftQueue
  <2>3. Len(queue) \in Nat /\ j \in Nat /\ Len(queue') = Len(queue) - 1
    BY <1>1
  <2>4. j = Len(queue')
    BY <2>2, <2>3
  <2> QED
    BY <2>2, <2>4
<1>6. progressClosed => queue[Len(queue)].op = "close"
  BY DEF SoftQueue
<1>7. queue' # <<>> => Len(queue') \in 1..Len(queue') /\ queue'[Len(queue')] = queue[Len(queue)]
  BY <1>1, <1>2
<1>8. queue' = <<>> => Len(queue) = 1
  BY <1>1, <1>2
<1>9. SoftQueue'
  BY <1>1, <1>4, <1>5, <1>6, <1>7, <1>8 DEF SoftQueue
<1>10. queue' # <<>> /\ Head(queue').op = "raw" => Head(queue').ev.k = "usage"
  <2> SUFFICES ASSUME queue' # <<>>, Head(queue').op = "raw" PROVE Head(queue').ev.k = "usage"
    OBVIOUS
  <2>1. 1 \in 1..Len(queue') /\ Head(queue') = queue'[1]
    BY <1>1, <1>2
  <2> QED
    BY <1>4, <2>1 DEF Raw, Event, AS!Event
<1> QED
  BY <1>9, <1>10 DEF Upcoming

(* A close that has had its turn, or never came: the chain is empty. *)
LEMMA ClosedIsEmpty ==
  ASSUME BaseInv, SoftQueue, progressClosed, ~Queued("close")
  PROVE  queue = <<>> /\ progressBlock = None
<1>1. queue # <<>> => Len(queue) \in 1..Len(queue)
  BY EmptySeq DEF BaseInv, StreamTypes
<1> QED
  BY <1>1 DEF SoftQueue, Queued

LEMMA EmptyPosition ==
  ASSUME queue = <<>>
  PROVE  Upcoming = <<>> /\ End = Tip
  BY DEF Upcoming, End, EndOf

(* An emitter sends its events over an empty chain. *)
LEMMA SendPosition ==
  ASSUME BaseInv, queue = <<>>, \A e \in Emitters : script[e] = <<>>,
         NEW e \in Emitters, NEW series \in Seq(PlainEvents), series # <<>>,
         Head(series).k # "usage", Emit(e, series), wire' = wire
  PROVE  /\ Tip' = Tip /\ Upcoming' = series /\ End' = series[Len(series)]
         /\ queue' # <<>> /\ Len(queue') = 1 /\ queue'[1] = Raw(e, Head(series))
         /\ \A d \in Emitters : script'[d] # <<>> => d = e
<1>1. queue' = <<Raw(e, Head(series))>> /\ queue' # <<>> /\ Head(queue') = Raw(e, Head(series))
      /\ Len(queue') = 1 /\ queue'[1] = Raw(e, Head(series))
  BY DEF Emit
<1>2. script' = [script EXCEPT ![e] = Tail(series)] /\ DOMAIN script = Emitters
  BY DEF Emit, BaseInv, StreamTypes
<1>3. script'[e] = Tail(series) /\ \A d \in Emitters : d # e => script'[d] = <<>>
  BY <1>2
<1>7. /\ Head(queue').op = "raw" /\ Head(queue').by = e
      /\ Head(queue').ev = Head(series)
  BY <1>1 DEF Raw
<1>4. Upcoming' = <<Head(series)>> \o Tail(series)
  BY <1>1, <1>3, <1>7 DEF Upcoming
<1>5. <<Head(series)>> \o Tail(series) = series
  BY HeadTailProperties
<1>6. Tip' = Tip
  BY DEF Tip
<1> QED
  BY <1>1, <1>3, <1>4, <1>5, <1>6 DEF End, EndOf

(* It leaves the chain to that emitter. *)
LEMMA SendIsRaw ==
  ASSUME NEW e \in Emitters, NEW series \in Seq(PlainEvents), Head(series).k # "usage",
         queue' # <<>>, Len(queue') = 1, queue'[1] = Raw(e, Head(series)),
         \A d \in Emitters : script'[d] # <<>> => d = e,
         progressBlock' = None,
         IF main' = "tools" THEN e \in Tools /\ tool'[e] = "emitting" ELSE e = "main"
  PROVE  RawQueue'
<1>1. /\ queue'[1].op = "raw" /\ queue'[1].by = e /\ queue'[1].ev = Head(series)
  BY DEF Raw
<1> QED
  BY <1>1 DEF RawQueue

(* Where the emitter has nothing left, the chain is empty. *)
LEMMA NotBusyIsEmpty ==
  ASSUME BaseInv, RawQueue, main # "tools", ~Busy("main")
  PROVE  queue = <<>> /\ \A e \in Emitters : script[e] = <<>>
<1>1. queue # <<>> => 1 \in 1..Len(queue)
  BY EmptySeq DEF BaseInv, StreamTypes
<1> QED
  BY <1>1 DEF RawQueue, Busy

LEMMA NoneEmittingIsEmpty ==
  ASSUME RawQueue, main = "tools", \A t \in Tools : tool[t] # "emitting"
  PROVE  queue = <<>> /\ \A e \in Emitters : script[e] = <<>>
  BY DEF RawQueue

(* An empty chain is soft as well as raw. *)
LEMMA EmptyIsSoft ==
  ASSUME queue' = <<>>, \A e \in Emitters : script'[e] = <<>>, progressBlock' = None,
         writing' = <<>>
  PROVE  SoftQueue' /\ RawQueue'
<1>1. Len(queue') = 0
  OBVIOUS
<1> QED
  BY <1>1 DEF SoftQueue, RawQueue

LEMMA OneStep ==
  ASSUME NEW a \in Events, NEW b \in Events, Follows(a, b)
  PROVE  Path(a, <<b>>) /\ EndOf(a, <<b>>) = b
  BY DEF Path, EndOf

LEMMA TwoSteps ==
  ASSUME NEW a \in Events, NEW b \in Events, NEW c \in Events, Follows(a, b), Follows(b, c)
  PROVE  Path(a, <<b, c>>) /\ EndOf(a, <<b, c>>) = c
<1>1. Len(<<b, c>>) = 2 /\ <<b, c>>[1] = b /\ <<b, c>>[2] = c /\ <<b, c>> # <<>>
  OBVIOUS
<1> QED
  BY <1>1 DEF Path, EndOf

LEMMA ThreeSteps ==
  ASSUME NEW a \in Events, NEW b \in Events, NEW c \in Events, NEW d \in Events,
         Follows(a, b), Follows(b, c), Follows(c, d)
  PROVE  Path(a, <<b, c, d>>) /\ EndOf(a, <<b, c, d>>) = d
<1> DEFINE q == <<b, c, d>>
<1>1. Len(q) = 3 /\ q[1] = b /\ q[2] = c /\ q[3] = d /\ q # <<>>
  OBVIOUS
<1> HIDE DEF q
<1>2. \A j \in 1..3 - 1 : j = 1 \/ j = 2
  OBVIOUS
<1>3. Path(a, q) /\ EndOf(a, q) = d
  BY <1>1, <1>2 DEF Path, EndOf
<1> QED
  BY <1>3 DEF q

(* The blocks that are written whole. *)
LEMMA BlockPaths ==
  ASSUME NEW a \in Events, NEW i \in Nat, Between(a), NextIndex(a) = i
  PROVE  /\ Path(a, Block(i)) /\ EndOf(a, Block(i)) = Event("stop", i)
         /\ Path(a, ResultBlock(i)) /\ EndOf(a, ResultBlock(i)) = Event("stop", i)
         /\ Between(Event("stop", i)) /\ NextIndex(Event("stop", i)) = i + 1
         /\ Follows(a, Event("start", i))
<1> DEFINE b == Event("start", i)
           c == Event("delta", i)
           d == Event("stop", i)
<1>1. Follows(a, b) /\ Follows(b, c) /\ Follows(c, d) /\ Follows(b, d)
  BY DEF Follows, Inside, Event, AS!Event
<1>4. b \in Events /\ c \in Events /\ d \in Events
  BY EventTypes DEF AS!Kinds
<1> HIDE DEF b, c, d
<1>2. /\ Path(a, <<b, c, d>>) /\ EndOf(a, <<b, c, d>>) = d
      /\ Path(a, <<b, d>>) /\ EndOf(a, <<b, d>>) = d
  BY <1>1, <1>4, TwoSteps, ThreeSteps
<1>3. Between(Event("stop", i)) /\ NextIndex(Event("stop", i)) = i + 1
  BY DEF Between, NextIndex, Event, AS!Event
<1> QED
  BY <1>1, <1>2, <1>3 DEF Block, ResultBlock, b, c, d

LEMMA TipTypes ==
  ASSUME BaseInv, WireKnown(wire)
  PROVE  Tip \in Events
<1>1. PICK j : IsTip(wire, j)
  BY DEF WireKnown
<1>2. wire \in Seq(Events) /\ j \in 1..Len(wire) /\ Tip = wire[j]
  BY <1>1, TipUnique DEF BaseInv, StreamTypes, IsTip, Tip
<1> QED
  BY <1>2

(* What starts writes the events that were still to come, or adds its own. *)
LEMMA StartsAre ==
  ASSUME BaseInv, Sound, StartRaw \/ StartUpdate \/ StartBanner \/ StartClose
  PROVE  /\ queue # <<>> /\ writing = <<>> /\ main \notin {"open", "ended"}
         /\ wire' = wire /\ script' = script /\ Tip' = Tip
         /\ UNCHANGED <<progressClosed, closed, main, tool, bridge>>
         /\ ~StartRaw => SoftQueue /\ main \notin Emitting /\ Upcoming = <<>> /\ End = Tip
         /\ ~StartRaw => Head(queue).op # "raw"
         /\ closed \/ progressClosed \/ (bridge = None /\ main \notin Emitting /\ main \notin {"open", "ended"})
<1>1. /\ queue # <<>> /\ writing = <<>> /\ wire' = wire /\ script' = script
      /\ UNCHANGED <<progressClosed, closed, main, tool, bridge>>
      /\ Head(queue).op \in {"raw", "update", "banner", "close"}
      /\ ~StartRaw => Head(queue).op # "raw"
  BY DEF StartRaw, StartUpdate, StartBanner, StartClose
<1>2. main \notin {"open", "ended"}
  BY <1>1 DEF BaseInv, Quiet, Sound, Shape
<1>3. Tip' = Tip
  BY <1>1 DEF Tip
<1>4. ASSUME ~StartRaw
      PROVE  SoftQueue /\ main \notin Emitting /\ Upcoming = <<>> /\ End = Tip
  <2>1. Head(queue).op # "raw" /\ Head(queue) = queue[1]
    BY <1>1, <1>4
  <2>2. main \notin Emitting
    BY <1>1, <2>1 DEF Sound, Shape, RawQueue
  <2>3. Upcoming = <<>>
    BY <1>1, <2>1 DEF Upcoming
  <2> QED
    BY <2>2, <2>3 DEF Sound, Shape, End, EndOf
<1>5. closed \/ progressClosed \/ (bridge = None /\ main \notin Emitting /\ main \notin {"open", "ended"})
  BY <1>2 DEF Sound, Stage, Emitting, Closing
<1> QED
  BY <1>1, <1>2, <1>3, <1>4, <1>5

(* An operation that finds nothing to do. *)
LEMMA SkipIsSound ==
  ASSUME BaseInv, Sound, StartUpdate \/ StartBanner \/ StartClose,
         queue' = Tail(queue), writing' = <<>>,
         UNCHANGED <<visible, progressBlock, nextContentIndex>>,
         StartClose => progressBlock = None
  PROVE  Sound'
<1>0. /\ queue # <<>> /\ writing = <<>> /\ main \notin {"open", "ended"}
      /\ wire' = wire /\ script' = script /\ Tip' = Tip
      /\ UNCHANGED <<progressClosed, closed, main, tool, bridge>>
      /\ SoftQueue /\ main \notin Emitting /\ Upcoming = <<>> /\ End = Tip
  <2>1. ~StartRaw
    BY DEF StartRaw, StartUpdate, StartBanner, StartClose
  <2> QED
    BY <2>1, StartsAre
<1>1. Head(queue).op = "close" => progressBlock = None
  BY DEF StartUpdate, StartBanner, StartClose
<1>2. SoftQueue' /\ Upcoming' = <<>>
  BY <1>0, <1>1, TailIsSoft DEF SoftQueue
<1>3. End' = End
  BY <1>0, <1>2 DEF End, EndOf
<1>4. Stage'
  BY <1>0 DEF Sound, Stage
<1>5. Shape'
  BY <1>0, <1>2 DEF Shape
<1>6. Order'
  BY <1>2 DEF Order, Path
<1>7. Due' = Due
  BY <1>0 DEF Due
<1>8. Standing'
  BY <1>0, <1>3, <1>7 DEF Sound, Standing
<1> QED
  BY <1>4, <1>5, <1>6, <1>8 DEF Sound

(* An operation that writes while no emitter does. *)
LEMMA TurnIsSound ==
  ASSUME BaseInv, Sound, StartUpdate \/ StartBanner \/ StartClose,
         queue' = queue, writing' # <<>>, Path(Tip, writing'),
         Head(queue).op = "close" => progressBlock' = None,
         progressBlock # None => progressClosed \/ progressBlock' # None,
         progressBlock' # None => bridge = None /\ ~progressClosed,
         IF progressBlock' = None
           THEN Between(EndOf(Tip, writing')) /\ NextIndex(EndOf(Tip, writing')) = Due'
           ELSE /\ Inside(EndOf(Tip, writing')) /\ EndOf(Tip, writing').i = progressBlock'
                /\ nextContentIndex' = progressBlock' + 1 /\ visible'
  PROVE  Sound'
<1>0. /\ queue # <<>> /\ writing = <<>> /\ main \notin {"open", "ended"}
      /\ wire' = wire /\ script' = script /\ Tip' = Tip
      /\ UNCHANGED <<progressClosed, closed, main, tool, bridge>>
      /\ SoftQueue /\ main \notin Emitting /\ Upcoming = <<>> /\ End = Tip
      /\ Head(queue).op # "raw"
  <2>1. ~StartRaw
    BY DEF StartRaw, StartUpdate, StartBanner, StartClose
  <2> QED
    BY <2>1, StartsAre
<1>1. Upcoming' = writing'
  BY <1>0 DEF Upcoming
<1>2. End' = EndOf(Tip, writing')
  BY <1>0, <1>1 DEF End
<1>3. SoftQueue'
  BY <1>0 DEF SoftQueue
<1>4. Stage'
  BY <1>0 DEF Sound, Stage
<1>5. Shape'
  BY <1>0, <1>3 DEF Shape
<1>6. Order'
  BY <1>0, <1>1 DEF Order
<1>7. Standing'
  BY <1>0, <1>2 DEF Standing, Emitting
<1> QED
  BY <1>4, <1>5, <1>6, <1>7 DEF Sound

LEMMA StartKeepsSound ==
  ASSUME BaseInv, Sound, WireKnown(wire), StartRaw \/ StartUpdate \/ StartBanner \/ StartClose
  PROVE  Sound'
<1>0. /\ queue # <<>> /\ writing = <<>> /\ main \notin {"open", "ended"} /\ Tip \in Events
      /\ closed \/ progressClosed \/ (bridge = None /\ main \notin Emitting /\ main \notin {"open", "ended"})
      /\ UNCHANGED <<wire, script, progressClosed, closed, main, tool, bridge>> /\ Tip' = Tip
  BY StartsAre, TipTypes
<1>1. ASSUME ~StartRaw
      PROVE  SoftQueue /\ main \notin Emitting /\ Upcoming = <<>> /\ End = Tip
  BY <1>1, StartsAre
<1>2. None \notin Nat /\ nextContentIndex \in Nat /\ progressBlock \in Nat \cup {None}
  BY ConstantsAssumption DEF BaseInv, ProgressTypes
<1>3. CASE StartRaw
  <2>1. /\ UNCHANGED <<queue, progressBlock, nextContentIndex, visible>>
        /\ Head(queue).op = "raw"
    BY <1>3 DEF StartRaw, flagVars
  <2>2. Upcoming' = Upcoming
    BY <1>0, <2>1 DEF Upcoming
  <2>3. End' = End
    BY <1>0, <2>2 DEF End
  <2>4. Stage'
    BY <1>0, <2>1 DEF Stage, Sound
  <2>5. Shape'
    BY <1>0, <2>1 DEF Shape, Sound, SoftQueue, RawQueue
  <2>6. Order'
    BY <1>0, <2>2 DEF Order, Sound
  <2>7. Standing'
    BY <1>0, <2>1, <2>3 DEF Standing, Sound, Due
  <2> QED
    BY <2>4, <2>5, <2>6, <2>7 DEF Sound
<1>4. CASE StartUpdate
  <2>0. SoftQueue /\ main \notin Emitting /\ Upcoming = <<>> /\ End = Tip
    BY <1>1, <1>4 DEF StartUpdate, StartRaw
  <2>1. CASE closed \/ progressClosed \/ ~Head(queue).entry.emit
    <3>1. /\ queue' = Tail(queue) /\ writing' = <<>>
          /\ UNCHANGED <<visible, progressBlock, nextContentIndex>>
      BY <1>0, <1>4, <2>1 DEF StartUpdate
    <3>2. ~StartClose
      BY <1>4 DEF StartUpdate, StartClose
    <3> QED
      BY <1>4, <3>1, <3>2, SkipIsSound
  <2>2. CASE ~(closed \/ progressClosed \/ ~Head(queue).entry.emit)
    <3> DEFINE n == Head(queue).entry.n
    <3>1. /\ Head(queue).op = "update" /\ queue' = queue
          /\ IF progressBlock = None
               THEN /\ visible' = TRUE /\ progressBlock' = nextContentIndex
                    /\ nextContentIndex' = nextContentIndex + 1
                    /\ writing' = <<Event("start", nextContentIndex), Timeline(nextContentIndex, 1, n)>>
               ELSE /\ writing' = <<Timeline(progressBlock, n, n)>>
                    /\ UNCHANGED <<visible, progressBlock, nextContentIndex>>
      BY <1>4, <2>2 DEF StartUpdate
    <3>2. bridge = None /\ Due = nextContentIndex
      BY <1>0, <2>2 DEF Due
    <3>8. n \in Nat
      <4>1. Head(queue) \in Operations
        BY <1>0, HeadTailProperties DEF BaseInv, StreamTypes
      <4> QED
        BY <3>1, <4>1, OperationTypes DEF Entry
    <3> HIDE DEF n
    <3>3. CASE progressBlock = None
      <4> DEFINE b == Event("start", nextContentIndex)
                 c == Timeline(nextContentIndex, 1, n)
      <4>1. Between(Tip) /\ NextIndex(Tip) = nextContentIndex
        BY <1>0, <2>0, <3>2, <3>3 DEF Sound, Standing, Emitting
      <4>2. Follows(Tip, b) /\ Follows(b, c)
        BY <4>1 DEF Follows, Inside, Event, AS!Event, Timeline
      <4>3. b \in Events /\ c \in Events
        BY <1>2, <3>8, EventTypes DEF AS!Kinds
      <4>4. Path(Tip, <<b, c>>) /\ EndOf(Tip, <<b, c>>) = c
        <5> HIDE DEF b, c
        <5> QED
          BY <1>0, <4>2, <4>3, TwoSteps, OneStep
      <4>5. Inside(c) /\ c.i = nextContentIndex
        BY DEF Inside, Timeline
      <4>6. /\ writing' = <<b, c>> /\ progressBlock' = nextContentIndex
            /\ nextContentIndex' = nextContentIndex + 1 /\ visible'
        BY <3>1, <3>3
      <4>7. writing' # <<>> /\ progressBlock' # None
        BY <1>2, <4>6
      <4> HIDE DEF b, c
      <4> QED
        BY <1>0, <1>4, <2>2, <3>1, <3>2, <4>4, <4>5, <4>6, <4>7, TurnIsSound
    <3>4. CASE progressBlock # None
      <4> DEFINE c == Timeline(progressBlock, n, n)
      <4>1. /\ Inside(Tip) /\ Tip.i = progressBlock /\ nextContentIndex = progressBlock + 1
            /\ visible
        BY <1>0, <2>0, <3>4 DEF Sound, Standing, Emitting
      <4>2. Follows(Tip, c)
        BY <4>1 DEF Follows, Timeline
      <4>3. c \in Events
        BY <1>2, <3>4, <3>8, EventTypes
      <4>4. Path(Tip, <<c>>) /\ EndOf(Tip, <<c>>) = c
        <5> HIDE DEF c
        <5> QED
          BY <1>0, <4>2, <4>3, TwoSteps, OneStep
      <4>5. Inside(c) /\ c.i = progressBlock
        BY DEF Inside, Timeline
      <4>6. /\ writing' = <<c>> /\ progressBlock' = progressBlock
            /\ nextContentIndex' = progressBlock' + 1 /\ visible'
        BY <3>1, <3>4, <4>1
      <4>7. writing' # <<>>
        BY <4>6
      <4> HIDE DEF c
      <4> QED
        BY <1>0, <1>4, <2>2, <3>1, <3>2, <3>4, <4>4, <4>5, <4>6, <4>7, TurnIsSound
    <3> QED
      BY <3>3, <3>4
  <2> QED
    BY <2>1, <2>2
<1>5. CASE StartBanner
  <2>0. SoftQueue /\ main \notin Emitting /\ Upcoming = <<>> /\ End = Tip
    BY <1>1, <1>5 DEF StartBanner, StartRaw
  <2>1. CASE closed \/ progressClosed \/ visible
    <3>1. /\ queue' = Tail(queue) /\ writing' = <<>>
          /\ UNCHANGED <<visible, progressBlock, nextContentIndex>>
      BY <1>0, <1>5, <2>1 DEF StartBanner
    <3>2. ~StartClose
      BY <1>5 DEF StartBanner, StartClose
    <3> QED
      BY <1>5, <3>1, <3>2, SkipIsSound
  <2>2. CASE ~(closed \/ progressClosed \/ visible)
    <3>1. /\ Head(queue).op = "banner" /\ queue' = queue /\ writing' = Block(nextContentIndex)
          /\ nextContentIndex' = nextContentIndex + 1 /\ progressBlock' = progressBlock
      BY <1>5, <2>2 DEF StartBanner
    <3>2. bridge = None /\ Due = nextContentIndex /\ Due' = nextContentIndex'
      BY <1>0, <2>2 DEF Due
    <3>3. progressBlock = None /\ Between(Tip) /\ NextIndex(Tip) = nextContentIndex
      BY <1>0, <2>0, <2>2, <3>2 DEF Sound, Standing, Emitting
    <3>4. /\ Path(Tip, Block(nextContentIndex))
          /\ EndOf(Tip, Block(nextContentIndex)) = Event("stop", nextContentIndex)
          /\ Between(Event("stop", nextContentIndex))
          /\ NextIndex(Event("stop", nextContentIndex)) = nextContentIndex + 1
      BY <1>0, <1>2, <3>3, BlockPaths
    <3>5. writing' # <<>>
      BY <3>1 DEF Block
    <3> QED
      BY <1>0, <1>5, <3>1, <3>2, <3>3, <3>4, <3>5, TurnIsSound
  <2> QED
    BY <2>1, <2>2
<1>6. CASE StartClose
  <2>0. SoftQueue /\ main \notin Emitting /\ Upcoming = <<>> /\ End = Tip
    BY <1>1, <1>6 DEF StartClose, StartRaw
  <2>1. UNCHANGED <<visible, nextContentIndex>> /\ progressBlock' = None
    BY <1>6 DEF StartClose
  <2>2. CASE progressBlock = None
    <3>1. queue' = Tail(queue) /\ writing' = <<>>
      BY <1>0, <1>6, <2>2 DEF StartClose
    <3> QED
      BY <1>6, <2>1, <2>2, <3>1, SkipIsSound
  <2>3. CASE progressBlock # None
    <3> DEFINE c == Event("delta", progressBlock)
               d == Event("stop", progressBlock)
    <3>1. queue' = queue /\ writing' = <<c, d>> /\ Head(queue).op = "close"
      BY <1>6, <2>3 DEF StartClose
    <3>2. /\ Inside(Tip) /\ Tip.i = progressBlock /\ nextContentIndex = progressBlock + 1
          /\ bridge = None
      BY <1>0, <2>0, <2>3 DEF Sound, Standing, Emitting, Stage
    <3>3. Follows(Tip, c) /\ Follows(c, d)
      BY <3>2 DEF Follows, Inside, Event, AS!Event
    <3>4. c \in Events /\ d \in Events
      BY <1>2, <2>3, EventTypes DEF AS!Kinds
    <3>5. Path(Tip, <<c, d>>) /\ EndOf(Tip, <<c, d>>) = d
      <4> HIDE DEF c, d
      <4> QED
        BY <1>0, <3>3, <3>4, TwoSteps
    <3>6. Between(d) /\ NextIndex(d) = progressBlock + 1
      BY DEF Between, NextIndex, Event, AS!Event
    <3>7. Due' = nextContentIndex
      BY <1>0, <2>1, <3>2 DEF Due
    <3>8. progressClosed
      <4>1. 1 \in 1..Len(queue) /\ queue[1] = Head(queue)
        BY <1>0, EmptySeq DEF BaseInv, StreamTypes
      <4> QED
        BY <2>0, <3>1, <4>1 DEF SoftQueue
    <3>9. writing' # <<>>
      BY <3>1
    <3> HIDE DEF c, d
    <3> QED
      BY <1>6, <2>1, <3>1, <3>2, <3>5, <3>6, <3>7, <3>8, <3>9, TurnIsSound
  <2> QED
    BY <2>2, <2>3
<1> QED
  BY <1>3, <1>4, <1>5, <1>6

(* What is written next continues the stream, wherever the write stops.    *)
LEMMA NextIsContinuing ==
  ASSUME BaseInv, Sound, main # "open", writing # <<>>
  PROVE  /\ Continuing(Tip, Head(writing))
         /\ IF Head(writing).k = "usage" THEN Upcoming = <<>>
            ELSE Upcoming # <<>> /\ Head(writing) = Head(Upcoming)
<1>1. /\ queue # <<>> /\ queue \in Seq(Operations) /\ writing \in Seq(Events)
      /\ Head(queue).op = "raw" => writing = <<Head(queue).ev>>
  BY DEF BaseInv, WritingKnown, StreamTypes
<1>2. Head(queue) = queue[1] /\ 1 \in 1..Len(queue) /\ Head(queue) \in Operations
  BY <1>1, EmptySeq
<1>3. Upcoming \in Seq(Events) /\ Path(Tip, Upcoming)
  BY UpcomingTypes DEF Sound, Order
<1>4. ASSUME Upcoming # <<>>, Head(writing) = Head(Upcoming)
      PROVE  Continuing(Tip, Head(writing)) /\ Head(writing).k # "usage"
  <2>1. Follows(Tip, Head(Upcoming))
    BY <1>3, <1>4, PathGoesOn
  <2> QED
    BY <1>4, <2>1 DEF Continuing, Follows
<1>5. CASE Head(queue).op # "raw"
  <2>1. Upcoming = writing
    BY <1>1, <1>5 DEF Upcoming
  <2> QED
    BY <1>4, <2>1
<1>6. CASE Head(queue).op = "raw" /\ main \in Emitting
  <2> DEFINE e == Head(queue).ev
             s == script[Head(queue).by]
  <2>1. e.k # "usage"
    BY <1>1, <1>2, <1>6 DEF Sound, Shape, RawQueue
  <2>2. Upcoming = <<e>> \o s /\ writing = <<e>>
    BY <1>1, <1>6, <2>1 DEF Upcoming
  <2>3. e \in Events /\ s \in Seq(Events)
    <3>1. Head(queue).by \in Emitters /\ e \in Events
      BY <1>2, <1>6, OperationTypes, EventTypes
    <3>2. s \in Seq(PlainEvents)
      BY <3>1 DEF BaseInv, StreamTypes
    <3> QED
      BY <3>1, <3>2, PlainSeq
  <2> HIDE DEF e, s
  <2>4. Upcoming # <<>> /\ Head(Upcoming) = e /\ Head(writing) = e
    BY <2>2, <2>3
  <2> QED
    BY <1>4, <2>4
<1>7. CASE Head(queue).op = "raw" /\ main \notin Emitting
  <2>1. main = "usage" /\ Head(queue).ev.k = "usage"
    BY <1>2, <1>7 DEF Sound, Shape, SoftQueue, Raw, Event, AS!Event
  <2>2. Upcoming = <<>> /\ Head(writing).k = "usage"
    BY <1>1, <1>7, <2>1 DEF Upcoming
  <2>3. Between(Tip) \/ Inside(Tip)
    BY <2>1, <2>2 DEF Sound, Standing, End, EndOf
  <2> QED
    BY <2>2, <2>3 DEF Continuing
<1> QED
  BY <1>5, <1>6, <1>7

(* A write takes the first event that was to come, or tells the usage. *)
Advances == Upcoming' = IF Head(writing).k = "usage" THEN <<>> ELSE Tail(Upcoming)

LEMMA AdvanceIsSound ==
  ASSUME BaseInv, Sound, WireKnown(wire), main # "open", writing # <<>>,
         Head(writing) \in Events, wire' = Append(wire, Head(writing)), Advances, main' = main
  PROVE  WireKnown(wire)' /\ Order' /\ End' = End
<1>0. /\ Continuing(Tip, Head(writing)) /\ Path(Tip, Upcoming) /\ Upcoming \in Seq(Events)
      /\ IF Head(writing).k = "usage" THEN Upcoming = <<>>
         ELSE Upcoming # <<>> /\ Head(writing) = Head(Upcoming)
  BY NextIsContinuing, UpcomingTypes DEF Sound, Order
<1>1. WireKnown(Append(wire, Head(writing)))
      /\ TipOf(Append(wire, Head(writing))) =
           IF Head(writing).k = "usage" THEN TipOf(wire) ELSE Head(writing)
  BY <1>0, WireContinues DEF BaseInv, StreamTypes, Tip
<1>2. WireKnown(wire)' /\ Tip' = IF Head(writing).k = "usage" THEN Tip ELSE Head(writing)
  BY <1>1 DEF Tip, WireKnown
<1>3. CASE Head(writing).k = "usage"
  BY <1>0, <1>2, <1>3 DEF Advances, Order, Path, End, EndOf
<1>4. CASE Head(writing).k # "usage"
  <2>1. Path(Head(Upcoming), Tail(Upcoming)) /\ EndOf(Head(Upcoming), Tail(Upcoming)) = EndOf(Tip, Upcoming)
    BY <1>0, <1>4, PathGoesOn
  <2> QED
    BY <1>0, <1>2, <1>4, <2>1 DEF Advances, Order, End
<1> QED
  BY <1>3, <1>4

LEMMA SoftWrite ==
  ASSUME BaseInv, Sound, main \notin Emitting, main # "open", WriteEvent
  PROVE  Advances /\ SoftQueue'
<1>0. /\ writing # <<>> /\ queue # <<>> /\ writing \in Seq(Events)
      /\ writing' = Tail(writing) /\ Head(queue) \in Operations
      /\ script \in [Emitters -> Seq(PlainEvents)]
  BY WriteEffects DEF BaseInv, StreamTypes
<1>1. SoftQueue /\ main' = main /\ UNCHANGED <<progressClosed, progressBlock>>
  BY DEF Sound, Shape, WriteEvent
<1>2. Head(queue) = queue[1] /\ 1 \in 1..Len(queue)
  BY <1>0, EmptySeq DEF BaseInv, StreamTypes
<1>3. \A e \in Emitters : script[e] = <<>> /\ script'[e] = <<>>
  <2>1. \A e \in Emitters : script[e] = <<>>
    BY <1>1 DEF SoftQueue
  <2>2. ~Continues(Head(queue))
    BY <1>0, <2>1, OperationTypes DEF Continues
  <2>3. script' = script \/ script' = [script EXCEPT ![Head(queue).by] = <<>>]
    BY <2>2, WriteEffects
  <2>4. \A e \in Emitters : script'[e] = script[e] \/ script'[e] = <<>>
    BY <1>0, <2>3
  <2> QED
    BY <2>1, <2>4
<1>4. ~Continues(Head(queue))
  BY <1>0, <1>3, OperationTypes DEF Continues
<1>5. \/ Len(writing) > 1 /\ writing' # <<>> /\ Head(queue).op # "raw" /\ queue' = queue
      \/ Len(writing) = 1 /\ writing' = <<>> /\ queue' = Tail(queue)
  BY <1>4, WriteEffects
<1>6. Head(queue).op = "close" => progressBlock = None
  BY <1>0, <1>1 DEF SoftQueue
<1>7. writing' = <<>> => SoftQueue' /\ Upcoming' = <<>>
  <2> SUFFICES ASSUME writing' = <<>> PROVE SoftQueue' /\ Upcoming' = <<>>
    OBVIOUS
  <2>1. queue' = Tail(queue)
    BY <1>5
  <2> QED
    BY <1>0, <1>1, <1>3, <1>6, <2>1, TailIsSoft
<1>8. writing' # <<>> => SoftQueue' /\ Upcoming' = writing'
  BY <1>0, <1>1, <1>3, <1>5 DEF SoftQueue, Upcoming
<1>9. Advances
  <2>1. CASE Head(queue).op = "raw"
    <3>1. Head(queue).ev.k = "usage"
      BY <1>1, <1>2, <2>1 DEF SoftQueue, Raw, Event, AS!Event
    <3>2. writing = <<Head(queue).ev>>
      BY <1>0, <2>1 DEF BaseInv, WritingKnown
    <3> QED
      BY <1>5, <1>7, <2>1, <3>1, <3>2 DEF Advances
  <2>2. CASE Head(queue).op # "raw"
    <3>1. Upcoming = writing
      BY <1>0, <2>2 DEF Upcoming
    <3>2. Upcoming' = Tail(Upcoming)
      BY <1>0, <1>7, <1>8, <3>1
    <3>3. Head(writing).k # "usage"
      BY <1>0, <3>1, NextIsContinuing
    <3> QED
      BY <3>2, <3>3 DEF Advances
  <2> QED
    BY <2>1, <2>2
<1> QED
  BY <1>7, <1>8, <1>9

LEMMA RawWrite ==
  ASSUME BaseInv, Sound, main \in Emitting, WriteEvent
  PROVE  Advances /\ RawQueue'
<1>0. /\ writing # <<>> /\ queue # <<>> /\ writing \in Seq(Events) /\ queue \in Seq(Operations)
      /\ writing' = Tail(writing) /\ Head(queue) \in Operations
      /\ script \in [Emitters -> Seq(PlainEvents)]
  BY WriteEffects DEF BaseInv, StreamTypes
<1>1. RawQueue /\ main' = main /\ ~closed /\ UNCHANGED <<progressBlock, tool>>
  BY DEF Sound, Shape, Stage, Emitting, WriteEvent
<1> DEFINE o == Head(queue)
           s == script[o.by]
<1>2. o = queue[1] /\ Len(queue) = 1 /\ Tail(queue) = <<>>
  <2> DEFINE t == Tail(queue)
  <2>1. Len(queue) <= 1
    BY <1>1 DEF RawQueue
  <2>2. Len(queue) \in Nat /\ Len(queue) # 0
    BY <1>0, EmptySeq
  <2>3. Len(queue) = 1
    BY <2>1, <2>2
  <2>4. t \in Seq(Operations) /\ Len(t) = 0 /\ Head(queue) = queue[1]
    BY <1>0, <2>3, HeadTailProperties
  <2> HIDE DEF t
  <2>5. t = <<>>
    BY <2>4, EmptySeq
  <2> QED
    BY <2>3, <2>4, <2>5 DEF t
<1>3. o.op = "raw" /\ o.ev.k # "usage" /\ o.by \in Emitters
  BY <1>0, <1>1, <1>2, OperationTypes DEF RawQueue
<1>4. s \in Seq(PlainEvents) /\ o.ev \in Events
  BY <1>0, <1>3, OperationTypes, EventTypes
<1>5. writing = <<o.ev>> /\ Upcoming = <<o.ev>> \o s
  BY <1>0, <1>3 DEF BaseInv, WritingKnown, Upcoming
<1>6. Upcoming # <<>> /\ Head(Upcoming) = o.ev /\ Tail(Upcoming) = s
  <2> HIDE DEF o, s
  <2>1. s \in Seq(Events)
    BY <1>4, PlainSeq
  <2> QED
    BY <1>4, <1>5, <2>1
<1>7. Head(writing) = o.ev
  BY <1>5
<1>8. Path(Tip, Upcoming) /\ Upcoming \in Seq(Events)
  BY UpcomingTypes DEF Sound, Order, Emitting
<1>9. Follows(Tip, o.ev) /\ Path(o.ev, s)
  BY <1>6, <1>8, PathGoesOn
<1>10. CASE s # <<>>
  <2>1. Continues(o)
    BY <1>1, <1>3, <1>10 DEF Continues
  <2>2. /\ queue' = Append(Tail(queue), Raw(o.by, Head(s)))
        /\ script' = [script EXCEPT ![o.by] = Tail(s)]
    BY <1>3, <2>1, WriteEffects
  <2>3. queue' = <<Raw(o.by, Head(s))>>
    <3> DEFINE r == Raw(o.by, Head(s))
    <3>1. queue' = Append(<<>>, r)
      BY <1>2, <2>2
    <3> HIDE DEF r
    <3>2. queue' = <<r>>
      BY <3>1
    <3> QED
      BY <3>2 DEF r
  <2>4. Follows(o.ev, s[1]) /\ Head(s) = s[1]
    BY <1>4, <1>9, <1>10 DEF Path
  <2>5. Head(s).k # "usage"
    BY <2>4 DEF Follows
  <2>6. script'[o.by] = Tail(s) /\ \A e \in Emitters : e # o.by => script'[e] = script[e]
    BY <1>0, <1>3, <2>2
  <2>7. /\ queue' # <<>> /\ Len(queue') = 1 /\ Head(queue') = queue'[1]
        /\ queue'[1].op = "raw" /\ queue'[1].by = o.by /\ queue'[1].ev = Head(s)
    BY <2>3 DEF Raw
  <2>8. Upcoming' = <<Head(s)>> \o Tail(s)
    BY <2>5, <2>6, <2>7 DEF Upcoming
  <2>9. <<Head(s)>> \o Tail(s) = s
    <3> HIDE DEF o, s
    <3> QED
      BY <1>4, <1>10, HeadTailProperties
  <2>10. RawQueue'
    BY <1>0, <1>1, <1>2, <2>5, <2>6, <2>7 DEF RawQueue
  <2> QED
    BY <1>3, <1>6, <1>7, <2>8, <2>9, <2>10 DEF Advances
<1>11. CASE s = <<>>
  <2>1. ~Continues(o)
    BY <1>11 DEF Continues
  <2>2. queue' = <<>> /\ script' = [script EXCEPT ![o.by] = <<>>]
    <3>1. ~(Len(writing) > 1)
      BY <1>3, WriteEffects
    <3> QED
      BY <1>2, <1>3, <2>1, <3>1, WriteEffects
  <2>3. \A e \in Emitters : script'[e] = <<>>
    BY <1>0, <1>1, <1>2, <1>11, <2>2 DEF RawQueue
  <2>4. Upcoming' = <<>>
    BY <2>2 DEF Upcoming
  <2>5. RawQueue'
    BY <1>1, <2>2, <2>3 DEF RawQueue
  <2> QED
    BY <1>3, <1>6, <1>7, <1>11, <2>4, <2>5 DEF Advances
<1> QED
  BY <1>10, <1>11

LEMMA WriteKeepsSound ==
  ASSUME BaseInv, Sound, main # "open", WireKnown(wire), WriteEvent
  PROVE  Sound' /\ WireKnown(wire)'
<1>1. /\ Head(writing) \in Events /\ wire' = Append(wire, Head(writing)) /\ queue # <<>>
      /\ writing # <<>>
  BY WriteEffects
<1>2. UNCHANGED <<visible, progressBlock, nextContentIndex, progressClosed, closed, main, tool, bridge>>
  BY DEF WriteEvent
<1>3. /\ main \in Emitting => RawQueue'
      /\ main \notin Emitting => SoftQueue'
      /\ Advances
  BY SoftWrite, RawWrite
<1>4. WireKnown(wire)' /\ Order' /\ End' = End
  BY <1>1, <1>2, <1>3, AdvanceIsSound
<1>5. Stage'
  BY <1>2 DEF Sound, Stage
<1>6. Shape'
  BY <1>1, <1>2, <1>3 DEF Sound, Shape
<1>7. Due' = Due
  BY <1>2 DEF Due
<1>8. Standing'
  BY <1>2, <1>4, <1>7 DEF Sound, Standing
<1> QED
  BY <1>1, <1>3, <1>4, <1>5, <1>6, <1>8 DEF Sound

(* The handler's places where nobody emits and the progress may be open. *)
Waiting(m) == m \notin Emitting /\ m \notin {"open", "ended", "usage"}

(* The handler goes on, or one operation of the progress joins the chain.  *)
LEMMA MoveIsSound ==
  ASSUME BaseInv, Sound, main \notin Emitting, main \notin {"open", "ended"},
         main' = main \/ Waiting(main'),
         UNCHANGED <<wire, writing, script, progressBlock, nextContentIndex, visible, bridge>>,
         UNCHANGED queue \/ \E o \in Operations : o.op # "raw" /\ queue' = Append(queue, o),
         \A t \in Tools : tool[t] # "emitting" /\ tool'[t] # "emitting",
         Stage', SoftQueue'
  PROVE  Sound'
<1>1. Tip' = Tip /\ Upcoming' = Upcoming /\ End' = End
  <2>1. CASE UNCHANGED queue
    BY <2>1, PositionStays
  <2>2. CASE ~UNCHANGED queue
    <3>1. PICK o \in Operations : o.op # "raw" /\ queue' = Append(queue, o)
      BY <2>2
    <3> QED
      BY <3>1, PositionBehind
  <2> QED
    BY <2>1, <2>2
<1>2. main' \notin Emitting /\ main' \notin {"open", "ended"}
  BY DEF Waiting
<1>3. Shape' /\ Order'
  BY <1>1, <1>2 DEF Shape, Order, Sound
<1>4. Due' = Due
  BY <1>2 DEF Due, Emitting
<1>5. Standing'
  BY <1>1, <1>2, <1>4 DEF Standing, Sound, Emitting
<1> QED
  BY <1>3, <1>5 DEF Sound

LEMMA NoneEmitting ==
  ASSUME Sound, main \notin Emitting, main # "ended"
  PROVE  \A t \in Tools : tool[t] # "emitting"
  BY DEF Sound, Stage, Emitting

(* Updates and the banner join the chain while the progress is open.       *)
LEMMA JoinKeepsSound ==
  ASSUME BaseInv, Sound, RunHook \/ Release \/ OpenBanner,
         NEW o \in Operations, o.op \in {"update", "banner"}, queue' = Append(queue, o),
         ~closed, ~progressClosed
  PROVE  Sound'
<1>1. /\ UNCHANGED <<wire, writing, script, progressBlock, nextContentIndex, visible, progressClosed,
                     closed, tool, bridge>>
      /\ main' = main \/ (main = "banner" /\ main' = "banner_wait")
  BY DEF RunHook, Release, OpenBanner, flagVars
<1>2. main \notin Emitting /\ main \notin {"open", "ended"}
  <2>1. main \notin Emitting /\ main # "ended"
    BY DEF Sound, Stage, Emitting, Closing
  <2>2. main # "open"
    BY DEF RunHook, Release, OpenBanner, BaseInv, Quiet
  <2> QED
    BY <2>1, <2>2
<1>3. progressClosed' = FALSE
  BY <1>1 DEF BaseInv, ProgressTypes
<1>4. SoftQueue'
  BY <1>1, <1>2, <1>3, AppendIsSoft DEF Sound, Shape
<1>5. Stage'
  BY <1>1 DEF Sound, Stage, Beginning, Closing
<1>6. main' = main \/ Waiting(main')
  BY <1>1 DEF Waiting, Emitting
<1> QED
  BY <1>1, <1>2, <1>4, <1>5, <1>6, NoneEmitting, MoveIsSound

LEMMA CloseKeepsSound ==
  ASSUME BaseInv, Sound, BridgeClose \/ FinalClose \/ ErrorClose
  PROVE  Sound'
<1>1. /\ UNCHANGED <<wire, writing, script, progressBlock, nextContentIndex, visible,
                     closed, tool, bridge>>
      /\ CloseProgress
      /\ \/ main \in {"work", "loop"} /\ main' = "bridge_close"
         \/ main = "final_update" /\ main' = "final_close"
         \/ main = "error" /\ main' = "error_close"
  BY DEF BridgeClose, FinalClose, ErrorClose, flagVars
<1>2. /\ main \notin Emitting /\ main \notin {"open", "ended", "usage"}
      /\ (main' = main \/ Waiting(main')) /\ main' # "usage"
  BY <1>1 DEF Emitting, Waiting
<1>3. SoftQueue /\ \A t \in Tools : tool[t] # "emitting"
  BY <1>2, NoneEmitting DEF Sound, Shape
<1>4. progressClosed' = TRUE
  BY <1>1 DEF CloseProgress, BaseInv, ProgressTypes
<1>5. Stage'
  BY <1>1, <1>4 DEF Sound, Stage, Beginning, Closing
<1>6. CASE progressClosed
  <2>1. queue' = queue
    BY <1>1, <1>6 DEF CloseProgress
  <2>2. \A j \in 1..Len(queue) : queue[j].op # "raw"
    BY <1>2, <1>3 DEF SoftQueue
  <2>3. SoftQueue'
    BY <1>1, <1>3, <1>4, <1>6, <2>1, <2>2 DEF SoftQueue
  <2> QED
    BY <1>1, <1>2, <1>3, <1>5, <2>1, <2>3, MoveIsSound
<1>7. CASE ~progressClosed
  <2>1. queue' = Append(queue, Op("close")) /\ Op("close") \in Operations
        /\ Op("close").op = "close"
    BY <1>1, <1>7, TurnTypes DEF CloseProgress, Operations, Op
  <2>2. SoftQueue'
    BY <1>1, <1>2, <1>3, <1>4, <1>7, <2>1, AppendIsSoft
  <2> QED
    BY <1>1, <1>2, <1>3, <1>5, <2>1, <2>2, MoveIsSound
<1> QED
  BY <1>6, <1>7

(* The handler goes on without a word. *)
LEMMA StepKeepsSound ==
  ASSUME BaseInv, Sound, ~gone, ~poisoned,
         \/ OpenBanner \/ Opened \/ UsageWritten \/ Fail \/ FinalUpdate
  PROVE  Sound'
<1>1. /\ UNCHANGED <<wire, writing, script, progressBlock, nextContentIndex, visible,
                     progressClosed, closed, tool, bridge>>
      /\ \/ main = "banner" /\ main' = "banner_wait"
         \/ main = "banner_wait" /\ main' = "work" /\ queue' = queue
         \/ main = "usage" /\ main' = "loop" /\ ~Busy("main") /\ queue' = queue
         \/ main \in {"work", "loop", "answer"} /\ main' \in {"error", "final_update"} /\ queue' = queue
  BY DEF OpenBanner, Opened, UsageWritten, Fail, FinalUpdate, MainWaits, flagVars
<1>2. /\ main \notin Emitting /\ main \notin {"open", "ended"} /\ Waiting(main')
  BY <1>1 DEF Emitting, Waiting
<1>3. SoftQueue /\ \A t \in Tools : tool[t] # "emitting"
  BY <1>2, NoneEmitting DEF Sound, Shape
<1>4. CASE queue' = queue
  <2>1. \A j \in 1..Len(queue) : queue[j].op # "raw"
    <3> SUFFICES ASSUME NEW j \in 1..Len(queue), queue[j].op = "raw" PROVE FALSE
      OBVIOUS
    <3>1. main = "usage" /\ queue[j] = Raw("main", Event("usage", 0))
      BY <1>3 DEF SoftQueue
    <3>2. queue[j].by = "main"
      BY <3>1 DEF Raw
    <3> QED
      BY <1>1, <3>1, <3>2 DEF Busy
  <2>2. SoftQueue'
    BY <1>1, <1>3, <1>4, <2>1 DEF SoftQueue
  <2>3. Stage'
    BY <1>1, <1>4 DEF Sound, Stage, Beginning, Closing
  <2> QED
    BY <1>1, <1>2, <1>3, <1>4, <2>2, <2>3, MoveIsSound
<1>5. CASE queue' # queue
  <2>1. OpenBanner /\ queue' = Append(queue, Op("banner")) /\ main = "banner"
    BY <1>5 DEF OpenBanner, Opened, UsageWritten, Fail, FinalUpdate
  <2>2. Op("banner") \in Operations /\ Op("banner").op = "banner"
    BY TurnTypes DEF Operations
  <2>3. ~closed /\ ~progressClosed
    BY <2>1 DEF Sound, Stage, Beginning
  <2> QED
    BY <2>1, <2>2, <2>3, JoinKeepsSound
<1> QED
  BY <1>4, <1>5

(* The usage joins the progress, and takes no part in the blocks.          *)
LEMMA UsageKeepsSound ==
  ASSUME BaseInv, Sound, UpdateUsage
  PROVE  Sound'
<1>1. /\ UNCHANGED <<wire, writing, progressBlock, nextContentIndex, visible, progressClosed,
                     closed, tool, bridge>>
      /\ main = "work" /\ main' = "usage" /\ Emit("main", <<Event("usage", 0)>>)
  BY DEF UpdateUsage, flagVars
<1> DEFINE o == Raw("main", Event("usage", 0))
<1>2. SoftQueue /\ ~progressClosed /\ \A t \in Tools : tool[t] # "emitting"
  BY <1>1 DEF Sound, Shape, Stage, Emitting, Beginning
<1>3. queue' = Append(queue, o) /\ \A e \in Emitters : script'[e] = <<>>
  <2>1. Head(<<Event("usage", 0)>>) = Event("usage", 0) /\ Tail(<<Event("usage", 0)>>) = <<>>
    OBVIOUS
  <2>2. script' = [script EXCEPT !["main"] = <<>>]
    BY <1>1, <2>1 DEF Emit
  <2> QED
    BY <1>1, <1>2, <2>1, <2>2 DEF Emit, SoftQueue, BaseInv, StreamTypes
<1>4. o.op = "raw" /\ o.ev.k = "usage" /\ o \in Operations
  <2>1. Event("usage", 0) \in PlainEvents
    BY EventTypes DEF AS!Kinds
  <2> QED
    BY <2>1 DEF Raw, Raws, Operations, Emitters, Event, AS!Event
<1>5. \A j \in 1..Len(queue) : queue[j].op \notin {"raw", "close"}
  BY <1>1, <1>2 DEF SoftQueue
<1> HIDE DEF o
<1>6. /\ queue \in Seq(Operations) /\ queue' # <<>> /\ Len(queue') = Len(queue) + 1
      /\ \A j \in 1..Len(queue) : queue'[j] = queue[j]
      /\ queue'[Len(queue')] = o
      /\ Head(queue') = IF queue = <<>> THEN o ELSE Head(queue)
  BY <1>3, <1>4 DEF BaseInv, StreamTypes
<1>7. queue # <<>> => Head(queue) = queue[1] /\ 1 \in 1..Len(queue)
  BY <1>6, EmptySeq
<1>8. Upcoming' = Upcoming
  <2>1. CASE queue = <<>>
    BY <1>4, <1>6, <2>1 DEF Upcoming
  <2>2. CASE queue # <<>>
    <3>1. Head(queue).op # "raw" /\ Head(queue') = Head(queue)
      BY <1>5, <1>6, <1>7, <2>2
    <3> QED
      BY <1>1, <1>6, <2>2, <3>1 DEF Upcoming
  <2> QED
    BY <2>1, <2>2
<1>9. Tip' = Tip /\ End' = End
  BY <1>1, <1>8 DEF Tip, End
<1>10. SoftQueue'
  <2>1. \A j \in 1..Len(queue') : queue'[j].op = "raw" =>
          main' = "usage" /\ queue'[j] = Raw("main", Event("usage", 0))
    BY <1>1, <1>5, <1>6 DEF o
  <2>2. \A j \in 1..Len(queue') : queue'[j].op # "close"
    BY <1>4, <1>5, <1>6
  <2>3. Head(queue').op # "close"
    <3>1. 1 \in 1..Len(queue') /\ Head(queue') = queue'[1]
      BY <1>3, <1>4, <1>6
    <3> QED
      BY <2>2, <3>1
  <2> QED
    BY <1>1, <1>2, <1>3, <2>1, <2>2, <2>3 DEF SoftQueue
<1>11. Shape' /\ Order'
  BY <1>1, <1>8, <1>9, <1>10 DEF Shape, Order, Sound, Emitting
<1>12. Stage'
  BY <1>1 DEF Sound, Stage, Beginning, Closing
<1>13. Due' = Due
  BY <1>1 DEF Due
<1>14. Standing'
  BY <1>1, <1>9, <1>13 DEF Sound, Standing
<1> QED
  BY <1>11, <1>12, <1>14 DEF Sound

(* The tip of an empty chain is where the stream stands. *)
LEMMA StandsAtTip ==
  ASSUME BaseInv, Sound, queue = <<>>, progressBlock = None,
         main \notin {"open", "final", "error_write", "ended"}
  PROVE  Between(Tip) /\ NextIndex(Tip) = Due /\ Upcoming = <<>> /\ writing = <<>>
<1>1. Upcoming = <<>> /\ End = Tip
  BY EmptyPosition
<1>2. writing = <<>>
  BY DEF BaseInv, WritingKnown
<1> QED
  BY <1>1, <1>2 DEF Sound, Standing

(* The handler moves over an empty chain. *)
LEMMA EmptyMoveIsSound ==
  ASSUME BaseInv, Sound, queue = <<>>, progressBlock = None,
         \A e \in Emitters : script[e] = <<>>,
         UNCHANGED <<wire, queue, writing, script, progressBlock>>,
         main \notin {"open", "ended"}, main' # "open", Stage',
         \/ /\ main \notin {"final", "error_write"}
            /\ main' \notin {"final", "error_write", "ended"}
            /\ Due' = Due
         \/ main \in {"final", "error_write"} /\ main' = "ended"
  PROVE  Sound'
<1>1. writing = <<>>
  BY DEF BaseInv, WritingKnown
<1>2. SoftQueue' /\ RawQueue'
  BY <1>1, EmptyIsSoft
<1>3. Tip' = Tip /\ Upcoming' = Upcoming /\ End' = End
  BY PositionStays
<1>4. Shape' /\ Order'
  BY <1>2, <1>3 DEF Shape, Order, Sound
<1>5. Standing'
  BY <1>3 DEF Sound, Standing
<1> QED
  BY <1>4, <1>5 DEF Sound

(* An emitter sends its events over an empty chain. *)
LEMMA SendIsSound ==
  ASSUME BaseInv, Sound, queue = <<>>, progressBlock = None,
         \A e \in Emitters : script[e] = <<>>,
         main \notin {"open", "final", "error_write", "ended"}, main' \in Emitting,
         NEW e \in Emitters, NEW series \in Seq(PlainEvents), series # <<>>, Emit(e, series),
         Path(Tip, series),
         IF main' = "tools" THEN e \in Tools /\ tool'[e] = "emitting" ELSE e = "main",
         UNCHANGED <<wire, progressBlock>>, Stage',
         main' = "final" => EndOf(Tip, series).k = "message_stop",
         main' = "error_write" => EndOf(Tip, series).k = "error",
         main' \in {"uses", "tools"} =>
           Between(EndOf(Tip, series)) /\ NextIndex(EndOf(Tip, series)) = Due'
  PROVE  Sound'
<1>1. series[1] = Head(series) /\ Follows(Tip, series[1])
  BY DEF Path
<1>2. Head(series).k # "usage"
  BY <1>1 DEF Follows
<1>3. /\ Tip' = Tip /\ Upcoming' = series /\ End' = series[Len(series)]
      /\ queue' # <<>> /\ Len(queue') = 1 /\ queue'[1] = Raw(e, Head(series))
      /\ \A d \in Emitters : script'[d] # <<>> => d = e
  BY <1>2, SendPosition
<1>4. RawQueue'
  BY <1>2, <1>3, SendIsRaw
<1>5. Shape' /\ Order'
  BY <1>3, <1>4 DEF Shape, Order, Emitting
<1>6. End' = EndOf(Tip, series)
  BY <1>3 DEF EndOf
<1>7. progressBlock' = None /\ main' \in {"uses", "tools", "final", "error_write"}
  BY DEF Emitting
<1>8. Standing'
  <2>1. CASE main' = "final"
    BY <1>6, <2>1 DEF Standing
  <2>2. CASE main' = "error_write"
    BY <1>6, <2>2 DEF Standing
  <2>3. CASE main' \in {"uses", "tools"}
    BY <1>6, <1>7, <2>3 DEF Standing
  <2> QED
    BY <1>7, <2>1, <2>2, <2>3
<1> QED
  BY <1>5, <1>8 DEF Sound

LEMMA TurnOfBridge ==
  ASSUME BaseInv, Sound, BridgeStart \/ UsesEmitted \/ ToolsDone
  PROVE  Sound'
<1>0. UNCHANGED <<wire, queue, writing, script, progressBlock, progressClosed, closed, tool>>
  BY DEF BridgeStart, UsesEmitted, ToolsDone, flagVars
<1>1. CASE BridgeStart
  <2>1. /\ main = "bridge_close" /\ main' = "uses" /\ bridge' = nextContentIndex
        /\ nextContentIndex' = nextContentIndex /\ ~Queued("close")
    BY <1>1 DEF BridgeStart, flagVars
  <2>2. /\ bridge = None /\ progressClosed /\ SoftQueue /\ \A t \in Tools : tool[t] = "idle"
    BY <2>1 DEF Sound, Stage, Shape, Closing, Emitting
  <2>3. queue = <<>> /\ progressBlock = None /\ \A e \in Emitters : script[e] = <<>>
    BY <2>1, <2>2, ClosedIsEmpty DEF SoftQueue
  <2>4. nextContentIndex \in Nat /\ None \notin Nat
    BY ConstantsAssumption DEF BaseInv, ProgressTypes
  <2>5. Stage'
    BY <1>0, <2>1, <2>2, <2>3 DEF Sound, Stage, Beginning, Closing
  <2>6. Due = nextContentIndex
    BY <2>2 DEF Due
  <2>7. {t \in Tools : tool'[t] = "running"} = {}
    BY <1>0, <2>2
  <2>8. Due' = nextContentIndex
    <3>1. Cardinality({}) = 0
      BY FS_EmptySet
    <3> QED
      BY <2>1, <2>4, <2>7, <3>1 DEF Due
  <2> QED
    BY <1>0, <2>1, <2>3, <2>5, <2>6, <2>8, EmptyMoveIsSound
<1>2. CASE UsesEmitted
  <2>1. /\ main = "uses" /\ main' = "tools" /\ bridge' = bridge + Cardinality(Tools)
        /\ ~Busy("main") /\ \A t \in Tools : tool[t] = "running"
    BY <1>2 DEF UsesEmitted, MainWaits
  <2>2. RawQueue /\ progressClosed /\ progressBlock = None
    BY <2>1 DEF Sound, Stage, Shape, Closing, Emitting, RawQueue
  <2>3. queue = <<>> /\ \A e \in Emitters : script[e] = <<>>
    BY <2>1, <2>2, NotBusyIsEmpty
  <2>4. bridge \in Nat /\ Cardinality(Tools) \in Nat /\ None \notin Nat
    BY <2>1, ConstantsAssumption, FS_CardinalityType DEF BaseInv, HandlerTypes
  <2>5. Stage'
    BY <1>0, <2>1, <2>2 DEF Sound, Stage, Beginning, Closing
  <2>6. {t \in Tools : tool[t] = "running"} = Tools
    BY <2>1
  <2>7. Due = bridge'
    BY <2>1, <2>4, <2>6 DEF Due
  <2>8. Due' = bridge'
    BY <1>0, <2>1, <2>4 DEF Due
  <2> QED
    BY <1>0, <2>1, <2>2, <2>3, <2>5, <2>7, <2>8, EmptyMoveIsSound
<1>3. CASE ToolsDone
  <2>1. /\ main = "tools" /\ main' = "answer" /\ bridge' = bridge
        /\ \A t \in Tools : tool[t] = "done"
    BY <1>3 DEF ToolsDone
  <2>2. RawQueue /\ progressClosed /\ progressBlock = None
    BY <2>1 DEF Sound, Stage, Shape, Closing, Emitting, RawQueue
  <2>3. queue = <<>> /\ \A e \in Emitters : script[e] = <<>>
    BY <2>1, <2>2, NoneEmittingIsEmpty
  <2>4. bridge # None
    BY <2>1, ConstantsAssumption DEF BaseInv, HandlerTypes
  <2>5. Stage'
    BY <1>0, <2>1, <2>2 DEF Sound, Stage, Beginning, Closing
  <2>6. Due' = Due
    BY <1>0, <2>1, <2>4 DEF Due
  <2> QED
    BY <1>0, <2>1, <2>2, <2>3, <2>5, <2>6, EmptyMoveIsSound
<1> QED
  BY <1>1, <1>2, <1>3

LEMMA UseKeepsSound ==
  ASSUME BaseInv, Sound, WireKnown(wire), NEW t \in Tools, EmitUse(t)
  PROVE  Sound'
<1> DEFINE W == {s \in Tools : tool[s] = "running"}
           n == bridge + Cardinality(W)
<1>0. /\ main = "uses" /\ main' = "uses" /\ ~Busy("main") /\ tool[t] = "idle"
      /\ tool' = [tool EXCEPT ![t] = "running"] /\ Emit("main", Block(n))
      /\ UNCHANGED <<wire, progressBlock, progressClosed, closed, bridge>>
  BY DEF EmitUse, MainWaits, flagVars
<1>1. RawQueue /\ progressClosed /\ progressBlock = None
  BY <1>0 DEF Sound, Stage, Shape, Closing, Emitting, RawQueue
<1>2. queue = <<>> /\ \A e \in Emitters : script[e] = <<>>
  BY <1>0, <1>1, NotBusyIsEmpty
<1>3. IsFiniteSet(W) /\ Cardinality(W) \in Nat /\ t \notin W
  BY <1>0, ConstantsAssumption, FS_Subset, FS_CardinalityType
<1>4. bridge \in Nat /\ None \notin Nat /\ n \in Nat
  BY <1>0, <1>3, ConstantsAssumption DEF BaseInv, HandlerTypes
<1>5. tool'[t] = "running" /\ \A s \in Tools : s # t => tool'[s] = tool[s]
  BY <1>0 DEF BaseInv, HandlerTypes
<1>6. {s \in Tools : tool'[s] = "running"} = W \cup {t}
  BY <1>5
<1>7. Due = n
  BY <1>0, <1>4 DEF Due
<1>8. Due' = n + 1
  <2>1. Cardinality(W \cup {t}) = Cardinality(W) + 1
    BY <1>3, FS_AddElement
  <2>2. Due' = bridge + Cardinality({s \in Tools : tool'[s] = "running"})
    BY <1>0, <1>4 DEF Due
  <2>3. Due' = bridge + Cardinality(W \cup {t})
    BY <1>6, <2>2
  <2> HIDE DEF W
  <2> QED
    BY <1>3, <1>4, <2>1, <2>3
<1>9. Stage'
  BY <1>0, <1>1, <1>5 DEF Sound, Stage, Beginning, Closing
<1>10. Tip \in Events /\ Between(Tip) /\ NextIndex(Tip) = n
  BY <1>0, <1>1, <1>2, <1>7, StandsAtTip, TipTypes
<1> HIDE DEF n, W
<1>11. /\ Path(Tip, Block(n)) /\ EndOf(Tip, Block(n)) = Event("stop", n)
       /\ Between(Event("stop", n)) /\ NextIndex(Event("stop", n)) = n + 1
  BY <1>4, <1>10, BlockPaths
<1>12. Block(n) \in Seq(PlainEvents) /\ Block(n) # <<>>
  BY <1>4, EventTypes DEF Block
<1>13. "main" \in Emitters /\ main' \in Emitting /\ main' = "uses"
  BY <1>0 DEF Emitters, Emitting
<1> QED
  BY <1>0, <1>1, <1>2, <1>8, <1>9, <1>11, <1>12, <1>13, SendIsSound

(* Nobody else emits while a result is sent, if results do not cross; and  *)
(* a result that comes after the end is not sent.                          *)
LEMMA ResultKeepsSound ==
  ASSUME BaseInv, Sound, Serial, Serial', WireKnown(wire), NEW t \in Tools, main = "tools",
         EmitResult(t) \/ ResultEmitted(t) \/ ToolThrows(t)
  PROVE  Sound'
<1>0. \A s \in Tools : tool[s] = "emitting" =>
         \A r \in Tools : tool[r] = "emitting" => r = s
  BY DEF Serial
<1>1. /\ main = "tools" /\ t \in Emitters /\ t # "main"
      /\ UNCHANGED <<wire, writing, progressBlock, progressClosed, closed>>
  BY ConstantsAssumption DEF EmitResult, ResultEmitted, ToolThrows, flagVars, Emitters
<1>2. RawQueue /\ progressClosed /\ progressBlock = None /\ ~closed
  BY <1>1 DEF Sound, Stage, Shape, Closing, Emitting, RawQueue
<1>3. bridge \in Nat /\ None \notin Nat
  BY <1>1, ConstantsAssumption DEF BaseInv, HandlerTypes
<1>4. queue # <<>> => 1 \in 1..Len(queue)
  BY EmptySeq DEF BaseInv, StreamTypes
<1>5. \A s \in Tools : s # t => tool'[s] = tool[s]
  BY DEF EmitResult, ResultEmitted, ToolThrows, BaseInv, HandlerTypes
<1>6. CASE EmitResult(t)
  <2>1. /\ tool[t] = "running" /\ tool' = [tool EXCEPT ![t] = "emitting"]
        /\ Emit(t, ResultBlock(bridge)) /\ main' = main /\ bridge' = bridge
    BY <1>2, <1>6 DEF EmitResult
  <2>2. tool'[t] = "emitting"
    BY <2>1 DEF BaseInv, HandlerTypes
  <2>3. \A s \in Tools : tool[s] # "emitting"
    <3>1. \A s \in Tools : tool'[s] = "emitting" => s = t
      BY <1>1, <2>1, <2>2 DEF Serial
    <3> QED
      BY <1>5, <2>1, <3>1
  <2>4. queue = <<>> /\ \A e \in Emitters : script[e] = <<>>
    BY <1>1, <1>2, <2>3, NoneEmittingIsEmpty
  <2>5. Due = bridge /\ Due' = bridge + 1
    BY <1>1, <1>3, <2>1, <2>2, <2>3 DEF Due
  <2>6. Stage'
    BY <1>1, <1>2, <1>5, <2>1, <2>2 DEF Sound, Stage, Beginning, Closing
  <2>7. Tip \in Events /\ Between(Tip) /\ NextIndex(Tip) = bridge
    BY <1>1, <1>2, <2>4, <2>5, StandsAtTip, TipTypes
  <2>8. /\ Path(Tip, ResultBlock(bridge)) /\ EndOf(Tip, ResultBlock(bridge)) = Event("stop", bridge)
        /\ Between(Event("stop", bridge)) /\ NextIndex(Event("stop", bridge)) = bridge + 1
    BY <1>3, <2>7, BlockPaths
  <2>9. ResultBlock(bridge) \in Seq(PlainEvents) /\ ResultBlock(bridge) # <<>>
    BY <1>3, EventTypes DEF ResultBlock
  <2>10. main' \in Emitting /\ main' = "tools"
    BY <1>1, <2>1 DEF Emitting
  <2> QED
    BY <1>1, <1>2, <2>1, <2>2, <2>4, <2>5, <2>6, <2>8, <2>9, <2>10, SendIsSound
<1>7. CASE ResultEmitted(t)
  <2>1. /\ tool[t] = "emitting" /\ ~Busy(t) /\ tool' = [tool EXCEPT ![t] = "done"]
        /\ bridge' = bridge + 1 /\ main' = main /\ UNCHANGED <<queue, script>>
    BY <1>7 DEF ResultEmitted
  <2>2. tool'[t] = "done" /\ \A s \in Tools : tool[s] = "emitting" => s = t
    BY <1>0, <2>1 DEF BaseInv, HandlerTypes
  <2>3. queue = <<>> /\ \A e \in Emitters : script[e] = <<>>
    BY <1>1, <1>2, <1>4, <2>1, <2>2 DEF RawQueue, Busy
  <2>4. \A s \in Tools : tool'[s] # "emitting"
    BY <1>5, <2>2
  <2>5. Due = bridge + 1 /\ Due' = bridge + 1
    BY <1>1, <1>3, <2>1, <2>4 DEF Due
  <2>6. Stage'
    BY <1>1, <1>2, <1>5, <2>1, <2>2, <2>4 DEF Sound, Stage, Beginning, Closing
  <2> QED
    BY <1>1, <1>2, <2>1, <2>3, <2>5, <2>6, EmptyMoveIsSound
<1>8. CASE ToolThrows(t)
  <2>1. /\ tool[t] = "running" /\ tool' = [tool EXCEPT ![t] = "thrown"]
        /\ bridge' = bridge /\ main' = "error" /\ UNCHANGED <<queue, script>>
    BY <1>8 DEF ToolThrows
  <2>2. tool'[t] = "thrown" /\ \A s \in Tools : tool'[s] # "emitting" /\ tool[s] # "emitting"
    <3>1. \A s \in Tools : tool'[s] # "emitting"
      BY <2>1 DEF Serial
    <3> QED
      BY <1>5, <2>1, <3>1 DEF BaseInv, HandlerTypes
  <2>3. queue = <<>> /\ \A e \in Emitters : script[e] = <<>>
    BY <1>1, <1>2, <2>2, NoneEmittingIsEmpty
  <2>4. Due = bridge /\ Due' = bridge
    BY <1>1, <1>3, <2>1, <2>2 DEF Due
  <2>5. Stage'
    BY <1>1, <1>2, <2>1, <2>2 DEF Sound, Stage, Beginning, Closing
  <2> QED
    BY <1>1, <1>2, <2>1, <2>3, <2>4, <2>5, EmptyMoveIsSound
<1> QED
  BY <1>6, <1>7, <1>8

LEMMA LateResultKeepsSound ==
  ASSUME BaseInv, Sound, Serial, Serial', ~poisoned, NEW t \in Tools, main # "tools",
         EmitResult(t) \/ ResultEmitted(t)
  PROVE  Sound'
<1>1. main = "ended" /\ main' = main
  <2>1. CASE EmitResult(t)
    <3>1. tool'[t] = "emitting" /\ main' = main
      BY <2>1 DEF EmitResult, BaseInv, HandlerTypes
    <3> QED
      BY <3>1 DEF Serial
  <2>2. CASE ResultEmitted(t)
    BY <2>2 DEF ResultEmitted, Serial
  <2> QED
    BY <2>1, <2>2
<1>2. closed /\ queue = <<>> /\ SoftQueue
  BY <1>1 DEF Sound, Stage, Shape, Emitting
<1>3. UNCHANGED <<wire, queue, writing, script, progressBlock, progressClosed, closed>>
  BY <1>2 DEF EmitResult, ResultEmitted, flagVars
<1>4. bridge \in Nat /\ None \notin Nat
  BY ConstantsAssumption DEF EmitResult, ResultEmitted, BaseInv, HandlerTypes
<1>5. Tip' = Tip /\ Upcoming' = Upcoming /\ End' = End
  BY <1>3, PositionStays
<1>6. Stage'
  BY <1>1, <1>3, <1>4 DEF Sound, Stage, Beginning, Closing
<1>7. Shape'
  BY <1>1, <1>2, <1>3 DEF Sound, Shape, SoftQueue, Emitting
<1>8. Order' /\ Standing'
  BY <1>1, <1>5 DEF Sound, Order, Standing
<1> QED
  BY <1>6, <1>7, <1>8 DEF Sound

(* The final response, block by block from the next index. *)
LEMMA FinalPath ==
  ASSUME NEW a \in Events, NEW i \in Nat, Between(a), NextIndex(a) = i
  PROVE  /\ Path(a, FinalEvents(i))
         /\ EndOf(a, FinalEvents(i)) = Event("message_stop", 0)
         /\ FinalEvents(i) \in Seq(PlainEvents) /\ FinalEvents(i) # <<>>
<1> DEFINE f == FinalEvents(i)
           N == 3 * FinalBlocks
<1>1. /\ f \in Seq(PlainEvents) /\ Len(f) = N + 2
      /\ \A n \in 1..N : f[n] = Block(i + (n - 1) \div 3)[((n - 1) % 3) + 1]
      /\ f[N + 1] = Event("message_delta", 0) /\ f[N + 2] = Event("message_stop", 0)
  BY FinalTypes
<1>2. FinalBlocks \in Nat
  BY ConstantsAssumption
<1> HIDE DEF f
<1>3. /\ \A k \in 1..FinalBlocks :
           /\ f[3 * k - 2] = Event("start", i + (k - 1))
           /\ f[3 * k - 1] = Event("delta", i + (k - 1))
           /\ f[3 * k] = Event("stop", i + (k - 1))
  <2> SUFFICES ASSUME NEW k \in 1..FinalBlocks
               PROVE  /\ f[3 * k - 2] = Event("start", i + (k - 1))
                      /\ f[3 * k - 1] = Event("delta", i + (k - 1))
                      /\ f[3 * k] = Event("stop", i + (k - 1))
    OBVIOUS
  <2>0. k \in Nat /\ k >= 1 /\ k <= FinalBlocks
    BY <1>2
  <2>1. 3 * k - 2 \in 1..N /\ 3 * k - 1 \in 1..N /\ 3 * k \in 1..N
    BY <1>2, <2>0
  <2>2. /\ ((3 * k - 2) - 1) \div 3 = k - 1 /\ ((3 * k - 2) - 1) % 3 = 0
        /\ ((3 * k - 1) - 1) \div 3 = k - 1 /\ ((3 * k - 1) - 1) % 3 = 1
        /\ (3 * k - 1) \div 3 = k - 1 /\ (3 * k - 1) % 3 = 2
    BY <2>0
  <2>3. \A j : /\ Block(j)[0 + 1] = Event("start", j) /\ Block(j)[1 + 1] = Event("delta", j)
               /\ Block(j)[2 + 1] = Event("stop", j)
    BY DEF Block
  <2> QED
    BY <1>1, <2>1, <2>2, <2>3
<1>4. f # <<>>
  BY <1>1, <1>2, EmptySeq
<1>5. \A j : /\ Event("start", j).k = "start" /\ Event("start", j).i = j
             /\ Event("delta", j).k = "delta" /\ Event("delta", j).i = j
             /\ Event("stop", j).k = "stop" /\ Event("stop", j).i = j
             /\ Event("message_delta", j).k = "message_delta"
             /\ Event("message_stop", j).k = "message_stop"
  BY DEF Event, AS!Event
<1>6. Follows(a, f[1])
  <2>1. CASE FinalBlocks = 0
    <3>1. f[1] = Event("message_delta", 0)
      BY <1>1, <2>1
    <3> QED
      BY <1>5, <3>1 DEF Follows
  <2>2. CASE FinalBlocks # 0
    <3>1. 1 \in 1..FinalBlocks /\ 3 * 1 - 2 = 1 /\ i + (1 - 1) = i
      BY <1>2, <2>2
    <3>2. f[1] = Event("start", i)
      BY <1>3, <3>1
    <3> QED
      BY <1>5, <3>2 DEF Follows
  <2> QED
    BY <2>1, <2>2
<1>7. ASSUME NEW j \in 1..(N + 2) - 1
      PROVE  Follows(f[j], f[j + 1])
  <2>0. j \in Nat /\ j >= 1 /\ j <= N + 1
    BY <1>2
  <2>1. CASE j = N + 1
    <3>1. f[j] = Event("message_delta", 0) /\ f[j + 1] = Event("message_stop", 0)
      BY <1>1, <1>2, <2>1
    <3> QED
      BY <1>5, <3>1 DEF Follows
  <2>2. CASE j <= N
    <3> DEFINE k == ((j - 1) \div 3) + 1
    <3>1. /\ k \in 1..FinalBlocks
          /\ j = 3 * k - 2 \/ j = 3 * k - 1 \/ j = 3 * k
      BY <1>2, <2>0, <2>2
    <3> HIDE DEF k
    <3>2. k \in Nat /\ k >= 1 /\ k <= FinalBlocks /\ i + (k - 1) \in Nat
      BY <1>2, <3>1
    <3>3. CASE j = 3 * k - 2
      <4>1. j + 1 = 3 * k - 1
        BY <3>2, <3>3
      <4>2. f[j] = Event("start", i + (k - 1)) /\ f[j + 1] = Event("delta", i + (k - 1))
        BY <1>3, <3>1, <3>3, <4>1
      <4> QED
        BY <1>5, <4>2 DEF Follows, Inside
    <3>4. CASE j = 3 * k - 1
      <4>1. j + 1 = 3 * k
        BY <3>2, <3>4
      <4>2. f[j] = Event("delta", i + (k - 1)) /\ f[j + 1] = Event("stop", i + (k - 1))
        BY <1>3, <3>1, <3>4, <4>1
      <4> QED
        BY <1>5, <4>2 DEF Follows, Inside
    <3>5. CASE j = 3 * k
      <4>1. f[j] = Event("stop", i + (k - 1))
        BY <1>3, <3>1, <3>5
      <4>2. CASE k = FinalBlocks
        <5>1. f[j + 1] = Event("message_delta", 0)
          BY <1>1, <3>5, <4>2
        <5> QED
          BY <1>5, <4>1, <5>1 DEF Follows, Between
      <4>3. CASE k # FinalBlocks
        <5>1. k + 1 \in 1..FinalBlocks /\ 3 * (k + 1) - 2 = j + 1
              /\ i + ((k + 1) - 1) = (i + (k - 1)) + 1
          BY <1>2, <3>2, <3>5, <4>3
        <5>2. f[j + 1] = Event("start", (i + (k - 1)) + 1)
          BY <1>3, <5>1
        <5> QED
          BY <1>5, <4>1, <5>2 DEF Follows, Between, NextIndex
      <4> QED
        BY <4>2, <4>3
    <3> QED
      BY <3>1, <3>3, <3>4, <3>5
  <2> QED
    BY <2>0, <2>1, <2>2, <1>2
<1>8. Path(a, f)
  BY <1>1, <1>4, <1>6, <1>7 DEF Path
<1>9. EndOf(a, f) = Event("message_stop", 0)
  BY <1>1, <1>4 DEF EndOf
<1> QED
  BY <1>1, <1>4, <1>8, <1>9 DEF f

LEMMA VerdictKeepsSound ==
  ASSUME BaseInv, Sound, WireKnown(wire), FinalStart \/ ErrorWrite \/ FinalDone \/ ErrorDone
  PROVE  Sound'
<1>0. "main" \in Emitters /\ None \notin Nat
  BY ConstantsAssumption DEF Emitters
<1>1. ASSUME FinalStart \/ ErrorWrite
      PROVE  /\ UNCHANGED <<wire, progressBlock, nextContentIndex, progressClosed, closed, tool, bridge>>
             /\ main \in {"final_close", "error_close"}
             /\ queue = <<>> /\ progressBlock = None /\ progressClosed
             /\ \A e \in Emitters : script[e] = <<>>
             /\ Tip \in Events /\ Between(Tip) /\ NextIndex(Tip) = Due
  <2>1. /\ UNCHANGED <<wire, progressBlock, nextContentIndex, progressClosed, closed, tool, bridge>>
        /\ main \in {"final_close", "error_close"} /\ ~Queued("close")
    BY <1>1 DEF FinalStart, ErrorWrite, flagVars
  <2>2. SoftQueue /\ progressClosed
    BY <2>1 DEF Sound, Stage, Shape, Closing, Emitting
  <2>3. queue = <<>> /\ progressBlock = None /\ \A e \in Emitters : script[e] = <<>>
    BY <2>1, <2>2, ClosedIsEmpty DEF SoftQueue
  <2> QED
    BY <2>1, <2>2, <2>3, StandsAtTip, TipTypes
<1>2. CASE FinalStart
  <2> DEFINE i == IF bridge = None THEN nextContentIndex ELSE bridge
  <2>1. main = "final_close" /\ main' = "final" /\ Emit("main", FinalEvents(i))
    BY <1>2 DEF FinalStart
  <2>2. i \in Nat
    BY <1>0 DEF BaseInv, ProgressTypes, HandlerTypes
  <2>3. Due = i
    <3>1. \A t \in Tools : tool[t] # "emitting"
      BY <2>1 DEF Sound, Stage
    <3> QED
      BY <2>1, <3>1 DEF Due
  <2> HIDE DEF i
  <2>4. /\ Path(Tip, FinalEvents(i)) /\ EndOf(Tip, FinalEvents(i)) = Event("message_stop", 0)
        /\ FinalEvents(i) \in Seq(PlainEvents) /\ FinalEvents(i) # <<>>
    BY <1>1, <1>2, <2>2, <2>3, FinalPath
  <2>5. Event("message_stop", 0).k = "message_stop"
    BY DEF Event, AS!Event
  <2>6. Stage'
    BY <1>1, <1>2, <2>1 DEF Sound, Stage, Beginning, Closing
  <2>7. main' \in Emitting
    BY <2>1 DEF Emitting
  <2> QED
    BY <1>0, <1>1, <1>2, <2>1, <2>4, <2>5, <2>6, <2>7, SendIsSound
<1>3. CASE ErrorWrite
  <2> DEFINE x == Event("error", 0)
  <2>1. main = "error_close" /\ main' = "error_write" /\ Emit("main", <<x>>)
    BY <1>3 DEF ErrorWrite
  <2>2. x \in PlainEvents /\ x.k = "error"
    BY EventTypes DEF AS!Kinds, Event, AS!Event
  <2> HIDE DEF x
  <2>3. x \in Events /\ <<x>> \in Seq(PlainEvents) /\ <<x>> # <<>>
    BY <2>2, EventTypes
  <2>4. Follows(Tip, x)
    BY <1>1, <1>3, <2>2 DEF Follows
  <2>5. Path(Tip, <<x>>) /\ EndOf(Tip, <<x>>) = x
    BY <1>1, <1>3, <2>3, <2>4, OneStep
  <2>6. Stage'
    BY <1>1, <1>3, <2>1 DEF Sound, Stage, Beginning, Closing
  <2>7. main' \in Emitting
    BY <2>1 DEF Emitting
  <2> QED
    BY <1>0, <1>1, <1>3, <2>1, <2>2, <2>3, <2>5, <2>6, <2>7, SendIsSound
<1>4. CASE FinalDone \/ ErrorDone
  <2>1. /\ UNCHANGED <<wire, queue, writing, script, progressBlock, progressClosed, tool, bridge>>
        /\ main \in {"final", "error_write"} /\ main' = "ended" /\ closed' = TRUE
        /\ ~Busy("main")
    BY <1>4 DEF FinalDone, ErrorDone, Stop, MainWaits, flagVars
  <2>2. RawQueue /\ progressBlock = None
    BY <2>1 DEF Sound, Shape, Emitting, RawQueue
  <2>3. queue = <<>> /\ \A e \in Emitters : script[e] = <<>>
    BY <2>1, <2>2, NotBusyIsEmpty
  <2>4. Stage'
    BY <2>1 DEF Sound, Stage, Beginning, Closing
  <2> QED
    BY <2>1, <2>2, <2>3, <2>4, EmptyMoveIsSound
<1> QED
  BY <1>2, <1>3, <1>4

(* message_start is written beside the chain, before anything joins it.    *)
LEMMA OpenIsSound ==
  ASSUME BaseInv, Sound, Open \/ OpenFails
  PROVE  Sound' /\ WireKnown(wire)' /\ AS!Send
<1> DEFINE m == Event("message_start", 0)
<1>0. /\ main = "open" /\ main' \in {"banner", "error"} /\ wire' = <<m>>
      /\ UNCHANGED <<queue, writing, script, progressBlock, nextContentIndex, visible,
                     progressClosed, closed, tool, bridge>>
  BY DEF Open, OpenFails, flagVars
<1>1. /\ wire = <<>> /\ queue = <<>> /\ writing = <<>> /\ progressBlock = None
      /\ nextContentIndex = 0
  BY <1>0 DEF BaseInv, Quiet
<1>2. /\ bridge = None /\ \A e \in Emitters : script[e] = <<>>
      /\ ~progressClosed /\ \A t \in Tools : tool[t] = "idle"
  BY <1>0 DEF Sound, Stage, Shape, SoftQueue, Emitting, Beginning
<1>3. m \in Events /\ m.k = "message_start"
  BY EventTypes DEF AS!Kinds, Event, AS!Event
<1> HIDE DEF m
<1>4. /\ wire' \in Seq(Events) /\ Len(wire') = 1 /\ wire'[1] = m /\ wire' # <<>>
  BY <1>0, <1>3
<1>5. IsTip(wire', 1)
  BY <1>3, <1>4 DEF IsTip
<1>6. TipOf(wire') = m
  BY <1>4, <1>5, TipUnique
<1>7. StartedIn(wire') = 0
  <2>1. {j \in 1..Len(wire') : wire'[j].k = "start"} = {}
    BY <1>3, <1>4
  <2> QED
    BY <2>1, FS_EmptySet DEF StartedIn
<1>8. Between(m) /\ NextIndex(m) = 0
  BY <1>3 DEF Between, NextIndex
<1>9. WireKnown(wire)'
  BY <1>5, <1>6, <1>7, <1>8 DEF WireKnown
<1>10. Tip' = m /\ Upcoming' = <<>> /\ End' = m
  BY <1>0, <1>1, <1>6 DEF Tip, Upcoming, End, EndOf
<1>11. Stage'
  BY <1>0, <1>2 DEF Sound, Stage, Beginning, Closing
<1>12. SoftQueue'
  <2>1. queue' = <<>> /\ writing' = <<>> /\ progressBlock' = None
        /\ \A e \in Emitters : script'[e] = <<>>
    BY <1>0, <1>1, <1>2
  <2> QED
    BY <2>1, EmptyIsSoft
<1>13. Shape' /\ Order'
  BY <1>0, <1>10, <1>12 DEF Shape, Order, Path, Emitting
<1>14. Due' = 0
  BY <1>0, <1>1, <1>2 DEF Due
<1>15. Standing'
  BY <1>0, <1>1, <1>8, <1>10, <1>14 DEF Standing
<1>16. AS!Send
  <2>1. AS!Legal(wire, m)
    BY <1>1, <1>3 DEF AS!Legal
  <2>2. wire' = Append(wire, m) /\ wire'[Len(wire')] = m /\ Len(wire') = Len(wire) + 1
    BY <1>1, <1>4
  <2> QED
    BY <2>1, <2>2 DEF AS!Send
<1> QED
  BY <1>9, <1>11, <1>13, <1>15, <1>16 DEF Sound

(* While the client reads and no results have crossed, the stream stands   *)
(* where the handler thinks it does; the wire is known as long.            *)
MessageInv == Healthy /\ ~crossed => Sound /\ Serial /\ (main # "open" => WireKnown(wire))

LEMMA MessageStarts == Init => MessageInv
<1> SUFFICES ASSUME Init PROVE Sound /\ Serial /\ main = "open"
  BY DEF MessageInv
<1>1. /\ main = "open" /\ queue = <<>> /\ writing = <<>> /\ progressBlock = None /\ bridge = None
      /\ ~progressClosed /\ ~closed
      /\ \A e \in Emitters : script[e] = <<>>
      /\ \A t \in Tools : tool[t] = "idle"
  BY DEF Init
<1>2. Len(queue) = 0
  BY <1>1
<1>3. Stage
  BY <1>1 DEF Stage, Beginning, Closing
<1>4. SoftQueue
  BY <1>1, <1>2 DEF SoftQueue
<1>5. Shape /\ Order /\ Standing
  BY <1>1, <1>4 DEF Shape, Order, Standing, Emitting
<1>6. Serial
  BY <1>1 DEF Serial
<1> QED
  BY <1>1, <1>3, <1>5, <1>6 DEF Sound

LEMMA WritesAre ==
  ASSUME BaseInv, Sound, Healthy, main # "open", WireKnown(wire), MainStep, Healthy',
         Serial, Serial'
  PROVE  Sound' /\ wire' = wire
<1>0. ~gone /\ ~poisoned
  BY DEF Healthy
<1>1. CASE OpenBanner \/ Opened \/ UsageWritten \/ Fail \/ FinalUpdate
  BY <1>0, <1>1, StepKeepsSound DEF OpenBanner, Opened, UsageWritten, Fail, FinalUpdate
<1>2. CASE BridgeClose \/ FinalClose \/ ErrorClose
  BY <1>2, CloseKeepsSound DEF BridgeClose, FinalClose, ErrorClose
<1>3. CASE BridgeStart \/ UsesEmitted \/ ToolsDone
  BY <1>3, TurnOfBridge DEF BridgeStart, UsesEmitted, ToolsDone
<1>4. CASE FinalStart \/ ErrorWrite \/ FinalDone \/ ErrorDone
  BY <1>4, VerdictKeepsSound DEF FinalStart, ErrorWrite, FinalDone, ErrorDone
<1>5. CASE UpdateUsage
  BY <1>5, UsageKeepsSound DEF UpdateUsage
<1>6. CASE Open \/ OpenFails \/ ErrorLeave \/ ErrorEscapes
  BY <1>0, <1>6 DEF Open, OpenFails, ErrorLeave, ErrorEscapes
<1>7. CASE \E t \in Tools : EmitUse(t) \/ EmitResult(t) \/ ResultEmitted(t) \/ ToolThrows(t)
  <2>1. PICK t \in Tools : EmitUse(t) \/ EmitResult(t) \/ ResultEmitted(t) \/ ToolThrows(t)
    BY <1>7
  <2>2. CASE EmitUse(t)
    BY <2>2, UseKeepsSound DEF EmitUse
  <2>3. CASE EmitResult(t) \/ ResultEmitted(t) \/ ToolThrows(t)
    <3>1. wire' = wire
      BY <2>3 DEF EmitResult, ResultEmitted, ToolThrows
    <3>2. main = "tools" => Sound'
      BY <2>3, ResultKeepsSound
    <3>3. main # "tools" => Sound'
      BY <1>0, <2>3, LateResultKeepsSound DEF ToolThrows
    <3> QED
      BY <3>1, <3>2, <3>3
  <2> QED
    BY <2>1, <2>2, <2>3
<1> QED
  BY <1>1, <1>2, <1>3, <1>4, <1>5, <1>6, <1>7 DEF MainStep

LEMMA ProgressKeepsSound ==
  ASSUME BaseInv, Sound, ~poisoned,
         ProgressStep \/ Update \/ Elapse \/ UNCHANGED vars
  PROVE  Sound' /\ wire' = wire
<1>1. CASE UNCHANGED standing
  BY <1>1, RestIsSound DEF standing
<1>2. CASE FlushTimer \/ Update \/ Elapse \/ UNCHANGED vars
  <2>1. UNCHANGED standing
    BY <1>2 DEF FlushTimer, Update, Elapse, vars, flagVars, standing
  <2> QED
    BY <1>1, <2>1
<1>3. CASE RunHook
  <2>1. CASE visible
    <3>1. UNCHANGED standing
      BY <1>3, <2>1 DEF RunHook, standing
    <3> QED
      BY <1>1, <3>1
  <2>2. CASE ~visible
    <3>1. queue' = Append(queue, Op("banner")) /\ ~closed /\ ~progressClosed /\ wire' = wire
      BY <1>3, <2>2 DEF RunHook
    <3>2. Op("banner") \in Operations /\ Op("banner").op = "banner"
      BY TurnTypes DEF Operations
    <3> QED
      BY <1>3, <3>1, <3>2, JoinKeepsSound
  <2> QED
    BY <2>1, <2>2
<1>4. CASE Release
  <2>1. CASE closed \/ progressClosed
    <3>1. UNCHANGED standing
      BY <1>4, <2>1 DEF Release, flagVars, standing
    <3> QED
      BY <1>1, <3>1
  <2>2. CASE ~closed /\ ~progressClosed
    <3> DEFINE o == [op |-> "update", by |-> "none", entry |-> Head(releasing)]
    <3>1. queue' = Append(queue, o) /\ wire' = wire
      BY <1>4, <2>2 DEF Release
    <3>2. Head(releasing) \in Entry
      BY <1>4 DEF Release, BaseInv, ProgressTypes
    <3>3. o \in Operations /\ o.op = "update"
      BY <3>2, TurnTypes DEF Operations
    <3> HIDE DEF o
    <3> QED
      BY <1>4, <2>2, <3>1, <3>3, JoinKeepsSound
  <2> QED
    BY <2>1, <2>2
<1> QED
  BY <1>2, <1>3, <1>4 DEF ProgressStep

LEMMA HealthyBefore ==
  ASSUME [Next]_vars, Healthy'
  PROVE  Healthy /\ ~WriteFails /\ ~Disconnect
<1>1. ~WriteFails /\ ~Disconnect
  BY DEF Healthy, WriteFails, Disconnect
<1>2. CASE MainStep
  <2>1. CASE \E t \in Tools : EmitUse(t) \/ EmitResult(t) \/ ResultEmitted(t) \/ ToolThrows(t)
    BY <1>1, <2>1 DEF EmitUse, EmitResult, ResultEmitted, ToolThrows, Healthy
  <2>2. CASE \/ FinalUpdate \/ FinalClose \/ FinalStart \/ FinalDone
             \/ ErrorLeave \/ ErrorEscapes \/ ErrorClose \/ ErrorWrite \/ ErrorDone
    BY <1>1, <2>2 DEF FinalUpdate, FinalClose, FinalStart, FinalDone, ErrorLeave, ErrorEscapes,
       ErrorClose, ErrorWrite, ErrorDone, Healthy
  <2>3. CASE \/ Open \/ OpenFails \/ OpenBanner \/ Opened \/ UpdateUsage \/ UsageWritten
             \/ BridgeClose \/ BridgeStart \/ UsesEmitted \/ ToolsDone \/ Fail
    BY <1>1, <2>3 DEF Open, OpenFails, OpenBanner, Opened, UpdateUsage, UsageWritten, BridgeClose,
       BridgeStart, UsesEmitted, ToolsDone, Fail, Healthy
  <2> QED
    BY <1>2, <2>1, <2>2, <2>3 DEF MainStep
<1>3. CASE QueueStep
  BY <1>1, <1>3 DEF QueueStep, Healthy, StartRaw, StartUpdate, StartBanner, StartClose, WriteEvent
<1>4. CASE ProgressStep \/ Update \/ Elapse \/ UNCHANGED vars
  BY <1>1, <1>4 DEF ProgressStep, FlushTimer, RunHook, Release, Update, Elapse, vars, Healthy
<1> QED
  BY <1>1, <1>2, <1>3, <1>4 DEF Next

LEMMA MessageKept ==
  ASSUME BaseInv, MessageInv, [Next]_vars
  PROVE  MessageInv'
<1> SUFFICES ASSUME Healthy', ~crossed'
             PROVE  Sound' /\ Serial' /\ (main' # "open" => WireKnown(wire)')
  BY DEF MessageInv
<1>1. ~WriteFails /\ ~Disconnect
  BY HealthyBefore
<1>2. Healthy /\ ~crossed
  BY HealthyBefore, StepIsWatched DEF BaseInv
<1>0. Serial /\ Serial'
  <2>1. Serial
    BY <1>2 DEF MessageInv
  <2>2. Serial' \/ UNCHANGED vars
    BY StepIsWatched DEF BaseInv
  <2> QED
    BY <2>1, <2>2 DEF Serial, vars
<1>3. ~gone /\ ~poisoned /\ Sound /\ (main # "open" => WireKnown(wire))
  BY <1>2 DEF MessageInv, Healthy
<1>4. main = "open" => queue = <<>> /\ writing = <<>>
  BY DEF BaseInv, Quiet
<1>5. CASE Open \/ OpenFails
  BY <1>0, <1>3, <1>5, OpenIsSound
<1>6. CASE ProgressStep \/ Update \/ Elapse \/ UNCHANGED vars
  <2>1. Sound' /\ wire' = wire
    BY <1>3, <1>6, ProgressKeepsSound
  <2>2. main' = main
    BY <1>6 DEF ProgressStep, FlushTimer, RunHook, Release, Update, Elapse, vars
  <2> QED
    BY <1>0, <1>3, <2>1, <2>2 DEF WireKnown
<1>7. CASE QueueStep
  <2>1. main # "open"
    BY <1>1, <1>4, <1>7 DEF QueueStep, StartRaw, StartUpdate, StartBanner, StartClose, WriteEvent
  <2>2. CASE WriteEvent
    BY <1>0, <1>3, <2>1, <2>2, WriteKeepsSound
  <2>3. CASE StartRaw \/ StartUpdate \/ StartBanner \/ StartClose
    <3>1. Sound'
      BY <1>3, <2>1, <2>3, StartKeepsSound
    <3>2. wire' = wire
      BY <2>3 DEF StartRaw, StartUpdate, StartBanner, StartClose
    <3> QED
      BY <1>0, <1>3, <2>1, <3>1, <3>2 DEF WireKnown
  <2> QED
    BY <1>1, <1>7, <2>2, <2>3 DEF QueueStep
<1>8. CASE MainStep /\ ~(Open \/ OpenFails)
  <2>1. main # "open"
    <3> SUFFICES ASSUME main = "open" PROVE FALSE
      OBVIOUS
    <3>1. \A t \in Tools : tool[t] = "idle"
      BY <1>3 DEF Sound, Stage, Beginning
    <3>2. \A t \in Tools : ~EmitUse(t) /\ ~EmitResult(t) /\ ~ResultEmitted(t) /\ ~ToolThrows(t)
      BY <3>1 DEF EmitUse, EmitResult, ResultEmitted, ToolThrows
    <3> QED
      BY <1>3, <1>8, <3>2 DEF MainStep, OpenBanner, Opened, UpdateUsage, UsageWritten, BridgeClose,
         BridgeStart, UsesEmitted, ToolsDone, Fail, FinalUpdate, FinalClose, FinalStart, FinalDone,
         ErrorLeave, ErrorEscapes, ErrorClose, ErrorWrite, ErrorDone
  <2>2. Sound' /\ wire' = wire
    BY <1>0, <1>2, <1>3, <1>8, <2>1, WritesAre
  <2> QED
    BY <1>0, <1>3, <2>1, <2>2 DEF WireKnown
<1> QED
  BY <1>0, <1>1, <1>5, <1>6, <1>7, <1>8 DEF Next

(* Every event on the wire is one the protocol allows after those before. *)
LEMMA SendsLegally ==
  ASSUME BaseInv, MessageInv, [Next]_vars, ~crossed
  PROVE  [AS!Send]_wire
<1>1. CASE wire' = wire
  BY <1>1
<1>2. CASE Open \/ OpenFails
  <2>1. ~gone /\ ~poisoned
    BY <1>2 DEF Open, OpenFails, BaseInv, Quiet
  <2>2. Sound
    BY <2>1 DEF MessageInv, Healthy
  <2> QED
    BY <1>2, <2>2, OpenIsSound
<1>3. CASE WriteEvent \/ WriteFails
  <2> SUFFICES ASSUME wire' # wire PROVE AS!Send
    OBVIOUS
  <2>1. writing # <<>> /\ ~gone /\ ~poisoned /\ main # "open" /\ wire' = Append(wire, Head(writing))
    <3>1. writing # <<>> /\ ~gone /\ wire' = Append(wire, Head(writing))
      BY <1>3 DEF WriteEvent, WriteFails
    <3> QED
      BY <3>1 DEF BaseInv, Rejected, Quiet
  <2>2. Sound /\ WireKnown(wire)
    BY <2>1 DEF MessageInv, Healthy
  <2>3. Continuing(Tip, Head(writing))
    BY <2>1, <2>2, NextIsContinuing
  <2>4. wire \in Seq(Events) /\ Head(writing) \in Events
    BY <2>1, HeadTailProperties DEF BaseInv, StreamTypes
  <2> QED
    BY <2>1, <2>2, <2>3, <2>4, ContinuingIsSent DEF Tip
<1>4. CASE ~(Open \/ OpenFails \/ WriteEvent \/ WriteFails)
  <2>1. wire' = wire
    <3>1. CASE QueueStep
      BY <1>4, <3>1 DEF QueueStep, StartRaw, StartUpdate, StartBanner, StartClose
    <3>2. CASE ProgressStep \/ Update \/ Elapse \/ Disconnect \/ UNCHANGED vars
      BY <3>2 DEF ProgressStep, FlushTimer, RunHook, Release, Update, Elapse, Disconnect, vars
    <3>3. CASE MainStep
      BY <1>4, <3>3 DEF MainStep, OpenBanner, Opened, UpdateUsage, UsageWritten,
         BridgeClose, BridgeStart, UsesEmitted, ToolsDone, Fail, FinalUpdate, FinalClose, FinalStart,
         FinalDone, ErrorLeave, ErrorEscapes, ErrorClose, ErrorWrite, ErrorDone, EmitUse, EmitResult,
         ResultEmitted, ToolThrows
    <3> QED
      BY <3>1, <3>2, <3>3 DEF Next
  <2> QED
    BY <2>1
<1> QED
  BY <1>2, <1>3, <1>4

(* What is written is one well-formed message of the protocol, for every   *)
(* number of calls, fragments and final blocks and every order of updates, *)
(* banner, usage, calls and failure, as long as no two results of a round  *)
(* cross, and no result an error (progress.js #enqueue, closeProgress;     *)
(* anthropic-sse.js createServerToolStreamBridge,                          *)
(* emitFinalAnthropicResponse, emitSseError).                              *)
THEOREM StreamIsWellFormed == Spec => StreamWellFormed
<1>1. Init => AS!Init
  BY DEF Init, AS!Init
<1>2. BaseInv /\ MessageInv /\ [Next]_vars => [AS!Send \/ crossed]_wire
  BY SendsLegally
<1>3. BaseInv /\ MessageInv /\ [Next]_vars => MessageInv'
  BY MessageKept
<1> QED
  BY <1>1, <1>2, <1>3, BaseHolds, MessageStarts, PTL DEF Spec, StreamWellFormed

(* The verdict, also where results cross: the handler's own last event is  *)
(* the one it still has to send, or is queued, or is written.              *)
Verdicts == {"message_stop", "error"}
IsVerdict(o) == o.op = "raw" /\ o.by = "main" /\ o.ev.k \in Verdicts
VerdictQueued == \E j \in 1..Len(queue) : IsVerdict(queue[j])
VerdictOnWire == \E j \in 1..Len(wire) : wire[j].k \in Verdicts
VerdictDue ==
    IF script["main"] # <<>> THEN Last(script["main"]).k \in Verdicts
    ELSE VerdictQueued \/ VerdictOnWire

VerdictInv ==
    /\ closed => main \in {"ended", "escaped"}
    /\ Healthy /\ main \in {"final", "error_write"} => VerdictDue
    /\ Healthy /\ main = "ended" => VerdictOnWire

LEMMA WireKeepsVerdict ==
  ASSUME BaseInv, VerdictOnWire, NEW e \in Events, wire' \in {wire, Append(wire, e)}
  PROVE  VerdictOnWire'
<1>1. PICK j \in 1..Len(wire) : wire[j].k \in Verdicts
  BY DEF VerdictOnWire
<1>2. wire \in Seq(Events)
  BY DEF BaseInv, StreamTypes
<1>3. j \in 1..Len(wire') /\ wire'[j] = wire[j]
  BY <1>1, <1>2
<1> QED
  BY <1>1, <1>3 DEF VerdictOnWire

(* An operation leaves the chain or joins it. *)
LEMMA ChainKeepsVerdict ==
  ASSUME BaseInv, VerdictQueued, NEW o \in Operations,
         \/ queue' = queue
         \/ queue' = Append(queue, o)
         \/ queue # <<>> /\ ~IsVerdict(Head(queue)) /\ queue' \in {Tail(queue), Append(Tail(queue), o)}
  PROVE  VerdictQueued'
<1>0. queue \in Seq(Operations)
  BY DEF BaseInv, StreamTypes
<1>1. PICK j \in 1..Len(queue) : IsVerdict(queue[j])
  BY DEF VerdictQueued
<1>2. CASE queue' = queue
  BY <1>1, <1>2 DEF VerdictQueued
<1>3. CASE queue' = Append(queue, o)
  <2>1. j \in 1..Len(queue') /\ queue'[j] = queue[j]
    BY <1>0, <1>3
  <2> QED
    BY <1>1, <2>1 DEF VerdictQueued
<1>4. CASE queue # <<>> /\ ~IsVerdict(Head(queue)) /\ queue' \in {Tail(queue), Append(Tail(queue), o)}
  <2>1. j # 1
    BY <1>0, <1>1, <1>4
  <2>2. j - 1 \in 1..Len(Tail(queue)) /\ Tail(queue)[j - 1] = queue[j] /\ Tail(queue) \in Seq(Operations)
    BY <1>0, <1>1, <1>4, <2>1
  <2>3. j - 1 \in 1..Len(queue') /\ queue'[j - 1] = queue[j]
    BY <1>4, <2>2
  <2> QED
    BY <1>1, <2>3 DEF VerdictQueued
<1> QED
  BY <1>2, <1>3, <1>4

LEMMA DueStays ==
  ASSUME BaseInv, VerdictDue, NEW o \in Operations, wire' = wire, script'["main"] = script["main"],
         \/ queue' = queue
         \/ queue' = Append(queue, o)
         \/ queue # <<>> /\ ~IsVerdict(Head(queue)) /\ queue' = Tail(queue)
  PROVE  VerdictDue'
  BY ChainKeepsVerdict DEF VerdictDue, VerdictOnWire

(* The event that is written, and the next one of its emitter. *)
LEMMA WriteKeepsDue ==
  ASSUME BaseInv, WriteEvent, VerdictDue, ~closed
  PROVE  VerdictDue'
<1> DEFINE op == Head(queue)
           q == script["main"]
<1>1. /\ queue # <<>> /\ op \in Operations /\ Head(writing) \in Events /\ wire' = Append(wire, Head(writing))
      /\ Tail(queue) \in Seq(Operations) /\ writing # <<>>
      /\ script \in [Emitters -> Seq(PlainEvents)] /\ "main" \in Emitters
      /\ wire \in Seq(Events) /\ (op.op = "raw" => writing = <<op.ev>> /\ op.by \in Emitters)
  BY WriteEffects, OperationTypes DEF BaseInv, StreamTypes, WritingKnown, Emitters
<1>2. CASE op.op = "raw" /\ op.by = "main" /\ q # <<>>
  <2>1. /\ script' = [script EXCEPT !["main"] = Tail(q)]
        /\ queue' = Append(Tail(queue), Raw("main", Head(q)))
    BY <1>1, <1>2, WriteEffects DEF Continues
  <2>2. q \in Seq(PlainEvents) /\ script'["main"] = Tail(q) /\ Last(q).k \in Verdicts
    BY <1>1, <1>2, <2>1 DEF VerdictDue
  <2> HIDE DEF q
  <2>3. CASE Tail(q) # <<>>
    <3>1. Last(Tail(q)) = Last(q)
      BY <1>2, <2>2, <2>3 DEF Last
    <3> QED
      BY <2>2, <2>3, <3>1 DEF VerdictDue
  <2>4. CASE Tail(q) = <<>>
    <3>0. Len(q) = 1 /\ Head(q) = q[1]
      <4>1. Len(Tail(q)) = Len(q) - 1 /\ Len(q) \in Nat
        BY <1>2, <2>2, HeadTailProperties
      <4>2. Len(<<>>) = 0
        OBVIOUS
      <4>3. Len(Tail(q)) = 0
        BY <2>4, <4>2, Zenon
      <4> QED
        BY <4>1, <4>3
    <3>1. Head(q) = Last(q)
      BY <3>0 DEF Last
    <3>2. IsVerdict(Raw("main", Head(q)))
      BY <2>2, <3>1 DEF IsVerdict, Raw
    <3>3. Len(queue') \in 1..Len(queue') /\ queue'[Len(queue')] = Raw("main", Head(q))
      BY <1>1, <2>1
    <3> QED
      BY <2>2, <2>4, <3>2, <3>3 DEF VerdictDue, VerdictQueued
  <2> QED
    BY <2>3, <2>4
<1>3. CASE IsVerdict(op) /\ q = <<>>
  <2>1. Head(writing).k \in Verdicts
    BY <1>1, <1>3 DEF IsVerdict
  <2>2. Len(wire') \in 1..Len(wire') /\ wire'[Len(wire')] = Head(writing)
    BY <1>1
  <2>3. script'["main"] = <<>>
    BY <1>1, <1>3, WriteEffects DEF Continues, IsVerdict
  <2> QED
    BY <2>1, <2>2, <2>3 DEF VerdictDue, VerdictOnWire
<1>4. CASE ~(op.op = "raw" /\ op.by = "main" /\ q # <<>>) /\ ~(IsVerdict(op) /\ q = <<>>)
  <2>1. script'["main"] = q
    BY <1>1, <1>4, WriteEffects DEF Continues
  <2>2. CASE q # <<>>
    BY <2>1, <2>2 DEF VerdictDue
  <2>3. CASE q = <<>>
    <3>1. VerdictQueued \/ VerdictOnWire
      BY <2>3 DEF VerdictDue
    <3>2. ~IsVerdict(op)
      BY <1>4, <2>3
    <3>3. \E o \in Operations : queue' \in {queue, Tail(queue), Append(Tail(queue), o)}
      <4>1. ASSUME Continues(op)
            PROVE  Raw(op.by, Head(script[op.by])) \in Operations
        <5>1. script[op.by] \in Seq(PlainEvents) /\ script[op.by] # <<>> /\ op.by \in Emitters
          BY <1>1, <4>1 DEF Continues
        <5>2. Head(script[op.by]) \in PlainEvents
          BY <5>1, HeadTailProperties
        <5> QED
          BY <5>1, <5>2 DEF Raw, Operations, Raws
      <4> QED
        BY <1>1, <4>1, WriteEffects
    <3>4. PICK o \in Operations : queue' \in {queue, Tail(queue), Append(Tail(queue), o)}
      BY <3>3
    <3> HIDE DEF op, q
    <3>5. VerdictQueued => VerdictQueued'
      BY <1>1, <3>2, <3>4, ChainKeepsVerdict DEF op
    <3>6. VerdictOnWire => VerdictOnWire'
      BY <1>1, WireKeepsVerdict
    <3> QED
      BY <2>1, <2>3, <3>1, <3>5, <3>6 DEF VerdictDue, q
  <2> QED
    BY <2>2, <2>3
<1> QED
  BY <1>2, <1>3, <1>4

(* The handler sends its verdict, and ends when it is written.             *)
LEMMA VerdictSteps ==
  ASSUME BaseInv, VerdictInv, MainStep, Healthy, Healthy'
  PROVE  VerdictInv'
<1>0. /\ ~gone /\ ~poisoned /\ ~gone' /\ ~poisoned' /\ queue \in Seq(Operations) /\ wire \in Seq(Events)
      /\ script \in [Emitters -> Seq(PlainEvents)] /\ "main" \in Emitters /\ "main" \notin Tools
  BY ConstantsAssumption DEF Healthy, BaseInv, StreamTypes, Emitters
<1>1. CASE FinalStart
  <2>1. PICK i \in Nat : Emit("main", FinalEvents(i))
    BY <1>1 DEF FinalStart, BaseInv, ProgressTypes, HandlerTypes
  <2> DEFINE q == FinalEvents(i)
             n == 3 * FinalBlocks
  <2>2. /\ q \in Seq(PlainEvents) /\ Len(q) = n + 2 /\ q[n + 2] = Event("message_stop", 0)
        /\ n \in Nat
    BY FinalTypes, ConstantsAssumption
  <2>3. Event("message_stop", 0).k \in Verdicts
    BY DEF Event, AS!Event, Verdicts
  <2>4. script'["main"] = Tail(q)
    BY <1>0, <2>1 DEF Emit
  <2> HIDE DEF q, n
  <2>5. Tail(q) # <<>> /\ Last(Tail(q)) = q[n + 2]
    <3>1. q # <<>>
      BY <2>2
    <3>2. Len(Tail(q)) = n + 1 /\ Tail(q)[n + 1] = q[n + 2]
      BY <2>2, <3>1, HeadTailProperties
    <3>3. Tail(q) # <<>>
      <4> SUFFICES ASSUME Tail(q) = <<>> PROVE FALSE
        OBVIOUS
      <4>1. Len(<<>>) = 0
        OBVIOUS
      <4>2. Len(Tail(q)) = 0
        BY <4>1, Zenon
      <4> QED
        BY <2>2, <3>2, <4>2
    <3> QED
      BY <3>2, <3>3 DEF Last
  <2>6. VerdictDue'
    BY <2>2, <2>3, <2>4, <2>5 DEF VerdictDue
  <2> QED
    BY <1>1, <2>6 DEF FinalStart, VerdictInv
<1>2. CASE ErrorWrite
  <2> DEFINE x == Event("error", 0)
  <2>1. /\ script' = [script EXCEPT !["main"] = Tail(<<x>>)] /\ queue' = Append(queue, Raw("main", x))
    BY <1>2 DEF ErrorWrite, Emit
  <2>2. IsVerdict(Raw("main", x))
    BY DEF IsVerdict, Raw, Verdicts, Event, AS!Event
  <2> HIDE DEF x
  <2>3. script'["main"] = <<>>
    BY <1>0, <2>1
  <2>4. Len(queue') \in 1..Len(queue') /\ queue'[Len(queue')] = Raw("main", x)
    BY <1>0, <2>1
  <2>5. VerdictDue'
    BY <2>2, <2>3, <2>4 DEF VerdictDue, VerdictQueued
  <2> QED
    BY <1>2, <2>5 DEF ErrorWrite, VerdictInv
<1>3. CASE FinalDone \/ ErrorDone
  <2>1. /\ main \in {"final", "error_write"} /\ main' = "ended" /\ ~Busy("main") /\ wire' = wire
    BY <1>3 DEF FinalDone, ErrorDone, Stop, MainWaits
  <2>2. VerdictOnWire
    BY <1>0, <2>1 DEF VerdictInv, Healthy, VerdictDue, VerdictQueued, IsVerdict, Busy
  <2> QED
    BY <2>1, <2>2 DEF VerdictInv, VerdictOnWire
<1>4. CASE \E t \in Tools : EmitResult(t) \/ ResultEmitted(t)
  <2>1. PICK t \in Tools : EmitResult(t) \/ ResultEmitted(t)
    BY <1>4
  <2>2. main' = main /\ closed' = closed /\ wire' = wire
    BY <2>1 DEF EmitResult, ResultEmitted
  <2>3. VerdictOnWire => VerdictOnWire'
    BY <2>2 DEF VerdictOnWire
  <2>4. ASSUME VerdictDue
        PROVE  VerdictDue'
    <3>1. CASE queue' = queue /\ script' = script
      BY <2>2, <2>4, <3>1 DEF VerdictDue, VerdictOnWire, VerdictQueued
    <3>2. CASE ~(queue' = queue /\ script' = script)
      <4>1. bridge \in Nat
        BY <2>1, <3>2 DEF EmitResult, ResultEmitted, BaseInv, HandlerTypes
      <4>2. Emit(t, ResultBlock(bridge))
        BY <2>1, <3>2 DEF EmitResult, ResultEmitted
      <4>3. ResultBlock(bridge) \in Seq(PlainEvents) /\ ResultBlock(bridge) # <<>>
        BY <4>1, EventTypes DEF ResultBlock
      <4>4. Raw(t, Head(ResultBlock(bridge))) \in Operations
        BY <4>3, HeadTailProperties DEF Raw, Operations, Raws, Emitters
      <4>5. script'["main"] = script["main"] /\ queue' = Append(queue, Raw(t, Head(ResultBlock(bridge))))
        BY <1>0, <4>2 DEF Emit
      <4> QED
        BY <2>2, <2>4, <4>4, <4>5, DueStays
    <3> QED
      BY <3>1, <3>2
  <2> QED
    BY <2>2, <2>3, <2>4 DEF VerdictInv, Healthy
<1>5. CASE \/ Open \/ OpenFails \/ OpenBanner \/ Opened \/ UpdateUsage \/ UsageWritten
           \/ BridgeClose \/ BridgeStart \/ UsesEmitted \/ ToolsDone \/ Fail
           \/ FinalUpdate \/ FinalClose \/ ErrorClose
           \/ \E t \in Tools : EmitUse(t) \/ ToolThrows(t)
  <2>1. closed' = closed /\ main \notin {"ended", "escaped"} /\ main' \notin {"final", "error_write", "ended"}
    BY <1>5 DEF Open, OpenFails, OpenBanner, Opened, UpdateUsage, UsageWritten, BridgeClose,
       BridgeStart, UsesEmitted, ToolsDone, Fail, FinalUpdate, FinalClose, ErrorClose, EmitUse,
       ToolThrows
  <2> QED
    BY <2>1 DEF VerdictInv
<1>6. ~ErrorLeave /\ ~ErrorEscapes
  BY <1>0 DEF ErrorLeave, ErrorEscapes
<1> QED
  BY <1>1, <1>2, <1>3, <1>4, <1>5, <1>6 DEF MainStep

LEMMA ClosedAtTheEnd ==
  ASSUME closed => main \in {"ended", "escaped"}, [Next]_vars
  PROVE  closed' => main' \in {"ended", "escaped"}
<1>1. CASE \/ QueueStep \/ ProgressStep \/ Update \/ Elapse \/ Disconnect \/ UNCHANGED vars
           \/ \E t \in Tools : EmitUse(t) \/ EmitResult(t) \/ ResultEmitted(t)
  <2>1. closed' = closed /\ main' = main
    BY <1>1 DEF QueueStep, StartRaw, StartUpdate, StartBanner, StartClose, WriteEvent, WriteFails,
       ProgressStep, FlushTimer, RunHook, Release, Update, Elapse, Disconnect, vars,
       EmitUse, EmitResult, ResultEmitted
  <2> QED
    BY <2>1
<1>2. CASE FinalDone \/ ErrorLeave \/ ErrorEscapes \/ ErrorDone
  BY <1>2 DEF FinalDone, ErrorLeave, ErrorEscapes, ErrorDone, Stop
<1>3. CASE \/ Open \/ OpenFails \/ OpenBanner \/ Opened \/ UpdateUsage \/ UsageWritten
           \/ BridgeClose \/ BridgeStart \/ UsesEmitted \/ ToolsDone \/ Fail
           \/ FinalUpdate \/ FinalClose \/ FinalStart \/ ErrorClose \/ ErrorWrite
           \/ \E t \in Tools : ToolThrows(t)
  BY <1>3 DEF Open, OpenFails, OpenBanner, Opened, UpdateUsage, UsageWritten, BridgeClose,
     BridgeStart, UsesEmitted, ToolsDone, Fail, FinalUpdate, FinalClose, FinalStart, ErrorClose,
     ErrorWrite, ToolThrows
<1> QED
  BY <1>1, <1>2, <1>3 DEF Next, MainStep

LEMMA VerdictKept ==
  ASSUME BaseInv, VerdictInv, [Next]_vars
  PROVE  VerdictInv'
<1>0. closed' => main' \in {"ended", "escaped"}
  BY ClosedAtTheEnd DEF VerdictInv
<1> SUFFICES ASSUME Healthy'
             PROVE  VerdictInv'
  BY <1>0 DEF VerdictInv
<1>1. Healthy /\ ~WriteFails /\ ~Disconnect
  BY HealthyBefore
<1>2. CASE MainStep
  BY <1>1, <1>2, VerdictSteps
<1>3. CASE WriteEvent
  <2>1. main' = main /\ wire' = Append(wire, Head(writing)) /\ Head(writing) \in Events
    BY <1>3, WriteEffects DEF WriteEvent
  <2>2. main \in {"final", "error_write"} => VerdictDue'
    BY <1>1, <1>3, WriteKeepsDue DEF VerdictInv
  <2>3. main = "ended" => VerdictOnWire'
    BY <1>1, <2>1, WireKeepsVerdict DEF VerdictInv
  <2> QED
    BY <1>0, <2>1, <2>2, <2>3 DEF VerdictInv
<1>4. CASE \/ StartRaw \/ StartUpdate \/ StartBanner \/ StartClose
           \/ ProgressStep \/ Update \/ Elapse \/ UNCHANGED vars
  <2>1. main' = main /\ wire' = wire /\ script' = script
    BY <1>4 DEF StartRaw, StartUpdate, StartBanner, StartClose, ProgressStep, FlushTimer, RunHook,
       Release, Update, Elapse, vars
  <2>2. \E o \in Operations :
          \/ queue' = queue
          \/ queue' = Append(queue, o)
          \/ queue # <<>> /\ ~IsVerdict(Head(queue)) /\ queue' = Tail(queue)
    <3>0. Op("banner") \in Operations
      BY TurnTypes DEF Operations
    <3>1. CASE StartRaw \/ StartUpdate \/ StartBanner \/ StartClose
      BY <3>0, <3>1 DEF StartRaw, StartUpdate, StartBanner, StartClose, IsVerdict
    <3>2. CASE FlushTimer \/ RunHook \/ Update \/ Elapse \/ UNCHANGED vars
      BY <3>0, <3>2 DEF FlushTimer, RunHook, Update, Elapse, vars
    <3>3. CASE Release
      <4> DEFINE o == [op |-> "update", by |-> "none", entry |-> Head(releasing)]
      <4>1. queue' = queue \/ queue' = Append(queue, o)
        BY <3>3 DEF Release
      <4>2. Head(releasing) \in Entry
        BY <3>3 DEF Release, BaseInv, ProgressTypes
      <4>3. o \in Operations
        BY <4>2, TurnTypes DEF Operations
      <4> QED
        BY <4>1, <4>3
    <3> QED
      BY <1>4, <3>1, <3>2, <3>3 DEF ProgressStep
  <2>3. VerdictDue => VerdictDue'
    BY <2>1, <2>2, DueStays
  <2>4. VerdictOnWire => VerdictOnWire'
    BY <2>1 DEF VerdictOnWire
  <2> QED
    BY <1>0, <1>1, <2>1, <2>3, <2>4 DEF VerdictInv
<1> QED
  BY <1>1, <1>2, <1>3, <1>4 DEF Next, QueueStep

(* A handler that ended left the message_stop or the error event on the    *)
(* wire of a client that reads, for every number of calls, and as the last *)
(* event unless results crossed (proxy-server.js, the end and the catch    *)
(* block of the managed request).                                          *)
THEOREM VerdictIsSent == Spec => []EndsWithVerdict
<1>1. BaseInv /\ MessageInv /\ VerdictInv => EndsWithVerdict
  <2> SUFFICES ASSUME BaseInv, MessageInv, VerdictInv, main = "ended", ~gone, ~poisoned
               PROVE  /\ VerdictOnWire
                      /\ ~crossed => Last(wire).k \in {"message_stop", "error"}
    BY DEF EndsWithVerdict, VerdictOnWire, Verdicts
  <2>1. VerdictOnWire
    BY DEF VerdictInv, Healthy
  <2>2. ASSUME ~crossed
        PROVE  Last(wire).k \in {"message_stop", "error"}
    <3>1. Sound /\ WireKnown(wire)
      BY <2>2 DEF MessageInv, Healthy
    <3>2. Tip.k \in {"message_stop", "error"}
      <4>1. queue = <<>>
        BY <3>1 DEF Sound, Shape
      <4> QED
        BY <3>1, <4>1, EmptyPosition DEF Sound, Standing
    <3>3. Tip = wire[Len(wire)]
      BY <3>1, <3>2 DEF WireKnown, Between, Inside, Tip
    <3> QED
      BY <3>2, <3>3 DEF Last
  <2> QED
    BY <2>1, <2>2
<1>2. BaseInv /\ MessageInv /\ [Next]_vars => MessageInv'
  BY MessageKept
<1>3. Init => VerdictInv
  BY DEF Init, VerdictInv
<1>4. BaseInv /\ VerdictInv /\ [Next]_vars => VerdictInv'
  BY VerdictKept
<1> QED
  BY <1>1, <1>2, <1>3, <1>4, BaseHolds, MessageStarts, PTL DEF Spec
-----------------------------------------------------------------------------
(* A sequence with one element more. *)
LEMMA OneMore ==
  ASSUME NEW T, NEW q \in Seq(T), NEW e \in T
  PROVE  /\ Append(q, e) \in Seq(T)
         /\ Len(q) \in Nat /\ DOMAIN q = 1..Len(q)
         /\ Len(Append(q, e)) = Len(q) + 1 /\ DOMAIN Append(q, e) = 1..(Len(q) + 1)
         /\ \A j \in 1..Len(q) : Append(q, e)[j] = q[j] /\ q[j] \in T
         /\ Append(q, e)[Len(q) + 1] = e
OBVIOUS

LEMMA Elements ==
  ASSUME NEW T, NEW q \in Seq(T)
  PROVE  \A j \in DOMAIN q : q[j] \in T
OBVIOUS

-----------------------------------------------------------------------------
(* The relay.  A delta that is written carries the number of its frame, so *)
(* what the client was shown grows with the frames that carry one.         *)
Writings == [kind : {"delta", "finish", "usage", "done", "error"}, n : Nat]
Markers == [kind : {"finish", "usage"}, n : Nat]

LiveAt(o, s) == {j \in DOMAIN o : o[j].kind = "delta" /\ R!HasDelta(s[o[j].n])}
Live(o, s) == Subsequence(o, LiveAt(o, s))
Shown(o, s) == [i \in 1..Len(Live(o, s)) |-> Live(o, s)[i].n]

ArrivedAt(s) == {i \in 1..Len(s) : R!HasDelta(s[i])}
Numbering(n) == [i \in 1..n |-> i]
Arrived(s) == Subsequence(Numbering(Len(s)), ArrivedAt(s))

LEMMA SameSubsequence ==
  ASSUME NEW s, NEW I
  PROVE  R!Subsequence(s, I) = Subsequence(s, I)
<1>1. \A J : R!Cardinality(J) = Cardinality(J)
  BY DEF R!Cardinality, Cardinality, R!IsFiniteSet, IsFiniteSet
<1>2. \A i : R!RankIn(I, i) = RankIn(I, i)
  BY <1>1 DEF R!RankIn, RankIn
<1> DEFINE P(m) == CHOOSE i \in I : R!RankIn(I, i) = m
           Q(m) == CHOOSE i \in I : RankIn(I, i) = m
<1>3. \A m : P(m) = Q(m)
  BY <1>2
<1>4. /\ R!Subsequence(s, I) = [n \in 1..R!Cardinality(I) |-> s[P(n)]]
      /\ Subsequence(s, I) = [n \in 1..Cardinality(I) |-> s[Q(n)]]
  BY DEF R!Subsequence, Subsequence
<1> HIDE DEF P, Q
<1> QED
  BY <1>1, <1>3, <1>4

(* RelayComplete in these terms. *)
PrefixOf(q, r) == Len(q) <= Len(r) /\ q = SubSeq(r, 1, Len(q))

AllRelayed ==
    /\ PrefixOf(Shown(out, sent), Arrived(sent))
    /\ stream # "failed" => Shown(out, sent) = Arrived(sent)
    /\ stream = "done" =>
         /\ \A i \in R!Numbers("delta"), j \in R!Numbers("finish") : i < j
         /\ \A c \in R!Indexes : \E j \in R!Numbers("finish") : c \in R!Finished(sent[out[j].n])

LEMMA RelayCompleteIs == R!RelayComplete <=> AllRelayed
<1>1. R!Select([i \in 1..Len(sent) |-> i], LAMBDA i : R!HasDelta(sent[i])) = Arrived(sent)
  <2>1. {i \in DOMAIN Numbering(Len(sent)) : R!HasDelta(sent[Numbering(Len(sent))[i]])}
          = ArrivedAt(sent)
    BY DEF Numbering, ArrivedAt
  <2> QED
    BY <2>1, SameSubsequence DEF R!Select, Arrived, Numbering
<1>2. R!Select(out, LAMBDA w : w.kind = "delta" /\ R!HasDelta(sent[w.n])) = Live(out, sent)
  BY SameSubsequence DEF R!Select, Live, LiveAt
<1> QED
  BY <1>1, <1>2, Zenon DEF R!RelayComplete, AllRelayed, Shown, PrefixOf

LEMMA LiveTyped ==
  ASSUME NEW o \in Seq(Writings), NEW s
  PROVE  /\ Live(o, s) \in Seq(Writings) /\ Len(Live(o, s)) \in Nat
         /\ LiveAt(o, s) \in SUBSET DOMAIN o
<1>1. LiveAt(o, s) \in SUBSET DOMAIN o
  BY DEF LiveAt
<1> QED
  BY <1>1, SubsequenceType DEF Live

(* One thing more is written. *)
LEMMA RelayGrows ==
  ASSUME NEW o \in Seq(Writings), NEW w \in Writings, NEW s
  PROVE  Shown(Append(o, w), s) =
           IF w.kind = "delta" /\ R!HasDelta(s[w.n]) THEN Append(Shown(o, s), w.n)
           ELSE Shown(o, s)
<1> DEFINE I == LiveAt(o, s)
           J == LiveAt(Append(o, w), s)
           n == Len(o)
<1>1. /\ n \in Nat /\ DOMAIN o = 1..n /\ DOMAIN Append(o, w) = 1..(n + 1)
      /\ \A j \in 1..n : Append(o, w)[j] = o[j]
      /\ Append(o, w)[n + 1] = w
  OBVIOUS
<1>2. I \in SUBSET DOMAIN o /\ Live(o, s) \in Seq(Writings) /\ Len(Live(o, s)) \in Nat
  BY LiveTyped
<1>3. CASE w.kind = "delta" /\ R!HasDelta(s[w.n])
  <2>1. J = I \cup {n + 1}
    BY <1>1, <1>3 DEF LiveAt
  <2>2. Live(Append(o, w), s) = Append(Live(o, s), w)
    BY <1>2, <2>1, SubsequenceGrows DEF Live
  <2> HIDE DEF I, J, n
  <2>3. Shown(Append(o, w), s) = [i \in 1..Len(Append(Live(o, s), w)) |-> Append(Live(o, s), w)[i].n]
    BY <2>2 DEF Shown
  <2>4. Append(Shown(o, s), w.n) = [i \in 1..Len(Live(o, s)) + 1 |->
              IF i = Len(Live(o, s)) + 1 THEN w.n ELSE Live(o, s)[i].n]
    <3>1. Shown(o, s) \in Seq(Nat) /\ Len(Shown(o, s)) = Len(Live(o, s))
      <4>1. \A i \in 1..Len(Live(o, s)) : Live(o, s)[i] \in Writings
        BY <1>2, ElementOfSeq
      <4>2. \A i \in 1..Len(Live(o, s)) : Live(o, s)[i].n \in Nat
        BY <4>1 DEF Writings
      <4> QED
        BY <1>2, <4>2 DEF Shown
    <3> QED
      BY <1>2, <3>1 DEF Shown
  <2>5. /\ Len(Append(Live(o, s), w)) = Len(Live(o, s)) + 1
        /\ \A i \in 1..Len(Live(o, s)) : Append(Live(o, s), w)[i] = Live(o, s)[i]
        /\ Append(Live(o, s), w)[Len(Live(o, s)) + 1] = w
    BY <1>2
  <2> QED
    BY <1>2, <1>3, <2>3, <2>4, <2>5
<1>4. CASE ~(w.kind = "delta" /\ R!HasDelta(s[w.n]))
  <2>1. J = I
    BY <1>1, <1>4 DEF LiveAt
  <2> HIDE DEF I, J
  <2>2. Subsequence(Append(o, w), I) = Subsequence(o, I)
    BY <1>2, SubsequenceGrows
  <2>3. Live(Append(o, w), s) = Live(o, s)
    BY <2>1, <2>2 DEF Live, I, J
  <2> QED
    BY <1>4, <2>3 DEF Shown
<1> QED
  BY <1>3, <1>4

(* One frame more has come. *)
DeltasKnown(o, s) == \A j \in DOMAIN o : o[j].kind = "delta" => o[j].n \in DOMAIN s

LEMMA ArrivedGrows ==
  ASSUME NEW s \in Seq(R!Chunks), NEW f \in R!Chunks,
         NEW o \in Seq(Writings), DeltasKnown(o, s)
  PROVE  /\ Arrived(Append(s, f)) =
              IF R!HasDelta(f) THEN Append(Arrived(s), Len(s) + 1) ELSE Arrived(s)
         /\ Shown(o, Append(s, f)) = Shown(o, s)
         /\ Arrived(s) \in Seq(Nat)
<1> DEFINE n == Len(s)
           t == Append(s, f)
<1>1. /\ n \in Nat /\ DOMAIN s = 1..n /\ DOMAIN t = 1..(n + 1) /\ Len(t) = n + 1
      /\ \A j \in 1..n : t[j] = s[j]
      /\ t[n + 1] = f
  OBVIOUS
<1>2. /\ Numbering(n) \in Seq(Nat) /\ Len(Numbering(n)) = n
      /\ DOMAIN Numbering(n) = 1..n
      /\ Numbering(n + 1) = Append(Numbering(n), n + 1)
  BY <1>1 DEF Numbering
<1>3. ArrivedAt(s) \in SUBSET DOMAIN Numbering(n)
  BY <1>2 DEF ArrivedAt
<1>4. Shown(o, t) = Shown(o, s)
  <2>1. LiveAt(o, t) = LiveAt(o, s)
    BY <1>1 DEF LiveAt, DeltasKnown
  <2> QED
    BY <2>1 DEF Shown, Live
<1>5. Arrived(s) \in Seq(Nat)
  BY <1>2, <1>3, SubsequenceType DEF Arrived
<1>6. /\ Arrived(s) = Subsequence(Numbering(n), ArrivedAt(s))
      /\ Arrived(t) = Subsequence(Append(Numbering(n), n + 1), ArrivedAt(t))
  BY <1>1, <1>2 DEF Arrived
<1>7. /\ R!HasDelta(f) => ArrivedAt(t) = ArrivedAt(s) \cup {n + 1}
      /\ ~R!HasDelta(f) => ArrivedAt(t) = ArrivedAt(s)
  BY <1>1 DEF ArrivedAt
<1>8. /\ Subsequence(Append(Numbering(n), n + 1), ArrivedAt(s)) = Arrived(s)
      /\ Subsequence(Append(Numbering(n), n + 1), ArrivedAt(s) \cup {n + 1})
           = Append(Arrived(s), n + 1)
  <2> DEFINE q == Numbering(n)
             m == n + 1
             T == Nat
             A == ArrivedAt(s)
  <2>1. q \in Seq(T) /\ m \in T /\ A \in SUBSET DOMAIN q
    BY <1>1, <1>2, <1>3
  <2>3. Len(q) + 1 = m
    BY <1>2
  <2> HIDE DEF q, m, T, A, n, t
  <2>2. Subsequence(Append(q, m), A) = Subsequence(q, A)
    BY <2>1, SubsequenceGrows, ZenonT(30)
  <2>4. Subsequence(Append(q, m), A \cup {Len(q) + 1}) = Append(Subsequence(q, A), m)
    <3>1. \A x \in Seq(T) : \A y \in T : \A J \in SUBSET DOMAIN x :
              Subsequence(Append(x, y), J \cup {Len(x) + 1}) = Append(Subsequence(x, J), y)
      BY SubsequenceGrows, ZenonT(30)
    <3> QED
      BY <2>1, <3>1
  <2> QED
    BY <1>6, <2>2, <2>3, <2>4 DEF q, m, A
<1> HIDE DEF n, t
<1> QED
  BY <1>4, <1>5, <1>6, <1>7, <1>8 DEF n, t

(* The markers and [DONE] show nothing more. *)
LEMMA ShownRest ==
  ASSUME NEW o \in Seq(Writings), NEW d \in Seq(Writings), NEW s,
         \A j \in DOMAIN d : d[j].kind # "delta"
  PROVE  Shown(o \o d, s) = Shown(o, s)
<1> DEFINE t == o \o d
           I == LiveAt(o, s)
<1>1. /\ Len(o) \in Nat /\ DOMAIN o = 1..Len(o) /\ Len(d) \in Nat /\ DOMAIN d = 1..Len(d)
      /\ DOMAIN t = 1..(Len(o) + Len(d))
      /\ \A j \in 1..Len(o) : t[j] = o[j]
      /\ \A j \in (Len(o) + 1)..(Len(o) + Len(d)) : t[j] = d[j - Len(o)] /\ j - Len(o) \in DOMAIN d
  OBVIOUS
<1> HIDE DEF t
<1>2. LiveAt(t, s) = I
  BY <1>1 DEF LiveAt
<1>3. I \in SUBSET (1..Len(o))
  BY <1>1 DEF LiveAt
<1> HIDE DEF I
<1>4. \A m \in 1..Cardinality(I) : (CHOOSE i \in I : RankIn(I, i) = m) \in I
  BY <1>1, <1>3, RankIsOnto
<1>5. Subsequence(t, I) = Subsequence(o, I)
  <2> DEFINE Place(m) == CHOOSE i \in I : RankIn(I, i) = m
  <2>1. \A m \in 1..Cardinality(I) : t[Place(m)] = o[Place(m)]
    <3> HIDE DEF Place
    <3> SUFFICES ASSUME NEW m \in 1..Cardinality(I) PROVE t[Place(m)] = o[Place(m)]
      OBVIOUS
    <3>1. Place(m) \in I
      BY <1>4 DEF Place
    <3> QED
      BY <1>1, <1>3, <3>1
  <2>2. /\ Subsequence(t, I) = [m \in 1..Cardinality(I) |-> t[Place(m)]]
        /\ Subsequence(o, I) = [m \in 1..Cardinality(I) |-> o[Place(m)]]
    BY DEF Subsequence
  <2> HIDE DEF Place
  <2> QED
    BY <2>1, <2>2
<1>6. Live(t, s) = Live(o, s)
  BY <1>2, <1>5 DEF Live, I
<1> QED
  BY <1>6 DEF Shown, t

(* Markers are written at the end only; one of every finished choice is    *)
(* held back.                                                              *)
MarkersKnown(q, s) == \A j \in DOMAIN q : q[j].n \in DOMAIN s
MarkedIn(q, s, c) == \E j \in DOMAIN q : q[j].kind = "finish" /\ c \in R!Finished(s[q[j].n])

RelayTypes ==
    /\ sent \in Seq(R!Chunks) /\ Len(sent) <= MaxFrames
    /\ out \in Seq(Writings) /\ DeltasKnown(out, sent)
    /\ deferred \in Seq(Markers) /\ MarkersKnown(deferred, sent)
    /\ finishes \subseteq R!Indexes
    /\ choice \in [R!Indexes \X UpstreamCalls -> R!ToolStates]
    /\ stream \in {"open", "done", "failed"}

NoMarker(q) == \A j \in DOMAIN q : q[j].kind \notin {"finish", "done"}

RelayOpen ==
    /\ NoMarker(out) /\ Shown(out, sent) = Arrived(sent)
    /\ \A c \in finishes : MarkedIn(deferred, sent, c)

RelayInv ==
    /\ RelayTypes
    /\ stream = "open" => RelayOpen
    /\ R!CommittedOnlyConfirmed /\ AllRelayed

LEMMA ArrivedTyped ==
  ASSUME NEW s \in Seq(R!Chunks)
  PROVE  Arrived(s) \in Seq(Nat) /\ Len(Arrived(s)) \in Nat
<1> DEFINE n == Len(s)
<1>1. n \in Nat /\ DOMAIN s = 1..n
  OBVIOUS
<1>2. /\ Numbering(n) \in Seq(Nat) /\ DOMAIN Numbering(n) = 1..n
  BY <1>1 DEF Numbering
<1>3. ArrivedAt(s) \in SUBSET DOMAIN Numbering(n)
  BY <1>2 DEF ArrivedAt
<1>4. Arrived(s) \in Seq(Nat)
  BY <1>2, <1>3, SubsequenceType DEF Arrived
<1> QED
  BY <1>4

LEMMA SelfPrefix ==
  ASSUME NEW q \in Seq(Nat)
  PROVE  PrefixOf(q, q) /\ \A m \in Nat : PrefixOf(q, Append(q, m))
<1> SUFFICES ASSUME NEW m \in Nat
             PROVE  PrefixOf(q, q) /\ PrefixOf(q, Append(q, m))
  OBVIOUS
<1>1. Len(q) \in Nat /\ Len(Append(q, m)) = Len(q) + 1
      /\ \A i \in 1..Len(q) : Append(q, m)[i] = q[i]
  OBVIOUS
<1>2. /\ SubSeq(q, 1, Len(q)) = [i \in 1..Len(q) |-> q[i]]
      /\ SubSeq(Append(q, m), 1, Len(q)) = [i \in 1..Len(q) |-> Append(q, m)[i]]
  BY <1>1
<1> QED
  BY <1>1, <1>2 DEF PrefixOf

(* What follows of a stream that is open, or has just failed.              *)
LEMMA NoMarkerNoClaim ==
  ASSUME NoMarker(out), stream # "done", out \in Seq(Writings)
  PROVE  /\ R!CommittedOnlyConfirmed
         /\ PrefixOf(Shown(out, sent), Arrived(sent))
            /\ (stream # "failed" => Shown(out, sent) = Arrived(sent)) => AllRelayed
<1>1. DOMAIN out = 1..Len(out)
  OBVIOUS
<1> QED
  BY <1>1 DEF NoMarker, R!CommittedOnlyConfirmed, R!Numbers, AllRelayed

LEMMA FailureIsComplete ==
  ASSUME RelayTypes, RelayOpen, stream = "open",
         R!Fail, sent' = sent \/ \E f \in R!Chunks : sent' = Append(sent, f),
         Len(sent') <= MaxFrames
  PROVE  RelayInv'
<1>1. /\ stream' = "failed" /\ finishes' = finishes /\ choice' = choice /\ deferred' = deferred
      /\ out' = out \/ out' = Append(out, [kind |-> "error", n |-> 0])
  BY DEF R!Fail, R!Written
<1> DEFINE error == [kind |-> "error", n |-> 0]
<1>0. error \in Writings /\ error.kind = "error"
  BY DEF Writings
<1> HIDE DEF error
<1>2. /\ out' \in Seq(Writings)
      /\ \A j \in DOMAIN out' : out'[j].kind # "error" => j \in DOMAIN out /\ out'[j] = out[j]
  <2>1. out \in Seq(Writings)
    BY DEF RelayTypes
  <2> QED
    BY <1>0, <1>1, <2>1, OneMore DEF error
<1>3. sent' \in Seq(R!Chunks) /\ \A j \in DOMAIN sent : j \in DOMAIN sent' /\ sent'[j] = sent[j]
  <2>1. sent \in Seq(R!Chunks)
    BY DEF RelayTypes
  <2> QED
    BY <2>1, OneMore
<1>4. RelayTypes'
  BY <1>1, <1>2, <1>3 DEF RelayTypes, DeltasKnown, MarkersKnown
<1>5. NoMarker(out')
  BY <1>2 DEF NoMarker, RelayOpen
<1>6. Shown(out', sent') = Shown(out, sent')
  <2>1. Shown(Append(out, error), sent') = Shown(out, sent')
    BY <1>0, RelayGrows DEF RelayTypes
  <2> QED
    BY <1>1, <2>1 DEF error
<1>7. Shown(out, sent') = Shown(out, sent)
  BY ArrivedGrows DEF RelayTypes
<1>8. Arrived(sent) \in Seq(Nat)
  BY ArrivedTyped DEF RelayTypes
<1>9. Arrived(sent') = Arrived(sent) \/ Arrived(sent') = Append(Arrived(sent), Len(sent) + 1)
  BY ArrivedGrows DEF RelayTypes
<1>10. Len(sent) + 1 \in Nat
  BY DEF RelayTypes
<1>11. PrefixOf(Shown(out', sent'), Arrived(sent'))
  BY <1>6, <1>7, <1>8, <1>9, <1>10, SelfPrefix DEF RelayOpen
<1>12. R!CommittedOnlyConfirmed' /\ AllRelayed'
  BY <1>1, <1>2, <1>5, <1>11 DEF NoMarker, R!CommittedOnlyConfirmed, R!Numbers, AllRelayed
<1> QED
  BY <1>1, <1>4, <1>12 DEF RelayInv

LEMMA PieceJoined ==
  ASSUME NEW t \in R!ToolStates, NEW p \in R!Pieces \cup {R!NoPiece}
  PROVE  R!Joined(t, p) \in R!ToolStates
<1>1. CASE p = R!NoPiece
  BY <1>1 DEF R!Joined
<1>2. CASE p # R!NoPiece
  <2>1. p \in R!Pieces
    BY <1>2
  <2> QED
    BY <1>2, <2>1 DEF R!Joined, R!Pieces, R!ToolStates, R!Types, R!Arguments
<1> QED
  BY <1>1, <1>2

LEMMA FrameRelayed ==
  ASSUME RelayInv, NEW f \in R!Chunks, R!Frame(f)
  PROVE  RelayInv'
<1>1. /\ stream = "open" /\ Len(sent) < MaxFrames /\ sent' = Append(sent, f)
      /\ RelayTypes /\ RelayOpen /\ MaxFrames \in Nat
  BY TranslatorsAssumption DEF R!Frame, RelayInv
<1> DEFINE n == Len(sent) + 1
<1>2. /\ n \in Nat /\ Len(sent') = n /\ sent' \in Seq(R!Chunks) /\ n \in DOMAIN sent'
      /\ sent'[n] = f /\ n <= MaxFrames
      /\ \A j \in DOMAIN sent : j \in DOMAIN sent' /\ sent'[j] = sent[j]
  BY <1>1 DEF RelayTypes
<1>3. CASE DOMAIN f \cap finishes # {}
  BY <1>1, <1>2, <1>3, FailureIsComplete DEF R!Frame
<1>4. CASE DOMAIN f \cap finishes = {}
  <2>1. /\ R!Relay(f, n) /\ stream' = stream
        /\ finishes' = finishes \cup R!Finished(f)
        /\ choice' = [key \in R!Indexes \X UpstreamCalls |->
                        R!Joined(choice[key], R!Piece(f, key))]
    BY <1>4 DEF R!Frame
  <2>2. /\ DOMAIN f \subseteq R!Indexes /\ R!Finished(f) \subseteq R!Indexes
        /\ \A c \in DOMAIN f : f[c].delta.piece \in R!Pieces \cup {R!NoPiece}
        /\ DOMAIN f = {} => ~R!HasDelta(f)
    <3>1. PICK D \in SUBSET R!Indexes : f \in [D -> R!Parts]
      BY DEF R!Chunks
    <3>2. \A c \in D : f[c].delta \in Deltas
      BY <3>1 DEF R!Parts
    <3> QED
      BY <3>1, <3>2, DeltasAssumption DEF R!Finished, R!HasDelta, R!PossibleDeltas
  <2>3. choice' \in [R!Indexes \X UpstreamCalls -> R!ToolStates]
    <3> SUFFICES ASSUME NEW key \in R!Indexes \X UpstreamCalls
                 PROVE  R!Joined(choice[key], R!Piece(f, key)) \in R!ToolStates
      BY <2>1
    <3>1. choice[key] \in R!ToolStates
      BY <1>1 DEF RelayTypes
    <3>2. R!Piece(f, key) \in R!Pieces \cup {R!NoPiece}
      BY <2>2 DEF R!Piece
    <3> QED
      BY <3>1, <3>2, PieceJoined
  <2> DEFINE d == [kind |-> "delta", n |-> n]
             mark == [kind |-> IF R!Finished(f) # {} THEN "finish" ELSE "usage", n |-> n]
  <2>4. /\ d \in Writings /\ d.kind = "delta" /\ d.n = n
        /\ mark \in Markers /\ mark.n = n /\ (R!Finished(f) # {} => mark.kind = "finish")
    BY <1>2 DEF Writings, Markers
  <2>5. /\ (out' = out /\ ~R!HasDelta(f)) \/ out' = Append(out, d)
        /\ (deferred' = deferred /\ R!Finished(f) = {}) \/ deferred' = Append(deferred, mark)
    BY <2>1, <2>2 DEF R!Relay, R!Written
  <2> HIDE DEF d, mark, n
  <2>6. /\ out' \in Seq(Writings) /\ DeltasKnown(out', sent') /\ NoMarker(out')
    <3>1. out \in Seq(Writings) /\ DeltasKnown(out, sent) /\ NoMarker(out)
      BY <1>1 DEF RelayTypes, RelayOpen
    <3>2. \A j \in DOMAIN out' : (j \in DOMAIN out /\ out'[j] = out[j]) \/ out'[j] = d
      BY <2>4, <2>5, <3>1, OneMore
    <3>3. out' \in Seq(Writings)
      BY <2>4, <2>5, <3>1, OneMore
    <3> QED
      BY <1>2, <2>4, <3>1, <3>2, <3>3 DEF DeltasKnown, NoMarker
  <2>7. deferred' \in Seq(Markers) /\ MarkersKnown(deferred', sent')
    <3>1. deferred \in Seq(Markers) /\ MarkersKnown(deferred, sent)
      BY <1>1 DEF RelayTypes
    <3>2. \A j \in DOMAIN deferred' :
             (j \in DOMAIN deferred /\ deferred'[j] = deferred[j]) \/ deferred'[j] = mark
      BY <2>4, <2>5, <3>1, OneMore
    <3>3. deferred' \in Seq(Markers)
      BY <2>4, <2>5, <3>1, OneMore
    <3> QED
      BY <1>2, <2>4, <3>1, <3>2, <3>3 DEF MarkersKnown
  <2>8. \A c \in finishes' : MarkedIn(deferred', sent', c)
    <3> SUFFICES ASSUME NEW c \in finishes' PROVE MarkedIn(deferred', sent', c)
      OBVIOUS
    <3>1. deferred \in Seq(Markers) /\ MarkersKnown(deferred, sent)
      BY <1>1 DEF RelayTypes
    <3>2. CASE c \in finishes
      <4>1. PICK j \in DOMAIN deferred : deferred[j].kind = "finish" /\ c \in R!Finished(sent[deferred[j].n])
        BY <1>1, <3>2 DEF RelayOpen, MarkedIn
      <4>2. j \in DOMAIN deferred' /\ deferred'[j] = deferred[j]
        BY <2>4, <2>5, <3>1, OneMore
      <4>3. sent'[deferred[j].n] = sent[deferred[j].n]
        BY <1>2, <3>1 DEF MarkersKnown
      <4> QED
        BY <4>1, <4>2, <4>3 DEF MarkedIn
    <3>3. CASE c \notin finishes
      <4>1. c \in R!Finished(f)
        BY <2>1, <3>3
      <4>2. deferred' = Append(deferred, mark)
        BY <2>5, <4>1
      <4>3. Len(deferred) + 1 \in DOMAIN deferred' /\ deferred'[Len(deferred) + 1] = mark
        BY <2>4, <3>1, <4>2, OneMore
      <4> QED
        BY <1>2, <2>4, <4>1, <4>3 DEF MarkedIn
    <3> QED
      BY <3>2, <3>3
  <2>9. Shown(out', sent') = Arrived(sent')
    <3>1. Shown(out, sent') = Shown(out, sent)
      BY <1>1, ArrivedGrows DEF RelayTypes
    <3>2. Arrived(sent') = IF R!HasDelta(f) THEN Append(Arrived(sent), n) ELSE Arrived(sent)
      BY <1>1, ArrivedGrows DEF RelayTypes, n
    <3>3. Shown(Append(out, d), sent')
            = IF R!HasDelta(f) THEN Append(Shown(out, sent'), n) ELSE Shown(out, sent')
      BY <1>1, <1>2, <2>4, RelayGrows DEF RelayTypes
    <3> QED
      BY <1>1, <2>5, <3>1, <3>2, <3>3 DEF RelayOpen
  <2>10. Arrived(sent') \in Seq(Nat)
    BY <1>2, ArrivedTyped
  <2>11. PrefixOf(Shown(out', sent'), Arrived(sent'))
    BY <2>9, <2>10, SelfPrefix
  <2>12. R!CommittedOnlyConfirmed' /\ AllRelayed'
    BY <1>1, <2>1, <2>6, <2>9, <2>11 DEF NoMarker, R!CommittedOnlyConfirmed, R!Numbers, AllRelayed
  <2>13. RelayTypes'
    BY <1>1, <1>2, <2>1, <2>2, <2>3, <2>6, <2>7 DEF RelayTypes
  <2> QED
    BY <2>6, <2>8, <2>9, <2>12, <2>13 DEF RelayInv, RelayOpen
<1> QED
  BY <1>3, <1>4

LEMMA DoneIsComplete ==
  ASSUME RelayInv, R!Done
  PROVE  RelayInv'
<1>1. stream = "open" /\ sent' = sent /\ RelayTypes /\ RelayOpen
  BY DEF R!Done, RelayInv
<1>2. CASE ~R!Confirmed
  BY <1>1, <1>2, FailureIsComplete DEF R!Done, RelayTypes
<1>3. CASE R!Confirmed
  <2> DEFINE done == [kind |-> "done", n |-> 0]
             rest == Append(deferred, done)
             o == Len(out)
             m == Len(deferred)
  <2>0. /\ done \in Writings /\ done.kind = "done" /\ deferred \in Seq(Writings)
        /\ \A j \in DOMAIN deferred : deferred[j].kind # "delta"
    <3>1. Markers \subseteq Writings /\ \A x \in Markers : x.kind # "delta"
      BY DEF Markers, Writings
    <3>2. deferred \in Seq(Markers)
      BY <1>1 DEF RelayTypes
    <3>3. DOMAIN deferred = 1..Len(deferred) /\ \A j \in DOMAIN deferred : deferred[j] \in Markers
      BY <3>2
    <3>4. deferred \in Seq(Writings)
      BY <3>1, <3>2
    <3> QED
      BY <3>1, <3>3, <3>4 DEF Writings
  <2>1. /\ stream' = "done" /\ out' = out \o rest
        /\ finishes' = finishes /\ choice' = choice /\ deferred' = deferred
    <3>1. out' = out \o deferred \o <<done>>
      BY <1>3 DEF R!Done, R!Written
    <3>2. out \in Seq(Writings) /\ deferred \in Seq(Writings) /\ <<done>> \in Seq(Writings)
      BY <1>1, <2>0 DEF RelayTypes
    <3>3. out \o deferred \o <<done>> = out \o rest
      BY <3>2
    <3> QED
      BY <1>3, <3>1, <3>3 DEF R!Done
  <2>2. /\ o \in Nat /\ m \in Nat /\ rest \in Seq(Writings) /\ Len(rest) = m + 1
        /\ \A j \in DOMAIN rest : rest[j].kind # "delta"
        /\ \A j \in 1..m : rest[j] = deferred[j]
    <3> HIDE DEF done
    <3>1. out \in Seq(Writings)
      BY <1>1 DEF RelayTypes
    <3> QED
      BY <2>0, <3>1, OneMore
  <2> HIDE DEF rest
  <2>3. /\ out' \in Seq(Writings) /\ Len(out') = o + m + 1
        /\ \A j \in 1..o : out'[j] = out[j]
        /\ \A j \in o + 1..o + m + 1 : out'[j] = rest[j - o] /\ j - o \in DOMAIN rest
        /\ \A j \in 1..m : out'[o + j] = deferred[j]
    <3>1. out \in Seq(Writings)
      BY <1>1 DEF RelayTypes
    <3>2. DOMAIN rest = 1..(m + 1)
      BY <2>2
    <3>3. Len(out \o rest) = o + (m + 1) /\ out \o rest \in Seq(Writings)
      BY <2>2, <3>1
    <3>4. \A j \in 1..o + (m + 1) : (out \o rest)[j] = IF j <= o THEN out[j] ELSE rest[j - o]
      BY <2>2, <3>1
    <3>5. \A j \in 1..m : o + j \in 1..o + (m + 1) /\ ~(o + j <= o) /\ (o + j) - o = j
      BY <2>2
    <3> HIDE DEF o, m
    <3>6. /\ \A j \in 1..o : j \in 1..o + (m + 1) /\ j <= o
          /\ \A j \in o + 1..o + m + 1 : j \in 1..o + (m + 1) /\ ~(j <= o) /\ j - o \in 1..(m + 1)
          /\ o + (m + 1) = o + m + 1
      BY <2>2
    <3>7. out' \in Seq(Writings) /\ Len(out') = o + m + 1
      BY <2>1, <3>3, <3>6
    <3>8. \A j \in 1..o : out'[j] = out[j]
      BY <2>1, <3>4, <3>6
    <3>9. \A j \in o + 1..o + m + 1 : out'[j] = rest[j - o] /\ j - o \in DOMAIN rest
      BY <2>1, <3>2, <3>4, <3>6
    <3>10. \A j \in 1..m : out'[o + j] = deferred[j]
      BY <2>1, <2>2, <3>4, <3>5
    <3> QED
      BY <3>7, <3>8, <3>9, <3>10
  <2>4. Shown(out', sent') = Arrived(sent')
    BY <1>1, <2>1, <2>2, ShownRest DEF RelayTypes, RelayOpen
  <2>5. RelayTypes'
    BY <1>1, <2>1, <2>2, <2>3 DEF RelayTypes, DeltasKnown, MarkersKnown
  <2>6. /\ finishes' = R!Indexes
        /\ \A key \in R!Indexes \X UpstreamCalls :
             choice'[key].called /\ choice'[key].type # "custom" =>
               choice'[key].named /\ choice'[key].args = "whole"
    BY <1>3, <2>1 DEF R!Confirmed
  <2>7. \A i \in R!Numbers("delta")', j \in R!Numbers("finish")' : i < j
    <3>1. \A j \in 1..o : out'[j].kind # "finish"
      <4>1. NoMarker(out) /\ DOMAIN out = 1..o
        BY <1>1 DEF RelayOpen, RelayTypes
      <4> QED
        BY <2>3, <4>1 DEF NoMarker
    <3>2. \A j \in o + 1..o + m + 1 : out'[j].kind # "delta"
      BY <2>2, <2>3
    <3> HIDE DEF o, m
    <3> QED
      BY <2>2, <2>3, <3>1, <3>2 DEF R!Numbers
  <2>8. \A c \in R!Indexes : \E j \in R!Numbers("finish")' : c \in R!Finished(sent'[out'[j].n])
    <3> SUFFICES ASSUME NEW c \in R!Indexes
                 PROVE  \E j \in R!Numbers("finish")' : c \in R!Finished(sent'[out'[j].n])
      OBVIOUS
    <3>1. PICK j \in DOMAIN deferred : deferred[j].kind = "finish" /\ c \in R!Finished(sent[deferred[j].n])
      BY <1>1, <2>1, <2>6 DEF RelayOpen, MarkedIn
    <3>2. j \in 1..m /\ o + j \in 1..Len(out') /\ out'[o + j] = deferred[j]
      <4>1. j \in 1..m
        BY <1>1 DEF RelayTypes
      <4>2. o + j \in 1..o + m + 1
        BY <2>2, <4>1
      <4> QED
        BY <2>3, <4>1, <4>2
    <3> QED
      BY <1>1, <3>1, <3>2 DEF R!Numbers
  <2>9. Arrived(sent') \in Seq(Nat)
    BY <1>1, ArrivedTyped DEF RelayTypes
  <2>10. PrefixOf(Shown(out', sent'), Arrived(sent'))
    BY <2>4, <2>9, SelfPrefix
  <2>11. AllRelayed'
    BY <2>4, <2>7, <2>8, <2>10 DEF AllRelayed
  <2>12. R!CommittedOnlyConfirmed'
    BY <2>1, <2>6 DEF R!CommittedOnlyConfirmed
  <2> QED
    BY <2>1, <2>5, <2>11, <2>12 DEF RelayInv
<1> QED
  BY <1>2, <1>3

LEMMA RelayStarts == R!Init => RelayInv
<1> SUFFICES ASSUME R!Init PROVE RelayInv
  OBVIOUS
<1>1. RelayTypes
  BY TranslatorsAssumption
  DEF R!Init, RelayTypes, R!NoTool, R!ToolStates, R!Types, R!Arguments, DeltasKnown, MarkersKnown
<1>2. LiveAt(out, sent) = {} /\ ArrivedAt(sent) = {} /\ Cardinality({}) = 0
  BY FS_EmptySet DEF R!Init, LiveAt, ArrivedAt
<1>3. Live(out, sent) = <<>> /\ Arrived(sent) = <<>>
  BY <1>2 DEF Live, Arrived, Subsequence
<1>4. Shown(out, sent) = <<>>
  BY <1>3 DEF Shown
<1>5. RelayOpen
  BY <1>3, <1>4 DEF R!Init, RelayOpen, NoMarker
<1>6. PrefixOf(Shown(out, sent), Arrived(sent))
  BY <1>3, <1>4 DEF PrefixOf
<1> QED
  BY <1>1, <1>5, <1>6, NoMarkerNoClaim DEF RelayInv, RelayOpen, R!Init, RelayTypes

LEMMA RelayKept ==
  ASSUME RelayInv, R!Next
  PROVE  RelayInv'
<1>1. CASE R!Break
  BY <1>1, FailureIsComplete DEF R!Break, RelayInv, RelayTypes
<1> QED
  BY <1>1, FrameRelayed, DoneIsComplete DEF R!Next

LEMMA RelayHolds ==
  ASSUME RelayInv
  PROVE  R!TypeOK /\ R!CommittedOnlyConfirmed /\ R!RelayComplete
<1>1. AllRelayed /\ R!CommittedOnlyConfirmed
  BY DEF RelayInv
<1>2. R!TypeOK
  BY DEF RelayInv, RelayTypes, R!TypeOK
<1> QED
  BY <1>1, <1>2, RelayCompleteIs
-----------------------------------------------------------------------------
(* An OpenAI backend (OpenAIUpstream): the blocks of the stream that is    *)
(* translated.  An event may be appended to a wire, or not, for what the   *)
(* wire has begun and not stopped.                                         *)
BlockKinds == {"text", "thinking", "tool_use"}
WireKinds == BlockKinds \cup {"message_start", "delta", "stop", "message_delta", "message_stop"}
WireEvents == [k : WireKinds, i : Nat, n : Nat]

BeginsAt(w, i) == {j \in DOMAIN w : w[j].k \in BlockKinds /\ w[j].i = i}
StopsAt(w, i) == {j \in DOMAIN w : w[j].k = "stop" /\ w[j].i = i}
Running(w, i) == BeginsAt(w, i) # {} /\ StopsAt(w, i) = {}
CallBegun(w, i) == \E j \in BeginsAt(w, i) : w[j].k = "tool_use"

RunsAt(w, j, i) ==
    /\ \E a \in BeginsAt(w, i) : a < j
    /\ \A b \in StopsAt(w, i) : ~(b < j)
RestsAt(w, j, i) ==
    (\E a \in BeginsAt(w, i) : a < j) => \E b \in StopsAt(w, i) : b < j

WireLegal(w, next) ==
    /\ w \in Seq(WireEvents)
    /\ \A i \in Nat : \A j \in BeginsAt(w, i) : i < next
    /\ \A i \in Nat : \A j, l \in BeginsAt(w, i) : j = l
    /\ \A i \in Nat : \A j, l \in StopsAt(w, i) : j = l
    /\ \A j \in DOMAIN w : w[j].k \in {"delta", "stop"} => RunsAt(w, j, w[j].i)
    /\ \A j \in DOMAIN w : w[j].k \in {"text", "thinking"} => \A i \in Nat : RestsAt(w, j, i)
    /\ \A j, l \in DOMAIN w : j < l /\ w[j].n # 0 /\ w[l].n # 0 => w[j].n <= w[l].n

NumbersUpTo(w, n) == \A j \in DOMAIN w : w[j].n <= n

May(w, next, e) ==
    /\ e.k \in BlockKinds => BeginsAt(w, e.i) = {} /\ e.i < next
    /\ e.k \in {"text", "thinking"} => \A i \in Nat : ~Running(w, i)
    /\ e.k \in {"delta", "stop"} => Running(w, e.i)
    /\ e.n = 0 \/ NumbersUpTo(w, e.n)

(* The sets of a wire with one event more. *)
LEMMA AppendedSets ==
  ASSUME NEW w \in Seq(WireEvents), NEW e \in WireEvents, NEW i \in Nat
  PROVE  /\ BeginsAt(Append(w, e), i) = BeginsAt(w, i) \cup
              IF e.k \in BlockKinds /\ e.i = i THEN {Len(w) + 1} ELSE {}
         /\ StopsAt(Append(w, e), i) = StopsAt(w, i) \cup
              IF e.k = "stop" /\ e.i = i THEN {Len(w) + 1} ELSE {}
<1> DEFINE v == Append(w, e)
<1>1. /\ Len(w) \in Nat /\ DOMAIN w = 1..Len(w) /\ DOMAIN v = 1..(Len(w) + 1)
      /\ \A j \in 1..Len(w) : v[j] = w[j]
      /\ v[Len(w) + 1] = e
  BY OneMore
<1> HIDE DEF v
<1>2. \A j \in DOMAIN v : j \in DOMAIN w \/ j = Len(w) + 1
  BY <1>1
<1>3. \A j \in DOMAIN w : j \in DOMAIN v /\ v[j] = w[j]
  BY <1>1
<1>4. Len(w) + 1 \in DOMAIN v /\ Len(w) + 1 \notin DOMAIN w
  BY <1>1
<1>5. BeginsAt(v, i) = BeginsAt(w, i) \cup
              IF e.k \in BlockKinds /\ e.i = i THEN {Len(w) + 1} ELSE {}
  BY <1>1, <1>2, <1>3, <1>4 DEF BeginsAt
<1>6. StopsAt(v, i) = StopsAt(w, i) \cup
              IF e.k = "stop" /\ e.i = i THEN {Len(w) + 1} ELSE {}
  BY <1>1, <1>2, <1>3, <1>4 DEF StopsAt
<1> QED
  BY <1>5, <1>6 DEF v

LEMMA LegalAppended ==
  ASSUME NEW next, NEW w, WireLegal(w, next), NEW e \in WireEvents, May(w, next, e)
  PROVE  WireLegal(Append(w, e), next)
<1> DEFINE v == Append(w, e)
           z == Len(w) + 1
<1>1. /\ w \in Seq(WireEvents) /\ v \in Seq(WireEvents)
      /\ Len(w) \in Nat /\ z \in Nat /\ z \in DOMAIN v /\ v[z] = e
      /\ \A j \in DOMAIN w : j \in DOMAIN v /\ v[j] = w[j] /\ j < z /\ j \in Nat
      /\ \A j \in DOMAIN v : j \in DOMAIN w \/ j = z
  BY OneMore DEF WireLegal
<1>2. \A i \in Nat :
        /\ BeginsAt(v, i) = BeginsAt(w, i) \cup IF e.k \in BlockKinds /\ e.i = i THEN {z} ELSE {}
        /\ StopsAt(v, i) = StopsAt(w, i) \cup IF e.k = "stop" /\ e.i = i THEN {z} ELSE {}
  BY <1>1, AppendedSets
<1>3. /\ \A i : BeginsAt(w, i) \subseteq DOMAIN w /\ StopsAt(w, i) \subseteq DOMAIN w
      /\ \A j \in DOMAIN v : v[j].i \in Nat /\ v[j].n \in Nat
      /\ e.i \in Nat /\ e.n \in Nat
  <2>1. \A j \in DOMAIN v : v[j] \in WireEvents
    BY <1>1
  <2> QED
    BY <2>1 DEF WireEvents, BeginsAt, StopsAt
<1> HIDE DEF v, z
<1>4. \A i \in Nat : \A j \in BeginsAt(v, i) : i < next
  BY <1>2 DEF WireLegal, May
<1>5. \A i \in Nat : \A j, l \in BeginsAt(v, i) : j = l
  BY <1>2 DEF WireLegal, May
<1>6. \A i \in Nat : \A j, l \in StopsAt(v, i) : j = l
  <2> SUFFICES ASSUME NEW i \in Nat, NEW j \in StopsAt(v, i), NEW l \in StopsAt(v, i) PROVE j = l
    OBVIOUS
  <2>1. CASE e.k = "stop" /\ e.i = i
    BY <1>2, <2>1 DEF May, Running
  <2> QED
    BY <1>2, <2>1 DEF WireLegal
<1>7. \A j \in DOMAIN w : \A i \in Nat :
         (RunsAt(w, j, i) => RunsAt(v, j, i)) /\ (RestsAt(w, j, i) => RestsAt(v, j, i))
  <2> SUFFICES ASSUME NEW j \in DOMAIN w, NEW i \in Nat
               PROVE  (RunsAt(w, j, i) => RunsAt(v, j, i)) /\ (RestsAt(w, j, i) => RestsAt(v, j, i))
    OBVIOUS
  <2>1. ~(z < j)
    BY <1>1
  <2>2. \A a : a < j => (a \in BeginsAt(v, i) <=> a \in BeginsAt(w, i))
    BY <1>2, <2>1
  <2>3. \A a : a < j => (a \in StopsAt(v, i) <=> a \in StopsAt(w, i))
    BY <1>2, <2>1
  <2> QED
    BY <2>2, <2>3 DEF RunsAt, RestsAt
<1>8. e.k \in {"delta", "stop"} => RunsAt(v, z, e.i)
  <2> SUFFICES ASSUME e.k \in {"delta", "stop"} PROVE RunsAt(v, z, e.i)
    OBVIOUS
  <2>1. BeginsAt(w, e.i) # {} /\ StopsAt(w, e.i) = {}
    BY DEF May, Running
  <2>2. BeginsAt(w, e.i) \subseteq BeginsAt(v, e.i) /\ StopsAt(v, e.i) \subseteq {z}
    BY <1>2, <1>3, <2>1
  <2>3. \A a \in BeginsAt(w, e.i) : a < z
    BY <1>1, <1>3
  <2>4. ~(z < z)
    BY <1>1
  <2> QED
    BY <2>1, <2>2, <2>3, <2>4 DEF RunsAt
<1>9. e.k \in {"text", "thinking"} => \A i \in Nat : RestsAt(v, z, i)
  <2> SUFFICES ASSUME e.k \in {"text", "thinking"}, NEW i \in Nat,
                      NEW a \in BeginsAt(v, i), a < z
               PROVE  \E b \in StopsAt(v, i) : b < z
    BY DEF RestsAt
  <2>1. ~(z < z)
    BY <1>1
  <2>2. a \in BeginsAt(w, i)
    BY <1>2, <2>1
  <2>3. StopsAt(w, i) # {}
    BY <2>2 DEF May, Running
  <2> QED
    BY <1>1, <1>2, <1>3, <2>3
<1>10. \A j \in DOMAIN v : v[j].k \in {"delta", "stop"} => RunsAt(v, j, v[j].i)
  BY <1>1, <1>3, <1>7, <1>8 DEF WireLegal
<1>11. \A j \in DOMAIN v : v[j].k \in {"text", "thinking"} => \A i \in Nat : RestsAt(v, j, i)
  BY <1>1, <1>7, <1>9 DEF WireLegal
<1>12. \A j, l \in DOMAIN v : j < l /\ v[j].n # 0 /\ v[l].n # 0 => v[j].n <= v[l].n
  <2> SUFFICES ASSUME NEW j \in DOMAIN v, NEW l \in DOMAIN v, j < l, v[j].n # 0, v[l].n # 0
               PROVE  v[j].n <= v[l].n
    OBVIOUS
  <2>1. j \in DOMAIN w
    BY <1>1
  <2>2. CASE l \in DOMAIN w
    BY <1>1, <2>1, <2>2 DEF WireLegal
  <2>3. CASE l = z
    BY <1>1, <2>1, <2>3 DEF May, NumbersUpTo
  <2> QED
    BY <1>1, <2>2, <2>3
<1> QED
  BY <1>1, <1>4, <1>5, <1>6, <1>10, <1>11, <1>12 DEF WireLegal, v

(* What is running afterwards. *)
LEMMA RunningAppended ==
  ASSUME NEW next, NEW w, WireLegal(w, next), NEW e \in WireEvents, May(w, next, e),
         NEW i \in Nat
  PROVE  /\ Running(Append(w, e), i) <=>
              \/ e.k \in BlockKinds /\ e.i = i
              \/ Running(w, i) /\ ~(e.k = "stop" /\ e.i = i)
         /\ CallBegun(Append(w, e), i) <=> CallBegun(w, i) \/ (e.k = "tool_use" /\ e.i = i)
         /\ BeginsAt(Append(w, e), i) = {} <=> BeginsAt(w, i) = {} /\ ~(e.k \in BlockKinds /\ e.i = i)
<1> DEFINE v == Append(w, e)
           z == Len(w) + 1
<1>1. /\ w \in Seq(WireEvents)
      /\ z \in DOMAIN v /\ v[z] = e
      /\ \A j \in DOMAIN w : j \in DOMAIN v /\ v[j] = w[j]
  BY OneMore DEF WireLegal
<1>2. /\ BeginsAt(v, i) = BeginsAt(w, i) \cup IF e.k \in BlockKinds /\ e.i = i THEN {z} ELSE {}
      /\ StopsAt(v, i) = StopsAt(w, i) \cup IF e.k = "stop" /\ e.i = i THEN {z} ELSE {}
  BY <1>1, AppendedSets
<1>3. BeginsAt(w, i) \subseteq DOMAIN w /\ StopsAt(w, i) \subseteq DOMAIN w
  BY DEF BeginsAt, StopsAt
<1>4. BeginsAt(w, i) = {} => StopsAt(w, i) = {}
  <2> SUFFICES ASSUME NEW j \in StopsAt(w, i) PROVE BeginsAt(w, i) # {}
    OBVIOUS
  <2>1. j \in DOMAIN w /\ w[j].k = "stop" /\ w[j].i = i
    BY DEF StopsAt
  <2> QED
    BY <2>1 DEF WireLegal, RunsAt
<1> HIDE DEF v, z
<1>5. BeginsAt(v, i) = {} <=> BeginsAt(w, i) = {} /\ ~(e.k \in BlockKinds /\ e.i = i)
  BY <1>2
<1>6. Running(v, i) <=> \/ e.k \in BlockKinds /\ e.i = i
                        \/ Running(w, i) /\ ~(e.k = "stop" /\ e.i = i)
  <2>1. CASE e.k \in BlockKinds /\ e.i = i
    <3>1. BeginsAt(w, i) = {} /\ e.k # "stop"
      BY <2>1 DEF May, BlockKinds
    <3> QED
      BY <1>2, <1>4, <2>1, <3>1 DEF Running
  <2>2. CASE ~(e.k \in BlockKinds /\ e.i = i)
    BY <1>2, <2>2 DEF Running
  <2> QED
    BY <2>1, <2>2
<1>7. CallBegun(v, i) <=> CallBegun(w, i) \/ (e.k = "tool_use" /\ e.i = i)
  BY <1>1, <1>2, <1>3 DEF CallBegun, BlockKinds
<1> QED
  BY <1>5, <1>6, <1>7 DEF v
-----------------------------------------------------------------------------
(* The state of the translator: what runs on the wire is what it has open. *)
CallRecords(next) ==
    [key : UpstreamCalls, index : 0..next - 1, opened : BOOLEAN,
     args : {"none", "part", "whole", "bad"}]

CallsAre(q, next) ==
    /\ q \in Seq(CallRecords(next))
    /\ \A j, l \in DOMAIN q : q[j].key = q[l].key \/ q[j].index = q[l].index => j = l

OpenedAt(q, i) == \E j \in DOMAIN q : q[j].index = i /\ q[j].opened

NoEnd(w) == \A j \in DOMAIN w : w[j].k # "message_stop"

WireIs(w, s, n) ==
    /\ WireLegal(w, s.next) /\ NumbersUpTo(w, n) /\ NoEnd(w)
    /\ \A i \in Nat : Running(w, i) <=> i = s.text \/ i = s.thinking \/ OpenedAt(s.tools, i)
    /\ \A i \in Nat : CallBegun(w, i) => OpenedAt(s.tools, i)
    /\ \A j \in DOMAIN s.tools : ~s.tools[j].opened => BeginsAt(w, s.tools[j].index) = {}

StateIs(s, n) ==
    /\ s = [wire |-> s.wire, text |-> s.text, thinking |-> s.thinking, next |-> s.next,
            tools |-> s.tools, fail |-> s.fail]
    /\ s.next \in Nat
    /\ s.text \in -1..(s.next - 1) /\ s.thinking \in -1..(s.next - 1)
    /\ s.text = -1 \/ s.thinking = -1
    /\ s.tools # <<>> => s.text = -1 /\ s.thinking = -1
    /\ CallsAre(s.tools, s.next)
    /\ WireIs(s.wire, s, n)

(* One event more, that may come. *)
LEMMA Emitted ==
  ASSUME NEW next, NEW w, NEW n \in Nat, WireLegal(w, next), NumbersUpTo(w, n), NoEnd(w),
         NEW e \in WireEvents, May(w, next, e), e.k # "message_stop", e.n <= n
  PROVE  /\ WireLegal(Append(w, e), next) /\ NumbersUpTo(Append(w, e), n) /\ NoEnd(Append(w, e))
         /\ \A i \in Nat :
              /\ Running(Append(w, e), i) <=>
                   \/ e.k \in BlockKinds /\ e.i = i
                   \/ Running(w, i) /\ ~(e.k = "stop" /\ e.i = i)
              /\ CallBegun(Append(w, e), i) <=> CallBegun(w, i) \/ (e.k = "tool_use" /\ e.i = i)
              /\ BeginsAt(Append(w, e), i) = {} <=>
                   BeginsAt(w, i) = {} /\ ~(e.k \in BlockKinds /\ e.i = i)
<1>1. WireLegal(Append(w, e), next)
  BY LegalAppended
<1>2. w \in Seq(WireEvents)
  BY DEF WireLegal
<1>3. \A j \in DOMAIN Append(w, e) :
           (j \in DOMAIN w /\ Append(w, e)[j] = w[j]) \/ Append(w, e)[j] = e
  BY <1>2, OneMore
<1>4. NumbersUpTo(Append(w, e), n) /\ NoEnd(Append(w, e))
  BY <1>3 DEF NumbersUpTo, NoEnd
<1> QED
  BY <1>1, <1>4, RunningAppended

(* closing the open block of a kind *)
LEMMA CloseKeeps ==
  ASSUME NEW n \in Nat, NEW s, StateIs(s, n), NEW b \in {"text", "thinking"}
  PROVE  /\ StateIs(U!Close(s, b), n)
         /\ U!Close(s, b).next = s.next /\ U!Close(s, b).tools = s.tools
         /\ U!Close(s, b).fail = s.fail
         /\ U!Close(s, b).text = IF b = "text" THEN -1 ELSE s.text
         /\ U!Close(s, b).thinking = IF b = "thinking" THEN -1 ELSE s.thinking
<1> DEFINE open == IF b = "text" THEN s.text ELSE s.thinking
           e == [k |-> "stop", i |-> open, n |-> 0]
           d == [wire |-> Append(s.wire, e), text |-> IF b = "text" THEN -1 ELSE s.text,
                 thinking |-> IF b = "thinking" THEN -1 ELSE s.thinking,
                 next |-> s.next, tools |-> s.tools, fail |-> s.fail]
<1>1. s = [wire |-> s.wire, text |-> s.text, thinking |-> s.thinking, next |-> s.next,
           tools |-> s.tools, fail |-> s.fail]
  BY DEF StateIs
<1>2. s[b] = open
  BY <1>1
<1>3. CASE open = -1
  <2>1. U!Close(s, b) = s
    BY <1>2, <1>3 DEF U!Close, U!NoIndex
  <2> QED
    BY <1>3, <2>1
<1>4. CASE open # -1
  <2>1. U!Close(s, b) = d
    BY <1>1, <1>2, <1>4 DEF U!Close, U!NoIndex, U!Emit, U!Event
  <2>2. /\ open \in Nat /\ open < s.next
        /\ WireLegal(s.wire, s.next) /\ NumbersUpTo(s.wire, n) /\ NoEnd(s.wire)
        /\ Running(s.wire, open)
    BY <1>4 DEF StateIs, WireIs
  <2>3. e \in WireEvents /\ e.k = "stop" /\ e.i = open /\ e.n = 0 /\ e.k \notin BlockKinds
    BY <2>2 DEF WireEvents, WireKinds, BlockKinds
  <2> HIDE DEF e
  <2>4. May(s.wire, s.next, e)
    BY <2>2, <2>3 DEF May
  <2>5. /\ WireLegal(d.wire, d.next) /\ NumbersUpTo(d.wire, n) /\ NoEnd(d.wire)
        /\ \A i \in Nat :
              /\ Running(d.wire, i) <=> Running(s.wire, i) /\ i # open
              /\ CallBegun(d.wire, i) <=> CallBegun(s.wire, i)
              /\ BeginsAt(d.wire, i) = {} <=> BeginsAt(s.wire, i) = {}
    BY <2>2, <2>3, <2>4, Emitted
  <2>6. s.tools = <<>> /\ (s.text = -1 \/ s.thinking = -1)
    BY <1>4 DEF StateIs
  <2>7. \A i \in Nat : Running(d.wire, i) <=> i = d.text \/ i = d.thinking \/ OpenedAt(d.tools, i)
    BY <1>4, <2>2, <2>5, <2>6 DEF StateIs, WireIs, OpenedAt
  <2>8. /\ \A i \in Nat : CallBegun(d.wire, i) => OpenedAt(d.tools, i)
        /\ \A j \in DOMAIN d.tools : ~d.tools[j].opened => BeginsAt(d.wire, d.tools[j].index) = {}
    BY <2>5, <2>6 DEF StateIs, WireIs
  <2>9. WireIs(d.wire, d, n)
    BY <2>5, <2>7, <2>8 DEF WireIs
  <2>10. StateIs(d, n)
    BY <1>1, <2>6, <2>9 DEF StateIs
  <2> QED
    BY <2>1, <2>10
<1> QED
  BY <1>3, <1>4

(* opening one, which closes that of the other kind *)
LEMMA OpenKeeps ==
  ASSUME NEW n \in Nat, NEW s, StateIs(s, n), s.tools = <<>>,
         NEW b \in {"text", "thinking"}, NEW other \in {"text", "thinking"}, b # other
  PROVE  LET o == U!Open(s, b, other) IN
         /\ StateIs(o, n) /\ o.tools = <<>> /\ o.fail = s.fail /\ o[b] \in Nat
<1> DEFINE c == U!Close(s, other)
           e == [k |-> IF b = "text" THEN "text" ELSE "thinking", i |-> c.next, n |-> 0]
           d == [wire |-> Append(c.wire, e), text |-> IF b = "text" THEN c.next ELSE c.text,
                 thinking |-> IF b = "thinking" THEN c.next ELSE c.thinking,
                 next |-> c.next + 1, tools |-> c.tools, fail |-> c.fail]
<1>0. /\ StateIs(c, n) /\ c.tools = <<>> /\ c.fail = s.fail
      /\ IF b = "text" THEN c.thinking = -1 ELSE c.text = -1
  BY CloseKeeps
<1> HIDE DEF c
<1>1. c = [wire |-> c.wire, text |-> c.text, thinking |-> c.thinking, next |-> c.next,
           tools |-> c.tools, fail |-> c.fail]
  BY <1>0 DEF StateIs
<1>2. c.next \in Nat /\ c.text \in -1..(c.next - 1) /\ c.thinking \in -1..(c.next - 1)
  BY <1>0 DEF StateIs
<1>3. CASE c[b] # -1
  <2>1. U!Open(s, b, other) = c
    BY <1>3 DEF U!Open, U!NoIndex, c
  <2>2. c[b] \in Nat
    BY <1>1, <1>2, <1>3
  <2> QED
    BY <1>0, <2>1, <2>2
<1>4. CASE c[b] = -1
  <2>1. U!Open(s, b, other) = d
    <3>1. U!Open(s, b, other) = [U!Emit(c, e) EXCEPT ![b] = c.next, !.next = @ + 1]
      BY <1>4 DEF U!Open, U!NoIndex, U!Event, c
    <3>2. U!Emit(c, e) = [wire |-> Append(c.wire, e), text |-> c.text, thinking |-> c.thinking,
                          next |-> c.next, tools |-> c.tools, fail |-> c.fail]
      BY <1>1, SMTT(30) DEF U!Emit
    <3> HIDE DEF e
    <3> DEFINE r == U!Emit(c, e)
               q == [r EXCEPT ![b] = c.next]
    <3>3. q = [wire |-> Append(c.wire, e), text |-> IF b = "text" THEN c.next ELSE c.text,
               thinking |-> IF b = "thinking" THEN c.next ELSE c.thinking,
               next |-> c.next, tools |-> c.tools, fail |-> c.fail]
      <4> HIDE DEF r
      <4>1. CASE b = "text"
        <5>1. q = [r EXCEPT !.text = c.next]
          BY <4>1
        <5>2. r = [wire |-> Append(c.wire, e), text |-> c.text, thinking |-> c.thinking,
                   next |-> c.next, tools |-> c.tools, fail |-> c.fail]
          BY <3>2 DEF r
        <5> HIDE DEF q, d
        <5> QED
          BY <4>1, <5>1, <5>2
      <4>2. CASE b = "thinking"
        <5>1. q = [r EXCEPT !.thinking = c.next]
          BY <4>2
        <5>2. r = [wire |-> Append(c.wire, e), text |-> c.text, thinking |-> c.thinking,
                   next |-> c.next, tools |-> c.tools, fail |-> c.fail]
          BY <3>2 DEF r
        <5> HIDE DEF q, d
        <5> QED
          BY <4>2, <5>1, <5>2
      <4> QED
        BY <4>1, <4>2
    <3>4. U!Open(s, b, other) = [q EXCEPT !.next = @ + 1]
      <4>1. [r EXCEPT ![b] = c.next, !.next = @ + 1] = [q EXCEPT !.next = r.next + 1]
        OBVIOUS
      <4>2. r.next = q.next
        BY <3>2, <3>3
      <4> QED
        BY <3>1, <4>1, <4>2
    <3> HIDE DEF q, r
    <3> QED
      BY <3>3, <3>4
  <2>2. c.text = -1 /\ c.thinking = -1
    BY <1>0, <1>1, <1>4
  <2>3. /\ e \in WireEvents /\ e.k \in {"text", "thinking"} /\ e.k \in BlockKinds
        /\ e.i = c.next /\ e.n = 0
    BY <1>2 DEF WireEvents, WireKinds, BlockKinds
  <2> HIDE DEF e
  <2>4. /\ WireLegal(c.wire, c.next) /\ NumbersUpTo(c.wire, n) /\ NoEnd(c.wire)
        /\ \A i \in Nat : ~Running(c.wire, i) /\ ~CallBegun(c.wire, i)
    BY <1>0, <2>2 DEF StateIs, WireIs, OpenedAt
  <2>5. WireLegal(c.wire, c.next + 1) /\ BeginsAt(c.wire, c.next) = {}
    <3>1. \A i \in Nat : i < c.next => i < c.next + 1 /\ i # c.next
      BY <1>2
    <3> QED
      BY <1>2, <2>4, <3>1 DEF WireLegal
  <2>6. May(c.wire, c.next + 1, e)
    BY <1>2, <2>3, <2>4, <2>5 DEF May
  <2>7. /\ WireLegal(d.wire, d.next) /\ NumbersUpTo(d.wire, n) /\ NoEnd(d.wire)
        /\ \A i \in Nat :
              /\ Running(d.wire, i) <=> i = c.next
              /\ CallBegun(d.wire, i) <=> FALSE
    <3>1. e.k # "message_stop" /\ e.n <= n /\ e.k # "tool_use" /\ e.k # "stop"
      BY <2>3
    <3> QED
      BY <2>3, <2>4, <2>5, <2>6, <3>1, Emitted
  <2>8. /\ d.text = (IF b = "text" THEN c.next ELSE -1) /\ d.thinking = (IF b = "thinking" THEN c.next ELSE -1)
        /\ d.tools = <<>> /\ d.next = c.next + 1 /\ d.fail = s.fail
    BY <1>0, <2>2
  <2>9. WireIs(d.wire, d, n)
    BY <2>7, <2>8 DEF WireIs, OpenedAt
  <2>10. StateIs(d, n)
    <3>1. CallsAre(d.tools, d.next)
      <4>1. <<>> \in Seq(CallRecords(d.next)) /\ DOMAIN <<>> = {}
        OBVIOUS
      <4> HIDE DEF d
      <4> QED
        BY <2>8, <4>1 DEF CallsAre
    <3> QED
      BY <1>2, <2>8, <2>9, <3>1 DEF StateIs
  <2>11. d[b] \in Nat
    BY <1>2, <2>8
  <2> QED
    BY <2>1, <2>8, <2>10, <2>11
<1> QED
  BY <1>3, <1>4

(* a piece of prose, in the block of its kind *)
LEMMA DeltaKeeps ==
  ASSUME NEW n \in Nat, NEW s, StateIs(s, n), NEW i \in Nat, Running(s.wire, i)
  PROVE  LET d == U!Emit(s, U!Event("delta", i, n)) IN
         /\ StateIs(d, n) /\ d.tools = s.tools /\ d.fail = s.fail /\ d.next = s.next
         /\ d.text = s.text /\ d.thinking = s.thinking
<1> DEFINE e == [k |-> "delta", i |-> i, n |-> n]
           d == [wire |-> Append(s.wire, e), text |-> s.text, thinking |-> s.thinking,
                 next |-> s.next, tools |-> s.tools, fail |-> s.fail]
<1>1. s = [wire |-> s.wire, text |-> s.text, thinking |-> s.thinking, next |-> s.next,
           tools |-> s.tools, fail |-> s.fail]
  BY DEF StateIs
<1>2. U!Emit(s, U!Event("delta", i, n)) = d
  <2>1. U!Event("delta", i, n) = e
    BY DEF U!Event
  <2> HIDE DEF e
  <2>2. U!Emit(s, e) = d
    BY <1>1 DEF U!Emit
  <2> QED
    BY <2>1, <2>2
<1>3. e \in WireEvents /\ e.k = "delta" /\ e.i = i /\ e.n = n /\ e.k \notin BlockKinds
  BY DEF WireEvents, WireKinds, BlockKinds
<1> HIDE DEF e
<1>4. WireLegal(s.wire, s.next) /\ NumbersUpTo(s.wire, n) /\ NoEnd(s.wire)
  BY DEF StateIs, WireIs
<1>5. May(s.wire, s.next, e)
  BY <1>3, <1>4 DEF May
<1>6. /\ WireLegal(d.wire, d.next) /\ NumbersUpTo(d.wire, n) /\ NoEnd(d.wire)
      /\ \A l \in Nat :
            /\ Running(d.wire, l) <=> Running(s.wire, l)
            /\ CallBegun(d.wire, l) <=> CallBegun(s.wire, l)
            /\ BeginsAt(d.wire, l) = {} <=> BeginsAt(s.wire, l) = {}
  <2>1. e.k # "message_stop" /\ e.n <= n /\ e.k # "tool_use" /\ e.k # "stop"
    BY <1>3
  <2> QED
    BY <1>3, <1>4, <1>5, <2>1, Emitted
<1>7. \A j \in DOMAIN s.tools : s.tools[j].index \in Nat
  <2>1. \A j \in DOMAIN s.tools : s.tools[j] \in CallRecords(s.next)
    BY Elements DEF StateIs, CallsAre
  <2> QED
    BY <2>1 DEF CallRecords, StateIs
<1>8. WireIs(d.wire, d, n)
  BY <1>6, <1>7 DEF StateIs, WireIs
<1>9. StateIs(d, n)
  BY <1>1, <1>8 DEF StateIs
<1> QED
  BY <1>2, <1>9

LEMMA ProseKeeps ==
  ASSUME NEW n \in Nat, NEW s, StateIs(s, n), s.tools = <<>>,
         NEW b \in {"text", "thinking"}, NEW other \in {"text", "thinking"}, b # other
  PROVE  LET p == U!Prose(s, b, other, n) IN
         StateIs(p, n) /\ p.tools = <<>> /\ p.fail = s.fail /\ p[b] \in Nat
<1> DEFINE o == U!Open(s, b, other)
<1>1. StateIs(o, n) /\ o.tools = <<>> /\ o.fail = s.fail /\ o[b] \in Nat
  BY OpenKeeps
<1>2. U!Prose(s, b, other, n) = U!Emit(o, U!Event("delta", o[b], n))
  BY DEF U!Prose
<1> HIDE DEF o
<1>3. Running(o.wire, o[b])
  BY <1>1 DEF StateIs, WireIs
<1> DEFINE p == U!Prose(s, b, other, n)
<1>4. /\ StateIs(p, n) /\ p.tools = o.tools /\ p.fail = o.fail
      /\ p.text = o.text /\ p.thinking = o.thinking
  <2> DEFINE d == U!Emit(o, U!Event("delta", o[b], n))
  <2>1. /\ StateIs(d, n) /\ d.tools = o.tools /\ d.fail = o.fail
        /\ d.text = o.text /\ d.thinking = o.thinking
    BY <1>1, <1>3, DeltaKeeps
  <2>2. p = d
    BY <1>2
  <2> HIDE DEF d, p
  <2> QED
    BY <2>1, <2>2
<1> HIDE DEF p
<1>5. p[b] = o[b]
  BY <1>4
<1> QED
  BY <1>1, <1>4, <1>5 DEF p

(* what a wider numbering, or more frames, leave true *)
LEMMA LegalWider ==
  ASSUME NEW next \in Nat, NEW w, WireLegal(w, next)
  PROVE  WireLegal(w, next + 1) /\ BeginsAt(w, next) = {}
<1>1. \A i \in Nat : i < next => i < next + 1 /\ i # next
  OBVIOUS
<1> QED
  BY <1>1 DEF WireLegal

LEMMA LaterFrame ==
  ASSUME NEW n \in Nat, NEW m \in Nat, n <= m, NEW s, StateIs(s, n)
  PROVE  StateIs(s, m)
<1>1. s.wire \in Seq(WireEvents)
  BY DEF StateIs, WireIs, WireLegal
<1>2. \A j \in DOMAIN s.wire : s.wire[j] \in WireEvents
  BY <1>1, Elements
<1>3. \A j \in DOMAIN s.wire : s.wire[j].n \in Nat
  BY <1>2 DEF WireEvents
<1>4. NumbersUpTo(s.wire, n)
  BY DEF StateIs, WireIs
<1>5. NumbersUpTo(s.wire, m)
  BY <1>3, <1>4 DEF NumbersUpTo
<1> QED
  BY <1>5 DEF StateIs, WireIs

(* the calls: one more, and one with a piece more *)
LEMMA CallsTypes ==
  ASSUME NEW next \in Nat, NEW q, CallsAre(q, next)
  PROVE  /\ q \in Seq(CallRecords(next)) /\ Len(q) \in Nat /\ DOMAIN q = 1..Len(q)
         /\ \A j \in DOMAIN q :
              /\ q[j] \in CallRecords(next) /\ q[j].index \in Nat /\ q[j].index < next
              /\ q[j].opened \in BOOLEAN /\ q[j].key \in UpstreamCalls
              /\ q[j].args \in {"none", "part", "whole", "bad"}
<1>1. q \in Seq(CallRecords(next)) /\ Len(q) \in Nat /\ DOMAIN q = 1..Len(q)
  BY DEF CallsAre
<1>2. \A j \in DOMAIN q : q[j] \in CallRecords(next)
  BY <1>1, Elements
<1> QED
  BY <1>1, <1>2 DEF CallRecords

LEMMA CallAdded ==
  ASSUME NEW next \in Nat, NEW q, CallsAre(q, next), NEW t \in UpstreamCalls,
         \A j \in DOMAIN q : q[j].key # t
  PROVE  LET r == [key |-> t, index |-> next, opened |-> FALSE, args |-> "none"]
             v == Append(q, r) IN
         /\ CallsAre(v, next + 1) /\ v # <<>>
         /\ \E j \in DOMAIN v : v[j].key = t
         /\ \A i : OpenedAt(v, i) <=> OpenedAt(q, i)
         /\ \A j \in DOMAIN v : (j \in DOMAIN q /\ v[j] = q[j]) \/ v[j].index = next
<1> DEFINE r == [key |-> t, index |-> next, opened |-> FALSE, args |-> "none"]
           v == Append(q, r)
<1>1. /\ q \in Seq(CallRecords(next)) /\ Len(q) \in Nat /\ DOMAIN q = 1..Len(q)
      /\ \A j \in DOMAIN q : q[j] \in CallRecords(next) /\ q[j].index \in Nat /\ q[j].index < next
  BY CallsTypes
<1>2. CallRecords(next) \subseteq CallRecords(next + 1) /\ r \in CallRecords(next + 1)
  BY DEF CallRecords
<1>3. r.key = t /\ r.index = next /\ r.opened = FALSE
  OBVIOUS
<1> HIDE DEF r
<1>4. \A A, B : A \subseteq B => Seq(A) \subseteq Seq(B)
  OBVIOUS
<1>5. q \in Seq(CallRecords(next + 1))
  BY <1>1, <1>2, <1>4
<1>6. /\ v \in Seq(CallRecords(next + 1))
      /\ DOMAIN v = 1..(Len(q) + 1)
      /\ \A j \in 1..Len(q) : v[j] = q[j]
      /\ v[Len(q) + 1] = r
  BY <1>2, <1>5, OneMore
<1> HIDE DEF v
<1>7. \A j \in DOMAIN v : (j \in DOMAIN q /\ v[j] = q[j]) \/ (j = Len(q) + 1 /\ v[j] = r)
  BY <1>1, <1>6
<1>8. \A j \in DOMAIN q : j \in DOMAIN v /\ v[j] = q[j]
  BY <1>1, <1>6
<1>9. Len(q) + 1 \in DOMAIN v
  BY <1>1, <1>6
<1>10. \A j, l \in DOMAIN v : v[j].key = v[l].key \/ v[j].index = v[l].index => j = l
  <2>1. \A j \in DOMAIN q : q[j].index # next
    BY <1>1
  <2> QED
    BY <1>3, <1>7, <2>1 DEF CallsAre
<1>11. CallsAre(v, next + 1)
  BY <1>6, <1>10 DEF CallsAre
<1>12. \A i : OpenedAt(v, i) <=> OpenedAt(q, i)
  BY <1>3, <1>7, <1>8 DEF OpenedAt
<1>13. v # <<>>
  BY <1>9
<1>14. \E j \in DOMAIN v : v[j].key = t
  BY <1>3, <1>6, <1>9
<1>15. \A j \in DOMAIN v : (j \in DOMAIN q /\ v[j] = q[j]) \/ v[j].index = next
  BY <1>3, <1>7
<1> QED
  BY <1>11, <1>12, <1>13, <1>14, <1>15 DEF v, r

LEMMA PieceAdded ==
  ASSUME NEW next \in Nat, NEW q, CallsAre(q, next), NEW j \in DOMAIN q,
         NEW r \in CallRecords(next), r.key = q[j].key, r.index = q[j].index,
         q[j].opened => r.opened
  PROVE  LET v == [q EXCEPT ![j] = r] IN
         /\ CallsAre(v, next) /\ v # <<>> /\ DOMAIN v = DOMAIN q /\ v[j] = r
         /\ \A i : OpenedAt(v, i) <=> OpenedAt(q, i) \/ (r.opened /\ i = r.index)
         /\ \A l \in DOMAIN q :
              ~v[l].opened => /\ ~q[l].opened /\ v[l].index = q[l].index
                              /\ r.opened => v[l].index # r.index
<1> DEFINE v == [q EXCEPT ![j] = r]
<1>1. q \in Seq(CallRecords(next))
  BY DEF CallsAre
<1>2. \A T : \A x \in Seq(T) : \A l \in DOMAIN x : \A y \in T :
         /\ [x EXCEPT ![l] = y] \in Seq(T) /\ DOMAIN [x EXCEPT ![l] = y] = DOMAIN x
         /\ x # <<>> => [x EXCEPT ![l] = y] # <<>>
  OBVIOUS
<1>3. v \in Seq(CallRecords(next)) /\ DOMAIN v = DOMAIN q
  BY <1>1, <1>2
<1>4. v[j] = r /\ \A l \in DOMAIN q : l # j => v[l] = q[l]
  BY <1>3
<1> HIDE DEF v
<1>5. v # <<>>
  BY <1>3
<1>6. \A l, m \in DOMAIN v : v[l].key = v[m].key \/ v[l].index = v[m].index => l = m
  <2>1. \A l \in DOMAIN q : v[l].key = q[l].key /\ v[l].index = q[l].index
    BY <1>4
  <2> QED
    BY <1>3, <2>1 DEF CallsAre
<1>7. CallsAre(v, next)
  BY <1>3, <1>6 DEF CallsAre
<1>8. \A i : OpenedAt(v, i) <=> OpenedAt(q, i) \/ (r.opened /\ i = r.index)
  BY <1>3, <1>4 DEF OpenedAt
<1>9. \A l \in DOMAIN q :
          ~v[l].opened => /\ ~q[l].opened /\ v[l].index = q[l].index
                          /\ r.opened => v[l].index # r.index
  BY <1>4 DEF CallsAre
<1> QED
  BY <1>3, <1>4, <1>5, <1>7, <1>8, <1>9 DEF v

LEMMA PositionFound ==
  ASSUME NEW next \in Nat, NEW s, CallsAre(s.tools, next), NEW t
  PROVE  /\ (U!Position(s, t) = 0) => \A j \in DOMAIN s.tools : s.tools[j].key # t
         /\ (\E j \in DOMAIN s.tools : s.tools[j].key = t) =>
               /\ U!Position(s, t) # 0 /\ U!Position(s, t) \in DOMAIN s.tools
               /\ s.tools[U!Position(s, t)].key = t
<1> DEFINE found == {j \in DOMAIN s.tools : s.tools[j].key = t}
<1>1. 0 \notin DOMAIN s.tools
  BY CallsTypes
<1>2. CASE found = {}
  BY <1>2 DEF U!Position
<1>3. CASE found # {}
  <2>1. U!Position(s, t) = CHOOSE j \in found : TRUE
    BY <1>3 DEF U!Position
  <2>2. (CHOOSE j \in found : TRUE) \in found
    BY <1>3
  <2> QED
    BY <1>1, <2>1, <2>2
<1> QED
  BY <1>2, <1>3

(* the first piece of a call *)
LEMMA NewToolKeeps ==
  ASSUME NEW n \in Nat, NEW s, StateIs(s, n), NEW t \in UpstreamCalls
  PROVE  LET o == U!NewTool(s, t)
             j == U!Position(o, t) IN
         /\ StateIs(o, n) /\ o.fail = s.fail
         /\ j \in DOMAIN o.tools /\ o.tools[j].key = t
<1> DEFINE o == U!NewTool(s, t)
           c1 == U!Close(s, "text")
           c == U!Close(c1, "thinking")
<1>1. s.next \in Nat /\ CallsAre(s.tools, s.next)
  BY DEF StateIs
<1>2. CASE U!Position(s, t) # 0
  <2>1. o = s
    BY <1>2 DEF U!NewTool
  <2>2. \E j \in DOMAIN s.tools : s.tools[j].key = t
    <3>1. CASE {j \in DOMAIN s.tools : s.tools[j].key = t} = {}
      BY <1>2, <3>1 DEF U!Position
    <3> QED
      BY <3>1
  <2> QED
    BY <1>1, <2>1, <2>2, PositionFound
<1>3. CASE U!Position(s, t) = 0
  <2>1. /\ StateIs(c1, n) /\ c1.next = s.next /\ c1.tools = s.tools /\ c1.fail = s.fail
        /\ c1.text = -1
    BY CloseKeeps
  <2> HIDE DEF c1
  <2>2. /\ StateIs(c, n) /\ c.next = s.next /\ c.tools = s.tools /\ c.fail = s.fail
        /\ c.text = -1 /\ c.thinking = -1
    BY <2>1, CloseKeeps
  <2>3. o = [c EXCEPT !.next = @ + 1,
               !.tools = Append(@, [key |-> t, index |-> c.next, opened |-> FALSE,
                                    args |-> "none"])]
    BY <1>3 DEF U!NewTool, c1
  <2> HIDE DEF c, o
  <2>4. c = [wire |-> c.wire, text |-> c.text, thinking |-> c.thinking, next |-> c.next,
             tools |-> c.tools, fail |-> c.fail]
    BY <2>2 DEF StateIs
  <2> DEFINE r == [key |-> t, index |-> c.next, opened |-> FALSE, args |-> "none"]
             v == Append(c.tools, r)
             q == [c EXCEPT !.next = c.next + 1]
             d == [wire |-> c.wire, text |-> c.text, thinking |-> c.thinking,
                   next |-> c.next + 1, tools |-> v, fail |-> c.fail]
  <2>5. c.next \in Nat /\ CallsAre(c.tools, c.next) /\ \A j \in DOMAIN c.tools : c.tools[j].key # t
    BY <1>1, <1>3, <2>2, PositionFound
  <2>6. /\ CallsAre(v, c.next + 1) /\ v # <<>>
        /\ \E j \in DOMAIN v : v[j].key = t
        /\ \A i : OpenedAt(v, i) <=> OpenedAt(c.tools, i)
        /\ \A j \in DOMAIN v : (j \in DOMAIN c.tools /\ v[j] = c.tools[j]) \/ v[j].index = c.next
    BY <2>5, CallAdded
  <2>7. o = [q EXCEPT !.tools = v]
    <3>1. q.tools = c.tools
      OBVIOUS
    <3>2. [c EXCEPT !.next = @ + 1, !.tools = Append(@, r)] = [q EXCEPT !.tools = Append(c.tools, r)]
      OBVIOUS
    <3> QED
      BY <2>3, <3>1, <3>2
  <2> HIDE DEF r, v
  <2>8. o = d
    <3>1. q = [wire |-> c.wire, text |-> c.text, thinking |-> c.thinking,
               next |-> c.next + 1, tools |-> c.tools, fail |-> c.fail]
      BY <2>4
    <3> HIDE DEF q
    <3> QED
      BY <2>7, <3>1
  <2>9. WireLegal(c.wire, c.next) /\ NumbersUpTo(c.wire, n) /\ NoEnd(c.wire)
    BY <2>2 DEF StateIs, WireIs
  <2>10. WireLegal(c.wire, c.next + 1) /\ BeginsAt(c.wire, c.next) = {}
    BY <2>5, <2>9, LegalWider
  <2>11. WireIs(d.wire, d, n)
    BY <2>2, <2>6, <2>9, <2>10 DEF StateIs, WireIs
  <2>12. d.next \in Nat /\ d.text = -1 /\ d.thinking = -1 /\ -1 \in -1..(d.next - 1)
    BY <2>2, <2>5
  <2>13. StateIs(d, n)
    BY <2>6, <2>11, <2>12 DEF StateIs
  <2>14. o.tools = v /\ o.next = c.next + 1 /\ o.fail = s.fail
    BY <2>2, <2>8
  <2>15. \E j \in DOMAIN o.tools : o.tools[j].key = t
    BY <2>6, <2>14
  <2>16. U!Position(o, t) \in DOMAIN o.tools /\ o.tools[U!Position(o, t)].key = t
    BY <2>5, <2>6, <2>14, <2>15, PositionFound
  <2> QED
    BY <2>8, <2>13, <2>14, <2>16 DEF o
<1> QED
  BY <1>2, <1>3

(* the piece itself: the block opens, and the call takes its arguments *)
LEMMA PieceKeeps ==
  ASSUME NEW n \in Nat, NEW o, StateIs(o, n), NEW j \in DOMAIN o.tools,
         NEW f \in U!Plain,
         NEW b, b = (IF f.named /\ ~o.tools[j].opened
                       THEN U!Emit(o, U!Event("tool_use", o.tools[j].index, 0)) ELSE o)
  PROVE  LET p == U!Piece(o.tools[j], f)
             a == [b EXCEPT !.tools = [@ EXCEPT ![j] = p]] IN
         /\ StateIs(a, n) /\ a.fail = o.fail
         /\ p.opened => OpenedAt(a.tools, o.tools[j].index)
<1> DEFINE c == o.tools[j]
           p == U!Piece(c, f)
           e == [k |-> "tool_use", i |-> c.index, n |-> 0]
           v == [o.tools EXCEPT ![j] = p]
           d == [wire |-> b.wire, text |-> o.text, thinking |-> o.thinking,
                 next |-> o.next, tools |-> v, fail |-> o.fail]
<1>1. o = [wire |-> o.wire, text |-> o.text, thinking |-> o.thinking, next |-> o.next,
           tools |-> o.tools, fail |-> o.fail] /\ o.next \in Nat /\ CallsAre(o.tools, o.next)
  BY DEF StateIs
<1>2. /\ c \in CallRecords(o.next) /\ c.index \in Nat /\ c.index < o.next
      /\ c.opened \in BOOLEAN /\ c.key \in UpstreamCalls
      /\ c.args \in {"none", "part", "whole", "bad"}
  BY <1>1, CallsTypes
<1>3. f.named \in BOOLEAN /\ f.args \in {"none", "part", "last"}
  BY DEF U!Plain, U!Frames
<1>4. p = [key |-> c.key, index |-> c.index, opened |-> c.opened \/ f.named,
           args |-> U!Joined(c.args, f.args)]
  <2>1. c = [key |-> c.key, index |-> c.index, opened |-> c.opened, args |-> c.args]
    BY <1>2 DEF CallRecords
  <2> DEFINE g == [c EXCEPT !.opened = c.opened \/ f.named]
  <2>2. g = [key |-> c.key, index |-> c.index, opened |-> c.opened \/ f.named, args |-> c.args]
    BY <2>1
  <2>3. p = [g EXCEPT !.args = U!Joined(g.args, f.args)]
    BY DEF U!Piece
  <2> HIDE DEF g
  <2> QED
    BY <2>2, <2>3
<1>5. U!Joined(c.args, f.args) \in {"none", "part", "whole", "bad"}
  BY <1>2 DEF U!Joined
<1>6. /\ p \in CallRecords(o.next) /\ p.key = c.key /\ p.index = c.index
      /\ p.opened <=> c.opened \/ f.named
  BY <1>2, <1>3, <1>4, <1>5 DEF CallRecords
<1> HIDE DEF p
<1>7. /\ CallsAre(v, o.next) /\ v # <<>> /\ DOMAIN v = DOMAIN o.tools /\ v[j] = p
      /\ \A i : OpenedAt(v, i) <=> OpenedAt(o.tools, i) \/ (p.opened /\ i = p.index)
      /\ \A l \in DOMAIN o.tools :
              ~v[l].opened => /\ ~o.tools[l].opened /\ v[l].index = o.tools[l].index
                              /\ p.opened => v[l].index # p.index
  BY <1>1, <1>6, PieceAdded
<1> HIDE DEF v
<1>8. o.tools # <<>> /\ o.text = -1 /\ o.thinking = -1
  <2>1. o.tools # <<>>
    <3>1. o.tools = <<>> => DOMAIN o.tools = {}
      OBVIOUS
    <3> QED
      BY <3>1
  <2> QED
    BY <2>1 DEF StateIs
<1>9. WireLegal(o.wire, o.next) /\ NumbersUpTo(o.wire, n) /\ NoEnd(o.wire)
  BY DEF StateIs, WireIs
<1>10. [b EXCEPT !.tools = [@ EXCEPT ![j] = p]] = d /\ StateIs(d, n)
  <2>1. CASE ~(f.named /\ ~c.opened)
    <3>1. b = o
      BY <2>1
    <3>2. [o EXCEPT !.tools = v] = d
      BY <1>1, <3>1
    <3>3. \A i : OpenedAt(v, i) <=> OpenedAt(o.tools, i)
      BY <1>6, <1>7, <2>1 DEF OpenedAt
    <3>4. WireIs(d.wire, d, n)
      BY <1>7, <3>1, <3>3 DEF StateIs, WireIs
    <3>5. StateIs(d, n)
      BY <1>1, <1>7, <1>8, <3>4 DEF StateIs
    <3> QED
      BY <3>1, <3>2, <3>5 DEF v
  <2>2. CASE f.named /\ ~c.opened
    <3>1. b = U!Emit(o, e)
      BY <2>2 DEF U!Event
    <3>2. e \in WireEvents /\ e.k = "tool_use" /\ e.i = c.index /\ e.n = 0 /\ e.k \in BlockKinds
      BY <1>2 DEF WireEvents, WireKinds, BlockKinds
    <3> HIDE DEF e
    <3>3. b = [wire |-> Append(o.wire, e), text |-> o.text, thinking |-> o.thinking,
               next |-> o.next, tools |-> o.tools, fail |-> o.fail]
      BY <1>1, <3>1 DEF U!Emit
    <3>4. [b EXCEPT !.tools = v] = d /\ b.tools = o.tools /\ d.wire = Append(o.wire, e)
      BY <3>3
    <3>5. May(o.wire, o.next, e)
      BY <1>2, <2>2, <3>2 DEF May, StateIs, WireIs
    <3>6. /\ WireLegal(d.wire, o.next) /\ NumbersUpTo(d.wire, n) /\ NoEnd(d.wire)
          /\ \A i \in Nat :
              /\ Running(d.wire, i) <=> e.i = i \/ Running(o.wire, i)
              /\ CallBegun(d.wire, i) <=> CallBegun(o.wire, i) \/ e.i = i
              /\ BeginsAt(d.wire, i) = {} <=> BeginsAt(o.wire, i) = {} /\ e.i # i
      <4>1. e.k # "message_stop" /\ e.n <= n /\ e.k # "stop"
        BY <3>2
      <4> DEFINE w == Append(o.wire, e)
      <4>2. /\ WireLegal(w, o.next) /\ NumbersUpTo(w, n) /\ NoEnd(w)
            /\ \A i \in Nat :
                /\ Running(w, i) <=>
                     \/ e.k \in BlockKinds /\ e.i = i
                     \/ Running(o.wire, i) /\ ~(e.k = "stop" /\ e.i = i)
                /\ CallBegun(w, i) <=> CallBegun(o.wire, i) \/ (e.k = "tool_use" /\ e.i = i)
                /\ BeginsAt(w, i) = {} <=> BeginsAt(o.wire, i) = {} /\ ~(e.k \in BlockKinds /\ e.i = i)
        BY <1>9, <3>2, <3>5, <4>1, Emitted
      <4>3. d.wire = w
        BY <3>4
      <4> HIDE DEF w, d
      <4> QED
        BY <3>2, <4>1, <4>2, <4>3
    <3>7. p.opened
      BY <1>6, <2>2
    <3>8. \A l \in DOMAIN o.tools : o.tools[l].index \in Nat
      BY <1>1, CallsTypes
    <3>9. \A i \in Nat : Running(d.wire, i) <=> i = d.text \/ i = d.thinking \/ OpenedAt(d.tools, i)
      BY <1>6, <1>7, <1>8, <3>2, <3>6, <3>7 DEF StateIs, WireIs
    <3>10. \A i \in Nat : CallBegun(d.wire, i) => OpenedAt(d.tools, i)
      BY <1>6, <1>7, <3>2, <3>6, <3>7 DEF StateIs, WireIs
    <3>11. \A l \in DOMAIN d.tools : ~d.tools[l].opened => BeginsAt(d.wire, d.tools[l].index) = {}
      <4> SUFFICES ASSUME NEW l \in DOMAIN v, ~v[l].opened PROVE BeginsAt(d.wire, v[l].index) = {}
        OBVIOUS
      <4>1. l \in DOMAIN o.tools /\ ~o.tools[l].opened /\ v[l].index = o.tools[l].index /\ v[l].index # c.index
        BY <1>6, <1>7, <3>7
      <4>2. BeginsAt(o.wire, o.tools[l].index) = {}
        BY <4>1 DEF StateIs, WireIs
      <4> QED
        BY <3>2, <3>6, <3>8, <4>1, <4>2
    <3>12. WireIs(d.wire, d, n)
      BY <3>6, <3>9, <3>10, <3>11 DEF WireIs
    <3>13. StateIs(d, n)
      BY <1>1, <1>7, <1>8, <3>12 DEF StateIs
    <3> QED
      BY <3>4, <3>13 DEF v
  <2> QED
    BY <2>1, <2>2
<1>11. p.opened => OpenedAt(v, c.index)
  BY <1>6, <1>7
<1> QED
  BY <1>10, <1>11 DEF p

LEMMA FailKeeps ==
  ASSUME NEW n \in Nat, NEW s, StateIs(s, n)
  PROVE  StateIs([s EXCEPT !.fail = TRUE], n)
<1> DEFINE d == [wire |-> s.wire, text |-> s.text, thinking |-> s.thinking,
                 next |-> s.next, tools |-> s.tools, fail |-> TRUE]
<1>1. s = [wire |-> s.wire, text |-> s.text, thinking |-> s.thinking, next |-> s.next,
           tools |-> s.tools, fail |-> s.fail]
  BY DEF StateIs
<1>2. \A x : [s EXCEPT !.fail = x]
               = [wire |-> s.wire, text |-> s.text, thinking |-> s.thinking,
                  next |-> s.next, tools |-> s.tools, fail |-> x]
  BY <1>1
<1>3. WireIs(d.wire, d, n)
  BY DEF StateIs, WireIs
<1>4. StateIs(d, n)
  BY <1>3 DEF StateIs
<1> QED
  BY <1>2, <1>4

LEMMA ToolPieceKeeps ==
  ASSUME NEW n \in Nat, NEW s, StateIs(s, n), NEW f \in U!Plain, f.t \in UpstreamCalls
  PROVE  StateIs(U!ToolPiece(s, f, n), n)
<1> DEFINE o == U!NewTool(s, f.t)
           j == U!Position(o, f.t)
           c == o.tools[j]
           b == IF f.named /\ ~c.opened THEN U!Emit(o, U!Event("tool_use", c.index, 0)) ELSE o
           p == U!Piece(c, f)
           a == [b EXCEPT !.tools = [@ EXCEPT ![j] = p]]
<1>1. StateIs(o, n) /\ j \in DOMAIN o.tools
  BY NewToolKeeps
<1>2. U!ToolPiece(s, f, n) = IF f.args = "none" THEN a
                             ELSE IF ~p.opened THEN [a EXCEPT !.fail = TRUE]
                             ELSE U!Emit(a, U!Event("delta", c.index, n))
  BY DEF U!ToolPiece
<1> HIDE DEF o, j
<1>3. StateIs(a, n) /\ (p.opened => OpenedAt(a.tools, c.index))
  BY <1>1, PieceKeeps
<1>4. c.index \in Nat
  BY <1>1, CallsTypes DEF StateIs
<1> HIDE DEF a, p, c
<1>5. CASE f.args = "none"
  BY <1>2, <1>3, <1>5
<1>6. CASE f.args # "none" /\ ~p.opened
  BY <1>2, <1>3, <1>6, FailKeeps
<1>7. CASE f.args # "none" /\ p.opened
  <2>1. Running(a.wire, c.index)
    BY <1>3, <1>4, <1>7 DEF StateIs, WireIs
  <2> QED
    BY <1>2, <1>3, <1>4, <1>7, <2>1, DeltaKeeps
<1> QED
  BY <1>5, <1>6, <1>7

LEMMA HandleKeeps ==
  ASSUME NEW n \in Nat, NEW s, StateIs(s, n), NEW f \in U!Plain
  PROVE  StateIs(U!Handle(s, f, n), n)
<1> DEFINE r == IF f.reason THEN U!Prose(s, "thinking", "text", n) ELSE s
           x == IF f.text THEN U!Prose(r, "text", "thinking", n) ELSE r
<1>1. U!Handle(s, f, n) = IF Len(s.tools) > 0 /\ (f.reason \/ f.text) THEN [s EXCEPT !.fail = TRUE]
                          ELSE IF f.t = -1 THEN x ELSE U!ToolPiece(x, f, n)
  BY DEF U!Handle, U!NoTool
<1>2. CASE Len(s.tools) > 0 /\ (f.reason \/ f.text)
  BY <1>1, <1>2, FailKeeps
<1>3. CASE ~(Len(s.tools) > 0 /\ (f.reason \/ f.text))
  <2>1. f.reason \/ f.text => s.tools = <<>>
    <3>1. \A T : \A q \in Seq(T) : ~(Len(q) > 0) => q = <<>>
      OBVIOUS
    <3> QED
      BY <1>3, <3>1 DEF StateIs, CallsAre
  <2>2. StateIs(r, n) /\ (f.text => r.tools = <<>>)
    BY <2>1, ProseKeeps
  <2> HIDE DEF r
  <2>3. StateIs(x, n)
    BY <2>2, ProseKeeps
  <2> HIDE DEF x
  <2>4. f.t \in UpstreamCalls \cup {-1}
    BY DEF U!Plain, U!Frames, U!NoTool
  <2> QED
    BY <1>1, <1>3, <2>3, <2>4, ToolPieceKeeps
<1> QED
  BY <1>2, <1>3
-----------------------------------------------------------------------------
(* The end: the blocks of the calls are closed in their order. *)
WithStops(w, g, x) == w \o [j \in 1..g |-> U!Event("stop", x[j], 0)]

LEMMA StopsAppended ==
  ASSUME NEW next \in Nat, NEW w, WireLegal(w, next), NEW n \in Nat, NumbersUpTo(w, n), NoEnd(w),
         NEW g \in Nat, NEW x, \A j \in 1..g : x[j] \in Nat /\ Running(w, x[j]),
         \A j, l \in 1..g : x[j] = x[l] => j = l
  PROVE  LET u == WithStops(w, g, x) IN
         /\ WireLegal(u, next) /\ NumbersUpTo(u, n) /\ NoEnd(u)
         /\ \A i \in Nat : Running(u, i) <=> Running(w, i) /\ \A j \in 1..g : x[j] # i
<1> DEFINE q == [j \in 1..g |-> U!Event("stop", x[j], 0)]
           v == w \o q
           z == Len(w)
<1>1. w \in Seq(WireEvents) /\ z \in Nat /\ DOMAIN w = 1..z
  BY OneMore DEF WireLegal
<1>2. \A j \in 1..g : /\ U!Event("stop", x[j], 0) \in WireEvents
                      /\ U!Event("stop", x[j], 0).k = "stop"
                      /\ U!Event("stop", x[j], 0).i = x[j] /\ U!Event("stop", x[j], 0).n = 0
  BY DEF U!Event, WireEvents, WireKinds
<1>3. /\ q \in Seq(WireEvents) /\ Len(q) = g
      /\ \A j \in 1..g : q[j].k = "stop" /\ q[j].i = x[j] /\ q[j].n = 0
  <2>1. \A T : \A h \in [1..g -> T] : h \in Seq(T) /\ Len(h) = g
    OBVIOUS
  <2>2. q \in [1..g -> WireEvents]
    BY <1>2
  <2> QED
    BY <1>2, <2>1, <2>2
<1> HIDE DEF q
<1>4. /\ v \in Seq(WireEvents) /\ DOMAIN v = 1..(z + g)
      /\ \A l \in 1..z : v[l] = w[l]
      /\ \A j \in 1..g : v[z + j] = q[j]
  <2> HIDE DEF z
  <2>0. /\ w \o q \in Seq(WireEvents) /\ Len(w \o q) = Len(w) + Len(q)
        /\ \A l \in 1..(Len(w) + Len(q)) :
             (w \o q)[l] = IF l <= Len(w) THEN w[l] ELSE q[l - Len(w)]
    <3>1. w \in Seq(WireEvents) /\ q \in Seq(WireEvents)
      BY <1>1, <1>3
    <3> HIDE DEF v
    <3> QED
      BY <3>1, ConcatProperties, ZenonT(30)
  <2>1. v \in Seq(WireEvents) /\ Len(v) = z + g /\ DOMAIN v = 1..Len(v)
    <3>1. v \in Seq(WireEvents) /\ Len(v) = z + g
      BY <1>3, <2>0 DEF z
    <3> HIDE DEF v
    <3> QED
      BY <3>1
  <2>2. \A l \in 1..Len(v) : v[l] = IF l <= z THEN w[l] ELSE q[l - z]
    BY <1>3, <2>0 DEF z
  <2>3. \A l \in 1..z : l \in 1..Len(v) /\ l <= z
    BY <1>1, <2>1
  <2>4. \A j \in 1..g : z + j \in 1..Len(v) /\ ~(z + j <= z) /\ (z + j) - z = j
    BY <1>1, <2>1
  <2> QED
    BY <2>1, <2>2, <2>3, <2>4
<1> HIDE DEF v, z
<1>5. /\ \A l \in DOMAIN w : l \in DOMAIN v /\ v[l] = w[l] /\ l \in Nat /\ l <= z
      /\ \A j \in 1..g : z + j \in DOMAIN v /\ v[z + j].k = "stop" /\ v[z + j].i = x[j] /\ v[z + j].n = 0
      /\ \A l \in DOMAIN v : l \in DOMAIN w \/ \E j \in 1..g : l = z + j
  <2>1. \A l \in 1..(z + g) : l \in 1..z \/ (l - z \in 1..g /\ l = z + (l - z))
    BY <1>1
  <2>2. \A l \in DOMAIN v : l \in DOMAIN w \/ \E j \in 1..g : l = z + j
    BY <1>1, <1>4, <2>1
  <2>3. \A l \in 1..z : l \in 1..(z + g) /\ l \in Nat /\ l <= z
    BY <1>1
  <2>4. \A j \in 1..g : z + j \in 1..(z + g)
    BY <1>1
  <2>5. \A l \in DOMAIN w : l \in DOMAIN v /\ v[l] = w[l] /\ l \in Nat /\ l <= z
    BY <1>1, <1>4, <2>3 DEF z
  <2>6. \A j \in 1..g : z + j \in DOMAIN v /\ v[z + j].k = "stop" /\ v[z + j].i = x[j] /\ v[z + j].n = 0
    BY <1>3, <1>4, <2>4
  <2> QED
    BY <2>2, <2>5, <2>6
<1>6. \A i : BeginsAt(v, i) = BeginsAt(w, i) /\ BeginsAt(w, i) \subseteq DOMAIN w
  BY <1>5 DEF BeginsAt, BlockKinds
<1>7. \A i : StopsAt(v, i) = StopsAt(w, i) \cup {z + j : j \in {m \in 1..g : x[m] = i}}
             /\ StopsAt(w, i) \subseteq DOMAIN w
  BY <1>5 DEF StopsAt
<1>8. \A j \in 1..g : BeginsAt(w, x[j]) # {} /\ StopsAt(w, x[j]) = {} /\ x[j] \in Nat
  BY DEF Running
<1>9. \A i \in Nat : \A j, l \in StopsAt(v, i) : j = l
  <2> SUFFICES ASSUME NEW i \in Nat, NEW j \in StopsAt(v, i), NEW l \in StopsAt(v, i) PROVE j = l
    OBVIOUS
  <2>1. CASE StopsAt(w, i) = {}
    BY <1>7, <2>1
  <2>2. CASE StopsAt(w, i) # {}
    <3>1. {m \in 1..g : x[m] = i} = {}
      BY <1>8, <2>2
    <3>2. StopsAt(v, i) = StopsAt(w, i)
      BY <1>7, <3>1
    <3> QED
      BY <3>2 DEF WireLegal
  <2> QED
    BY <2>1, <2>2
<1>10. \A l \in DOMAIN w : \A i \in Nat :
         (RunsAt(w, l, i) => RunsAt(v, l, i)) /\ (RestsAt(w, l, i) => RestsAt(v, l, i))
  <2>1. \A l \in DOMAIN w : \A j \in 1..g : ~(z + j < l)
    BY <1>1, <1>5
  <2>2. \A l \in DOMAIN w : \A i \in Nat : \A a :
          a < l => (a \in StopsAt(v, i) <=> a \in StopsAt(w, i))
    BY <1>7, <2>1
  <2> QED
    BY <1>6, <2>2 DEF RunsAt, RestsAt
<1>11. \A j \in 1..g : RunsAt(v, z + j, x[j])
  <2> SUFFICES ASSUME NEW j \in 1..g PROVE RunsAt(v, z + j, x[j])
    OBVIOUS
  <2>1. \A a \in BeginsAt(v, x[j]) : a < z + j
    BY <1>1, <1>5, <1>6
  <2>2. StopsAt(v, x[j]) \subseteq {z + j}
    BY <1>7, <1>8
  <2>3. ~(z + j < z + j)
    BY <1>1
  <2> QED
    BY <1>6, <1>8, <2>1, <2>2, <2>3 DEF RunsAt
<1>12. \A l \in DOMAIN v : v[l].k \in {"delta", "stop"} => RunsAt(v, l, v[l].i)
  <2>1. \A l \in DOMAIN w : w[l].i \in Nat
    <3>1. \A l \in DOMAIN w : w[l] \in WireEvents
      BY <1>1, Elements
    <3> QED
      BY <3>1 DEF WireEvents
  <2> QED
    BY <1>5, <1>10, <1>11, <2>1 DEF WireLegal
<1>13. \A l \in DOMAIN v : v[l].k \in {"text", "thinking"} => \A i \in Nat : RestsAt(v, l, i)
  BY <1>5, <1>10 DEF WireLegal
<1>14. \A j, l \in DOMAIN v : j < l /\ v[j].n # 0 /\ v[l].n # 0 => v[j].n <= v[l].n
  BY <1>5 DEF WireLegal
<1>15. WireLegal(v, next)
  BY <1>4, <1>6, <1>9, <1>12, <1>13, <1>14 DEF WireLegal
<1>16. NumbersUpTo(v, n) /\ NoEnd(v)
  BY <1>5 DEF NumbersUpTo, NoEnd
<1>17. \A i \in Nat : Running(v, i) <=> Running(w, i) /\ \A j \in 1..g : x[j] # i
  <2> SUFFICES ASSUME NEW i \in Nat
               PROVE  Running(v, i) <=> Running(w, i) /\ \A j \in 1..g : x[j] # i
    OBVIOUS
  <2> DEFINE new == {z + j : j \in {m \in 1..g : x[m] = i}}
  <2>1. StopsAt(v, i) = StopsAt(w, i) \cup new
    BY <1>7
  <2>2. new = {} <=> \A j \in 1..g : x[j] # i
    <3>1. \A j \in 1..g : x[j] = i => z + j \in new
      OBVIOUS
    <3>2. \A l \in new : \E j \in 1..g : x[j] = i
      OBVIOUS
    <3> HIDE DEF new
    <3> QED
      BY <3>1, <3>2
  <2> HIDE DEF new
  <2> QED
    BY <1>6, <2>1, <2>2 DEF Running
<1> QED
  BY <1>15, <1>16, <1>17 DEF v, q, WithStops

(* the calls that are closed are the first ones *)
LEMMA GoodCalls ==
  ASSUME NEW q, NEW T, q \in Seq(T)
  PROVE  /\ U!Valid(q) \in 0..Len(q)
         /\ \A j \in 1..U!Valid(q) : ~U!Bad(q[j])
<1> DEFINE good == {j \in DOMAIN q : \A k \in 1..j : ~U!Bad(q[k])}
<1>1. Len(q) \in Nat /\ DOMAIN q = 1..Len(q)
  OBVIOUS
<1>2. IsFiniteSet(1..Len(q)) /\ Cardinality(1..Len(q)) = Len(q) /\ good \subseteq 1..Len(q)
  BY <1>1, FS_Interval
<1>3. IsFiniteSet(good) /\ Cardinality(good) \in Nat /\ Cardinality(good) <= Len(q)
  BY <1>2, FS_Subset, FS_CardinalityType
<1>4. \A j \in 1..Cardinality(good) : j \in good
  <2> SUFFICES ASSUME NEW j \in 1..Cardinality(good), j \notin good PROVE FALSE
    OBVIOUS
  <2>1. j \in Nat /\ j >= 1 /\ j <= Cardinality(good) /\ j - 1 \in Nat
    BY <1>3
  <2>2. \A l \in good : l \in 1..(j - 1)
    <3> SUFFICES ASSUME NEW l \in good, ~(l \in 1..(j - 1)) PROVE FALSE
      OBVIOUS
    <3>1. l \in 1..Len(q) /\ j <= l
      BY <1>2, <2>1
    <3>2. j \in 1..Len(q) /\ 1..j \subseteq 1..l
      BY <1>1, <2>1, <3>1
    <3>3. \A k \in 1..l : ~U!Bad(q[k])
      OBVIOUS
    <3>4. j \in good
      BY <1>1, <3>2, <3>3
    <3> QED
      BY <3>4
  <2>3. IsFiniteSet(1..(j - 1)) /\ Cardinality(1..(j - 1)) = j - 1
    <3> DEFINE m == j - 1
    <3>1. m \in Nat
      BY <2>1
    <3> HIDE DEF good, m
    <3>2. IsFiniteSet(1..m) /\ Cardinality(1..m) = m
      BY <3>1, FS_Interval
    <3> QED
      BY <3>2 DEF m
  <2> HIDE DEF good
  <2>4. Cardinality(good) <= j - 1
    BY <2>2, <2>3, FS_Subset
  <2> QED
    BY <1>3, <2>1, <2>4
<1>5. \A j \in 1..Cardinality(good) : ~U!Bad(q[j])
  <2> SUFFICES ASSUME NEW j \in 1..Cardinality(good) PROVE ~U!Bad(q[j])
    OBVIOUS
  <2>1. \A k \in 1..j : ~U!Bad(q[k])
    BY <1>4
  <2>2. j \in 1..j
    BY <1>3
  <2> QED
    BY <2>1, <2>2
<1>6. U!Valid(q) = Cardinality(good)
  BY DEF U!Valid, U!Cardinality, Cardinality, U!IsFiniteSet, IsFiniteSet
<1> QED
  BY <1>1, <1>3, <1>5, <1>6

LEMMA ClosedKeeps ==
  ASSUME NEW n \in Nat, NEW s, StateIs(s, n)
  PROVE  LET d == U!Closed(s) IN
         /\ d = [wire |-> d.wire, text |-> d.text, thinking |-> d.thinking, next |-> d.next,
                 tools |-> d.tools, fail |-> d.fail]
         /\ WireLegal(d.wire, d.next) /\ NumbersUpTo(d.wire, n) /\ NoEnd(d.wire)
         /\ d.tools = s.tools /\ d.next = s.next /\ d.text = -1 /\ d.thinking = -1
         /\ ~d.fail => /\ \A j \in DOMAIN d.tools : ~U!Bad(d.tools[j])
                       /\ \A i \in Nat : ~Running(d.wire, i)
<1> DEFINE c1 == U!Close(s, "text")
           c == U!Close(c1, "thinking")
           g == U!Valid(c.tools)
           q == U!Stops(c.tools)
           x == [j \in 1..g |-> c.tools[j].index]
           w == c.wire \o [j \in 1..g |-> U!Event("stop", x[j], 0)]
           bad == g < Len(c.tools)
           d == [wire |-> w, text |-> c.text, thinking |-> c.thinking,
                 next |-> c.next, tools |-> c.tools, fail |-> bad]
<1>1. /\ StateIs(c1, n) /\ c1.next = s.next /\ c1.tools = s.tools /\ c1.text = -1
  BY CloseKeeps
<1>2. U!Closed(s) = [c EXCEPT !.wire = @ \o q, !.fail = bad]
  BY DEF U!Closed
<1> HIDE DEF c1
<1>3. /\ StateIs(c, n) /\ c.next = s.next /\ c.tools = s.tools
      /\ c.text = -1 /\ c.thinking = -1
  BY <1>1, CloseKeeps
<1> HIDE DEF c
<1>4. /\ c = [wire |-> c.wire, text |-> c.text, thinking |-> c.thinking, next |-> c.next,
              tools |-> c.tools, fail |-> c.fail]
      /\ c.next \in Nat /\ CallsAre(c.tools, c.next)
  BY <1>3 DEF StateIs
<1>5. /\ c.tools \in Seq(CallRecords(c.next)) /\ Len(c.tools) \in Nat
      /\ DOMAIN c.tools = 1..Len(c.tools)
      /\ \A j \in DOMAIN c.tools : c.tools[j].index \in Nat
  BY <1>4, CallsTypes
<1>6. g \in 0..Len(c.tools) /\ \A j \in 1..g : ~U!Bad(c.tools[j])
  BY <1>5, GoodCalls
<1> HIDE DEF g
<1>7. \A j \in 1..g : j \in DOMAIN c.tools /\ c.tools[j].opened /\ x[j] = c.tools[j].index
  BY <1>5, <1>6 DEF U!Bad
<1>8. q = [j \in 1..g |-> U!Event("stop", x[j], 0)]
  BY <1>7 DEF U!Stops, g
<1> HIDE DEF x
<1>9. WireLegal(c.wire, c.next) /\ NumbersUpTo(c.wire, n) /\ NoEnd(c.wire)
  BY <1>3 DEF StateIs, WireIs
<1>10. \A j \in 1..g : x[j] \in Nat /\ Running(c.wire, x[j])
  BY <1>3, <1>5, <1>7 DEF StateIs, WireIs, OpenedAt
<1>11. \A j, l \in 1..g : x[j] = x[l] => j = l
  BY <1>4, <1>7 DEF CallsAre
<1>12. g \in Nat
  BY <1>5, <1>6
<1>13. /\ WireLegal(w, c.next) /\ NumbersUpTo(w, n) /\ NoEnd(w)
       /\ \A i \in Nat : Running(w, i) <=> Running(c.wire, i) /\ \A j \in 1..g : x[j] # i
  <2>1. c.next \in Nat /\ g \in Nat
    BY <1>4, <1>12
  <2>2. w = WithStops(c.wire, g, x)
    BY DEF WithStops
  <2> HIDE DEF w, d, bad
  <2> QED
    BY <1>9, <1>10, <1>11, <2>1, <2>2, StopsAppended
<1>14. U!Closed(s) = d
  <2> DEFINE y == [c EXCEPT !.wire = @ \o q]
  <2>1. U!Closed(s) = [y EXCEPT !.fail = bad]
    BY <1>2
  <2>2. c.wire \o q = w
    BY <1>8
  <2> HIDE DEF q, w, bad
  <2>3. y = [wire |-> w, text |-> c.text, thinking |-> c.thinking, next |-> c.next,
             tools |-> c.tools, fail |-> c.fail]
    BY <1>4, <2>2
  <2> HIDE DEF y
  <2>4. \A z : [y EXCEPT !.fail = z]
             = [wire |-> w, text |-> c.text, thinking |-> c.thinking, next |-> c.next,
                tools |-> c.tools, fail |-> z]
    BY <2>3
  <2> QED
    BY <2>1, <2>4
<1>15. ~bad => /\ \A j \in DOMAIN c.tools : ~U!Bad(c.tools[j])
               /\ \A i \in Nat : ~Running(w, i)
  <2> SUFFICES ASSUME ~bad
               PROVE  /\ \A j \in DOMAIN c.tools : ~U!Bad(c.tools[j])
                      /\ \A i \in Nat : ~Running(w, i)
    OBVIOUS
  <2>1. g = Len(c.tools)
    BY <1>5, <1>6
  <2>2. \A j \in DOMAIN c.tools : j \in 1..g
    BY <1>5, <2>1
  <2>3. \A i \in Nat : Running(c.wire, i) => \E j \in DOMAIN c.tools : c.tools[j].index = i
    BY <1>3 DEF StateIs, WireIs, OpenedAt
  <2> HIDE DEF w
  <2> QED
    BY <1>6, <1>7, <1>13, <2>2, <2>3
<1> HIDE DEF w, bad
<1> QED
  BY <1>3, <1>13, <1>14, <1>15

(* message_delta and message_stop, after which nothing comes *)
EndsLast(w) ==
    \A j \in DOMAIN w : w[j].k = "message_stop" => j = Len(w) /\ \A i \in Nat : RestsAt(w, j, i)

LEMMA EndAppended ==
  ASSUME NEW next, NEW w, WireLegal(w, next), NoEnd(w), \A i \in Nat : ~Running(w, i)
  PROVE  LET v == Append(Append(w, U!Event("message_delta", 0, 0)),
                         U!Event("message_stop", 0, 0)) IN
         WireLegal(v, next) /\ EndsLast(v)
<1> DEFINE a == U!Event("message_delta", 0, 0)
           b == U!Event("message_stop", 0, 0)
           u == Append(w, a)
           v == Append(u, b)
<1>1. /\ a \in WireEvents /\ a.k = "message_delta" /\ a.n = 0
      /\ b \in WireEvents /\ b.k = "message_stop" /\ b.n = 0
      /\ a.k \notin BlockKinds /\ b.k \notin BlockKinds
  BY DEF U!Event, WireEvents, WireKinds, BlockKinds
<1> HIDE DEF a, b
<1>2. May(w, next, a)
  BY <1>1 DEF May
<1>3. WireLegal(u, next) /\ \A i \in Nat : ~Running(u, i)
  <2>1. WireLegal(u, next)
    BY <1>1, <1>2, LegalAppended
  <2>2. \A i \in Nat : ~Running(u, i)
    BY <1>1, <1>2, RunningAppended
  <2> QED
    BY <2>1, <2>2
<1>4. \A j \in DOMAIN u : u[j].k # "message_stop"
  <2>1. w \in Seq(WireEvents)
    BY DEF WireLegal
  <2>2. \A j \in DOMAIN u : (j \in DOMAIN w /\ u[j] = w[j]) \/ u[j] = a
    BY <1>1, <2>1, OneMore
  <2> QED
    BY <1>1, <2>2 DEF NoEnd
<1> HIDE DEF u
<1>5. May(u, next, b)
  BY <1>1 DEF May
<1>6. WireLegal(v, next) /\ \A i \in Nat : ~Running(v, i)
  <2>1. WireLegal(v, next)
    BY <1>1, <1>3, <1>5, LegalAppended
  <2>2. \A i \in Nat : ~Running(v, i)
    BY <1>1, <1>3, <1>5, RunningAppended
  <2> QED
    BY <2>1, <2>2
<1>7. u \in Seq(WireEvents)
  BY <1>3 DEF WireLegal
<1>8. /\ Len(u) \in Nat /\ DOMAIN u = 1..Len(u) /\ Len(v) = Len(u) + 1 /\ DOMAIN v = 1..(Len(u) + 1)
      /\ \A j \in 1..Len(u) : v[j] = u[j]
  BY <1>1, <1>7, OneMore
<1>9. \A i \in Nat : RestsAt(v, Len(v), i)
  <2> SUFFICES ASSUME NEW i \in Nat, NEW l \in BeginsAt(v, i), l < Len(v)
               PROVE  \E m \in StopsAt(v, i) : m < Len(v)
    BY DEF RestsAt
  <2>1. PICK m \in StopsAt(v, i) : TRUE
    BY <1>6 DEF Running
  <2>2. m \in DOMAIN v /\ v[m].k = "stop"
    BY DEF StopsAt
  <2>3. v[Len(v)] = b
    BY <1>1, <1>7, <1>8, OneMore
  <2>4. m # Len(v)
    BY <1>1, <2>2, <2>3
  <2>5. m < Len(v)
    BY <1>8, <2>2, <2>4
  <2> QED
    BY <2>5
<1>10. EndsLast(v)
  <2>1. \A j \in DOMAIN v : v[j].k = "message_stop" => j = Len(v)
    <3> HIDE DEF v
    <3>1. \A j \in 1..(Len(u) + 1) : j \in 1..Len(u) \/ j = Len(u) + 1
      BY <1>8
    <3> QED
      BY <1>4, <1>8, <3>1
  <2> HIDE DEF v
  <2> QED
    BY <1>9, <2>1 DEF EndsLast
<1> QED
  BY <1>6, <1>10 DEF u, a, b
-----------------------------------------------------------------------------
(* The opened message; a body that came whole; and then every frame.       *)
LEMMA StartKeeps ==
  ASSUME NEW n \in Nat, NEW s, StateIs(s, n)
  PROVE  LET d == U!Emit(s, U!Event("message_start", 0, 0)) IN
         StateIs(d, n) /\ d.tools = s.tools /\ d.text = s.text /\ d.thinking = s.thinking
<1> DEFINE e == [k |-> "message_start", i |-> 0, n |-> 0]
           d == [wire |-> Append(s.wire, e), text |-> s.text, thinking |-> s.thinking,
                 next |-> s.next, tools |-> s.tools, fail |-> s.fail]
<1>1. s = [wire |-> s.wire, text |-> s.text, thinking |-> s.thinking, next |-> s.next,
           tools |-> s.tools, fail |-> s.fail] /\ s.next \in Nat /\ CallsAre(s.tools, s.next)
  BY DEF StateIs
<1>2. U!Emit(s, U!Event("message_start", 0, 0)) = d
  <2>1. U!Event("message_start", 0, 0) = e
    BY DEF U!Event
  <2> HIDE DEF e
  <2>2. U!Emit(s, e) = d
    BY <1>1 DEF U!Emit
  <2> QED
    BY <2>1, <2>2
<1>3. e \in WireEvents /\ e.k = "message_start" /\ e.n = 0 /\ e.k \notin BlockKinds
  BY DEF WireEvents, WireKinds, BlockKinds
<1> HIDE DEF e
<1>4. WireLegal(s.wire, s.next) /\ NumbersUpTo(s.wire, n) /\ NoEnd(s.wire)
  BY DEF StateIs, WireIs
<1>5. May(s.wire, s.next, e)
  BY <1>3, <1>4 DEF May
<1>6. /\ WireLegal(d.wire, d.next) /\ NumbersUpTo(d.wire, n) /\ NoEnd(d.wire)
      /\ \A l \in Nat :
            /\ Running(d.wire, l) <=> Running(s.wire, l)
            /\ CallBegun(d.wire, l) <=> CallBegun(s.wire, l)
            /\ BeginsAt(d.wire, l) = {} <=> BeginsAt(s.wire, l) = {}
  <2>1. e.k # "message_stop" /\ e.n <= n /\ e.k # "tool_use" /\ e.k # "stop"
    BY <1>3
  <2> QED
    BY <1>3, <1>4, <1>5, <2>1, Emitted
<1>7. \A j \in DOMAIN s.tools : s.tools[j].index \in Nat
  BY <1>1, CallsTypes
<1>8. WireIs(d.wire, d, n)
  BY <1>6, <1>7 DEF StateIs, WireIs
<1>9. StateIs(d, n)
  BY <1>1, <1>8 DEF StateIs
<1> QED
  BY <1>2, <1>9, SMTT(30)

(* a whole block *)
Idle(s) == StateIs(s, 0) /\ s.tools = <<>> /\ s.text = -1 /\ s.thinking = -1

LEMMA WholeBlockKeeps ==
  ASSUME NEW s, Idle(s)
  PROVE  Idle(U!WholeBlock(s))
<1> DEFINE p == U!Prose(s, "text", "thinking", 0)
<1>1. StateIs(p, 0) /\ p.tools = <<>> /\ p.text \in Nat
  BY ProseKeeps DEF Idle
<1>2. U!WholeBlock(s) = U!Close(p, "text")
  BY DEF U!WholeBlock
<1> HIDE DEF p
<1>3. p.thinking = -1
  BY <1>1 DEF StateIs
<1> QED
  BY <1>1, <1>2, <1>3, CloseKeeps DEF Idle

(* What is known of the translation, whatever it has come to.              *)
CommittedCalls(w) ==
    \/ completed /\ finishReason
    \/ \A i \in Nat : CallBegun(w, i) => StopsAt(w, i) = {}

UpstreamInv ==
    /\ sent \in Seq(U!Plain) /\ Len(sent) <= MaxFrames
    /\ completed \in BOOLEAN /\ finishReason \in BOOLEAN
    /\ stream \in {"open", "done", "failed"}
    /\ textOpen \in Nat \cup {-1} /\ thinkingOpen \in Nat \cup {-1} /\ nextIndex \in Nat
    /\ CallsAre(tools, nextIndex)
    /\ WireLegal(events, nextIndex) /\ EndsLast(events) /\ CommittedCalls(events)
    /\ stream = "done" => \A j \in DOMAIN tools : ~U!Bad(tools[j])
    /\ stream = "open" => StateIs(U!State, Len(sent))
    /\ stream = "open" /\ sent = <<>> => Idle(U!State)

(* A translator that goes on, or stops here, leaves what is known. *)
LEMMA StateShows ==
  ASSUME NEW n \in Nat, NEW s, StateIs(s, n)
  PROVE  /\ s.text \in Nat \cup {-1} /\ s.thinking \in Nat \cup {-1} /\ s.next \in Nat
         /\ CallsAre(s.tools, s.next)
         /\ WireLegal(s.wire, s.next) /\ EndsLast(s.wire)
         /\ \A i \in Nat : CallBegun(s.wire, i) => StopsAt(s.wire, i) = {}
<1>1. WireLegal(s.wire, s.next) /\ NoEnd(s.wire)
  BY DEF StateIs, WireIs
<1>2. EndsLast(s.wire)
  BY <1>1 DEF NoEnd, EndsLast
<1>3. \A i \in Nat : CallBegun(s.wire, i) => StopsAt(s.wire, i) = {}
  BY DEF StateIs, WireIs, Running
<1> QED
  BY <1>1, <1>2, <1>3 DEF StateIs

LEMMA StateRecord ==
  /\ U!State.wire = events /\ U!State.text = textOpen /\ U!State.thinking = thinkingOpen
  /\ U!State.next = nextIndex /\ U!State.tools = tools
  /\ U!State = [wire |-> U!State.wire, text |-> U!State.text, thinking |-> U!State.thinking,
                next |-> U!State.next, tools |-> U!State.tools, fail |-> U!State.fail]
BY DEF U!State

LEMMA UpstreamStarts == TranslatorsAssumption /\ U!Init => UpstreamInv
<1> SUFFICES ASSUME TranslatorsAssumption, U!Init PROVE UpstreamInv
  OBVIOUS
<1>1. /\ sent = <<>> /\ events = <<>> /\ textOpen = -1 /\ thinkingOpen = -1 /\ nextIndex = 0
      /\ finishReason = FALSE /\ completed = FALSE /\ tools = <<>> /\ stream = "open"
  BY DEF U!Init, U!NoIndex
<1>2. \A T : <<>> \in Seq(T) /\ Len(<<>>) = 0 /\ DOMAIN <<>> = {}
  OBVIOUS
<1>3. Idle(U!State)
  <2>1. CallsAre(tools, nextIndex)
    BY <1>1, <1>2 DEF CallsAre
  <2>2. \A i : BeginsAt(events, i) = {} /\ StopsAt(events, i) = {}
    BY <1>1, <1>2 DEF BeginsAt, StopsAt
  <2>3. WireLegal(events, nextIndex) /\ NumbersUpTo(events, 0) /\ NoEnd(events)
    BY <1>1, <1>2, <2>2 DEF WireLegal, NumbersUpTo, NoEnd
  <2>4. \A i \in Nat : ~Running(events, i) /\ ~CallBegun(events, i) /\ ~OpenedAt(tools, i)
    BY <1>1, <1>2, <2>2 DEF Running, CallBegun, OpenedAt
  <2>5. WireIs(U!State.wire, U!State, 0)
    <3>1. \A i \in Nat : i # -1
      OBVIOUS
    <3> QED
      BY <1>1, <1>2, <2>3, <2>4, <3>1, StateRecord DEF WireIs
  <2> QED
    BY <1>1, <2>1, <2>5, StateRecord DEF Idle, StateIs
<1>4. StateIs(U!State, 0)
  BY <1>3 DEF Idle
<1>5. /\ CallsAre(tools, nextIndex) /\ WireLegal(events, nextIndex) /\ EndsLast(events)
      /\ CommittedCalls(events)
  BY <1>4, StateShows, StateRecord DEF CommittedCalls
<1>6. sent \in Seq(U!Plain) /\ Len(sent) <= MaxFrames /\ Len(sent) = 0
  BY <1>1, <1>2 DEF TranslatorsAssumption
<1> QED
  BY <1>1, <1>3, <1>4, <1>5, <1>6 DEF UpstreamInv

LEMMA Becomes ==
  ASSUME NEW n \in Nat, NEW s, StateIs(s, n), U!Become(s)
  PROVE  /\ StateIs(U!State', n)
         /\ events' = s.wire /\ textOpen' = s.text /\ thinkingOpen' = s.thinking
         /\ nextIndex' = s.next /\ tools' = s.tools
<1>1. /\ events' = s.wire /\ textOpen' = s.text /\ thinkingOpen' = s.thinking
      /\ nextIndex' = s.next /\ tools' = s.tools
  BY DEF U!Become
<1> DEFINE d == [wire |-> s.wire, text |-> s.text, thinking |-> s.thinking,
                 next |-> s.next, tools |-> s.tools, fail |-> FALSE]
<1>2. U!State' = d
  BY <1>1 DEF U!State
<1>3. WireIs(d.wire, d, n)
  BY DEF StateIs, WireIs
<1>4. StateIs(d, n)
  BY <1>3 DEF StateIs
<1> QED
  BY <1>1, <1>2, <1>4

LEMMA FrameKeeps ==
  ASSUME TranslatorsAssumption, UpstreamInv, NEW f \in U!Plain, U!Frame(f)
  PROVE  UpstreamInv'
<1> DEFINE start == IF events = <<>> THEN U!Emit(U!State, U!Event("message_start", 0, 0)) ELSE U!State
           n == Len(sent) + 1
           s == U!Handle(start, f, n)
<1>1. /\ stream = "open" /\ Len(sent) < MaxFrames /\ sent' = Append(sent, f)
      /\ U!Become(s) /\ stream' = (IF s.fail THEN "failed" ELSE "open")
      /\ finishReason' = (finishReason \/ f.finish) /\ completed' = completed
  BY DEF U!Frame
<1>2. /\ sent \in Seq(U!Plain) /\ Len(sent) \in Nat /\ MaxFrames \in Nat
      /\ StateIs(U!State, Len(sent))
      /\ completed \in BOOLEAN /\ finishReason \in BOOLEAN
  <2>1. \A T : \A q \in Seq(T) : Len(q) \in Nat
    OBVIOUS
  <2> QED
    BY <1>1, <2>1 DEF UpstreamInv, TranslatorsAssumption
<1>3. /\ sent' \in Seq(U!Plain) /\ Len(sent') = n /\ n <= MaxFrames /\ sent' # <<>>
      /\ n \in Nat /\ Len(sent) <= n
  <2>1. \A T : \A q \in Seq(T) : \A x \in T :
          Append(q, x) \in Seq(T) /\ Len(Append(q, x)) = Len(q) + 1 /\ Append(q, x) # <<>>
    OBVIOUS
  <2> QED
    BY <1>1, <1>2, <2>1
<1>4. StateIs(start, n)
  BY <1>2, <1>3, LaterFrame, StartKeeps
<1> HIDE DEF start, n
<1>5. StateIs(s, n)
  BY <1>3, <1>4, HandleKeeps
<1> HIDE DEF s
<1>6. /\ StateIs(U!State', n)
      /\ events' = s.wire /\ textOpen' = s.text /\ thinkingOpen' = s.thinking
      /\ nextIndex' = s.next /\ tools' = s.tools
  BY <1>1, <1>3, <1>5, Becomes
<1>7. /\ s.text \in Nat \cup {-1} /\ s.thinking \in Nat \cup {-1} /\ s.next \in Nat
      /\ CallsAre(s.tools, s.next)
      /\ WireLegal(s.wire, s.next) /\ EndsLast(s.wire)
      /\ \A i \in Nat : CallBegun(s.wire, i) => StopsAt(s.wire, i) = {}
  BY <1>3, <1>5, StateShows
<1>8. CommittedCalls(events)'
  BY <1>6, <1>7 DEF CommittedCalls
<1>9. f.finish \in BOOLEAN
  BY DEF U!Plain, U!Frames
<1>10. stream' \in {"open", "failed"} /\ completed' \in BOOLEAN /\ finishReason' \in BOOLEAN
  BY <1>1, <1>2, <1>9
<1> QED
  BY <1>3, <1>6, <1>7, <1>8, <1>10 DEF UpstreamInv

(* the end of a stream, or of a body *)
LEMMA FinishKeeps ==
  ASSUME NEW s, s = [wire |-> s.wire, text |-> s.text, thinking |-> s.thinking,
                     next |-> s.next, tools |-> s.tools, fail |-> s.fail],
         WireLegal(s.wire, s.next), NoEnd(s.wire), \A i \in Nat : ~Running(s.wire, i)
  PROVE  LET d == U!Emit(U!Emit(s, U!Event("message_delta", 0, 0)), U!Event("message_stop", 0, 0)) IN
         /\ WireLegal(d.wire, d.next) /\ EndsLast(d.wire)
         /\ d.text = s.text /\ d.thinking = s.thinking /\ d.next = s.next /\ d.tools = s.tools
<1> DEFINE a == U!Event("message_delta", 0, 0)
           b == U!Event("message_stop", 0, 0)
           u == U!Emit(s, a)
           d == U!Emit(u, b)
<1>1. WireLegal(Append(Append(s.wire, a), b), s.next) /\ EndsLast(Append(Append(s.wire, a), b))
  BY EndAppended
<1> HIDE DEF a, b
<1>2. u = [wire |-> Append(s.wire, a), text |-> s.text, thinking |-> s.thinking,
           next |-> s.next, tools |-> s.tools, fail |-> s.fail]
  BY DEF U!Emit
<1> HIDE DEF u
<1>3. d = [wire |-> Append(Append(s.wire, a), b), text |-> s.text, thinking |-> s.thinking,
           next |-> s.next, tools |-> s.tools, fail |-> s.fail]
  <2> DEFINE x == Append(s.wire, a)
             y == Append(x, b)
  <2>1. u = [wire |-> x, text |-> s.text, thinking |-> s.thinking,
             next |-> s.next, tools |-> s.tools, fail |-> s.fail]
    BY <1>2
  <2>2. d = [u EXCEPT !.wire = Append(u.wire, b)]
    BY DEF U!Emit
  <2> HIDE DEF x, d
  <2>3. u.wire = x
    BY <2>1
  <2>4. d = [u EXCEPT !.wire = y]
    BY <2>2, <2>3
  <2> HIDE DEF y
  <2>5. d = [wire |-> y, text |-> s.text, thinking |-> s.thinking,
             next |-> s.next, tools |-> s.tools, fail |-> s.fail]
    BY <2>1, <2>4
  <2> QED
    BY <2>5 DEF x, y
<1> HIDE DEF d
<1>4. /\ WireLegal(d.wire, d.next) /\ EndsLast(d.wire)
      /\ d.text = s.text /\ d.thinking = s.thinking /\ d.next = s.next /\ d.tools = s.tools
  BY <1>1, <1>3
<1> QED
  BY <1>4 DEF d, u, a, b

LEMMA EndKeeps ==
  ASSUME TranslatorsAssumption, UpstreamInv, U!End
  PROVE  UpstreamInv'
<1>1. /\ stream = "open" /\ sent' = sent /\ finishReason' = finishReason /\ completed' = completed
  BY DEF U!End
<1>2. sent \in Seq(U!Plain) /\ Len(sent) \in Nat /\ StateIs(U!State, Len(sent))
  <2>1. \A T : \A q \in Seq(T) : Len(q) \in Nat
    OBVIOUS
  <2> QED
    BY <1>1, <2>1 DEF UpstreamInv
<1>3. CASE ~U!Confirmed
  <2>1. /\ stream' = "failed" /\ events' = events /\ textOpen' = textOpen
        /\ thinkingOpen' = thinkingOpen /\ nextIndex' = nextIndex /\ tools' = tools
    BY <1>3 DEF U!End
  <2>2. CommittedCalls(events)'
    BY <1>1, <2>1 DEF UpstreamInv, CommittedCalls
  <2> QED
    BY <1>1, <2>1, <2>2 DEF UpstreamInv
<1>4. CASE U!Confirmed
  <2> DEFINE s == U!Closed(U!State)
             d == IF s.fail THEN s
                  ELSE U!Emit(U!Emit(s, U!Event("message_delta", 0, 0)), U!Event("message_stop", 0, 0))
  <2>1. U!Become(d) /\ stream' = (IF s.fail THEN "failed" ELSE "done")
    BY <1>4 DEF U!End
  <2>2. /\ s = [wire |-> s.wire, text |-> s.text, thinking |-> s.thinking, next |-> s.next,
                tools |-> s.tools, fail |-> s.fail]
        /\ WireLegal(s.wire, s.next) /\ NoEnd(s.wire)
        /\ s.tools = tools /\ s.next = nextIndex /\ s.text = -1 /\ s.thinking = -1
        /\ ~s.fail => /\ \A j \in DOMAIN s.tools : ~U!Bad(s.tools[j])
                      /\ \A i \in Nat : ~Running(s.wire, i)
    BY <1>2, ClosedKeeps, StateRecord
  <2> HIDE DEF s
  <2>3. /\ WireLegal(d.wire, d.next) /\ EndsLast(d.wire)
        /\ d.text = s.text /\ d.thinking = s.thinking /\ d.next = s.next /\ d.tools = s.tools
    <3>1. CASE s.fail
      BY <2>2, <3>1 DEF NoEnd, EndsLast
    <3>2. CASE ~s.fail
      BY <2>2, <3>2, FinishKeeps
    <3> QED
      BY <3>1, <3>2
  <2> HIDE DEF d
  <2>4. /\ events' = d.wire /\ textOpen' = -1 /\ thinkingOpen' = -1
        /\ nextIndex' = nextIndex /\ tools' = tools /\ d.next = nextIndex
    BY <2>1, <2>2, <2>3 DEF U!Become
  <2>5. completed /\ finishReason
    BY <1>4 DEF U!Confirmed
  <2>6. CommittedCalls(events)'
    BY <1>1, <2>5 DEF CommittedCalls
  <2>7. stream' \in {"done", "failed"} /\ (stream' = "done" => \A j \in DOMAIN tools : ~U!Bad(tools[j]))
    BY <2>1, <2>2
  <2> QED
    BY <1>1, <2>3, <2>4, <2>6, <2>7 DEF UpstreamInv
<1> QED
  BY <1>3, <1>4

LEMMA WholeBodyKeeps ==
  ASSUME TranslatorsAssumption, UpstreamInv, U!WholeBody
  PROVE  UpstreamInv'
<1>1. stream = "open" /\ sent = <<>> /\ sent' = sent
  BY DEF U!WholeBody
<1>2. Idle(U!State)
  BY <1>1 DEF UpstreamInv
<1>3. CASE stream' = "failed" /\ UNCHANGED <<events, textOpen, thinkingOpen, nextIndex, tools, completed, finishReason>>
  <2>1. CommittedCalls(events)'
    BY <1>3 DEF UpstreamInv, CommittedCalls
  <2> QED
    BY <1>1, <1>3, <2>1 DEF UpstreamInv
<1>4. ASSUME NEW k \in 0..3,
             LET none == U!Emit(U!State, U!Event("message_start", 0, 0))
                 one == U!WholeBlock(none)
                 two == U!WholeBlock(one)
                 s == CASE k = 0 -> none [] k = 1 -> one
                        [] k = 2 -> two [] OTHER -> U!WholeBlock(two) IN
             /\ U!Become(U!Emit(U!Emit(s, U!Event("message_delta", 0, 0)), U!Event("message_stop", 0, 0)))
             /\ stream' = "done" /\ completed' = TRUE /\ finishReason' = TRUE
      PROVE  UpstreamInv'
  <2> DEFINE none == U!Emit(U!State, U!Event("message_start", 0, 0))
             one == U!WholeBlock(none)
             two == U!WholeBlock(one)
             three == U!WholeBlock(two)
             s == CASE k = 0 -> none [] k = 1 -> one [] k = 2 -> two [] OTHER -> three
             d == U!Emit(U!Emit(s, U!Event("message_delta", 0, 0)), U!Event("message_stop", 0, 0))
  <2>1. U!Become(d) /\ stream' = "done" /\ completed' = TRUE /\ finishReason' = TRUE
    BY <1>4
  <2>2. Idle(none)
    BY <1>2, StartKeeps DEF Idle
  <2> HIDE DEF none
  <2>3. Idle(one)
    BY <2>2, WholeBlockKeeps
  <2> HIDE DEF one
  <2>4. Idle(two)
    BY <2>3, WholeBlockKeeps
  <2> HIDE DEF two
  <2>5. Idle(three)
    BY <2>4, WholeBlockKeeps
  <2> HIDE DEF three
  <2>6. Idle(s)
    BY <2>2, <2>3, <2>4, <2>5
  <2> HIDE DEF s
  <2>7. /\ s = [wire |-> s.wire, text |-> s.text, thinking |-> s.thinking,
                next |-> s.next, tools |-> s.tools, fail |-> s.fail]
        /\ WireLegal(s.wire, s.next) /\ NoEnd(s.wire) /\ s.next \in Nat
        /\ s.tools = <<>> /\ s.text = -1 /\ s.thinking = -1 /\ CallsAre(s.tools, s.next)
    BY <2>6 DEF Idle, StateIs, WireIs
  <2>8. \A i \in Nat : ~Running(s.wire, i)
    BY <2>6 DEF Idle, StateIs, WireIs, OpenedAt
  <2>9. /\ WireLegal(d.wire, d.next) /\ EndsLast(d.wire)
        /\ d.text = s.text /\ d.thinking = s.thinking /\ d.next = s.next /\ d.tools = s.tools
    BY <2>7, <2>8, FinishKeeps
  <2> HIDE DEF d
  <2>10. /\ events' = d.wire /\ textOpen' = -1 /\ thinkingOpen' = -1
         /\ nextIndex' = s.next /\ tools' = <<>> /\ d.next = s.next
    BY <2>1, <2>7, <2>9 DEF U!Become
  <2>11. CommittedCalls(events)'
    BY <2>1 DEF CommittedCalls
  <2>12. DOMAIN tools' = {}
    BY <2>10
  <2>13. sent' \in Seq(U!Plain) /\ Len(sent') <= MaxFrames
    BY <1>1 DEF UpstreamInv
  <2>14. CallsAre(tools', nextIndex') /\ nextIndex' \in Nat
    BY <2>7, <2>10
  <2> QED
    BY <2>1, <2>9, <2>10, <2>11, <2>12, <2>13, <2>14 DEF UpstreamInv
<1> QED
  BY <1>3, <1>4 DEF U!WholeBody

LEMMA UpstreamKept == TranslatorsAssumption /\ UpstreamInv /\ U!Next => UpstreamInv'
<1> SUFFICES ASSUME TranslatorsAssumption, UpstreamInv, U!Next PROVE UpstreamInv'
  OBVIOUS
<1>1. CASE \E f \in U!Plain : U!Frame(f)
  BY <1>1, FrameKeeps
<1>2. CASE U!Done
  <2>1. /\ completed' = TRUE
        /\ UNCHANGED <<sent, events, textOpen, thinkingOpen, nextIndex, finishReason, tools, stream>>
    BY <1>2 DEF U!Done
  <2>2. CommittedCalls(events)'
    BY <2>1 DEF UpstreamInv, CommittedCalls
  <2>3. U!State' = U!State
    BY <2>1 DEF U!State
  <2> QED
    BY <2>1, <2>2, <2>3 DEF UpstreamInv
<1>3. CASE U!Break
  <2>1. /\ stream' = "failed"
        /\ UNCHANGED <<sent, events, textOpen, thinkingOpen, nextIndex, finishReason, completed, tools>>
    BY <1>3 DEF U!Break
  <2>2. CommittedCalls(events)'
    BY <2>1 DEF UpstreamInv, CommittedCalls
  <2> QED
    BY <2>1, <2>2 DEF UpstreamInv
<1>4. CASE U!End
  BY <1>4, EndKeeps
<1>5. CASE U!WholeBody
  BY <1>5, WholeBodyKeeps
<1> QED
  BY <1>1, <1>2, <1>3, <1>4, <1>5 DEF U!Next

LEMMA UpstreamHolds == UpstreamInv => U!TypeOK /\ U!BlocksLegal /\ U!ToolsCommitted
<1> SUFFICES ASSUME UpstreamInv PROVE U!TypeOK /\ U!BlocksLegal /\ U!ToolsCommitted
  OBVIOUS
<1>1. /\ \A i : U!StartsOf(i) = BeginsAt(events, i)
      /\ \A i : U!StopsOf(i) = StopsAt(events, i)
  BY DEF U!StartsOf, U!StopsOf, BeginsAt, StopsAt, U!BlockKinds, BlockKinds
<1>2. /\ WireLegal(events, nextIndex) /\ EndsLast(events) /\ CommittedCalls(events)
      /\ nextIndex \in Nat /\ CallsAre(tools, nextIndex)
  BY DEF UpstreamInv
<1>3. U!TypeOK
  <2>1. \A j \in DOMAIN tools : tools[j].key \in UpstreamCalls /\ tools[j].index < nextIndex
    BY <1>2, CallsTypes
  <2> QED
    BY <2>1 DEF UpstreamInv, U!TypeOK, U!NoIndex
<1>4. U!BlocksLegal
  <2>1. \A S : (\A x, y \in S : x = y) => U!Cardinality(S) <= 1
    <3> SUFFICES ASSUME NEW S, \A x, y \in S : x = y PROVE U!Cardinality(S) <= 1
      OBVIOUS
    <3>1. U!Cardinality(S) = Cardinality(S)
      BY DEF U!Cardinality, Cardinality, U!IsFiniteSet, IsFiniteSet
    <3>2. CASE S = {}
      BY <3>1, <3>2, FS_EmptySet
    <3>3. CASE S # {}
      <4>1. PICK x \in S : TRUE
        BY <3>3
      <4>2. S = {x}
        BY <4>1
      <4> QED
        BY <3>1, <4>2, FS_Singleton
    <3> QED
      BY <3>2, <3>3
  <2>2. \A i \in 0..nextIndex : i \in Nat
    BY <1>2
  <2>3. \A i \in 0..nextIndex : U!Cardinality(U!StartsOf(i)) <= 1 /\ U!Cardinality(U!StopsOf(i)) <= 1
    BY <1>1, <1>2, <2>1, <2>2 DEF WireLegal
  <2>4. \A j, i : /\ U!OpenAt(j, i) <=> RunsAt(events, j, i)
                  /\ RestsAt(events, j, i) => ~U!OpenAt(j, i)
    BY <1>1 DEF U!OpenAt, RunsAt, RestsAt
  <2> QED
    BY <1>2, <2>2, <2>3, <2>4 DEF WireLegal, EndsLast, U!BlocksLegal
<1>5. U!ToolsCommitted
  <2>1. \A j \in DOMAIN events : events[j].i \in Nat
    <3>1. events \in Seq(WireEvents)
      BY <1>2 DEF WireLegal
    <3>2. \A j \in DOMAIN events : events[j] \in WireEvents
      BY <3>1, Elements
    <3> QED
      BY <3>2 DEF WireEvents
  <2>2. (\E i \in {events[j].i : j \in {k \in DOMAIN events : events[k].k = "tool_use"}} :
            U!StopsOf(i) # {}) => completed /\ finishReason
    <3> SUFFICES ASSUME NEW j \in DOMAIN events, events[j].k = "tool_use",
                        U!StopsOf(events[j].i) # {}
                 PROVE  completed /\ finishReason
      OBVIOUS
    <3>1. CallBegun(events, events[j].i)
      BY DEF CallBegun, BeginsAt, BlockKinds
    <3> QED
      BY <1>1, <1>2, <2>1, <3>1 DEF CommittedCalls
  <2>3. \A j \in DOMAIN events, k \in DOMAIN events :
         j < k /\ events[j].n # 0 /\ events[k].n # 0 => events[j].n <= events[k].n
    BY <1>2 DEF WireLegal
  <2>4. stream = "done" => \A j \in DOMAIN tools : ~U!Bad(tools[j])
    BY DEF UpstreamInv
  <2> QED
    BY <2>2, <2>3, <2>4 DEF U!ToolsCommitted
<1> QED
  BY <1>3, <1>4, <1>5
-----------------------------------------------------------------------------
(* An Anthropic backend (OpenAIClient): what it has sent, as far as it was *)
(* accepted.                                                               *)
Rests == {"message_start", "stop"}
Runs == {"start", "delta"}

(* The last event before the k-th, usage left out, is a message_start or a stop. *)
Settled(r, k) ==
    \E m \in 1..(k - 1) : /\ r[m].k \in Rests
                          /\ \A l \in (m + 1)..(k - 1) : r[l].k = "message_delta"

InPlace(r, j) ==
    /\ r[j].k = "message_start" <=> j = 1
    /\ r[j].k \in {"start", "message_delta"} => Settled(r, j)
    /\ r[j].k \in {"delta", "stop"} =>
          j - 1 \in DOMAIN r /\ r[j - 1].k \in Runs /\ r[j - 1].i = r[j].i

HistoryOK(r) ==
    /\ \A j \in DOMAIN r : InPlace(r, j)
    /\ \A j, l \in DOMAIN r : r[j].k = "start" /\ r[l].k = "start" /\ r[j].i = r[l].i => j = l

HasOpened(r, i) == \E j \in DOMAIN r : r[j].k = "start" /\ r[j].i = i
NoStop(r) == \A j \in DOMAIN r : r[j].k # "message_stop"

LEMMA EventShape ==
  ASSUME NEW e \in C!Plain
  PROVE  /\ e.k \in {"message_start", "message_stop", "start", "delta", "stop", "message_delta"}
         /\ e.k \in {"start", "delta", "stop"} => e.i \in C!Indexes
         /\ e.k = "start" => e.type \in C!Types /\ e.id \in {"a", "b"}
         /\ e.k = "delta" => e.type \in C!Types /\ e.json \in {"part", "last"}
         /\ e.k = "message_delta" => e.reason \in {"none", "stop", "tool_calls"}
<1>1. CASE e \in [k : {"message_start", "message_stop"}]
  BY <1>1
<1>2. CASE e \in [k : {"start"}, i : C!Indexes, type : C!Types, id : {"a", "b"}]
  BY <1>2
<1>3. CASE e \in [k : {"delta"}, i : C!Indexes, type : C!Types, json : {"part", "last"}]
  BY <1>3
<1>4. CASE e \in [k : {"stop"}, i : C!Indexes]
  BY <1>4
<1>5. CASE e \in [k : {"message_delta"}, reason : {"none", "stop", "tool_calls"}]
  BY <1>5
<1> QED
  BY <1>1, <1>2, <1>3, <1>4, <1>5 DEF C!Plain, C!Events

LEMMA HistoryAppended ==
  ASSUME NEW T, NEW r \in Seq(T), HistoryOK(r), NEW e \in T,
         e.k = "message_start" <=> Len(r) = 0,
         e.k \in {"start", "message_delta"} => Settled(r, Len(r) + 1),
         e.k \in {"delta", "stop"} => /\ Len(r) # 0 /\ r[Len(r)].k \in Runs
                                      /\ r[Len(r)].i = e.i,
         e.k = "start" => ~HasOpened(r, e.i)
  PROVE  /\ HistoryOK(Append(r, e))
         /\ \A i : HasOpened(Append(r, e), i) <=> HasOpened(r, i) \/ (e.k = "start" /\ i = e.i)
         /\ NoStop(r) /\ e.k # "message_stop" => NoStop(Append(r, e))
<1> DEFINE v == Append(r, e)
           z == Len(r) + 1
<1>1. /\ Len(r) \in Nat /\ z \in Nat /\ z - 1 = Len(r) /\ DOMAIN r = 1..Len(r)
      /\ DOMAIN v = 1..z /\ v[z] = e /\ z \in DOMAIN v
      /\ \A j \in DOMAIN r : j \in DOMAIN v /\ v[j] = r[j] /\ j \in Nat /\ j < z /\ j >= 1
      /\ \A j \in DOMAIN v : j \in DOMAIN r \/ j = z
  BY OneMore
<1> HIDE DEF v
<1>2. \A k \in 1..z : Settled(r, k) => Settled(v, k)
  <2> SUFFICES ASSUME NEW k \in 1..z, Settled(r, k) PROVE Settled(v, k)
    OBVIOUS
  <2>1. \A l \in 1..(k - 1) : l \in DOMAIN r
    BY <1>1
  <2>2. PICK m \in 1..(k - 1) : r[m].k \in Rests /\ \A l \in (m + 1)..(k - 1) : r[l].k = "message_delta"
    BY DEF Settled
  <2>3. \A l \in (m + 1)..(k - 1) : l \in 1..(k - 1)
    BY <1>1
  <2> QED
    BY <1>1, <2>1, <2>2, <2>3 DEF Settled
<1>3. \A j \in DOMAIN r : InPlace(v, j)
  <2> SUFFICES ASSUME NEW j \in DOMAIN r PROVE InPlace(v, j)
    OBVIOUS
  <2>1. InPlace(r, j) /\ j \in 1..z /\ v[j] = r[j]
    BY <1>1 DEF HistoryOK
  <2>2. j - 1 \in DOMAIN r => j - 1 \in DOMAIN v /\ v[j - 1] = r[j - 1]
    BY <1>1
  <2> QED
    BY <1>2, <2>1, <2>2 DEF InPlace
<1>4. InPlace(v, z)
  <2>1. e.k = "message_start" <=> z = 1
    BY <1>1
  <2>2. e.k \in {"start", "message_delta"} => Settled(v, z)
    BY <1>1, <1>2
  <2>3. Len(r) # 0 => z - 1 \in DOMAIN v /\ v[z - 1] = r[Len(r)]
    BY <1>1
  <2> QED
    BY <1>1, <2>1, <2>2, <2>3 DEF InPlace
<1>5. \A j, l \in DOMAIN v : v[j].k = "start" /\ v[l].k = "start" /\ v[j].i = v[l].i => j = l
  BY <1>1 DEF HistoryOK, HasOpened
<1>6. HistoryOK(v)
  BY <1>1, <1>3, <1>4, <1>5 DEF HistoryOK
<1>7. \A i : HasOpened(v, i) <=> HasOpened(r, i) \/ (e.k = "start" /\ i = e.i)
  BY <1>1 DEF HasOpened
<1>8. NoStop(r) /\ e.k # "message_stop" => NoStop(v)
  BY <1>1 DEF NoStop
<1> QED
  BY <1>6, <1>7, <1>8 DEF v
-----------------------------------------------------------------------------
(* The state of the translator, and what it has received.                  *)
BlockRecords ==
    [type : C!Types, json : {"none", "part", "whole", "bad"}, closed : BOOLEAN, id : {"a", "b"}]
BlockMap == [C!Indexes -> BlockRecords \cup {C!Absent}]
Closed(b) == \A i \in C!Indexes : b[i].closed
ClosedCalls(b) == {i \in C!Indexes : b[i].type = "tool_use" /\ b[i].closed}
Distinct(q) == \A j, l \in DOMAIN q : q[j] = q[l] => j = l

Decided(r) == \E m \in DOMAIN r : \A l \in m..Len(r) : r[l].k = "message_delta"

(* what the blocks say of the history *)
HistoryIs(r, b, d) ==
    /\ HistoryOK(r) /\ NoStop(r)
    /\ \A i \in C!Indexes : b[i] # C!Absent <=> HasOpened(r, i)
    /\ \A i \in C!Indexes : ~b[i].closed => /\ Len(r) # 0 /\ r[Len(r)].k \in Runs
                                           /\ r[Len(r)].i = i
    /\ Closed(b) /\ Len(r) # 0 => Settled(r, Len(r) + 1)
    /\ d # "none" => Decided(r) /\ Closed(b)

HistoryDone(r) ==
    /\ HistoryOK(r) /\ Len(r) # 0 /\ r[Len(r)].k = "message_stop"
    /\ \A j \in 1..(Len(r) - 1) : r[j].k # "message_stop"
    /\ \E m \in 1..(Len(r) - 1) : \A l \in m..(Len(r) - 1) : r[l].k = "message_delta"

CallsOK(q, b) ==
    /\ q \in Seq({"a", "b"}) /\ Distinct(q) /\ Len(q) = Cardinality(ClosedCalls(b))
    /\ \A i \in C!Indexes : b[i].type = "tool_use" /\ ~b[i].closed =>
           \A j \in DOMAIN q : q[j] # b[i].id

LEMMA BlockShape ==
  ASSUME NEW b \in BlockMap, NEW i \in C!Indexes
  PROVE  /\ DOMAIN b = C!Indexes
         /\ b[i] = C!Absent => b[i].closed /\ b[i].type = "none"
         /\ b[i] # C!Absent => b[i] \in BlockRecords /\ b[i].type \in C!Types /\ b[i].id \in {"a", "b"}
         /\ b[i].closed \in BOOLEAN
<1>1. DOMAIN b = C!Indexes /\ b[i] \in BlockRecords \cup {C!Absent}
  BY DEF BlockMap
<1>2. C!Absent.closed = TRUE /\ C!Absent.type = "none"
  BY DEF C!Absent
<1>3. b[i] \in BlockRecords =>
        b[i].type \in C!Types /\ b[i].id \in {"a", "b"} /\ b[i].closed \in BOOLEAN
  BY DEF BlockRecords
<1> QED
  BY <1>1, <1>2, <1>3

LEMMA ClosedIs ==
  ASSUME block \in BlockMap
  PROVE  C!AllClosed <=> Closed(block)
<1>1. \A i \in C!Indexes : block[i] = C!Absent => block[i].closed
  BY BlockShape
<1> QED
  BY <1>1 DEF C!AllClosed, C!Opened, Closed

LEMMA StartedIs ==
  ASSUME NEW T, sent \in Seq(T), HistoryOK(sent)
  PROVE  C!Started <=> Len(sent) # 0
<1>1. Len(sent) \in Nat /\ DOMAIN sent = 1..Len(sent)
  OBVIOUS
<1>2. \A j \in DOMAIN sent : sent[j].k = "message_start" <=> j = 1
  BY DEF HistoryOK, InPlace
<1> QED
  BY <1>1, <1>2 DEF C!Started

(* a start, a delta and a stop *)
LEMMA StartHistory ==
  ASSUME NEW T, NEW r \in Seq(T), NEW b \in BlockMap, HistoryIs(r, b, "none"), NEW e \in T,
         e.k = "start", e.i \in C!Indexes, e.type \in C!Types, e.id \in {"a", "b"},
         Len(r) # 0, Closed(b), b[e.i] = C!Absent,
         NEW c, c = [b EXCEPT ![e.i] =
                       [type |-> e.type, json |-> "none", closed |-> FALSE, id |-> e.id]]
  PROVE  c \in BlockMap /\ HistoryIs(Append(r, e), c, "none")
<1> DEFINE x == [type |-> e.type, json |-> "none", closed |-> FALSE, id |-> e.id]
           v == Append(r, e)
<1>1. x \in BlockRecords /\ x.type # "none" /\ x.closed = FALSE
  BY DEF BlockRecords, C!Types
<1>2. DOMAIN b = C!Indexes
  BY DEF BlockMap
<1> HIDE DEF x
<1>3. c \in BlockMap /\ c[e.i] = x /\ \A i \in C!Indexes : i # e.i => c[i] = b[i]
  <2>1. c = [b EXCEPT ![e.i] = x]
    BY DEF x
  <2> QED
    BY <1>1, <1>2, <2>1 DEF BlockMap
<1>4. ~HasOpened(r, e.i) /\ Settled(r, Len(r) + 1)
  BY DEF HistoryIs
<1>5. /\ HistoryOK(v)
      /\ \A i : HasOpened(v, i) <=> HasOpened(r, i) \/ i = e.i
      /\ NoStop(v)
  BY <1>4, HistoryAppended DEF HistoryIs
<1>6. Len(v) # 0 /\ v[Len(v)] = e
  BY OneMore
<1> HIDE DEF v
<1>7. x # C!Absent
  BY <1>1 DEF C!Absent
<1>8. \A i \in C!Indexes : c[i] # C!Absent <=> HasOpened(v, i)
  BY <1>3, <1>5, <1>7, ZenonT(30) DEF HistoryIs
<1>9. \A i \in C!Indexes : ~c[i].closed => i = e.i
  BY <1>3 DEF Closed
<1>10. ~Closed(c)
  BY <1>1, <1>3 DEF Closed
<1> QED
  BY <1>3, <1>5, <1>6, <1>8, <1>9, <1>10 DEF HistoryIs, Runs, v

LEMMA DeltaHistory ==
  ASSUME NEW T, NEW r \in Seq(T), NEW b \in BlockMap, HistoryIs(r, b, "none"), NEW e \in T,
         e.k = "delta", e.i \in C!Indexes, ~b[e.i].closed,
         NEW c \in BlockMap, \A i \in C!Indexes : c[i].closed <=> b[i].closed,
         \A i \in C!Indexes : c[i] = C!Absent <=> b[i] = C!Absent
  PROVE  HistoryIs(Append(r, e), c, "none")
<1> DEFINE v == Append(r, e)
<1>1. Len(r) # 0 /\ r[Len(r)].k \in Runs /\ r[Len(r)].i = e.i
  BY DEF HistoryIs
<1>2. /\ HistoryOK(v)
      /\ \A i : HasOpened(v, i) <=> HasOpened(r, i)
      /\ NoStop(v)
  BY <1>1, HistoryAppended DEF HistoryIs
<1>3. Len(v) # 0 /\ v[Len(v)] = e
  BY OneMore
<1> HIDE DEF v
<1>4. ~Closed(c)
  BY DEF Closed
<1>5. \A i \in C!Indexes : ~c[i].closed => i = e.i
  BY <1>1 DEF HistoryIs
<1>6. \A i \in C!Indexes : c[i] # C!Absent <=> HasOpened(v, i)
  BY <1>2 DEF HistoryIs
<1> QED
  BY <1>2, <1>3, <1>4, <1>5, <1>6 DEF HistoryIs, Runs, v

LEMMA StopHistory ==
  ASSUME NEW T, NEW r \in Seq(T), NEW b \in BlockMap, HistoryIs(r, b, "none"), NEW e \in T,
         e.k = "stop", e.i \in C!Indexes, ~b[e.i].closed,
         NEW c \in BlockMap, c[e.i].closed,
         \A i \in C!Indexes : i # e.i => c[i] = b[i],
         c[e.i] # C!Absent
  PROVE  HistoryIs(Append(r, e), c, "none") /\ Closed(c)
<1> DEFINE v == Append(r, e)
<1>1. Len(r) # 0 /\ r[Len(r)].k \in Runs /\ r[Len(r)].i = e.i
  BY DEF HistoryIs
<1>2. /\ HistoryOK(v)
      /\ \A i : HasOpened(v, i) <=> HasOpened(r, i)
      /\ NoStop(v)
  BY <1>1, HistoryAppended DEF HistoryIs
<1>3. Len(v) # 0 /\ v[Len(v)] = e /\ Len(v) \in Nat
  BY OneMore
<1> HIDE DEF v
<1>4. b[e.i] # C!Absent
  BY BlockShape
<1>5. \A i \in C!Indexes : ~b[i].closed => i = e.i
  BY <1>1 DEF HistoryIs
<1>6. Closed(c)
  BY <1>5 DEF Closed
<1>7. \A i \in C!Indexes : c[i] # C!Absent <=> HasOpened(v, i)
  BY <1>2, <1>4 DEF HistoryIs
<1>8. Settled(v, Len(v) + 1)
  <2>1. Len(v) \in 1..((Len(v) + 1) - 1)
    BY <1>3
  <2>2. (Len(v) + 1)..((Len(v) + 1) - 1) = {}
    BY <1>3
  <2> QED
    BY <1>3, <2>1, <2>2 DEF Settled, Rests
<1> QED
  BY <1>2, <1>6, <1>7, <1>8 DEF HistoryIs, Closed, v

(* a message_start, a message_delta and the message_stop *)
LEMMA FirstHistory ==
  ASSUME NEW T, NEW r \in Seq(T), NEW b \in BlockMap, NEW d, HistoryIs(r, b, d), NEW e \in T,
         e.k = "message_start", Len(r) = 0
  PROVE  HistoryIs(Append(r, e), b, d)
<1> DEFINE v == Append(r, e)
<1>1. /\ HistoryOK(v)
      /\ \A i : HasOpened(v, i) <=> HasOpened(r, i)
      /\ NoStop(v)
  BY HistoryAppended DEF HistoryIs
<1>2. Len(v) = 1 /\ v[1] = e
  BY OneMore
<1>3. DOMAIN r = {}
  OBVIOUS
<1> HIDE DEF v
<1>4. d = "none" /\ Closed(b)
  BY <1>3 DEF HistoryIs, Decided, Closed
<1>5. Settled(v, Len(v) + 1)
  <2>1. 1 \in 1..((Len(v) + 1) - 1) /\ (1 + 1)..((Len(v) + 1) - 1) = {}
    BY <1>2
  <2> QED
    BY <1>2, <2>1 DEF Settled, Rests
<1> QED
  BY <1>1, <1>4, <1>5 DEF HistoryIs, Closed, v

LEMMA UsageHistory ==
  ASSUME NEW T, NEW r \in Seq(T), NEW b \in BlockMap, NEW d, HistoryIs(r, b, d), NEW e \in T,
         e.k = "message_delta", Len(r) # 0, Closed(b), NEW f
  PROVE  HistoryIs(Append(r, e), b, f)
<1> DEFINE v == Append(r, e)
           z == Len(r) + 1
<1>1. Settled(r, z)
  BY DEF HistoryIs
<1>2. /\ HistoryOK(v)
      /\ \A i : HasOpened(v, i) <=> HasOpened(r, i)
      /\ NoStop(v)
  BY <1>1, HistoryAppended DEF HistoryIs
<1>3. /\ Len(r) \in Nat /\ Len(v) = z /\ v[z] = e /\ DOMAIN v = 1..z
      /\ \A j \in 1..Len(r) : v[j] = r[j]
  BY OneMore
<1> HIDE DEF v
<1>4. Settled(v, Len(v) + 1)
  <2>1. PICK m \in 1..(z - 1) : r[m].k \in Rests /\ \A l \in (m + 1)..(z - 1) : r[l].k = "message_delta"
    BY <1>1 DEF Settled
  <2>2. m \in 1..Len(r) /\ m \in 1..((Len(v) + 1) - 1) /\ v[m] = r[m]
    BY <1>3
  <2>3. \A l \in (m + 1)..((Len(v) + 1) - 1) :
           (l \in (m + 1)..(z - 1) /\ l \in 1..Len(r)) \/ l = z
    BY <1>3, <2>2
  <2> QED
    BY <1>3, <2>1, <2>2, <2>3 DEF Settled
<1>5. Decided(v)
  <2>1. z \in DOMAIN v /\ \A l \in z..Len(v) : l = z
    BY <1>3
  <2> QED
    BY <1>3, <2>1 DEF Decided
<1> QED
  BY <1>2, <1>4, <1>5 DEF HistoryIs, Closed, v

LEMMA LastHistory ==
  ASSUME NEW T, NEW r \in Seq(T), NEW b \in BlockMap, NEW d, HistoryIs(r, b, d), NEW e \in T,
         e.k = "message_stop", d # "none"
  PROVE  HistoryDone(Append(r, e))
<1> DEFINE v == Append(r, e)
<1>1. PICK m \in DOMAIN r : \A l \in m..Len(r) : r[l].k = "message_delta"
  BY DEF HistoryIs, Decided
<1>2. /\ Len(r) \in Nat /\ DOMAIN r = 1..Len(r) /\ Len(r) # 0
      /\ Len(v) = Len(r) + 1 /\ v[Len(v)] = e
      /\ \A j \in 1..Len(r) : v[j] = r[j]
  <2>1. Len(r) \in Nat /\ DOMAIN r = 1..Len(r) /\ m \in DOMAIN r
    OBVIOUS
  <2> QED
    BY <2>1, OneMore
<1>3. HistoryOK(v)
  BY <1>2, HistoryAppended DEF HistoryIs
<1> HIDE DEF v
<1>4. Len(v) - 1 = Len(r) /\ m \in 1..Len(r) /\ \A l \in m..Len(r) : l \in 1..Len(r)
  BY <1>2
<1>5. \A j \in 1..(Len(v) - 1) : v[j].k # "message_stop"
  BY <1>2, <1>4 DEF HistoryIs, NoStop
<1>6. \A l \in m..(Len(v) - 1) : v[l].k = "message_delta"
  BY <1>1, <1>2, <1>4
<1>7. Len(v) # 0
  BY <1>2
<1> QED
  BY <1>2, <1>3, <1>4, <1>5, <1>6, <1>7 DEF HistoryDone, v
-----------------------------------------------------------------------------
(* What is written: a call only together with the finish.                  *)
OutKinds == {"role", "text", "thinking", "tool_use", "finish", "done", "error"}
NoCalls(o) == \A j \in DOMAIN o : o[j] # "tool_use"
CallsLast(o) ==
    \A j \in DOMAIN o : o[j] = "tool_use" => SubSeq(o, j, Len(o)) = <<"tool_use", "finish", "done">>

ClientInv ==
    /\ sent \in Seq(C!Plain) /\ Len(sent) <= MaxEvents
    /\ reason \in {"none", "stop", "tool_calls"} /\ stream \in {"open", "done", "failed"}
    /\ block \in BlockMap /\ CallsOK(calls, block)
    /\ out \in Seq(OutKinds)
    /\ stream # "done" => NoCalls(out)
    /\ stream = "open" => HistoryIs(sent, block, reason)
    /\ stream = "done" => CallsLast(out) /\ Closed(block) /\ HistoryDone(sent)

LEMMA OneWritten ==
  ASSUME NEW o \in Seq(OutKinds), NoCalls(o), NEW w \in OutKinds \ {"tool_use"}
  PROVE  Append(o, w) \in Seq(OutKinds) /\ NoCalls(Append(o, w))
<1>1. /\ Append(o, w) \in Seq(OutKinds)
      /\ \A j \in DOMAIN Append(o, w) : (j \in DOMAIN o /\ Append(o, w)[j] = o[j]) \/ Append(o, w)[j] = w
  BY OneMore
<1> QED
  BY <1>1 DEF NoCalls

LEMMA LastThree ==
  ASSUME NEW K, NEW v \in Seq(K), NEW n \in Nat, Len(v) = n + 3
  PROVE  SubSeq(v, n + 1, n + 3) = <<v[n + 1], v[n + 2], v[n + 3]>>
<1> DEFINE x == SubSeq(v, n + 1, n + 3)
<1>1. \A i \in (n + 1)..(n + 3) : v[i] \in K
  <2>1. \A i \in (n + 1)..(n + 3) : i \in DOMAIN v
    OBVIOUS
  <2> QED
    BY <2>1, Elements
<1>2. /\ x \in Seq(K)
      /\ Len(x) = IF n + 1 <= n + 3 THEN (n + 3) - (n + 1) + 1 ELSE 0
      /\ \A i \in 1..((n + 3) - (n + 1) + 1) : x[i] = v[(n + 1) + i - 1]
  BY <1>1, SubSeqProperties
<1>3. (n + 3) - (n + 1) + 1 = 3 /\ n + 1 <= n + 3
  OBVIOUS
<1> HIDE DEF x
<1>4. /\ x \in Seq(K) /\ Len(x) = 3
      /\ \A i \in 1..3 : x[i] = v[(n + 1) + i - 1]
  BY <1>2, <1>3
<1>5. x[1] = v[n + 1] /\ x[2] = v[n + 2] /\ x[3] = v[n + 3]
  <2>1. (n + 1) + 1 - 1 = n + 1 /\ (n + 1) + 2 - 1 = n + 2 /\ (n + 1) + 3 - 1 = n + 3
    OBVIOUS
  <2>2. x[1] = v[(n + 1) + 1 - 1] /\ x[2] = v[(n + 1) + 2 - 1] /\ x[3] = v[(n + 1) + 3 - 1]
    BY <1>4
  <2> QED
    BY <2>1, <2>2
<1>6. x = <<x[1], x[2], x[3]>>
  BY <1>4
<1> QED
  BY <1>5, <1>6 DEF x

LEMMA EndWritten ==
  ASSUME NEW o \in Seq(OutKinds), NoCalls(o), NEW q,
         NEW v, v = o \o (IF q = <<>> THEN <<>> ELSE <<"tool_use">>) \o <<"finish", "done">>
  PROVE  v \in Seq(OutKinds) /\ CallsLast(v)
<1> DEFINE a == IF q = <<>> THEN <<>> ELSE <<"tool_use">>
           f == <<"finish", "done">>
           u == o \o a
           n == Len(o)
           K == OutKinds
<1>1. n \in Nat /\ DOMAIN o = 1..n
  OBVIOUS
<1>2. a \in Seq(K) /\ f \in Seq(K) /\ Len(f) = 2 /\ f[1] = "finish" /\ f[2] = "done"
      /\ Len(a) \in {0, 1} /\ (Len(a) = 1 => a[1] = "tool_use")
  <2>1. <<>> \in Seq(K) /\ <<"tool_use">> \in Seq(K) /\ f \in Seq(K)
    BY DEF OutKinds
  <2> HIDE DEF K
  <2>2. CASE q = <<>>
    BY <2>1, <2>2
  <2>3. CASE q # <<>>
    BY <2>1, <2>3
  <2> QED
    BY <2>2, <2>3
<1> HIDE DEF a, f, K
<1>3. o \in Seq(K)
  BY DEF K
<1>4. /\ u \in Seq(K) /\ Len(u) = n + Len(a)
      /\ \A j \in 1..(n + Len(a)) : u[j] = IF j <= n THEN o[j] ELSE a[j - n]
  BY <1>2, <1>3, ConcatProperties
<1>5. v = u \o f
  BY DEF a, f
<1> HIDE DEF u
<1>6. /\ u \o f \in Seq(K) /\ Len(u \o f) = Len(u) + Len(f)
      /\ \A j \in 1..(Len(u) + Len(f)) : (u \o f)[j] = IF j <= Len(u) THEN u[j] ELSE f[j - Len(u)]
  <2>1. u \in Seq(K) /\ f \in Seq(K)
    BY <1>2, <1>4
  <2> QED
    BY <2>1, ConcatProperties, Zenon
<1>7. /\ v \in Seq(K) /\ Len(v) = n + Len(a) + 2 /\ DOMAIN v = 1..Len(v)
      /\ \A j \in 1..n : v[j] = o[j]
      /\ Len(a) = 1 => v[n + 1] = "tool_use"
      /\ v[n + Len(a) + 1] = "finish" /\ v[n + Len(a) + 2] = "done"
  <2>1. v \in Seq(K) /\ Len(v) = n + Len(a) + 2
    BY <1>1, <1>2, <1>4, <1>5, <1>6
  <2>2. \A j \in 1..(n + Len(a) + 2) : v[j] = IF j <= n + Len(a) THEN u[j] ELSE f[j - (n + Len(a))]
    BY <1>1, <1>2, <1>4, <1>5, <1>6
  <2>3. \A j \in 1..n : v[j] = o[j]
    <3>1. \A j \in 1..n : j \in 1..(n + Len(a)) /\ j \in 1..(n + Len(a) + 2) /\ j <= n /\ j <= n + Len(a)
      BY <1>1, <1>2
    <3> QED
      BY <1>4, <2>2, <3>1
  <2>4. Len(a) = 1 => v[n + 1] = "tool_use"
    <3> SUFFICES ASSUME Len(a) = 1 PROVE v[n + 1] = "tool_use"
      OBVIOUS
    <3>1. /\ n + 1 \in 1..(n + Len(a)) /\ n + 1 \in 1..(n + Len(a) + 2) /\ n + 1 <= n + Len(a)
          /\ ~(n + 1 <= n) /\ (n + 1) - n = 1
      BY <1>1
    <3> QED
      BY <1>2, <1>4, <2>2, <3>1
  <2>5. v[n + Len(a) + 1] = "finish" /\ v[n + Len(a) + 2] = "done"
    <3> DEFINE m == n + Len(a)
    <3>1. m \in Nat
      BY <1>1, <1>2
    <3>2. \A j \in 1..(m + 2) : v[j] = IF j <= m THEN u[j] ELSE f[j - m]
      BY <2>2
    <3> HIDE DEF m
    <3>3. /\ m + 1 \in 1..(m + 2) /\ ~(m + 1 <= m) /\ (m + 1) - m = 1
          /\ m + 2 \in 1..(m + 2) /\ ~(m + 2 <= m) /\ (m + 2) - m = 2
      BY <3>1
    <3>4. v[m + 1] = f[1] /\ v[m + 2] = f[2]
      BY <3>2, <3>3
    <3> QED
      BY <1>2, <3>4 DEF m
  <2> HIDE DEF n
  <2>6. \A x \in Seq(K) : DOMAIN x = 1..Len(x)
    OBVIOUS
  <2> QED
    BY <2>1, <2>3, <2>4, <2>5, <2>6
<1>8. CallsLast(v)
  <2> SUFFICES ASSUME NEW j \in DOMAIN v, v[j] = "tool_use"
               PROVE  SubSeq(v, j, Len(v)) = <<"tool_use", "finish", "done">>
    BY DEF CallsLast
  <2>1. j \notin 1..n
    BY <1>1, <1>7 DEF NoCalls
  <2>2. j # n + Len(a) + 1 /\ j # n + Len(a) + 2
    BY <1>7
  <2>3. Len(a) = 1 /\ j = n + 1 /\ Len(v) = n + 3
    BY <1>1, <1>2, <1>7, <2>1, <2>2
  <2>4. v[n + 1] = "tool_use" /\ v[n + 2] = "finish" /\ v[n + 3] = "done"
    <3>1. n + Len(a) + 1 = n + 2 /\ n + Len(a) + 2 = n + 3
      BY <1>1, <2>3
    <3> QED
      BY <1>7, <2>3, <3>1
  <2>5. SubSeq(v, n + 1, n + 3) = <<v[n + 1], v[n + 2], v[n + 3]>>
    BY <1>1, <1>7, <2>3, LastThree
  <2> QED
    BY <2>3, <2>4, <2>5
<1> QED
  BY <1>7, <1>8 DEF K
-----------------------------------------------------------------------------
(* The calls are those of the blocks that are closed.                      *)
LEMMA SameCalls ==
  ASSUME NEW q, NEW b \in BlockMap, NEW c \in BlockMap, CallsOK(q, b),
         \A i \in C!Indexes :
            \/ c[i].type = b[i].type /\ c[i].closed = b[i].closed /\ c[i].id = b[i].id
            \/ ~c[i].closed /\ (b[i].closed => b[i].type # "tool_use")
               /\ (c[i].type = "tool_use" => \A j \in DOMAIN q : q[j] # c[i].id)
  PROVE  CallsOK(q, c)
<1>1. ClosedCalls(c) = ClosedCalls(b)
  BY DEF ClosedCalls
<1>2. \A i \in C!Indexes : c[i].type = "tool_use" /\ ~c[i].closed =>
           \A j \in DOMAIN q : q[j] # c[i].id
  BY DEF CallsOK
<1> QED
  BY <1>1, <1>2 DEF CallsOK

LEMMA ClosedCallsFinite ==
  ASSUME TranslatorsAssumption, NEW b
  PROVE  IsFiniteSet(ClosedCalls(b)) /\ Cardinality(ClosedCalls(b)) \in Nat
<1>1. IsFiniteSet(C!Indexes)
  BY FS_Interval DEF C!Indexes, TranslatorsAssumption
<1>2. ClosedCalls(b) \subseteq C!Indexes
  BY DEF ClosedCalls
<1> QED
  BY <1>1, <1>2, FS_Subset, FS_CardinalityType

LEMMA StopCalls ==
  ASSUME TranslatorsAssumption,
         NEW q, NEW b \in BlockMap, NEW c \in BlockMap, CallsOK(q, b), NEW i \in C!Indexes,
         ~b[i].closed, c[i].closed, c[i].type = b[i].type, b[i].id \in {"a", "b"},
         \A l \in C!Indexes : l # i => c[l] = b[l],
         Closed(c)
  PROVE  CallsOK(IF b[i].type = "tool_use" THEN Append(q, b[i].id) ELSE q, c)
<1>1. \A l \in C!Indexes : ~(c[l].type = "tool_use" /\ ~c[l].closed)
  BY DEF Closed
<1>2. CASE b[i].type # "tool_use"
  <2>1. ClosedCalls(c) = ClosedCalls(b)
    BY <1>2 DEF ClosedCalls
  <2> QED
    BY <1>1, <1>2, <2>1 DEF CallsOK
<1>3. CASE b[i].type = "tool_use"
  <2> DEFINE x == b[i].id
             p == Append(q, x)
             S == {"a", "b"}
  <2>1. ClosedCalls(c) = ClosedCalls(b) \cup {i} /\ i \notin ClosedCalls(b)
    BY <1>3 DEF ClosedCalls
  <2>2. Cardinality(ClosedCalls(c)) = Cardinality(ClosedCalls(b)) + 1
    BY <2>1, ClosedCallsFinite, FS_AddElement
  <2>3. q \in Seq(S) /\ x \in S /\ \A j \in DOMAIN q : q[j] # x
    BY <1>3 DEF CallsOK
  <2> HIDE DEF x, S
  <2>4. /\ p \in Seq(S) /\ Len(p) = Len(q) + 1 /\ DOMAIN q = 1..Len(q) /\ p[Len(q) + 1] = x
        /\ \A j \in DOMAIN p : (j \in DOMAIN q /\ p[j] = q[j]) \/ (j = Len(q) + 1 /\ p[j] = x)
    BY <2>3, OneMore
  <2> HIDE DEF p
  <2>5. Distinct(p)
    BY <2>3, <2>4 DEF Distinct, CallsOK
  <2>6. Len(p) = Cardinality(ClosedCalls(c))
    BY <2>2, <2>4 DEF CallsOK
  <2>7. CallsOK(p, c)
    BY <1>1, <2>4, <2>5, <2>6 DEF CallsOK, S
  <2> QED
    BY <1>3, <2>7 DEF p, x
<1> QED
  BY <1>2, <1>3
LEMMA ClientStarts == TranslatorsAssumption /\ C!Init => ClientInv
<1> SUFFICES ASSUME TranslatorsAssumption, C!Init PROVE ClientInv
  OBVIOUS
<1>1. /\ sent = <<>> /\ out = <<>> /\ calls = <<>> /\ block = [i \in C!Indexes |-> C!Absent]
      /\ reason = "none" /\ stream = "open"
  BY DEF C!Init
<1>2. \A T : <<>> \in Seq(T) /\ Len(<<>>) = 0 /\ DOMAIN <<>> = {}
  OBVIOUS
<1>3. block \in BlockMap /\ \A i \in C!Indexes : block[i] = C!Absent
  BY <1>1 DEF BlockMap
<1>4. \A i \in C!Indexes : block[i].closed /\ block[i].type # "tool_use"
  BY <1>3, BlockShape
<1>5. CallsOK(calls, block)
  <2>1. ClosedCalls(block) = {}
    BY <1>4 DEF ClosedCalls
  <2> QED
    BY <1>1, <1>2, <1>4, <2>1, FS_EmptySet DEF CallsOK, Distinct
<1>6. HistoryIs(sent, block, reason)
  <2>1. HistoryOK(sent) /\ NoStop(sent) /\ \A i : ~HasOpened(sent, i)
    BY <1>1, <1>2 DEF HistoryOK, NoStop, HasOpened
  <2> QED
    BY <1>1, <1>2, <1>3, <1>4, <2>1 DEF HistoryIs
<1>7. sent \in Seq(C!Plain) /\ Len(sent) <= MaxEvents
  BY <1>1, <1>2 DEF TranslatorsAssumption
<1>8. out \in Seq(OutKinds) /\ NoCalls(out)
  BY <1>1, <1>2 DEF NoCalls
<1> QED
  BY <1>1, <1>3, <1>5, <1>6, <1>7, <1>8 DEF ClientInv

LEMMA RejectKeeps ==
  ASSUME ClientInv, stream = "open", C!Reject,
         sent' \in Seq(C!Plain), Len(sent') <= MaxEvents
  PROVE  ClientInv'
<1>1. /\ stream' = "failed" /\ out' \in {out, Append(out, "error")}
      /\ block' = block /\ calls' = calls /\ reason' = reason
  BY DEF C!Reject
<1>2. out \in Seq(OutKinds) /\ NoCalls(out)
  BY DEF ClientInv
<1>3. out' \in Seq(OutKinds) /\ NoCalls(out')
  BY <1>1, <1>2, OneWritten DEF OutKinds
<1> QED
  BY <1>1, <1>3 DEF ClientInv

LEMMA ReceiveKeeps ==
  ASSUME TranslatorsAssumption, ClientInv, NEW e \in C!Plain, C!Receive(e)
  PROVE  ClientInv'
<1>1. stream = "open" /\ Len(sent) < MaxEvents /\ sent' = Append(sent, e)
  BY DEF C!Receive
<1>2. /\ sent \in Seq(C!Plain) /\ Len(sent) \in Nat /\ MaxEvents \in Nat
      /\ sent' \in Seq(C!Plain) /\ Len(sent') = Len(sent) + 1 /\ Len(sent') <= MaxEvents
  <2>1. sent \in Seq(C!Plain) /\ MaxEvents \in Nat
    BY DEF ClientInv, TranslatorsAssumption
  <2>2. Append(sent, e) \in Seq(C!Plain) /\ Len(Append(sent, e)) = Len(sent) + 1 /\ Len(sent) \in Nat
    BY <2>1, OneMore
  <2> QED
    BY <1>1, <2>1, <2>2
<1>3. /\ block \in BlockMap /\ DOMAIN block = C!Indexes /\ CallsOK(calls, block)
      /\ out \in Seq(OutKinds) /\ NoCalls(out)
      /\ HistoryIs(sent, block, reason) /\ HistoryOK(sent)
      /\ reason \in {"none", "stop", "tool_calls"}
  BY <1>1 DEF ClientInv, BlockMap, HistoryIs
<1>4. /\ e.k \in {"message_start", "message_stop", "start", "delta", "stop", "message_delta"}
      /\ e.k \in {"start", "delta", "stop"} => e.i \in C!Indexes
      /\ e.k = "start" => e.type \in C!Types /\ e.id \in {"a", "b"}
      /\ e.k = "delta" => e.type \in C!Types /\ e.json \in {"part", "last"}
      /\ e.k = "message_delta" => e.reason \in {"none", "stop", "tool_calls"}
  BY EventShape
<1>5. (C!Started <=> Len(sent) # 0) /\ (C!AllClosed <=> Closed(block))
  BY <1>2, <1>3, StartedIs, ClosedIs
<1>6. CASE ~C!Acceptable(e)
  <2>1. C!Reject
    BY <1>6 DEF C!Receive
  <2> QED
    BY <1>1, <1>2, <2>1, RejectKeeps
<1>7. CASE C!Acceptable(e) /\ e.k = "message_start"
  <2>1. out' = Append(out, "role") /\ UNCHANGED <<block, calls, reason, stream>>
    BY <1>7 DEF C!Receive
  <2>2. Len(sent) = 0
    BY <1>5, <1>7 DEF C!Acceptable
  <2>3. HistoryIs(Append(sent, e), block, reason)
    BY <1>2, <1>3, <1>7, <2>2, FirstHistory
  <2>4. Append(out, "role") \in Seq(OutKinds) /\ NoCalls(Append(out, "role"))
    BY <1>3, OneWritten DEF OutKinds
  <2> QED
    BY <1>1, <1>2, <1>3, <2>1, <2>3, <2>4 DEF ClientInv
<1>8. CASE C!Acceptable(e) /\ e.k = "start"
  <2>1. C!StartBlock(e)
    BY <1>8 DEF C!Receive
  <2>2. /\ block' = [block EXCEPT ![e.i] =
                       [type |-> e.type, json |-> "none", closed |-> FALSE, id |-> e.id]]
        /\ UNCHANGED <<calls, reason, out, stream>>
    BY <2>1 DEF C!StartBlock
  <2>3. /\ Len(sent) # 0 /\ reason = "none" /\ block[e.i] = C!Absent /\ Closed(block)
        /\ e.type = "tool_use" => \A j \in DOMAIN calls : calls[j] # e.id
    BY <1>5, <1>8 DEF C!Acceptable
  <2>4. block' \in BlockMap /\ HistoryIs(Append(sent, e), block', "none")
    BY <1>2, <1>3, <1>4, <1>8, <2>2, <2>3, StartHistory
  <2>5. /\ block'[e.i].type = e.type /\ block'[e.i].id = e.id /\ block'[e.i].closed = FALSE
        /\ \A i \in C!Indexes : i # e.i => block'[i] = block[i]
    BY <1>3, <1>4, <1>8, <2>2
  <2>6. block[e.i].type # "tool_use"
    BY <1>3, <1>4, <1>8, <2>3, BlockShape
  <2>7. CallsOK(calls, block')
    BY <1>3, <2>3, <2>4, <2>5, <2>6, SameCalls
  <2> QED
    BY <1>1, <1>2, <1>3, <2>2, <2>3, <2>4, <2>7 DEF ClientInv
<1>9. CASE C!Acceptable(e) /\ e.k = "delta"
  <2>1. C!Delta(e)
    BY <1>9 DEF C!Receive
  <2>2. reason = "none" /\ ~block[e.i].closed /\ block[e.i].type = e.type /\ e.i \in C!Indexes
    BY <1>4, <1>9 DEF C!Acceptable
  <2>3. calls' = calls /\ reason' = reason /\ stream' = stream
    BY <2>1 DEF C!Delta
  <2>4. CASE e.type = "tool_use"
    <3> DEFINE x == [block[e.i] EXCEPT !.json = C!More(@, e.json)]
    <3>1. block' = [block EXCEPT ![e.i] = x] /\ out' = out
      BY <2>1, <2>4 DEF C!Delta
    <3>2. block[e.i] # C!Absent /\ block[e.i] \in BlockRecords
      BY <1>3, <2>2, BlockShape
    <3>3. x \in BlockRecords /\ x.type = block[e.i].type /\ x.closed = block[e.i].closed
          /\ x.id = block[e.i].id
      BY <3>2 DEF BlockRecords, C!More
    <3> HIDE DEF x
    <3>4. block'[e.i] = x /\ \A i \in C!Indexes : i # e.i => block'[i] = block[i]
      BY <1>3, <2>2, <3>1
    <3>5. block' \in BlockMap
      BY <1>3, <3>1, <3>3 DEF BlockMap
    <3>6. x # C!Absent
      BY <3>3, <2>2 DEF C!Absent
    <3>7. HistoryIs(Append(sent, e), block', "none")
      <4>1. \A i \in C!Indexes : block'[i].closed <=> block[i].closed
        BY <3>3, <3>4
      <4>2. \A i \in C!Indexes : block'[i] = C!Absent <=> block[i] = C!Absent
        BY <3>2, <3>4, <3>6
      <4> QED
        BY <1>2, <1>3, <1>9, <2>2, <3>5, <4>1, <4>2, DeltaHistory
    <3>8. CallsOK(calls, block')
      BY <1>3, <3>3, <3>4, <3>5, SameCalls
    <3> QED
      BY <1>1, <1>2, <1>3, <2>2, <2>3, <3>1, <3>5, <3>7, <3>8 DEF ClientInv
  <2>5. CASE e.type # "tool_use"
    <3>1. out' = Append(out, e.type) /\ block' = block
      BY <2>1, <2>5 DEF C!Delta
    <3>2. e.type \in OutKinds \ {"tool_use"}
      BY <1>4, <1>9, <2>5 DEF OutKinds, C!Types
    <3>3. HistoryIs(Append(sent, e), block, "none")
      BY <1>2, <1>3, <1>9, <2>2, DeltaHistory
    <3>4. Append(out, e.type) \in Seq(OutKinds) /\ NoCalls(Append(out, e.type))
      BY <1>3, <3>2, OneWritten
    <3> QED
      BY <1>1, <1>2, <1>3, <2>2, <2>3, <3>1, <3>3, <3>4 DEF ClientInv
  <2> QED
    BY <2>4, <2>5
<1>10. CASE C!Acceptable(e) /\ e.k = "stop"
  <2>1. C!Stop(e)
    BY <1>10 DEF C!Receive
  <2>2. reason = "none" /\ ~block[e.i].closed /\ e.i \in C!Indexes
    BY <1>4, <1>10 DEF C!Acceptable
  <2> DEFINE x == [block[e.i] EXCEPT !.closed = TRUE]
  <2>3. /\ block' = [block EXCEPT ![e.i] = x]
        /\ calls' = IF block[e.i].type = "tool_use" THEN Append(calls, block[e.i].id) ELSE calls
        /\ reason' = reason /\ out' = out /\ stream' = stream
    BY <2>1 DEF C!Stop
  <2>4. /\ block[e.i] \in BlockRecords /\ block[e.i].type \in C!Types
        /\ block[e.i].id \in {"a", "b"}
    BY <1>3, <2>2, BlockShape
  <2>5. x \in BlockRecords /\ x.closed = TRUE /\ x.type = block[e.i].type
    BY <2>4 DEF BlockRecords
  <2> HIDE DEF x
  <2>6. block'[e.i] = x /\ \A i \in C!Indexes : i # e.i => block'[i] = block[i]
    BY <1>3, <2>2, <2>3
  <2>7. block' \in BlockMap
    BY <1>3, <2>3, <2>5 DEF BlockMap
  <2>8. x # C!Absent
    BY <2>4, <2>5 DEF C!Absent, C!Types
  <2>9. HistoryIs(Append(sent, e), block', "none") /\ Closed(block')
    BY <1>2, <1>3, <1>10, <2>2, <2>5, <2>6, <2>7, <2>8, StopHistory
  <2>10. CallsOK(calls', block')
    <3> DEFINE i == e.i
               c == block'
               q == IF block[i].type = "tool_use" THEN Append(calls, block[i].id) ELSE calls
    <3>1. /\ c[i].closed /\ c[i].type = block[i].type
          /\ \A l \in C!Indexes : l # i => c[l] = block[l]
      BY <2>5, <2>6
    <3>2. i \in C!Indexes /\ ~block[i].closed /\ block[i].id \in {"a", "b"} /\ c \in BlockMap /\ Closed(c)
      BY <2>2, <2>4, <2>7, <2>9
    <3>3. calls' = q
      BY <2>3
    <3> HIDE DEF i, c
    <3>4. CallsOK(q, c)
      BY <1>3, <3>1, <3>2, StopCalls
    <3> HIDE DEF q
    <3> QED
      BY <3>3, <3>4 DEF c
  <2> QED
    BY <1>1, <1>2, <1>3, <2>2, <2>3, <2>7, <2>9, <2>10 DEF ClientInv
<1>11. CASE C!Acceptable(e) /\ e.k = "message_delta"
  <2>1. C!MessageDelta(e)
    BY <1>11 DEF C!Receive
  <2>2. /\ reason' = (IF e.reason = "none" THEN reason ELSE e.reason)
        /\ UNCHANGED <<block, calls, out, stream>>
    BY <2>1 DEF C!MessageDelta
  <2>3. Len(sent) # 0 /\ Closed(block)
    BY <1>5, <1>11 DEF C!Acceptable
  <2>4. HistoryIs(Append(sent, e), block, reason')
    BY <1>2, <1>3, <1>11, <2>3, UsageHistory
  <2>5. reason' \in {"none", "stop", "tool_calls"}
    BY <1>3, <1>4, <1>11, <2>2
  <2> QED
    BY <1>1, <1>2, <1>3, <2>2, <2>4, <2>5 DEF ClientInv
<1>12. CASE C!Acceptable(e) /\ e.k = "message_stop"
  <2>1. C!MessageStop
    BY <1>12 DEF C!Receive
  <2>2. /\ out' = out \o (IF calls = <<>> THEN <<>> ELSE <<"tool_use">>) \o <<"finish", "done">>
        /\ stream' = "done" /\ UNCHANGED <<block, calls, reason>>
    BY <2>1 DEF C!MessageStop
  <2>3. reason # "none" /\ Closed(block)
    BY <1>5, <1>12 DEF C!Acceptable
  <2>4. HistoryDone(Append(sent, e))
    BY <1>2, <1>3, <1>12, <2>3, LastHistory
  <2>5. out' \in Seq(OutKinds) /\ CallsLast(out')
    BY <1>3, <2>2, EndWritten
  <2> QED
    BY <1>1, <1>2, <1>3, <2>2, <2>3, <2>4, <2>5 DEF ClientInv
<1> QED
  BY <1>4, <1>6, <1>7, <1>8, <1>9, <1>10, <1>11, <1>12

LEMMA ClientKept == TranslatorsAssumption /\ ClientInv /\ C!Next => ClientInv'
<1> SUFFICES ASSUME TranslatorsAssumption, ClientInv, C!Next PROVE ClientInv'
  OBVIOUS
<1>1. CASE \E e \in C!Plain : C!Receive(e)
  BY <1>1, ReceiveKeeps
<1>2. CASE C!Break
  <2>1. stream = "open" /\ C!Reject /\ sent' = sent
    BY <1>2 DEF C!Break
  <2> QED
    BY <2>1, RejectKeeps DEF ClientInv
<1> QED
  BY <1>1, <1>2 DEF C!Next
-----------------------------------------------------------------------------
(* The message that was received: usage that is followed by other usage    *)
(* left out.                                                               *)
KeptAt(r) == {j \in 1..Len(r) : r[j].k = "message_delta" =>
                                   ~\E m \in DOMAIN r : m > j /\ r[m].k = "message_delta"}

KeptReading(f, n, r) ==
    /\ n \in Nat /\ f \in [1..n -> KeptAt(r)]
    /\ \A m, l \in 1..n : m < l => f[m] < f[l]
    /\ \A j \in KeptAt(r) : \E m \in 1..n : f[m] = j

LEMMA SameSets ==
  ASSUME NEW S
  PROVE  C!Cardinality(S) = Cardinality(S) /\ C!AS!Cardinality(S) = Cardinality(S)
BY DEF C!Cardinality, C!AS!Cardinality, Cardinality, C!IsFiniteSet, C!AS!IsFiniteSet, IsFiniteSet

LEMMA SameSelection ==
  ASSUME NEW s, NEW I
  PROVE  C!Subsequence(s, I) = Subsequence(s, I)
<1> DEFINE P(n) == CHOOSE i \in I : C!RankIn(I, i) = n
           Q(n) == CHOOSE i \in I : RankIn(I, i) = n
<1>1. \A S : C!Cardinality(S) = Cardinality(S)
  BY SameSets
<1>2. \A i : C!RankIn(I, i) = RankIn(I, i)
  BY <1>1 DEF C!RankIn, RankIn
<1>3. \A n : P(n) = Q(n)
  BY <1>2
<1>4. /\ C!Subsequence(s, I) = [n \in 1..C!Cardinality(I) |-> s[P(n)]]
      /\ Subsequence(s, I) = [n \in 1..Cardinality(I) |-> s[Q(n)]]
  BY DEF C!Subsequence, Subsequence
<1> HIDE DEF P, Q
<1> QED
  BY <1>1, <1>3, <1>4

LEMMA KeptIs ==
  ASSUME sent \in Seq(C!Plain)
  PROVE  \E f, n : /\ KeptReading(f, n, sent)
                   /\ Len(C!Kept) = n /\ \A m \in 1..n : C!Kept[m] = f[m]
<1> DEFINE ids == [j \in 1..Len(sent) |-> j]
           I == KeptAt(sent)
           n == Cardinality(I)
<1>1. Len(sent) \in Nat /\ DOMAIN sent = 1..Len(sent)
  OBVIOUS
<1>2. C!Kept = Subsequence(ids, I)
  <2> DEFINE J == {j \in DOMAIN ids :
                     sent[ids[j]].k = "message_delta" =>
                        ~\E m \in DOMAIN sent : m > ids[j] /\ sent[m].k = "message_delta"}
  <2>1. J = I
    BY DEF KeptAt
  <2>2. C!Kept = C!Subsequence(ids, J)
    BY DEF C!Kept, C!Select
  <2> QED
    BY <2>1, <2>2, SameSelection
<1>3. I \in SUBSET (1..Len(sent))
  BY DEF KeptAt
<1>4. n \in Nat /\ DOMAIN Subsequence(ids, I) = 1..n
  BY <1>1, <1>3, SubsequenceReads
<1>5. PICK f : IsReading(f, ids, I)
  BY <1>1, <1>3, SubsequenceReads
<1>6. KeptReading(f, n, sent)
  BY <1>4, <1>5 DEF IsReading, KeptReading
<1>7. \A m \in 1..n : Subsequence(ids, I)[m] = f[m]
  <2> SUFFICES ASSUME NEW m \in 1..n PROVE Subsequence(ids, I)[m] = f[m]
    OBVIOUS
  <2>1. f[m] \in I /\ Subsequence(ids, I)[m] = ids[f[m]]
    BY <1>5 DEF IsReading
  <2> QED
    BY <1>3, <2>1
<1>8. Len(Subsequence(ids, I)) = n
  <2>1. Subsequence(ids, I) \in Seq(Nat)
    <3>1. ids \in Seq(Nat) /\ DOMAIN ids = 1..Len(sent)
      BY <1>1
    <3> HIDE DEF ids, I
    <3> QED
      BY <1>3, <3>1, SubsequenceType
  <2>2. \A q \in Seq(Nat) : \A m \in Nat : DOMAIN q = 1..m => Len(q) = m
    OBVIOUS
  <2> HIDE DEF ids, I, n
  <2> QED
    BY <1>4, <2>1, <2>2
<1> QED
  BY <1>2, <1>6, <1>7, <1>8

(* the kept event before another *)
LEMMA KeptBefore ==
  ASSUME NEW T, NEW r \in Seq(T), NEW f, NEW n, KeptReading(f, n, r), NEW m \in 1..n,
         NEW p \in KeptAt(r), p < f[m], \A l \in (p + 1)..(f[m] - 1) : l \notin KeptAt(r)
  PROVE  m - 1 \in 1..n /\ f[m - 1] = p
<1>1. n \in Nat /\ KeptAt(r) \subseteq 1..Len(r) /\ Len(r) \in Nat
      /\ \A l \in 1..n : f[l] \in KeptAt(r)
  BY DEF KeptReading, KeptAt
<1>2. \A l \in 1..n : f[l] \in Nat
  BY <1>1
<1>3. PICK l \in 1..n : f[l] = p
  BY DEF KeptReading
<1>4. l < m
  <2>1. ~(l = m) /\ ~(m < l)
    BY <1>1, <1>2, <1>3 DEF KeptReading
  <2> QED
    BY <1>1, <2>1
<1>5. m - 1 \in 1..n
  BY <1>1, <1>4
<1>6. l = m - 1
  <2> SUFFICES ASSUME l # m - 1 PROVE FALSE
    OBVIOUS
  <2>1. l < m - 1 /\ m - 1 < m
    BY <1>1, <1>4
  <2>2. f[l] < f[m - 1] /\ f[m - 1] < f[m]
    BY <1>5, <2>1 DEF KeptReading
  <2>3. f[m - 1] \in (p + 1)..(f[m] - 1)
    BY <1>2, <1>3, <1>5, <2>2
  <2> QED
    BY <1>1, <1>5, <2>3
<1> QED
  BY <1>3, <1>5, <1>6

LEMMA KeptFollows ==
  ASSUME NEW T, NEW r \in Seq(T), HistoryDone(r), NEW f, NEW n, KeptReading(f, n, r)
  PROVE  /\ n \in Nat /\ n # 0 /\ f[n] = Len(r)
         /\ \A m \in 1..n :
              /\ f[m] \in DOMAIN r
              /\ r[f[m]].k = "message_start" => m = 1
              /\ r[f[m]].k \in {"start", "message_delta"} =>
                    m - 1 \in 1..n /\ r[f[m - 1]].k \in Rests
              /\ r[f[m]].k \in {"delta", "stop"} =>
                    m - 1 \in 1..n /\ r[f[m - 1]].k \in Runs /\ r[f[m - 1]].i = r[f[m]].i
              /\ r[f[m]].k = "message_stop" =>
                    m - 1 \in 1..n /\ r[f[m - 1]].k = "message_delta"
<1> DEFINE z == Len(r)
           I == KeptAt(r)
<1>1. /\ z \in Nat /\ z # 0 /\ DOMAIN r = 1..z
      /\ HistoryOK(r) /\ r[z].k = "message_stop" /\ z \in 1..z
      /\ \A j \in 1..(z - 1) : r[j].k # "message_stop"
  BY DEF HistoryDone
<1>2. PICK d \in 1..(z - 1) : \A l \in d..(z - 1) : r[l].k = "message_delta"
  BY DEF HistoryDone
<1>3. /\ n \in Nat /\ I \subseteq 1..z /\ \A m \in 1..n : f[m] \in I /\ f[m] \in 1..z /\ f[m] \in Nat
  <2>1. n \in Nat /\ I \subseteq 1..z /\ \A m \in 1..n : f[m] \in I
    BY DEF KeptReading, KeptAt
  <2> QED
    BY <1>1, <2>1
<1>4. /\ \A j \in 1..z : r[j].k # "message_delta" => j \in I
      /\ \A j, l \in 1..z : j < l /\ r[j].k = "message_delta" /\ r[l].k = "message_delta" => j \notin I
  BY <1>1 DEF KeptAt
<1>5. z \in I
  BY <1>1, <1>4
<1>6. n # 0 /\ f[n] = z
  <2>1. PICK m \in 1..n : f[m] = z
    BY <1>5 DEF KeptReading
  <2>2. n \in 1..n
    BY <1>3, <2>1
  <2>3. ~(m < n)
    <3>1. m < n => z < f[n]
      BY <2>1, <2>2 DEF KeptReading
    <3> QED
      BY <1>1, <1>3, <2>2, <3>1
  <2> QED
    BY <1>3, <2>1, <2>2, <2>3
<1>7. \A j \in DOMAIN r : InPlace(r, j)
  BY <1>1 DEF HistoryOK
<1> HIDE DEF z, I
<1>8. ASSUME NEW m \in 1..n
      PROVE  /\ f[m] \in DOMAIN r
             /\ r[f[m]].k = "message_start" => m = 1
             /\ r[f[m]].k \in {"start", "message_delta"} =>
                   m - 1 \in 1..n /\ r[f[m - 1]].k \in Rests
             /\ r[f[m]].k \in {"delta", "stop"} =>
                   m - 1 \in 1..n /\ r[f[m - 1]].k \in Runs /\ r[f[m - 1]].i = r[f[m]].i
             /\ r[f[m]].k = "message_stop" =>
                   m - 1 \in 1..n /\ r[f[m - 1]].k = "message_delta"
  <2> DEFINE j == f[m]
  <2>1. j \in I /\ j \in 1..z /\ j \in DOMAIN r /\ InPlace(r, j) /\ j \in Nat
    BY <1>1, <1>3, <1>7
  <2>2. \A p \in I : p < j /\ (\A l \in (p + 1)..(j - 1) : l \notin I) =>
           m - 1 \in 1..n /\ f[m - 1] = p
    BY KeptBefore DEF I
  <2> HIDE DEF j
  <2>3. ASSUME r[j].k = "message_start" PROVE m = 1
    <3>1. j = 1
      BY <2>1, <2>3 DEF InPlace
    <3>2. 1 \in 1..n /\ (m = 1 \/ 1 < m)
      BY <1>3
    <3>3. 1 < m => f[1] < 1
      BY <3>1, <3>2 DEF KeptReading, j
    <3>4. ~(f[1] < 1)
      BY <1>3, <3>2
    <3> QED
      BY <3>2, <3>3, <3>4
  <2>4. ASSUME r[j].k \in {"start", "message_delta"}
        PROVE  m - 1 \in 1..n /\ r[f[m - 1]].k \in Rests
    <3>1. PICK p \in 1..(j - 1) : r[p].k \in Rests /\ \A l \in (p + 1)..(j - 1) : r[l].k = "message_delta"
      BY <2>1, <2>4 DEF InPlace, Settled
    <3>2. p \in 1..z /\ p < j /\ p \in I
      <4>1. p \in 1..z /\ p < j
        BY <1>1, <2>1
      <4> QED
        BY <1>4, <3>1, <4>1 DEF Rests
    <3>3. \E x \in 1..z : r[x].k = "message_delta" /\ j <= x
      <4>1. CASE r[j].k = "message_delta"
        BY <2>1, <4>1
      <4>2. CASE r[j].k = "start"
        <5>1. j # z /\ j \notin d..(z - 1) /\ d \in 1..z /\ d \in d..(z - 1)
          BY <1>1, <1>2, <4>2
        <5>2. j <= d
          BY <1>1, <2>1, <5>1
        <5> QED
          BY <1>2, <5>1, <5>2
      <4> QED
        BY <2>4, <4>1, <4>2
    <3>4. \A l \in (p + 1)..(j - 1) : l \notin I
      <4>1. PICK x \in 1..z : r[x].k = "message_delta" /\ j <= x
        BY <3>3
      <4>2. \A l \in (p + 1)..(j - 1) : l \in 1..z /\ l < x
        BY <1>1, <2>1, <3>2, <4>1
      <4> QED
        BY <1>4, <3>1, <4>1, <4>2
    <3> QED
      BY <2>2, <3>1, <3>2, <3>4
  <2>5. ASSUME r[j].k \in {"delta", "stop"}
        PROVE  m - 1 \in 1..n /\ r[f[m - 1]].k \in Runs /\ r[f[m - 1]].i = r[j].i
    <3>1. j - 1 \in 1..z /\ r[j - 1].k \in Runs /\ r[j - 1].i = r[j].i
      BY <1>1, <2>1, <2>5 DEF InPlace
    <3>2. j - 1 \in I /\ j - 1 < j /\ ((j - 1) + 1)..(j - 1) = {}
      BY <1>4, <2>1, <3>1 DEF Runs
    <3> QED
      BY <2>2, <3>1, <3>2
  <2>6. ASSUME r[j].k = "message_stop"
        PROVE  m - 1 \in 1..n /\ r[f[m - 1]].k = "message_delta"
    <3>1. j = z
      BY <1>1, <2>1, <2>6
    <3>2. z - 1 \in 1..z /\ z - 1 \in d..(z - 1) /\ z - 1 < z /\ ((z - 1) + 1)..(z - 1) = {}
      BY <1>1, <1>2
    <3>3. r[z - 1].k = "message_delta"
      BY <1>2, <3>2
    <3>4. \A l \in DOMAIN r : l > z - 1 => l = z
      BY <1>1
    <3>5. z - 1 \in I
      BY <1>1, <3>2, <3>4 DEF KeptAt, I, z
    <3> QED
      BY <2>2, <3>1, <3>2, <3>3, <3>5
  <2> QED
    BY <2>1, <2>3, <2>4, <2>5, <2>6 DEF j
<1> QED
  BY <1>3, <1>6, <1>8 DEF z

(* the numbers of the blocks *)
LEMMA OrderIs ==
  ASSUME sent \in Seq(C!Plain), HistoryOK(sent), NEW f, NEW n, KeptReading(f, n, sent),
         NEW m \in 1..n, sent[f[m]].k = "start"
  PROVE  C!Order(sent[f[m]].i) = Cardinality({l \in 1..(m - 1) : sent[f[l]].k = "start"})
<1> DEFINE A == {l \in 1..(m - 1) : sent[f[l]].k = "start"}
           B == {j \in DOMAIN sent : sent[j].k = "start" /\ j < f[m]}
           g == [l \in A |-> f[l]]
<1>1. /\ Len(sent) \in Nat /\ DOMAIN sent = 1..Len(sent) /\ n \in Nat
      /\ \A l \in 1..n : f[l] \in DOMAIN sent /\ f[l] \in Nat
      /\ \A j \in DOMAIN sent : sent[j].k # "message_delta" => j \in KeptAt(sent)
  <2>1. Len(sent) \in Nat /\ DOMAIN sent = 1..Len(sent)
    OBVIOUS
  <2>2. n \in Nat /\ \A l \in 1..n : f[l] \in DOMAIN sent
    BY <2>1 DEF KeptReading, KeptAt
  <2> QED
    BY <2>1, <2>2 DEF KeptAt
<1>2. C!Order(sent[f[m]].i) = Cardinality(B)
  <2> DEFINE i == sent[f[m]].i
             D == {j \in DOMAIN sent : sent[j].k = "start" /\
                     \E x \in DOMAIN sent : x > j /\ sent[x].k = "start" /\ sent[x].i = i}
  <2>1. \A x \in DOMAIN sent : sent[x].k = "start" /\ sent[x].i = i => x = f[m]
    BY <1>1 DEF HistoryOK
  <2>2. f[m] \in DOMAIN sent /\ f[m] \in Nat /\ \A j \in DOMAIN sent : f[m] > j <=> j < f[m]
    BY <1>1
  <2>3. D = B
    BY <2>1, <2>2
  <2>4. C!Order(i) = C!Cardinality(D)
    BY DEF C!Order
  <2> QED
    BY <2>3, <2>4, SameSets
<1>3. A \subseteq 1..n /\ \A l \in 1..(m - 1) : l \in 1..n /\ l < m
  BY <1>1
<1>4. g \in [A -> B]
  BY <1>1, <1>3 DEF KeptReading
<1>5. \A k, l \in A : g[k] = g[l] => k = l
  <2> SUFFICES ASSUME NEW k \in A, NEW l \in A, f[k] = f[l] PROVE k = l
    OBVIOUS
  <2>1. k \in 1..n /\ l \in 1..n /\ f[k] \in Nat
    BY <1>1, <1>3
  <2>2. ~(k < l) /\ ~(l < k)
    BY <2>1 DEF KeptReading
  <2> QED
    BY <2>1, <2>2
<1>6. \A j \in B : \E l \in A : g[l] = j
  <2> SUFFICES ASSUME NEW j \in B PROVE \E l \in A : f[l] = j
    OBVIOUS
  <2>1. j \in KeptAt(sent)
    BY <1>1
  <2>2. PICK l \in 1..n : f[l] = j
    BY <2>1 DEF KeptReading
  <2>3. ~(l = m) /\ ~(m < l)
    <3>1. j < f[m] /\ j \in Nat /\ f[m] \in Nat
      BY <1>1
    <3>2. m < l => f[m] < j
      BY <2>2 DEF KeptReading
    <3> QED
      BY <2>2, <3>1, <3>2
  <2>4. l \in 1..(m - 1)
    BY <1>1, <2>3
  <2> QED
    BY <2>2, <2>4
<1>7. IsFiniteSet(A)
  <2>1. IsFiniteSet(1..n)
    BY <1>1, FS_Interval
  <2> QED
    BY <1>3, <2>1, FS_Subset
<1>8. g \in Bijection(A, B)
  <2> HIDE DEF A, B, g
  <2>1. g \in Injection(A, B)
    BY <1>4, <1>5 DEF Injection, IsInjective
  <2>2. g \in Surjection(A, B)
    BY <1>4, <1>6 DEF Surjection
  <2> QED
    BY <2>1, <2>2 DEF Bijection
<1>9. Cardinality(A) = Cardinality(B)
  <2> HIDE DEF A, B, g
  <2> QED
    BY <1>7, <1>8, FS_Bijection DEF ExistsBijection
<1> QED
  BY <1>2, <1>9

(* without usage, the latest event is the last *)
LEMMA LatestIs ==
  ASSUME NEW S, NEW w \in Seq(S), Len(w) # 0, \A j \in DOMAIN w : w[j].k # "usage"
  PROVE  C!AS!Latest(w) = w[Len(w)] /\ C!AS!LastKind(w) = w[Len(w)].k
<1> DEFINE P(j) == w[j].k # "usage" /\ \A l \in j + 1..Len(w) : w[l].k = "usage"
           c == CHOOSE j \in 1..Len(w) : P(j)
<1>1. Len(w) \in Nat /\ DOMAIN w = 1..Len(w) /\ w # <<>>
  OBVIOUS
<1>2. P(Len(w)) /\ Len(w) \in 1..Len(w)
  <2>1. Len(w) \in 1..Len(w) /\ Len(w) + 1..Len(w) = {}
    BY <1>1
  <2> QED
    BY <1>1, <2>1
<1>3. c \in 1..Len(w) /\ P(c)
  <2> HIDE DEF P
  <2> QED
    BY <1>2
<1>4. c = Len(w)
  <2> SUFFICES ASSUME c # Len(w) PROVE FALSE
    OBVIOUS
  <2>1. w[Len(w)].k # "usage" /\ \A l \in c + 1..Len(w) : w[l].k = "usage"
    BY <1>2, <1>3
  <2>2. c \in 1..Len(w) /\ Len(w) \in Nat
    BY <1>1, <1>3
  <2> HIDE DEF c, P
  <2>3. Len(w) \in c + 1..Len(w)
    <3> DEFINE n == Len(w)
    <3>1. n \in Nat /\ c \in 1..n /\ c # n
      BY <2>2
    <3> HIDE DEF n
    <3>2. n \in c + 1..n
      BY <3>1
    <3> QED
      BY <3>2 DEF n
  <2> QED
    BY <2>1, <2>3
<1>5. C!AS!Latest(w) = w[c]
  BY DEF C!AS!Latest
<1> HIDE DEF c
<1>6. C!AS!Latest(w) = w[Len(w)]
  BY <1>4, <1>5
<1> QED
  BY <1>1, <1>6 DEF C!AS!LastKind

LEMMA MessageLegal ==
  ASSUME sent \in Seq(C!Plain), HistoryDone(sent)
  PROVE  /\ \A m \in 1..Len(C!Message) :
               C!AS!Legal(SubSeq(C!Message, 1, m - 1), C!Message[m])
         /\ C!Message[Len(C!Message)].k = "message_stop"
<1> DEFINE W == C!Message
           S == {W[l] : l \in DOMAIN W}
           Numbered == {"start", "delta", "stop"}
<1>1. PICK f, n : /\ KeptReading(f, n, sent)
                  /\ Len(C!Kept) = n /\ \A m \in 1..n : C!Kept[m] = f[m]
  BY KeptIs
<1>2. /\ n \in Nat /\ n # 0 /\ f[n] = Len(sent)
      /\ \A m \in 1..n :
           /\ f[m] \in DOMAIN sent
           /\ sent[f[m]].k = "message_start" => m = 1
           /\ sent[f[m]].k \in {"start", "message_delta"} =>
                 m - 1 \in 1..n /\ sent[f[m - 1]].k \in Rests
           /\ sent[f[m]].k \in {"delta", "stop"} =>
                 m - 1 \in 1..n /\ sent[f[m - 1]].k \in Runs /\ sent[f[m - 1]].i = sent[f[m]].i
           /\ sent[f[m]].k = "message_stop" =>
                 m - 1 \in 1..n /\ sent[f[m - 1]].k = "message_delta"
  BY <1>1, KeptFollows
<1>3. /\ DOMAIN W = 1..n
      /\ \A m \in 1..n : /\ W[m].k = sent[f[m]].k
                         /\ W[m].i = IF sent[f[m]].k \in Numbered THEN C!Order(sent[f[m]].i) ELSE 0
  BY <1>1 DEF C!Message
<1>4. \A m \in 1..n : sent[f[m]].k \in {"message_start", "message_stop", "start", "delta",
                                         "stop", "message_delta"}
  BY <1>2, Elements, EventShape
<1> HIDE DEF W, S
<1>5. W \in Seq(S) /\ Len(W) = n
  <2>1. W = [m \in 1..n |-> W[m]]
    BY <1>3 DEF W, C!Message
  <2>2. \A m \in 1..n : W[m] \in S
    BY <1>3 DEF S
  <2>3. [m \in 1..n |-> W[m]] \in [1..n -> S]
    BY <2>2
  <2>4. \A q \in [1..n -> S] : q \in Seq(S) /\ Len(q) = n
    BY <1>2
  <2> QED
    BY <2>1, <2>3, <2>4
<1>6. ASSUME NEW m \in 1..n
      PROVE  C!AS!Legal(SubSeq(W, 1, m - 1), W[m])
  <2> DEFINE w == SubSeq(W, 1, m - 1)
             e == W[m]
             k == sent[f[m]].k
             p == m - 1
  <2>1. /\ w \in Seq(S) /\ Len(w) = p /\ \A l \in 1..p : w[l] = W[l] /\ l \in 1..n
        /\ p \in Nat /\ DOMAIN w = 1..p
    <3>1. /\ p \in Nat /\ p \in Int /\ 1 \in Int /\ \A l \in 1..p : l \in 1..n
      BY <1>2
    <3>2. \A l \in 1..p : W[l] \in S
      BY <1>3, <3>1 DEF S
    <3> HIDE DEF p
    <3>3. /\ SubSeq(W, 1, p) \in Seq(S)
          /\ Len(SubSeq(W, 1, p)) = (IF 1 <= p THEN p - 1 + 1 ELSE 0)
          /\ \A l \in 1..(p - 1 + 1) : SubSeq(W, 1, p)[l] = W[1 + l - 1]
      BY <3>1, <3>2, SubSeqProperties
    <3>4. /\ p - 1 + 1 = p /\ (~(1 <= p) => p = 0) /\ \A l \in 1..p : 1 + l - 1 = l
      BY <3>1
    <3>5. w = SubSeq(W, 1, p)
      BY DEF p
    <3> HIDE DEF w
    <3>6. w \in Seq(S) /\ Len(w) = p /\ \A l \in 1..p : w[l] = W[l]
      BY <3>3, <3>4, <3>5
    <3>7. \A q \in Seq(S) : DOMAIN q = 1..Len(q)
      OBVIOUS
    <3> QED
      BY <3>1, <3>6, <3>7
  <2> HIDE DEF w
  <2>2. e.k = k /\ k \in {"message_start", "message_stop", "start", "delta", "stop", "message_delta"}
    BY <1>3, <1>4
  <2>3. p \in 1..n => /\ C!AS!LastKind(w) = sent[f[p]].k
                      /\ C!AS!Latest(w) = W[p]
    <3> SUFFICES ASSUME p \in 1..n
                 PROVE  C!AS!LastKind(w) = sent[f[p]].k /\ C!AS!Latest(w) = W[p]
      OBVIOUS
    <3>1. \A j \in DOMAIN w : w[j].k # "usage"
      BY <1>3, <1>4, <2>1, SMTT(30)
    <3>2. Len(w) # 0 /\ w[Len(w)] = W[p]
      BY <2>1
    <3>3. C!AS!Latest(w) = w[Len(w)] /\ C!AS!LastKind(w) = w[Len(w)].k
      BY <2>1, <3>1, <3>2, LatestIs
    <3> QED
      BY <1>3, <3>2, <3>3
  <2>4. CASE k = "message_start"
    <3>1. m = 1
      BY <1>2, <2>4
    <3>2. w = <<>>
      BY <2>1, <3>1
    <3> QED
      BY <2>2, <2>4, <3>2 DEF C!AS!Legal, w
  <2>5. CASE k = "start"
    <3>1. p \in 1..n /\ sent[f[p]].k \in Rests
      BY <1>2, <2>5
    <3>2. C!AS!Between(w)
      BY <2>3, <3>1 DEF C!AS!Between, Rests
    <3>3. e.i = C!AS!Started(w)
      <4>1. {j \in 1..Len(w) : w[j].k = "start"} = {l \in 1..p : sent[f[l]].k = "start"}
        BY <1>3, <2>1
      <4>2. C!AS!Started(w) = Cardinality({l \in 1..p : sent[f[l]].k = "start"})
        BY <4>1, SameSets DEF C!AS!Started
      <4>3. HistoryOK(sent)
        BY DEF HistoryDone
      <4>4. C!Order(sent[f[m]].i) = Cardinality({l \in 1..(m - 1) : sent[f[l]].k = "start"})
        BY <1>1, <2>5, <4>3, OrderIs
      <4>5. e.i = C!Order(sent[f[m]].i)
        BY <1>3, <2>5
      <4> QED
        BY <4>2, <4>4, <4>5
    <3> QED
      BY <2>2, <2>5, <3>2, <3>3 DEF C!AS!Legal, w
  <2>6. CASE k \in {"delta", "stop"}
    <3>1. p \in 1..n /\ sent[f[p]].k \in Runs /\ sent[f[p]].i = sent[f[m]].i
      BY <1>2, <2>6
    <3>2. C!AS!BlockOpen(w)
      BY <2>3, <3>1 DEF C!AS!BlockOpen, Runs
    <3>3. e.i = C!AS!Latest(w).i
      BY <1>3, <2>3, <2>6, <3>1 DEF Runs
    <3> QED
      BY <2>2, <2>6, <3>2, <3>3 DEF C!AS!Legal, w
  <2>7. CASE k = "message_delta"
    <3>1. p \in 1..n /\ sent[f[p]].k \in Rests
      BY <1>2, <2>7
    <3>2. C!AS!Between(w)
      BY <2>3, <3>1 DEF C!AS!Between, Rests
    <3> QED
      BY <2>2, <2>7, <3>2 DEF C!AS!Legal, w
  <2>8. CASE k = "message_stop"
    <3>1. p \in 1..n /\ sent[f[p]].k = "message_delta"
      BY <1>2, <2>8
    <3> QED
      BY <2>2, <2>3, <2>8, <3>1 DEF C!AS!Legal, w
  <2> QED
    BY <2>2, <2>4, <2>5, <2>6, <2>7, <2>8
<1>7. W[Len(W)].k = "message_stop"
  <2>1. W[Len(W)] = W[n]
    BY <1>5
  <2>2. n \in 1..n
    BY <1>2
  <2> QED
    BY <1>2, <1>3, <2>1, <2>2 DEF HistoryDone
<1> QED
  BY <1>5, <1>6, <1>7 DEF W

LEMMA ClientHolds == ClientInv => C!TypeOK /\ C!AcceptedIsLegal /\ C!ToolsTransactional
<1> SUFFICES ASSUME ClientInv PROVE C!TypeOK /\ C!AcceptedIsLegal /\ C!ToolsTransactional
  OBVIOUS
<1>1. C!TypeOK
  BY DEF ClientInv, C!TypeOK, BlockMap
<1>2. C!AcceptedIsLegal
  BY MessageLegal DEF ClientInv, C!AcceptedIsLegal
<1>3. C!ToolsTransactional
  <2>1. \A j \in DOMAIN out : out[j] = "tool_use" =>
           stream = "done" /\ SubSeq(out, j, Len(out)) = <<"tool_use", "finish", "done">>
    BY DEF ClientInv, NoCalls, CallsLast
  <2>2. C!IsInjective(calls)
    BY DEF ClientInv, CallsOK, Distinct, C!IsInjective
  <2>3. stream = "done" =>
          Len(calls) = C!Cardinality({i \in C!Opened : block[i].type = "tool_use"})
    <3> SUFFICES ASSUME stream = "done"
                 PROVE  Len(calls) = C!Cardinality({i \in C!Opened : block[i].type = "tool_use"})
      OBVIOUS
    <3>1. Closed(block) /\ block \in BlockMap /\ Len(calls) = Cardinality(ClosedCalls(block))
      BY DEF ClientInv, CallsOK
    <3>2. \A i \in C!Indexes : block[i].type = "tool_use" => block[i] # C!Absent
      BY <3>1, BlockShape
    <3>3. {i \in C!Opened : block[i].type = "tool_use"} = ClosedCalls(block)
      BY <3>1, <3>2 DEF C!Opened, ClosedCalls, Closed
    <3> QED
      BY <3>1, <3>3, SameSets
  <2> QED
    BY <2>1, <2>2, <2>3 DEF C!ToolsTransactional
<1> QED
  BY <1>1, <1>2, <1>3
-----------------------------------------------------------------------------
(* The streams together.  Only the last text, before the final response,   *)
(* can exceed the bound on the fragments.                                  *)
Endings == {"final_update", "final_close", "final", "error", "error_close", "error_write",
            "ended", "escaped"}

Counted == content <= IF main \in Endings THEN MaxUpdates + 1 ELSE MaxUpdates

StreamsInv ==
    /\ BaseInv /\ Counted
    /\ part = "relay" => RelayInv
    /\ part = "upstream" => UpstreamInv
    /\ part = "client" => ClientInv

LEMMA CountedKept ==
  ASSUME BaseInv, Counted, [Next]_vars
  PROVE  Counted'
<1>0. content \in Nat /\ MaxUpdates \in Nat
  BY ConstantsAssumption DEF BaseInv, ProgressTypes
<1>1. CASE Update
  BY <1>0, <1>1 DEF Update, Counted
<1>2. CASE FinalUpdate
  <2>1. content' \in {content, content + 1} /\ main \notin Endings /\ main' \in Endings
    BY <1>2 DEF FinalUpdate, Endings, progressVars
  <2> QED
    BY <1>0, <2>1 DEF Counted
<1>3. CASE MainStep /\ ~FinalUpdate
  <2>1. content' = content
    BY <1>3 DEF MainStep, Open, OpenFails, OpenBanner, Opened, UpdateUsage, UsageWritten,
       BridgeClose, BridgeStart, UsesEmitted, ToolsDone, Fail, FinalClose, FinalStart, FinalDone,
       ErrorLeave, ErrorEscapes, ErrorClose, ErrorWrite, ErrorDone, EmitUse, EmitResult,
       ResultEmitted, ToolThrows, Stop, progressVars
  <2>2. main \in Endings => main' \in Endings
    BY <1>3 DEF MainStep, Open, OpenFails, OpenBanner, Opened, UpdateUsage, UsageWritten,
       BridgeClose, BridgeStart, UsesEmitted, ToolsDone, Fail, FinalClose, FinalStart, FinalDone,
       ErrorLeave, ErrorEscapes, ErrorClose, ErrorWrite, ErrorDone, EmitUse, EmitResult,
       ResultEmitted, ToolThrows, Stop, Endings
  <2> QED
    BY <1>0, <2>1, <2>2 DEF Counted
<1>4. CASE QueueStep
  BY <1>4 DEF QueueStep, StartRaw, StartUpdate, StartBanner, StartClose, WriteEvent, WriteFails,
     Counted, progressVars
<1>5. CASE ProgressStep \/ Elapse \/ Disconnect \/ UNCHANGED vars
  BY <1>5 DEF ProgressStep, FlushTimer, RunHook, Release, Elapse, Disconnect, vars, progressVars,
     flagVars, Counted
<1> QED
  BY <1>1, <1>2, <1>3, <1>4, <1>5 DEF Next

LEMMA TypesHold ==
  ASSUME BaseInv, Counted
  PROVE  TypeOK
<1>1. content \in 0..(MaxUpdates + 1)
  BY ConstantsAssumption DEF BaseInv, ProgressTypes, Counted
<1>2. PlainEvents \subseteq [k : AS!Kinds, i : Nat, from : Nat, to : Nat]
  BY DEF PlainEvents
<1>3. script \in [Emitters -> Seq(Events)]
  <2>1. ASSUME NEW q \in Seq(PlainEvents) PROVE q \in Seq(Events)
    BY EventTypes
  <2> QED
    BY <2>1 DEF BaseInv, StreamTypes
<1>4. \A j \in 1..Len(queue) : queue[j].op \in {"raw", "update", "banner", "close"}
  <2>1. \A j \in 1..Len(queue) : queue[j] \in Operations
    BY DEF BaseInv, StreamTypes
  <2> QED
    BY <2>1, OperationTypes
<1> QED
  BY <1>1, <1>3, <1>4 DEF BaseInv, StreamTypes, ProgressTypes, HandlerTypes, TypeOK, Events

LEMMA StreamsStep ==
  ASSUME [StreamsNext]_<<part, vars, translatorVars>>
  PROVE  [Next]_vars /\ part' = part
BY Zenon DEF StreamsNext

(* The response stream behaves in the gateway as it does alone: what is    *)
(* proved of it above holds with the translators beside it.                *)
THEOREM ClientStreamIsPart == StreamsSpec => Spec
<1>1. StreamsInit => Init
  BY DEF StreamsInit
<1> QED
  BY <1>1, StreamsStep, PTL DEF StreamsSpec, Spec

LEMMA StreamsStart == StreamsInit => StreamsInv
<1> SUFFICES ASSUME StreamsInit PROVE StreamsInv
  OBVIOUS
<1>1. Init /\ R!Init /\ U!Init /\ C!Init
  BY DEF StreamsInit
<1>2. Counted
  BY <1>1, ConstantsAssumption DEF Init, Counted, Endings
<1> QED
  BY <1>1, <1>2, BaseStarts, RelayStarts, UpstreamStarts, ClientStarts, TranslatorsAssumption
     DEF StreamsInv

LEMMA StreamsKept ==
  ASSUME StreamsInv, [StreamsNext]_<<part, vars, translatorVars>>
  PROVE  StreamsInv'
<1>1. BaseInv' /\ Counted' /\ part' = part
  BY StreamsStep, BaseKept, CountedKept DEF StreamsInv
<1>2. CASE UNCHANGED <<part, vars, translatorVars>>
  <2>1. UNCHANGED <<sent, out, stream, finishes, choice, deferred>>
    BY <1>2 DEF translatorVars, relayVars
  <2>2. RelayInv => RelayInv'
    <3>1. /\ RelayTypes => RelayTypes'
          /\ RelayOpen => RelayOpen'
      BY <2>1 DEF RelayTypes, RelayOpen
    <3>2. \A kind : R!Numbers(kind)' = R!Numbers(kind)
      BY <2>1 DEF R!Numbers
    <3>3. R!CommittedOnlyConfirmed => R!CommittedOnlyConfirmed'
      BY <2>1, <3>2 DEF R!CommittedOnlyConfirmed
    <3>4. AllRelayed => AllRelayed'
      BY <2>1, <3>2 DEF AllRelayed
    <3> QED
      BY <2>1, <3>1, <3>3, <3>4 DEF RelayInv
  <2>3. UNCHANGED <<sent, stream, events, textOpen, thinkingOpen, nextIndex, finishReason,
                    completed, tools>>
    BY <1>2 DEF translatorVars, upstreamVars
  <2>4. UpstreamInv => UpstreamInv'
    <3>1. U!State' = U!State
      BY <2>3 DEF U!State
    <3>2. StateIs(U!State, Len(sent))' <=> StateIs(U!State, Len(sent))
      BY <2>3, <3>1
    <3>3. Idle(U!State)' <=> Idle(U!State)
      BY <3>1
    <3> QED
      BY <2>3, <3>2, <3>3 DEF UpstreamInv, CommittedCalls
  <2>5. UNCHANGED <<sent, out, stream, block, calls, reason>>
    BY <1>2 DEF translatorVars, clientVars
  <2>6. ClientInv => ClientInv'
    BY <2>5 DEF ClientInv
  <2> QED
    BY <1>1, <2>2, <2>4, <2>6 DEF StreamsInv
<1>3. CASE StreamsNext
  <2>1. ASSUME part = "relay" PROVE RelayInv'
    BY <1>3, <2>1, RelayKept DEF StreamsNext, StreamsInv
  <2>2. ASSUME part = "upstream" PROVE UpstreamInv'
    BY <1>3, <2>2, UpstreamKept, TranslatorsAssumption DEF StreamsNext, StreamsInv
  <2>3. ASSUME part = "client" PROVE ClientInv'
    BY <1>3, <2>3, ClientKept, TranslatorsAssumption DEF StreamsNext, StreamsInv
  <2> QED
    BY <1>1, <2>1, <2>2, <2>3 DEF StreamsInv
<1> QED
  BY <1>2, <1>3

(* What a client of the other protocol reads, for every number of          *)
(* completions, calls, blocks and frames.  The relay writes every delta    *)
(* once and in order, and nothing that says completion before the upstream *)
(* has confirmed (relayOpenAIStream); the blocks of an OpenAI backend are  *)
(* opened and closed one by one, in order, and its calls committed with    *)
(* the stop reason or not at all (translateOpenAIStream); the message of   *)
(* an Anthropic backend is legal as far as it is accepted, and its calls   *)
(* are delivered at its end, all or none (the live translator).            *)
THEOREM TranslatorsAreSound == StreamsSpec => []StreamsTranslated
<1>1. StreamsInv => StreamsTranslated
  BY TypesHold, RelayHolds, UpstreamHolds, ClientHolds DEF StreamsInv, StreamsTranslated
<1> QED
  BY <1>1, StreamsStart, StreamsKept, PTL DEF StreamsSpec
=============================================================================

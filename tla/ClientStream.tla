----------------------------- MODULE ClientStream -----------------------------
(***************************************************************************)
(* The response stream of one streaming request: ProgressStream            *)
(* (src/src/proxy/progress.js), the server tool bridge and the final and   *)
(* error emitters (src/src/proxy/anthropic-sse.js), driven by the order in *)
(* which proxy-server.js uses them for a managed request.                  *)
(*                                                                         *)
(* Everything but message_start goes through the promise chain of          *)
(* #enqueue.  An operation reads the flags when it starts, then writes its *)
(* events one by one; one rejected write rejects every later operation.    *)
(***************************************************************************)
EXTENDS Naturals, Sequences, FiniteSets, SequencesExt, Subsequence

CONSTANTS
    Tools,       \* the managed calls of one round, dispatched together
    MaxUpdates,  \* bound on the timeline fragments of the request
    FinalBlocks, \* the content blocks of the final response
    None

ASSUME ConstantsAssumption ==
    /\ IsFiniteSet(Tools) /\ {"main", "none"} \cap Tools = {}
    /\ None \notin Nat
    /\ MaxUpdates \in Nat
    /\ FinalBlocks \in Nat

Emitters == Tools \cup {"main"}

VARIABLES
    wire,            \* the events written to res
    queue,           \* this.queue: the operations that have not completed
    writing,         \* the events its first operation still has to write
    poisoned,        \* this.queue is rejected
    gone,            \* the client disconnected, res.destroyed
    late,            \* visibleAfterMs have passed
    content,         \* modelTimeline.content, as a number of fragments
    pendingUpdates,  \* updates held back until late
    releasing,       \* updates past the threshold, before #emitUpdate enqueues
    hook,            \* onBeforeFirstVisible: todo, running or done
    visible, progressBlock, nextContentIndex, progressClosed, closed,
    main,            \* where the request handler awaits
    script,          \* the events an emitter still has to enqueue
    tool,            \* the calls of the round
    bridge,          \* nextIndex of createServerToolStreamBridge
    crossed          \* history: a result was sent beside another emitter

progressVars == <<late, content, pendingUpdates, releasing>>
flagVars == <<hook, visible, progressBlock, nextContentIndex>>
vars == <<wire, queue, writing, poisoned, gone, late, content, pendingUpdates,
          releasing, hook, visible, progressBlock, nextContentIndex, progressClosed,
          closed, main, script, tool, bridge, crossed>>

AS == INSTANCE AnthropicStream

Event(k, i) == AS!Event(k, i)
Timeline(i, from, to) == [k |-> "delta", i |-> i, from |-> from, to |-> to]

Block(i) == <<Event("start", i), Event("delta", i), Event("stop", i)>>
ResultBlock(i) == <<Event("start", i), Event("stop", i)>>

MainStates == {"open", "banner", "banner_wait", "work", "usage", "loop", "bridge_close",
               "uses", "tools", "answer", "final_update", "final_close", "final", "error",
                "error_close",
               "error_write", "ended", "escaped"}

Entry == [n : Nat, emit : BOOLEAN]

TypeOK ==
    /\ wire \in Seq([k : AS!Kinds, i : Nat, from : Nat, to : Nat])
    /\ \A j \in 1..Len(queue) : queue[j].op \in {"raw", "update", "banner", "close"}
    /\ poisoned \in BOOLEAN /\ gone \in BOOLEAN /\ late \in BOOLEAN
    /\ content \in 0..(MaxUpdates + 1)
    /\ pendingUpdates \in Seq(Entry) /\ releasing \in Seq(Entry)
    /\ hook \in {"todo", "running", "done"}
    /\ visible \in BOOLEAN /\ progressClosed \in BOOLEAN /\ closed \in BOOLEAN
    /\ progressBlock \in Nat \cup {None} /\ nextContentIndex \in Nat
    /\ main \in MainStates
    /\ script \in [Emitters -> Seq([k : AS!Kinds, i : Nat, from : Nat, to : Nat])]
    /\ tool \in [Tools -> {"idle", "running", "emitting", "done", "thrown"}]
    /\ bridge \in Nat \cup {None}
    /\ crossed \in BOOLEAN

(* canonical_interactive shows the banner at once and has no hook. *)
Init ==
    /\ wire = <<>> /\ queue = <<>> /\ writing = <<>>
    /\ poisoned = FALSE /\ gone = FALSE /\ late = FALSE
    /\ content = 0 /\ pendingUpdates = <<>> /\ releasing = <<>>
    /\ hook \in {"todo", "done"}
    /\ visible = FALSE /\ progressBlock = None /\ nextContentIndex = 0
    /\ progressClosed = FALSE /\ closed = FALSE
    /\ main = "open"
    /\ script = [e \in Emitters |-> <<>>]
    /\ tool = [t \in Tools |-> "idle"]
    /\ bridge = None
    /\ crossed = FALSE
-----------------------------------------------------------------------------
(* The queue *)

Raw(e, ev) == [op |-> "raw", by |-> e, ev |-> ev]
Op(name) == [op |-> name, by |-> "none"]

(* An emitter awaits its operation, or the ones it will enqueue after it. *)
Busy(e) == script[e] # <<>> \/ \E j \in 1..Len(queue) : queue[j].by = e
Queued(name) == \E j \in 1..Len(queue) : queue[j].op = name

(* writeRaw of the first of several events, each awaited before the next. *)
Emit(e, events) ==
    /\ queue' = Append(queue, Raw(e, Head(events)))
    /\ script' = [script EXCEPT ![e] = Tail(events)]

StartRaw ==
    /\ queue # <<>> /\ Head(queue).op = "raw" /\ writing = <<>>
    /\ writing' = <<Head(queue).ev>>
    /\ UNCHANGED <<wire, queue, poisoned, gone, progressVars, flagVars,
                   progressClosed, closed, main, script, tool, bridge>>

\* Mutant: a queued update does not look whether the progress was closed
\* before its turn came, and is written to a block that has no index.
StartUpdateClosed ==
    /\ queue # <<>> /\ Head(queue).op = "update" /\ writing = <<>>
    /\ writing' = <<Timeline(progressBlock, Head(queue).entry.n, Head(queue).entry.n)>>
    /\ UNCHANGED <<wire, queue, poisoned, gone, progressVars, flagVars,
                   progressClosed, closed, main, script, tool, bridge>>

(* #emitUpdate: opens the progress block with the whole timeline so far,   *)
(* or appends the entry's own fragment to it.                              *)
StartUpdate ==
    /\ queue # <<>> /\ Head(queue).op = "update" /\ writing = <<>>
    /\ LET e == Head(queue).entry IN
       IF closed \/ progressClosed \/ ~e.emit
         THEN /\ queue' = Tail(queue)
              /\ UNCHANGED <<writing, visible, progressBlock, nextContentIndex>>
         ELSE /\ UNCHANGED queue
              /\ IF progressBlock = None
                   THEN /\ visible' = TRUE
                        /\ progressBlock' = nextContentIndex
                        /\ nextContentIndex' = nextContentIndex + 1
                        /\ writing' = <<Event("start", nextContentIndex),
                                        Timeline(nextContentIndex, 1, e.n)>>
                   ELSE /\ writing' = <<Timeline(progressBlock, e.n, e.n)>>
                        /\ UNCHANGED <<visible, progressBlock, nextContentIndex>>
    /\ UNCHANGED <<wire, poisoned, gone, progressVars, hook, progressClosed, closed,
                   main, script, tool, bridge>>

StartBanner ==
    /\ queue # <<>> /\ Head(queue).op = "banner" /\ writing = <<>>
    /\ IF closed \/ progressClosed \/ visible
         THEN /\ queue' = Tail(queue)
              /\ hook' = "done"
              /\ UNCHANGED <<writing, visible, nextContentIndex>>
         ELSE /\ writing' = Block(nextContentIndex)
              /\ nextContentIndex' = nextContentIndex + 1
              /\ visible' = TRUE
              /\ UNCHANGED <<queue, hook>>
    /\ UNCHANGED <<wire, poisoned, gone, progressVars, progressBlock, progressClosed,
                   closed, main, script, tool, bridge>>

StartClose ==
    /\ queue # <<>> /\ Head(queue).op = "close" /\ writing = <<>>
    /\ IF progressBlock = None
         THEN queue' = Tail(queue) /\ UNCHANGED writing
         ELSE /\ writing' = <<Event("delta", progressBlock), Event("stop", progressBlock)>>
              /\ UNCHANGED queue
    /\ progressBlock' = None
    /\ UNCHANGED <<wire, poisoned, gone, progressVars, hook, visible, nextContentIndex,
                   progressClosed, closed, main, script, tool, bridge>>

(* A write that drains.  After the last one of an operation its caller     *)
(* goes on: an emitter enqueues its next event, unless the stream stopped. *)
WriteEvent ==
    /\ writing # <<>> /\ ~gone
    /\ wire' = Append(wire, Head(writing))
    /\ writing' = Tail(writing)
    /\ LET op == Head(queue) IN
       IF Len(writing) > 1
         THEN UNCHANGED <<queue, script, hook>>
         ELSE /\ hook' = IF op.op = "banner" THEN "done" ELSE hook
              /\ IF op.op = "raw" /\ script[op.by] # <<>> /\ ~closed
                   THEN /\ queue' = Append(Tail(queue), Raw(op.by, Head(script[op.by])))
                        /\ script' = [script EXCEPT ![op.by] = Tail(@)]
                   ELSE /\ queue' = Tail(queue)
                        /\ script' = IF op.op = "raw"
                                       THEN [script EXCEPT ![op.by] = <<>>] ELSE script
    /\ UNCHANGED <<poisoned, gone, progressVars, visible, progressBlock,
                   nextContentIndex, progressClosed, closed, main, tool, bridge>>

(* The connection is closed, or the event did not drain in time: it may or *)
(* may not have been taken.  Every operation behind it is rejected too.    *)
WriteFails ==
    /\ writing # <<>>
    /\ wire' \in {wire} \cup (IF gone THEN {} ELSE {Append(wire, Head(writing))})
    /\ poisoned' = TRUE
    /\ writing' = <<>> /\ queue' = <<>>
    /\ script' = [e \in Emitters |-> <<>>]
    /\ UNCHANGED <<gone, progressVars, flagVars, progressClosed, closed, main, tool,
                   bridge>>

Disconnect ==
    /\ ~gone /\ main \notin {"ended", "escaped"}
    /\ gone' = TRUE
    /\ UNCHANGED <<wire, queue, writing, poisoned, progressVars, flagVars,
                   progressClosed, closed, main, script, tool, bridge>>
-----------------------------------------------------------------------------
(* Progress updates *)

CanUpdate == main \notin {"open", "banner", "banner_wait", "ended", "escaped"}
             /\ ~closed /\ ~progressClosed

\* Mutant: an update past the threshold does not flush the ones held back.
UpdateNoFlush ==
    /\ CanUpdate
    /\ content < MaxUpdates
    /\ content' = content + 1
    /\ \E emit \in BOOLEAN :
         /\ content > 0 => emit
         /\ LET e == [n |-> content + 1, emit |-> emit] IN
            IF late
              THEN /\ releasing' = Append(releasing, e)
                   /\ UNCHANGED pendingUpdates
              ELSE /\ pendingUpdates' = Append(pendingUpdates, e)
                   /\ UNCHANGED releasing
    /\ UNCHANGED <<wire, queue, writing, poisoned, gone, late, flagVars,
                   progressClosed, closed, main, script, tool, bridge>>

(* update(): a model round, a phase, a media step or a heartbeat adds its  *)
(* fragment to the timeline.  The round start that activates the timeline  *)
(* is not emitted by itself.                                               *)
Update ==
    /\ CanUpdate
    /\ content < MaxUpdates
    /\ content' = content + 1
    /\ \E emit \in BOOLEAN :
         /\ content > 0 => emit
         /\ LET e == [n |-> content + 1, emit |-> emit] IN
            IF late
              THEN /\ releasing' = (releasing \o pendingUpdates) \o <<e>>
                   /\ pendingUpdates' = <<>>
              ELSE /\ pendingUpdates' = Append(pendingUpdates, e)
                   /\ UNCHANGED releasing
    /\ UNCHANGED <<wire, queue, writing, poisoned, gone, late, flagVars,
                   progressClosed, closed, main, script, tool, bridge>>

Elapse ==
    /\ ~late /\ main \notin {"ended", "escaped"}
    /\ late' = TRUE
    /\ UNCHANGED <<wire, queue, writing, poisoned, gone, content, pendingUpdates,
                   releasing, flagVars, progressClosed, closed, main, script, tool, bridge>>

(* pendingTimer of #schedulePending. *)
FlushTimer ==
    /\ late /\ pendingUpdates # <<>>
    /\ ~closed /\ ~progressClosed
    /\ releasing' = releasing \o pendingUpdates
    /\ pendingUpdates' = <<>>
    /\ UNCHANGED <<wire, queue, writing, poisoned, gone, late, content, flagVars,
                   progressClosed, closed, main, script, tool, bridge>>

(* #runBeforeFirstVisible: the first release waits for the banner. *)
RunHook ==
    /\ releasing # <<>> /\ hook = "todo" /\ ~poisoned
    /\ ~closed /\ ~progressClosed
    /\ IF visible
         THEN hook' = "done" /\ UNCHANGED <<queue, pendingUpdates>>
         ELSE /\ hook' = "running"
              /\ pendingUpdates' = <<>>
              /\ queue' = Append(queue, Op("banner"))
    /\ UNCHANGED <<wire, writing, poisoned, gone, late, content, releasing, visible,
                   progressBlock, nextContentIndex, progressClosed, closed, main,
                   script, tool, bridge>>

(* An update reaches the queue; once the progress is closed, or the chain  *)
(* is rejected, enqueueing it has no effect.                               *)
Release ==
    /\ releasing # <<>>
    /\ hook = "done" \/ closed \/ progressClosed \/ poisoned
    /\ releasing' = Tail(releasing)
    /\ queue' = IF closed \/ progressClosed \/ poisoned THEN queue
                ELSE Append(queue, [op |-> "update", by |-> "none",
                                    entry |-> Head(releasing)])
    /\ UNCHANGED <<wire, writing, poisoned, gone, late, content, pendingUpdates,
                   flagVars, progressClosed, closed, main, script, tool, bridge>>
-----------------------------------------------------------------------------
(* The request handler *)

MainWaits == Busy("main") \/ poisoned

(* open() writes message_start outside the queue. *)
Open ==
    /\ main = "open" /\ ~gone
    /\ wire' = <<Event("message_start", 0)>>
    /\ main' = "banner"
    /\ UNCHANGED <<queue, writing, poisoned, gone, progressVars, flagVars,
                   progressClosed, closed, script, tool, bridge>>

(* Its write does not drain in time: the chain is not affected. *)
OpenFails ==
    /\ main = "open" /\ ~gone
    /\ wire' = <<Event("message_start", 0)>>
    /\ main' = "error"
    /\ UNCHANGED <<queue, writing, poisoned, gone, progressVars, flagVars,
                   progressClosed, closed, script, tool, bridge>>

(* maybeShowStartupBanner after open(), when there is no hook for it. *)
OpenBanner ==
    /\ main = "banner"
    /\ main' = "banner_wait"
    /\ \/ hook = "done" /\ queue' = Append(queue, Op("banner"))
       \/ UNCHANGED queue
    /\ UNCHANGED <<wire, writing, poisoned, gone, progressVars, flagVars,
                   progressClosed, closed, script, tool, bridge>>

Opened ==
    /\ main = "banner_wait" /\ ~poisoned /\ ~Queued("banner")
    /\ main' = "work"
    /\ UNCHANGED <<wire, queue, writing, poisoned, gone, progressVars, flagVars,
                   progressClosed, closed, script, tool, bridge>>

(* A stream opened early for media: updateUsage, once the media is text,   *)
(* sends the exact usage, whatever block is open.                          *)
UpdateUsage ==
    /\ main = "work" /\ ~poisoned
    /\ Emit("main", <<Event("usage", 0)>>)
    /\ main' = "usage"
    /\ UNCHANGED <<wire, writing, poisoned, gone, progressVars, flagVars,
                   progressClosed, closed, tool, bridge>>

UsageWritten ==
    /\ main = "usage" /\ ~MainWaits
    /\ main' = "loop"
    /\ UNCHANGED <<wire, queue, writing, poisoned, gone, progressVars, flagVars,
                   progressClosed, closed, script, tool, bridge>>

(* closeProgress without a message; idempotent. *)
CloseProgress ==
    IF progressClosed
      THEN UNCHANGED <<progressClosed, pendingUpdates, queue>>
      ELSE /\ progressClosed' = TRUE
           /\ pendingUpdates' = <<>>
           /\ queue' = Append(queue, Op("close"))

(* The first server tool block closes the progress (ensureStarted). *)
BridgeClose ==
    /\ main \in {"work", "loop"} /\ ~poisoned /\ Tools # {}
    /\ CloseProgress
    /\ main' = "bridge_close"
    /\ UNCHANGED <<wire, writing, poisoned, gone, late, content, releasing, flagVars,
                   closed, script, tool, bridge>>

\* Mutant: the bridge starts at the index the banner left, not at the next.
BridgeStartBehind ==
    /\ main = "bridge_close" /\ ~poisoned /\ ~Queued("close")
    /\ bridge' = IF visible THEN 1 ELSE 0
    /\ main' = "uses"
    /\ UNCHANGED <<wire, queue, writing, poisoned, gone, progressVars, flagVars,
                   progressClosed, closed, script, tool>>

BridgeStart ==
    /\ main = "bridge_close" /\ ~poisoned /\ ~Queued("close")
    /\ bridge' = nextContentIndex
    /\ main' = "uses"
    /\ UNCHANGED <<wire, queue, writing, poisoned, gone, progressVars, flagVars,
                   progressClosed, closed, script, tool>>

(* publishServerBlock('use') of each call, one after the other. *)
EmitUse(t) ==
    /\ main = "uses" /\ ~MainWaits
    /\ tool[t] = "idle"
    /\ tool' = [tool EXCEPT ![t] = "running"]
    /\ Emit("main", Block(bridge + Cardinality({s \in Tools : tool[s] = "running"})))
    /\ UNCHANGED <<wire, writing, poisoned, gone, progressVars, flagVars,
                   progressClosed, closed, main, bridge>>

UsesEmitted ==
    /\ main = "uses" /\ ~MainWaits
    /\ \A t \in Tools : tool[t] = "running"
    /\ bridge' = bridge + Cardinality(Tools)
    /\ main' = "tools"
    /\ UNCHANGED <<wire, queue, writing, poisoned, gone, progressVars, flagVars,
                   progressClosed, closed, script, tool>>

(* publishServerBlock('result') when a call returns: the index is read     *)
(* here and nextIndex incremented only after the awaited writes.           *)
EmitResult(t) ==
    /\ tool[t] = "running" /\ main \in {"tools", "error", "error_close", "error_write", "ended"}
    /\ ~poisoned
    /\ tool' = [tool EXCEPT ![t] = "emitting"]
    /\ IF closed THEN UNCHANGED <<queue, script>>
                 ELSE Emit(t, ResultBlock(bridge))
    /\ UNCHANGED <<wire, writing, poisoned, gone, progressVars, flagVars,
                   progressClosed, closed, main, bridge>>

ResultEmitted(t) ==
    /\ tool[t] = "emitting" /\ ~Busy(t) /\ ~poisoned
    /\ tool' = [tool EXCEPT ![t] = "done"]
    /\ bridge' = bridge + 1
    /\ UNCHANGED <<wire, queue, writing, poisoned, gone, progressVars, flagVars,
                   progressClosed, closed, main, script>>

(* The call ends with an AbortError or the task timeout. *)
ToolThrows(t) ==
    /\ tool[t] = "running" /\ main = "tools"
    /\ tool' = [tool EXCEPT ![t] = "thrown"]
    /\ main' = "error"
    /\ UNCHANGED <<wire, queue, writing, poisoned, gone, progressVars, flagVars,
                   progressClosed, closed, script, bridge>>

ToolsDone ==
    /\ main = "tools" /\ \A t \in Tools : tool[t] = "done"
    /\ main' = "answer"
    /\ UNCHANGED <<wire, queue, writing, poisoned, gone, progressVars, flagVars,
                   progressClosed, closed, script, tool, bridge>>

(* The loop fails: a model error, an abort, or a rejected write. *)
Fail ==
    /\ main \notin {"error", "error_close", "error_write", "ended", "escaped"}
    /\ gone \/ poisoned \/ main \in {"work", "loop", "answer"}
    /\ main' = "error"
    /\ UNCHANGED <<wire, queue, writing, poisoned, gone, progressVars, flagVars,
                   progressClosed, closed, script, tool, bridge>>

(* closeProgressForFinalResponse with the final status message: its update *)
(* is shown if the threshold has passed.                                   *)
FinalUpdate ==
    /\ main \in {"work", "loop", "answer"} /\ ~poisoned
    /\ main' = "final_update"
    /\ IF progressClosed \/ (~visible /\ content = 0)
         THEN UNCHANGED <<content, pendingUpdates, releasing>>
         ELSE LET e == [n |-> content + 1, emit |-> TRUE] IN
              /\ content' = IF content = 0 THEN content ELSE content + 1
              /\ IF content = 0
                   THEN pendingUpdates' = <<>> /\ UNCHANGED releasing
                   ELSE IF late
                     THEN pendingUpdates' = <<>> /\ releasing' = Append(releasing, e)
                     ELSE pendingUpdates' = <<e>> /\ UNCHANGED releasing
    /\ UNCHANGED <<wire, queue, writing, poisoned, gone, late, flagVars,
                   progressClosed, closed, script, tool, bridge>>

FinalClose ==
    /\ main = "final_update" /\ ~poisoned
    /\ progressClosed \/ (releasing = <<>> /\ ~Queued("update"))
    /\ CloseProgress
    /\ main' = "final_close"
    /\ UNCHANGED <<wire, writing, poisoned, gone, late, content, releasing, flagVars,
                   closed, script, tool, bridge>>

(* emitFinalAnthropicResponse, from the bridge's index if it has started. *)
FinalEvents(i) ==
    [n \in 1..3 * FinalBlocks |-> Block(i + (n - 1) \div 3)[((n - 1) % 3) + 1]]
      \o <<Event("message_delta", 0), Event("message_stop", 0)>>

FinalStart ==
    /\ main = "final_close" /\ ~poisoned /\ ~Queued("close")
    /\ Emit("main", FinalEvents(IF bridge = None THEN nextContentIndex ELSE bridge))
    /\ main' = "final"
    /\ UNCHANGED <<wire, writing, poisoned, gone, progressVars, flagVars,
                   progressClosed, closed, tool, bridge>>

(* stop() and res.end(). *)
Stop ==
    /\ closed' = TRUE
    /\ pendingUpdates' = <<>>
    /\ main' = "ended"

FinalDone ==
    /\ main = "final" /\ ~MainWaits
    /\ Stop
    /\ UNCHANGED <<wire, queue, writing, poisoned, gone, late, content, releasing,
                   flagVars, progressClosed, script, tool, bridge>>

\* Mutant: the catch block takes every failure for a client that left.
ErrorLeaveAlways ==
    /\ main \in {"error", "error_close", "error_write"}
    /\ Stop
    /\ UNCHANGED <<wire, queue, writing, poisoned, gone, late, content, releasing,
                   flagVars, progressClosed, script, tool, bridge>>

(* The catch block: nothing for a client that left; otherwise emitSseError *)
(* closes the progress, writes the error and stops.                        *)
ErrorLeave ==
    /\ main = "error" /\ gone
    /\ Stop
    /\ UNCHANGED <<wire, queue, writing, poisoned, gone, late, content, releasing,
                   flagVars, progressClosed, script, tool, bridge>>

\* Mutant: the catch block waits for the queue a failed write has rejected,
\* and only a disconnect wakes it.
ErrorEscapesGone ==
    /\ main \in {"error", "error_close", "error_write"}
    /\ poisoned /\ gone
    /\ closed' = TRUE
    /\ pendingUpdates' = <<>>
    /\ main' = "escaped"
    /\ UNCHANGED <<wire, queue, writing, poisoned, gone, late, content, releasing,
                   flagVars, progressClosed, script, tool, bridge>>

(* emitSseError does not catch the rejection of the queue: it stops the    *)
(* stream, the rejection leaves the request listener, which nobody awaits, *)
(* and the response is not ended.                                          *)
ErrorEscapes ==
    /\ main \in {"error", "error_close", "error_write"}
    /\ poisoned
    /\ main = "error" => ~gone
    /\ closed' = TRUE
    /\ pendingUpdates' = <<>>
    /\ main' = "escaped"
    /\ UNCHANGED <<wire, queue, writing, poisoned, gone, late, content, releasing,
                   flagVars, progressClosed, script, tool, bridge>>

ErrorClose ==
    /\ main = "error" /\ ~poisoned /\ ~gone
    /\ CloseProgress
    /\ main' = "error_close"
    /\ UNCHANGED <<wire, writing, poisoned, gone, late, content, releasing, flagVars,
                   closed, script, tool, bridge>>

ErrorWrite ==
    /\ main = "error_close" /\ ~poisoned /\ ~Queued("close")
    /\ Emit("main", <<Event("error", 0)>>)
    /\ main' = "error_write"
    /\ UNCHANGED <<wire, writing, poisoned, gone, progressVars, flagVars,
                   progressClosed, closed, tool, bridge>>

ErrorDone ==
    /\ main = "error_write" /\ ~MainWaits
    /\ Stop
    /\ UNCHANGED <<wire, queue, writing, poisoned, gone, late, content, releasing,
                   flagVars, progressClosed, script, tool, bridge>>
-----------------------------------------------------------------------------
QueueStep == StartRaw \/ StartUpdate \/ StartBanner \/ StartClose \/ WriteEvent
               \/ WriteFails

MainStep ==
    \/ Open \/ OpenFails \/ OpenBanner \/ Opened \/ UpdateUsage \/ UsageWritten
    \/ BridgeClose \/ BridgeStart \/ UsesEmitted \/ ToolsDone
    \/ Fail
    \/ FinalUpdate \/ FinalClose \/ FinalStart \/ FinalDone
    \/ ErrorLeave \/ ErrorEscapes \/ ErrorClose \/ ErrorWrite \/ ErrorDone
    \/ \E t \in Tools : EmitUse(t) \/ EmitResult(t) \/ ResultEmitted(t) \/ ToolThrows(t)

ProgressStep == FlushTimer \/ RunHook \/ Release

(* The results of a round come one after the other: while one is sent, no  *)
(* other is, and the handler waits.  Calls that return together, or while  *)
(* the handler writes the error of another call, cross (no code looks at   *)
(* this; it names the steps after which less is promised).                 *)
Serial ==
    \A t \in Tools : tool[t] = "emitting" =>
      \/ main = "ended"
      \/ main = "tools" /\ \A s \in Tools : tool[s] = "emitting" => s = t

Watch == crossed' = (crossed \/ ~Serial')

Next == (QueueStep \/ MainStep \/ ProgressStep \/ Update \/ Elapse \/ Disconnect) /\ Watch

Spec == Init /\ [][Next]_vars

(* A write drains or is timed out by drainTimeoutMs, the model and every   *)
(* tool answer or fail, and the rest are steps of the event loop.          *)
FairStep == (QueueStep \/ MainStep \/ ProgressStep) /\ Watch
Fairness == WF_vars(FairStep)

FairSpec == Spec /\ Fairness
-----------------------------------------------------------------------------
(* Whatever the progress, the tools and the failures of a request do, what *)
(* is written is one well-formed Anthropic message: blocks contiguous and  *)
(* never interleaved, deltas of the open block, nothing after the end; for *)
(* any number of calls in a round, until their results cross, which is     *)
(* where the bridge reuses an index (progress.js #enqueue and              *)
(* nextContentIndex, anthropic-sse.js).                                    *)
StreamWellFormed == AS!Init /\ [][AS!Send \/ crossed]_wire

(* No content block index is used twice: proxy-owned blocks shift the      *)
(* blocks that follow them (createServerToolStreamBridge.emit).            *)
NoIndexReuse ==
    \A j, l \in 1..Len(wire) :
      /\ wire[j].k = "start"
      /\ wire[l].k = "start"
      /\ wire[j].i = wire[l].i
      => j = l

(* The progress text the client has read is a gapless beginning of the     *)
(* timeline, although updates are held back, released by a timer or by the *)
(* next update, and wait for the banner (update, #flushPending).           *)
TimelineIsPrefix ==
    LET shown == Select(wire, LAMBDA e : e.to > 0) IN
    \A j \in 1..Len(shown) :
      /\ shown[j].from = IF j = 1 THEN 1 ELSE shown[j - 1].to + 1
      /\ shown[j].from <= shown[j].to
      /\ shown[j].to <= content

(* A handler that ended left the client a complete message or an error     *)
(* event, unless the client left or a write to it failed, and nothing      *)
(* behind it unless results crossed.                                       *)
EndsWithVerdict ==
    main = "ended" /\ ~gone /\ ~poisoned =>
      /\ \E j \in 1..Len(wire) : wire[j].k \in {"message_stop", "error"}
      /\ ~crossed => Last(wire).k \in {"message_stop", "error"}

(* Every request handler ends, by itself or by a rejection that leaves it, *)
(* also behind a client that stops reading (writeChunk's drain timeout).   *)
HandlerEnds == main = "open" ~> main \in {"ended", "escaped"}
=============================================================================

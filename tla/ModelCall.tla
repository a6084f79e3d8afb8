------------------------------ MODULE ModelCall ------------------------------
(***************************************************************************)
(* One model call of the managed loop: containedUpstream followed by       *)
(* recoverInvalidResponse (src/src/proxy/managed-loop.js), over the        *)
(* upstream function of src/src/services/proxy-server.js, its busy retry   *)
(* and the SSE collector.  ManagedLoop sees the call as one answer or one  *)
(* failure; this module opens it.                                          *)
(*                                                                         *)
(* An attempt is one POST whose answer is read to its end.  A stalled,     *)
(* looping or malformed stream is given up and the model asked again, with *)
(* the blocks that were complete; the blocks of the failed attempts and    *)
(* those of the last are then merged into one answer.  An answer that      *)
(* cannot be shown to the client is asked for once more.  Deadlines are    *)
(* steps that may happen whenever their timer is armed.                    *)
(***************************************************************************)
EXTENDS Naturals, Sequences, FiniteSets, SequencesExt, Subsequence

CONSTANTS
    Blocks,           \* what the model may say: records [kind, val, id]
    NoId,             \* a block without an id
    Blank, Tagged,    \* a text of white space; a text with control tags
    MaxBlocks,        \* BOUND: the blocks of one message
    StallLimit,       \* maxStallRecoveryRounds
    StallDeadline,    \* modelStallTimeoutMs > 0
    TaskDeadline,     \* taskTimeoutMs > 0
    ConfiguredMode,   \* VLLM_BASE_RESPONSE_MODE
    NativeImages,     \* nativeVisionEligibleCount > 0 when the call begins
    None

ASSUME BlocksAssumption ==
    /\ \A b \in Blocks : DOMAIN b = {"kind", "val", "id"}
    /\ \A b \in Blocks : b.kind \in {"thinking", "text", "tool"}
    /\ \A b \in Blocks : b.kind # "tool" => b.id = NoId
ASSUME ModelCallAssumption ==
    /\ MaxBlocks \in Nat \ {0}
    /\ StallLimit \in Nat
    /\ {StallDeadline, TaskDeadline, NativeImages} \subseteq BOOLEAN
    /\ ConfiguredMode \in {"auto", "streaming", "buffered"}

(* A block as an attempt said it. *)
Heard == [kind : {"thinking", "text", "tool"}, val : {b.val : b \in Blocks},
          id : {b.id : b \in Blocks} \cup {NoId},
          from : 1..(4 + StallLimit)]

(* None is neither a checkpoint nor a key. *)
ASSUME NoneAssumption ==
    /\ None \notin Seq(Heard)
    /\ \A b \in Blocks : None \notin {"text", "tool", "tool-id"} \X {b.val, b.id}

VARIABLES
    pc,         \* where the call waits
    stage,      \* 1: the call of the round, 2: recoverInvalidResponse's own
    tries,      \* recoveries used by this containedUpstream, by failure
    latest,     \* latestCheckpoint is set
    preserved,  \* preservedBlocks
    check,      \* attemptCheckpoint's completed blocks, or None
    stream,     \* the blocks the collector holds, with their state
    body,       \* the response being read: none, sse or json
    mode,       \* effectiveBaseResponseMode, empty until known
    bytes,      \* bytes arrived since the attempt began
    waiting,    \* baseBusyState.waiting
    fallback,   \* the one replacement of images is still available
    err,        \* the error the attempt ended with
    aborted,    \* the client is gone
    leaked,     \* an attempt failed to start and left its timer and listener
    answer,     \* the merged response
    stop,       \* its stop_reason
    outcome,    \* how the call ended
    whole       \* history: the blocks a model finished in this stage

readVars == <<stream, body, bytes>>
attemptVars == <<check, readVars>>
budgetVars == <<tries, latest, preserved>>
resultVars == <<answer, stop, outcome>>
vars == <<pc, stage, budgetVars, attemptVars, mode, waiting, fallback,
          err, aborted, leaked, resultVars, whole>>

Failures == {"stall", "tool_input", "thinking", "response"}
Stops == {"end_turn", "tool_use"}
Active == {"asking", "busy", "adapting", "reading"}

(* Attempts are numbered so that a block tells which one it is from. *)
Attempt == 1 + tries["stall"] + tries["tool_input"] + tries["thinking"]
             + tries["response"]
Said(b) == [kind |-> b.kind, val |-> b.val, id |-> b.id, from |-> Attempt]

-----------------------------------------------------------------------------
(* recoveryBlockKey: a tool call by its id, else by its name and input; a  *)
(* text by itself; thinking has no key and is never a duplicate.           *)
Key(b) == IF b.kind = "thinking" THEN None
          ELSE IF b.kind = "text" THEN <<"text", b.val>>
          ELSE IF b.id # NoId THEN <<"tool-id", b.id>> ELSE <<"tool", b.val>>

SameKey(a, b) == Key(a) # None /\ Key(a) = Key(b)

(* The first block of every key, in order: mergeRecoveryBlocks. *)
Distinct(blocks) ==
    Subsequence(blocks, {i \in DOMAIN blocks :
                           ~\E j \in 1..(i - 1) : SameKey(blocks[j], blocks[i])})

\* Mutant: only tool calls are worth keeping.
RecoverableMutToolsOnly(blocks) == Select(blocks, LAMBDA b : b.kind = "tool")

(* recoverableCheckpointBlocks: text that is not blank, and tool calls. *)
Recoverable(blocks) ==
    Select(blocks, LAMBDA b : b.kind = "tool" \/ (b.kind = "text" /\ b.val # Blank))

\* Mutant: a tool block counts as completed although its input did not parse.
CompletedMutMalformed(s) ==
    LET done == Select(s, LAMBDA e : e.st # "open")
    IN  [i \in DOMAIN done |-> done[i].b]

(* checkpointSnapshot: the blocks that reached their end and parsed. *)
Completed(s) == LET done == Select(s, LAMBDA e : e.st = "whole")
                IN  [i \in DOMAIN done |-> done[i].b]

Content(s) == [i \in DOMAIN s |-> s[i].b]

NotThinking(blocks) == Select(blocks, LAMBDA b : b.kind # "thinking")
HasTool(blocks) == \E i \in DOMAIN blocks : blocks[i].kind = "tool"

\* Mutant: what the last attempt says is appended as it is.
MergedContentMutConcat(raw) ==
    IF preserved = <<>> THEN raw ELSE preserved \o NotThinking(raw)

(* mergeManagedStallRecoveryResponse: what was preserved, then what the    *)
(* last attempt adds to it, without its thinking.                          *)
MergedContent(raw) ==
    IF preserved = <<>> THEN raw ELSE Distinct(preserved \o NotThinking(raw))
MergedStop(raw, s) ==
    IF preserved # <<>> /\ HasTool(MergedContent(raw))
       /\ Len(MergedContent(raw)) = Len(preserved)
    THEN "tool_use" ELSE s

(* inspectManagedFinalResponse *)
Visible(blocks) == \E i \in DOMAIN blocks :
                      blocks[i].kind = "text" /\ blocks[i].val # Blank
Thoughts(blocks) == \E i \in DOMAIN blocks :
                      blocks[i].kind = "thinking" /\ blocks[i].val # Blank
Reasons(blocks, s) ==
    {r \in {"control_tag_leak"} :
        \E i \in DOMAIN blocks : blocks[i].kind # "tool" /\ blocks[i].val = Tagged}
    \cup (IF blocks = <<>> /\ s = "end_turn" THEN {"upstream_empty_end_turn"}
          ELSE IF HasTool(blocks) \/ Visible(blocks) THEN {}
          ELSE IF Thoughts(blocks) THEN {"final_answer_in_thinking"}
          ELSE {"missing_visible_text"})

(* promoteManagedFinalAnswer; whether the thinking has the structure of an *)
(* answer is left open, it is the other conjunct in Promote.               *)
Promotable(blocks, s) ==
    /\ s = "end_turn"
    /\ Reasons(blocks, s) = {"final_answer_in_thinking"}
    /\ \A i \in DOMAIN blocks : blocks[i].kind = "thinking"

(* currentRoundActivity's responseMode and started, as the timers read it. *)
RoundMode == IF ConfiguredMode # "auto" THEN ConfiguredMode
             ELSE IF mode # "" THEN mode
             ELSE IF bytes THEN "streaming" ELSE "auto"
Streaming == bytes /\ RoundMode = "streaming"

ModeOf(observed) == IF ConfiguredMode = "auto" THEN observed ELSE ConfiguredMode

-----------------------------------------------------------------------------
NoTries == [f \in Failures |-> 0]

Init ==
    /\ pc = "ready" /\ stage = 1
    /\ tries = NoTries /\ latest = FALSE /\ preserved = <<>>
    /\ check = None /\ stream = <<>> /\ body = "none" /\ bytes = FALSE
    /\ mode = (IF ConfiguredMode = "auto" THEN "" ELSE ConfiguredMode)
    /\ waiting = FALSE /\ fallback = NativeImages
    /\ err = "none" /\ aborted = FALSE /\ leaked = FALSE
    /\ answer = <<>> /\ stop = "end_turn" /\ outcome = "none"
    /\ whole = {}

(* The attempt is over: its request is destroyed and its collector, whose  *)
(* callbacks belong to this attempt, is not looked at again.               *)
ReadNothing == stream' = <<>> /\ body' = "none" /\ bytes' = FALSE
Throw(e) == pc' = "caught" /\ err' = e /\ ReadNothing

\* A promise that nobody awaits yet is rejected: Node ends the process.
Unhandled == pc' = "crashed" /\ UNCHANGED <<err, readVars>>

(* The loop's top: runModelWithActivityDeadline refuses an aborted signal, *)
(* counts bytes from here, and arms its deadlines and its abort listener.  *)
Begin ==
    /\ pc = "ready"
    /\ IF aborted THEN Throw("other")
       ELSE pc' = "starting" /\ UNCHANGED <<readVars, err>>
    /\ UNCHANGED <<stage, budgetVars, check, mode, waiting, fallback,
                   aborted, leaked, resultVars, whole>>

(* It then awaits onRoundState, which shows the round to the client, and   *)
(* only after that asks the model and races it against the deadlines.      *)
Started ==
    /\ pc = "starting" /\ pc' = "asking"
    /\ UNCHANGED <<stage, budgetVars, attemptVars, mode, waiting, fallback,
                   err, aborted, leaked, resultVars, whole>>

(* The progress is not written: the attempt fails outside of the try whose *)
(* finally disarms the deadline and removes the listener.                  *)
StartFails ==
    /\ pc = "starting"
    /\ Throw("other") /\ leaked' = TRUE
    /\ UNCHANGED <<stage, budgetVars, check, mode, waiting, fallback, aborted,
                   resultVars, whole>>

-----------------------------------------------------------------------------
(* fetchUpstream *)

(* An explicit busy refusal: onBusyEvent("wait"), then waitForRetry. *)
Busy ==
    /\ pc = "asking"
    /\ pc' = "busy" /\ waiting' = TRUE
    /\ UNCHANGED <<stage, budgetVars, attemptVars, mode, fallback, err,
                   aborted, leaked, resultVars, whole>>

(* onBusyEvent("retry") leaves waiting set until a response is accepted. *)
RetryBusy ==
    /\ pc = "busy"
    /\ pc' = "asking"
    /\ UNCHANGED <<stage, budgetVars, attemptVars, mode, waiting,
                   fallback, err, aborted, leaked, resultVars, whole>>

(* No response: refused connection, network error, headers timeout. *)
Unavailable ==
    /\ pc = "asking"
    /\ Throw("other")
    /\ UNCHANGED <<stage, budgetVars, check, mode, waiting, fallback,
                   aborted, leaked, resultVars, whole>>

(* An error status.  A 503 that is not busy ends the wait without the      *)
(* "accepted" event, so the flag stays.                                    *)
Rejected ==
    /\ pc = "asking"
    /\ Throw("other")
    /\ waiting' \in {waiting, FALSE}
    /\ UNCHANGED <<stage, budgetVars, check, mode, fallback, aborted, leaked,
                   resultVars, whole>>

(* The base model refuses images: upstream replaces them by evidence, once *)
(* in a request.  The error's body was read through onResponseChunk.       *)
RejectsImages ==
    /\ pc = "asking" /\ fallback
    /\ pc' = "adapting" /\ fallback' = FALSE
    /\ bytes' = TRUE /\ waiting' = FALSE
    /\ UNCHANGED <<stage, budgetVars, check, stream, body, mode, err,
                   aborted, leaked, resultVars, whole>>

Adapted ==
    /\ pc = "adapting"
    /\ pc' = "asking"
    /\ UNCHANGED <<stage, budgetVars, attemptVars, mode, waiting,
                   fallback, err, aborted, leaked, resultVars, whole>>

AdaptFails ==
    /\ pc = "adapting"
    /\ Throw("other")
    /\ UNCHANGED <<stage, budgetVars, check, mode, waiting, fallback,
                   aborted, leaked, resultVars, whole>>

(* A success status: onBusyEvent("accepted"), onResponseMode. *)
Accept ==
    /\ pc = "asking"
    /\ pc' = "reading" /\ waiting' = FALSE
    /\ \/ body' = "sse" /\ mode' = ModeOf("streaming")
       \/ body' = "json" /\ mode' = ModeOf("buffered")
    /\ UNCHANGED <<stage, budgetVars, check, stream, bytes, fallback,
                   err, aborted, leaked, resultVars, whole>>

-----------------------------------------------------------------------------
(* collectAnthropicMessageFromSse *)

ReadingSse == pc = "reading" /\ body = "sse"
Open == stream # <<>> /\ Last(stream).st = "open"
Malformed == \E i \in DOMAIN stream :
                \/ stream[i].st = "malformed"
                \/ stream[i].st = "open" /\ stream[i].b.kind = "tool"

readUnchanged == <<stage, budgetVars, mode, waiting, fallback, aborted, leaked>>

(* message_start, or the first chunk of a JSON body. *)
FirstByte ==
    /\ pc = "reading" /\ ~bytes
    /\ bytes' = TRUE
    /\ UNCHANGED <<pc, readUnchanged, body, check, stream, err, resultVars, whole>>

BlockStart ==
    /\ ReadingSse /\ bytes /\ ~Open /\ Len(stream) < MaxBlocks
    /\ \E b \in Blocks : stream' = Append(stream, [b |-> Said(b), st |-> "open"])
    /\ check' = Completed(stream')
    /\ UNCHANGED <<pc, readUnchanged, body, bytes, err, resultVars, whole>>

(* A tool call whose JSON does not parse keeps its error for the end of    *)
(* the stream and stays out of every checkpoint.                           *)
BlockStop ==
    /\ ReadingSse /\ Open
    /\ \/ /\ stream' = [stream EXCEPT ![Len(stream)].st = "whole"]
          /\ whole' = whole \cup {Last(stream).b}
       \/ /\ Last(stream).b.kind = "tool"
          /\ stream' = [stream EXCEPT ![Len(stream)].st = "malformed"]
          /\ UNCHANGED whole
    /\ check' = Completed(stream')
    /\ UNCHANGED <<pc, readUnchanged, body, bytes, err, resultVars>>

(* A delta repeats itself: detectToolInputLoop, detectSemanticLoop. *)
LoopDetected ==
    /\ ReadingSse /\ Open
    /\ Throw(CASE Last(stream).b.kind = "tool" -> "tool_input"
               [] Last(stream).b.kind = "thinking" -> "thinking"
               [] Last(stream).b.kind = "text" -> "response")
    /\ check' = Completed(stream)
    /\ UNCHANGED <<readUnchanged, resultVars, whole>>

(* containedUpstream's success: the merge, if any recovery was used. *)
Receive(raw, s) ==
    /\ pc' = "inspect"
    /\ answer' = MergedContent(raw)
    /\ stop' = MergedStop(raw, s)
    /\ whole' = whole \cup Range(raw)
    /\ check' = None /\ ReadNothing
    /\ UNCHANGED <<err, outcome>>

(* The end of a stream with its message_stop: a message, unless some tool  *)
(* input did not parse; classifyManagedToolInputFailure then knows a       *)
(* truncated and a malformed one by what message_delta said.  A tool block *)
(* that never stopped is parsed here.                                      *)
StreamEnds ==
    /\ ReadingSse /\ bytes
    /\ \/ /\ \A i \in DOMAIN stream : stream[i].st # "malformed"
          /\ \E s \in Stops : Receive(Content(stream), s)
       \/ /\ Malformed
          /\ \E e \in {"tool_input", "other"} : Throw(e)
          /\ UNCHANGED <<check, resultVars, whole>>
    /\ UNCHANGED readUnchanged

(* The stream fails: an error event, an end without message_stop, a reset  *)
(* connection, the body timeout.                                           *)
BodyFails ==
    /\ pc = "reading"
    /\ \E e \in (IF Malformed THEN {"tool_input", "other"} ELSE {"other"}) : Throw(e)
    /\ UNCHANGED <<readUnchanged, check, resultVars, whole>>

(* A model server that ignored stream: true answers with one message. *)
JsonAnswer ==
    /\ pc = "reading" /\ body = "json"
    /\ \E n \in 0..MaxBlocks : \E said \in [1..n -> Blocks], s \in Stops :
          Receive([i \in 1..n |-> Said(said[i])], s)
    /\ UNCHANGED readUnchanged

-----------------------------------------------------------------------------
(* runModelWithActivityDeadline, runWithBoundedTime *)

timerUnchanged == <<stage, budgetVars, check, mode, waiting, fallback,
                    leaked, resultVars, whole>>

(* The poll of the stall timer. *)
Stall ==
    /\ pc \in Active /\ StallDeadline /\ Streaming
    /\ Throw("stall")
    /\ UNCHANGED <<timerUnchanged, aborted>>

(* The first byte deadline; it is put off while the base model is busy.    *)
(* Its rejection is awaited by a running attempt alone (a round that is    *)
(* still being shown outlasts it when several writes wait for the client,  *)
(* each SSE_DRAIN_TIMEOUT_MS at most).                                     *)
HardDeadline ==
    /\ pc \in Active \cup {"starting"} \/ (leaked /\ pc # "crashed")
    /\ ~Streaming /\ ~waiting
    /\ IF pc \in Active THEN Throw("other") ELSE Unhandled
    /\ UNCHANGED <<timerUnchanged, aborted>>

(* The deadline of the task is looked at before the first attempt, and     *)
(* aborts the signal of a later one.                                       *)
TaskTimeout ==
    /\ TaskDeadline
    /\ pc \in Active \cup {"starting"} \/ (pc = "ready" /\ tries = NoTries)
    /\ IF pc = "starting" THEN Unhandled ELSE Throw("other")
    /\ UNCHANGED <<timerUnchanged, aborted>>

\* Mutant: the listener is added only after the round has been shown.
AbortMutLateListener ==
    /\ pc \notin {"done", "crashed"} /\ ~aborted
    /\ aborted' = TRUE
    /\ IF pc \in Active THEN Throw("other") ELSE UNCHANGED <<pc, err, readVars>>
    /\ UNCHANGED timerUnchanged

(* The client disconnects; the race rejects if the model is running.  The  *)
(* listener of an attempt that is not running yet, or that failed to start *)
(* (with a task deadline its signal is another one), rejects for nobody.   *)
Abort ==
    /\ pc # "crashed" /\ (pc = "done" => leaked) /\ ~aborted
    /\ aborted' = TRUE
    /\ IF pc \in Active THEN Throw("other")
       ELSE IF pc = "starting" \/ (leaked /\ ~TaskDeadline) THEN Unhandled
       ELSE UNCHANGED <<pc, err, readVars>>
    /\ UNCHANGED timerUnchanged

-----------------------------------------------------------------------------
(* containedUpstream's catch *)

Limit(e) == IF e = "stall" THEN StallLimit ELSE 1

\* Mutant: the number of recoveries has no limit.
CanRecoverMutUnlimited ==
    err \in Failures /\ (check # None \/ latest) /\ ~aborted

CanRecover ==
    /\ err \in Failures
    /\ tries[err] < Limit(err)
    /\ check # None \/ latest
    /\ ~aborted

\* Mutant: a recovery is not counted.
RecoverMutNoCount ==
    /\ pc = "caught" /\ CanRecover
    /\ pc' = "ready" /\ latest' = TRUE
    /\ preserved' = Distinct(preserved \o
                             Recoverable(IF check = None THEN <<>> ELSE check))
    /\ check' = None /\ err' = "none"
    /\ UNCHANGED <<stage, tries, readVars, mode, waiting, fallback, aborted, leaked,
                   resultVars, whole>>

Recover ==
    /\ pc = "caught" /\ CanRecover
    /\ pc' = "ready"
    /\ latest' = TRUE
    /\ preserved' = Distinct(preserved \o
                             Recoverable(IF check = None THEN <<>> ELSE check))
    /\ tries' = [tries EXCEPT ![err] = @ + 1]
    /\ check' = None /\ err' = "none"
    /\ UNCHANGED <<stage, readVars, mode, waiting, fallback, aborted, leaked,
                   resultVars, whole>>

GiveUp ==
    /\ pc = "caught" /\ ~CanRecover
    /\ pc' = "done"
    /\ outcome' = IF err \in Failures \ {"stall"} /\ tries[err] >= 1
                  THEN "exhausted" ELSE err
    /\ UNCHANGED <<stage, budgetVars, attemptVars, mode, waiting,
                   fallback, err, aborted, leaked, answer, stop, whole>>

-----------------------------------------------------------------------------
(* recoverInvalidResponse *)

inspectUnchanged == <<attemptVars, mode, waiting, fallback, err, aborted, leaked>>

Deliver ==
    /\ pc = "inspect" /\ Reasons(answer, stop) = {}
    /\ pc' = "done" /\ outcome' = "answer"
    /\ UNCHANGED <<stage, budgetVars, inspectUnchanged, answer, stop, whole>>

(* An answer that was only thought becomes the text, all of it in one. *)
Promote ==
    /\ pc = "inspect" /\ stage = 1 /\ Promotable(answer, stop)
    /\ pc' = "done" /\ outcome' = "promoted"
    /\ answer' = <<[kind |-> "text", val |-> [i \in DOMAIN answer |-> answer[i].val],
                    id |-> NoId, from |-> Attempt]>>
    /\ UNCHANGED <<stage, budgetVars, inspectUnchanged, stop, whole>>

(* The second call has budgets of its own.  The three routes of            *)
(* classifyManagedRecovery differ in the request they build.               *)
AskAgain ==
    /\ pc = "inspect" /\ stage = 1 /\ Reasons(answer, stop) # {}
    /\ stage' = 2
    /\ pc' = "ready"
    /\ tries' = NoTries /\ latest' = FALSE /\ preserved' = <<>>
    /\ answer' = <<>> /\ stop' = "end_turn" /\ whole' = {}
    /\ UNCHANGED <<inspectUnchanged, outcome>>

RejectAgain ==
    /\ pc = "inspect" /\ stage = 2 /\ Reasons(answer, stop) # {}
    /\ pc' = "done" /\ outcome' = "exhausted"
    /\ UNCHANGED <<stage, budgetVars, inspectUnchanged, answer, stop, whole>>

-----------------------------------------------------------------------------
Starting == Started \/ StartFails
Upstream == Busy \/ RetryBusy \/ Unavailable \/ Rejected \/ RejectsImages
            \/ Adapted \/ AdaptFails \/ Accept
Reading == FirstByte \/ BlockStart \/ BlockStop \/ LoopDetected \/ StreamEnds
           \/ BodyFails \/ JsonAnswer
Deadlines == Stall \/ HardDeadline \/ TaskTimeout \/ Abort
Catching == Recover \/ GiveUp
Inspecting == Deliver \/ Promote \/ AskAgain \/ RejectAgain

Next == Begin \/ Starting \/ Upstream \/ Reading \/ Deadlines \/ Catching \/ Inspecting

(* The proxy's own steps happen.  A client reads the progress of a round   *)
(* or leaves; a request without an answer meets the headers timeout, a     *)
(* silent body the body timeout (config.js gives both a positive minimum), *)
(* a retry its timer, a conversion of images its own deadlines.  Neither   *)
(* stall nor hard deadline is needed to end a call.                        *)
Fairness ==
    /\ WF_vars(Begin) /\ WF_vars(Starting) /\ WF_vars(Catching) /\ WF_vars(Inspecting)
    /\ WF_vars(RetryBusy) /\ WF_vars(Unavailable) /\ WF_vars(BodyFails)
    /\ WF_vars(AdaptFails)

Spec == Init /\ [][Next]_vars /\ Fairness

-----------------------------------------------------------------------------
(* The types of the variables, with the budgets of the recoveries. *)
TypeOK ==
    /\ pc \in Active \cup {"ready", "starting", "caught", "inspect", "done", "crashed"}
    /\ stage \in 1..2
    /\ tries \in [Failures -> Nat]
    /\ \A f \in Failures : tries[f] <= Limit(f)
    /\ {latest, bytes, waiting, fallback, aborted, leaked} \subseteq BOOLEAN
    /\ preserved \in Seq(Heard)
    /\ check = None \/ check \in Seq(Heard)
    /\ stream \in Seq([b : Heard, st : {"open", "whole", "malformed"}])
    /\ body \in {"none", "sse", "json"}
    /\ mode \in {"", "streaming", "buffered"}
    /\ err \in Failures \cup {"none", "other"}
    /\ stop \in Stops
    /\ outcome \in Failures \cup {"none", "answer", "promoted", "exhausted",
                                  "other"}
    /\ outcome # "promoted" => answer \in Seq(Heard)
    /\ whole \subseteq Heard

(* README.md:811 of the repository: partial text and partial tool JSON are *)
(* never delivered.  Whatever series of failed attempts came before, every *)
(* block of a merged answer, and every block kept for the next attempt, is *)
(* one that some attempt brought to its end.                               *)
WholeBlocksOnly ==
    /\ Range(preserved) \subseteq whole
    /\ pc = "inspect" => Range(answer) \subseteq whole

(* A completed action survives: what a failed attempt finished, text or    *)
(* tool call, is preserved for the next one under its key, and in the      *)
(* answer.                                                                 *)
Survives(blocks) ==
    \A w \in whole :
        (w.from < Attempt /\ w.kind # "thinking" /\ w.val # Blank)
            => \E i \in DOMAIN blocks : SameKey(blocks[i], w)
CompletedSurvives ==
    /\ pc \in Active \cup {"ready", "starting", "caught"} => Survives(preserved)
    /\ pc = "inspect" => Survives(answer)

(* Nothing half done is delivered, and nothing done is lost.               *)
BlocksKept == TypeOK /\ WholeBlocksOnly /\ CompletedSurvives

(* No block is merged in twice: two blocks of an answer that are from      *)
(* different attempts differ in their key, they stand in the order of the  *)
(* attempts, and no thinking stands beside a block of an earlier attempt.  *)
MergedOnceInOrder ==
    pc = "inspect" =>
        \A i, j \in DOMAIN answer : (i < j /\ answer[i].from # answer[j].from) =>
            /\ ~SameKey(answer[i], answer[j])
            /\ answer[i].from < answer[j].from
            /\ answer[i].kind # "thinking" /\ answer[j].kind # "thinking"

(* Once the client is gone the model is not asked and no recovery is       *)
(* spent, wherever the disconnection falls: on a running attempt, between  *)
(* its failure and its recovery, or between the look at the signal and the *)
(* call, while the round is shown to the client.                           *)
AbortStopsAttempts ==
    [][aborted => /\ pc' \notin Active
                  /\ \A f \in Failures : tries'[f] <= tries[f]]_vars

(* Every call ends, or ends the process while a round starts, or the base  *)
(* model refuses it as busy again and again: no series of stalls, loops,   *)
(* malformed inputs and unusable answers is recovered from for ever.       *)
CallEnds == []<>(pc \in {"done", "busy", "crashed"})

(* README.md:1751 of the repository: the stall timer is not armed while    *)
(* the model reads its prompt; only a response that began can stall.       *)
StallNeedsResponse == [][pc # "caught" /\ pc' = "caught" /\ err' = "stall"
                            => pc = "reading"]_vars
=============================================================================
